------------------------------ MODULE Induction ------------------------------
(***************************************************************************)
(* Induction over numbers and sequences, as facts about sets, and what it  *)
(* says of sequences put together from others.  The first of these facts   *)
(* follows from finite sets: if a number was missing, the smaller ones in  *)
(* the set would map one to one into a proper part of themselves.          *)
(***************************************************************************)
EXTENDS Integers, Sequences, FiniteSets, SequencesExt, Subsequences,
        FiniteSetTheorems, SequenceTheorems, TLAPS

-----------------------------------------------------------------------------
(* Numbers *)

\* A set that holds 0 and with a number the next one holds all of them.
LEMMA SetInduction ==
  ASSUME NEW S, 0 \in S, \A n \in Nat : n \in S => n + 1 \in S
  PROVE  \A n \in Nat : n \in S
<1> SUFFICES ASSUME NEW n \in Nat, n \notin S PROVE FALSE
  OBVIOUS
<1> DEFINE T == {i \in 0 .. n : i \in S}
           f == [i \in T |-> i + 1]
<1>1. IsFiniteSet(T) /\ Cardinality(T) \in Nat
  <2>1. IsFiniteSet(0 .. n)
    BY FS_Interval
  <2>2. T \in SUBSET (0 .. n)
    OBVIOUS
  <2>3. IsFiniteSet(T)
    BY <2>1, <2>2, FS_Subset
  <2> QED BY <2>3, FS_CardinalityType
<1>2. /\ IsFiniteSet(T \ {0}) /\ Cardinality(T \ {0}) = Cardinality(T) - 1
  <2>1. 0 \in T
    OBVIOUS
  <2> QED BY <1>1, <2>1, FS_RemoveElement
<1>3. f \in Injection(T, T \ {0})
  <2>1. \A i \in T : i + 1 \in T \ {0}
    OBVIOUS
  <2> QED BY <2>1 DEF Injection, IsInjective
<1>4. Cardinality(T) <= Cardinality(T \ {0})
  <2> HIDE DEF T, f
  <2> QED BY <1>2, <1>3, FS_Injection
<1> QED BY <1>1, <1>2, <1>4

\* From each of the first numbers to the next.
LEMMA StrongInduction ==
  ASSUME NEW c \in Nat, NEW S,
         \A n \in 0 .. c - 1 : (\A m \in 0 .. n - 1 : m \in S) => n \in S
  PROVE  0 .. c - 1 \subseteq S
<1> DEFINE N == {k \in Nat : \A n \in 0 .. c - 1 : n < k => n \in S}
<1>1. 0 \in N
  OBVIOUS
<1>2. ASSUME NEW k \in Nat, k \in N PROVE k + 1 \in N
  <2> SUFFICES ASSUME NEW n \in 0 .. c - 1, n < k + 1 PROVE n \in S
    OBVIOUS
  <2>1. \A m \in 0 .. n - 1 : m \in 0 .. c - 1 /\ m < k
    OBVIOUS
  <2> QED BY <1>2, <2>1
<1>3. c \in N
  <2> HIDE DEF N
  <2> QED BY <1>1, <1>2, SetInduction
<1> QED BY <1>3

\* From the last of the first numbers backwards.
LEMMA BackwardInduction ==
  ASSUME NEW c \in Nat, NEW S,
         \A n \in 0 .. c - 1 : (\A m \in n + 1 .. c - 1 : m \in S) => n \in S
  PROVE  0 .. c - 1 \subseteq S
<1> DEFINE N == {k \in Nat : \A n \in 0 .. c - 1 : n >= c - k => n \in S}
<1>1. 0 \in N
  OBVIOUS
<1>2. ASSUME NEW k \in Nat, k \in N PROVE k + 1 \in N
  <2> SUFFICES ASSUME NEW n \in 0 .. c - 1, n >= c - (k + 1) PROVE n \in S
    OBVIOUS
  <2>1. \A m \in n + 1 .. c - 1 : m \in 0 .. c - 1 /\ m >= c - k
    OBVIOUS
  <2> QED BY <1>2, <2>1
<1>3. c \in N
  <2> HIDE DEF N
  <2> QED BY <1>1, <1>2, SetInduction
<1> QED BY <1>3

\* A set of numbers has a least one.
LEMMA LeastNumber ==
  ASSUME NEW X, X \subseteq Nat, X # {}
  PROVE  \E m \in X : \A x \in X : m <= x
<1> SUFFICES ASSUME \A m \in X : \E x \in X : x < m PROVE FALSE
  OBVIOUS
<1>1. PICK x, c : x \in X /\ c = x + 1
  OBVIOUS
<1>3. x \in Nat /\ c \in Nat /\ x \in 0 .. c - 1
  BY <1>1
<1> DEFINE S == Nat \ X
<1>2. ASSUME NEW n \in 0 .. c - 1, \A m \in 0 .. n - 1 : m \in S PROVE n \in S
  <2>1. n \in Nat
    OBVIOUS
  <2>2. ASSUME n \in X PROVE FALSE
    <3>1. PICK y \in X : y < n
      BY <2>2
    <3>2. y \in 0 .. n - 1
      BY <2>1, <3>1
    <3> QED BY <1>2, <3>1, <3>2
  <2> QED BY <2>1, <2>2
<1>4. 0 .. c - 1 \subseteq S
  <2> HIDE DEF S
  <2> QED BY <1>2, <1>3, StrongInduction
<1> QED BY <1>1, <1>3, <1>4

-----------------------------------------------------------------------------
(* Sequences *)

\* A set that holds the empty sequence and with a sequence all that are longer
\* by one element holds all of them.
LEMMA SeqInduction ==
  ASSUME NEW E, NEW X, <<>> \in X,
         \A s \in Seq(E), e \in E : s \in X => Append(s, e) \in X
  PROVE  \A s \in Seq(E) : s \in X
<1> DEFINE N == {n \in Nat : \A s \in Seq(E) : Len(s) = n => s \in X}
<1>1. 0 \in N
  <2>1. \A s \in Seq(E) : Len(s) = 0 => s = <<>>
    BY EmptySeq
  <2> QED BY <2>1
<1>2. ASSUME NEW n \in Nat, n \in N PROVE n + 1 \in N
  <2> SUFFICES ASSUME NEW s \in Seq(E), Len(s) = n + 1 PROVE s \in X
    OBVIOUS
  <2>1. s # <<>>
    BY EmptySeq
  <2>2. PICK t \in Seq(E), e \in E : s = Append(t, e)
    BY <2>1, SequenceEmptyOrAppend
  <2>3. Len(t) \in Nat /\ Len(s) = Len(t) + 1
    BY <2>2, AppendProperties, LenProperties
  <2>4. Len(t) = n
    BY <2>3
  <2> QED BY <1>2, <2>2, <2>4
<1>3. \A n \in Nat : n \in N
  <2> HIDE DEF N
  <2> QED BY <1>1, <1>2, SetInduction
<1> QED BY <1>3, LenProperties

\* The function FlattenSeq recurses with exists: it puts the first i together.
LEMMA FlattenSteps ==
  ASSUME NEW seqs, NEW n \in Nat
  PROVE  \E g : g = [i \in 1 .. n |-> IF i = 1 THEN seqs[i] ELSE g[i - 1] \o seqs[i]]
<1> DEFINE Upto(k, g) == g = [i \in 1 .. k |-> IF i = 1 THEN seqs[i] ELSE g[i - 1] \o seqs[i]]
           S == {k \in Nat : \E g : Upto(k, g)}
<1>1. 0 \in S
  <2>1. Upto(0, <<>>)
    OBVIOUS
  <2> QED BY <2>1
<1>2. ASSUME NEW k \in Nat, k \in S PROVE k + 1 \in S
  <2>1. PICK g : Upto(k, g)
    BY <1>2
  <2> DEFINE more == IF k = 0 THEN seqs[1] ELSE g[k] \o seqs[k + 1]
             h == [i \in 1 .. k + 1 |-> IF i = k + 1 THEN more ELSE g[i]]
  <2>2. ASSUME NEW i \in 1 .. k + 1
        PROVE  h[i] = IF i = 1 THEN seqs[i] ELSE h[i - 1] \o seqs[i]
    <3>1. CASE i = k + 1 /\ k = 0
      BY <3>1
    <3>2. CASE i = k + 1 /\ k # 0
      <4>1. k \in 1 .. k + 1 /\ k # k + 1 /\ i - 1 = k /\ i # 1
        BY <3>2
      <4>2. h[k] = g[k] /\ h[i] = g[k] \o seqs[k + 1]
        BY <3>2, <4>1
      <4> QED BY <3>2, <4>1, <4>2
    <3>3. CASE i \in 1 .. k
      <4>1. h[i] = g[i] /\ i # k + 1
        BY <3>3
      <4>2. g[i] = IF i = 1 THEN seqs[i] ELSE g[i - 1] \o seqs[i]
        BY <2>1, <3>3
      <4>3. i # 1 => i - 1 \in 1 .. k + 1 /\ i - 1 # k + 1
        BY <3>3
      <4> QED BY <4>1, <4>2, <4>3
    <3> QED BY <3>1, <3>2, <3>3
  <2>3. Upto(k + 1, h)
    BY <2>2
  <2> HIDE DEF h, Upto
  <2> QED BY <2>3
<1>3. n \in S
  <2> HIDE DEF S
  <2> QED BY <1>1, <1>2, SetInduction
<1> QED BY <1>3

Flat(seqs) ==
  CHOOSE g : g = [i \in 1 .. Len(seqs) |-> IF i = 1 THEN seqs[i] ELSE g[i - 1] \o seqs[i]]

LEMMA FlattenIs ==
  ASSUME NEW seqs, Len(seqs) \in Nat
  PROVE  /\ FlattenSeq(seqs) = IF Len(seqs) = 0 THEN seqs ELSE Flat(seqs)[Len(seqs)]
         /\ \A i \in 1 .. Len(seqs) :
              Flat(seqs)[i] = IF i = 1 THEN seqs[i] ELSE Flat(seqs)[i - 1] \o seqs[i]
<1>1. FlattenSeq(seqs) = IF Len(seqs) = 0 THEN seqs ELSE Flat(seqs)[Len(seqs)]
  BY DEF FlattenSeq, Flat
<1> DEFINE Steps(g) == g = [i \in 1 .. Len(seqs) |-> IF i = 1 THEN seqs[i] ELSE g[i - 1] \o seqs[i]]
<1>2. \E g : Steps(g)
  BY FlattenSteps
<1>3. Flat(seqs) = CHOOSE g : Steps(g)
  BY DEF Flat
<1>4. Steps(Flat(seqs))
  <2> HIDE DEF Steps
  <2> QED BY <1>2, <1>3
<1> QED BY <1>1, <1>4

-----------------------------------------------------------------------------
(* Sequences that list a set *)

\* s lists the elements of T, each once.
Once(s, T) ==
  /\ s \in Seq(T)
  /\ \A x \in T : \E i \in 1 .. Len(s) : s[i] = x
  /\ \A i, j \in 1 .. Len(s) : s[i] = s[j] => i = j

LEMMA OnceNone == Once(<<>>, {})
<1>1. <<>> \in Seq({}) /\ Len(<<>>) = 0
  BY EmptySeq
<1> QED BY <1>1 DEF Once

LEMMA OnceOne ==
  ASSUME NEW x
  PROVE  Once(<<x>>, {x})
<1>1. <<x>> \in Seq({x}) /\ Len(<<x>>) = 1 /\ <<x>>[1] = x
  OBVIOUS
<1> HIDE DEF Once
<1>2. \A i \in 1 .. 1 : i = 1
  OBVIOUS
<1> QED BY <1>1, <1>2 DEF Once

LEMMA OnceBoth ==
  ASSUME NEW s, NEW T, Once(s, T), NEW t, NEW U, Once(t, U), T \cap U = {}
  PROVE  Once(s \o t, T \cup U)
<1> DEFINE V == T \cup U
           st == s \o t
<1>1. s \in Seq(T) /\ t \in Seq(U) /\ Len(s) \in Nat /\ Len(t) \in Nat
  BY LenProperties DEF Once
<1>2. s \in Seq(V) /\ t \in Seq(V)
  <2>1. T \subseteq V /\ U \subseteq V
    OBVIOUS
  <2> HIDE DEF V
  <2> QED BY <1>1, <2>1, SeqMonotonic
<1>3. /\ st \in Seq(V) /\ Len(st) = Len(s) + Len(t)
      /\ \A i \in 1 .. Len(s) + Len(t) : st[i] = IF i <= Len(s) THEN s[i] ELSE t[i - Len(s)]
  <2> HIDE DEF V
  <2> QED BY <1>2, ConcatProperties
<1> HIDE DEF st
<1>4. \A i \in 1 .. Len(s) : s[i] \in T
  BY <1>1, ElementOfSeq
<1>5. \A i \in 1 .. Len(t) : t[i] \in U
  BY <1>1, ElementOfSeq
<1>6. ASSUME NEW x \in V PROVE \E i \in 1 .. Len(st) : st[i] = x
  <2>1. CASE x \in T
    <3>1. PICK i \in 1 .. Len(s) : s[i] = x
      BY <2>1 DEF Once
    <3>2. i \in 1 .. Len(s) + Len(t) /\ i <= Len(s)
      BY <1>1
    <3> QED BY <1>3, <3>1, <3>2
  <2>2. CASE x \in U
    <3>1. PICK i \in 1 .. Len(t) : t[i] = x
      BY <2>2 DEF Once
    <3>2. /\ Len(s) + i \in 1 .. Len(s) + Len(t) /\ ~(Len(s) + i <= Len(s))
          /\ Len(s) + i - Len(s) = i
      BY <1>1
    <3>3. st[Len(s) + i] = t[i] /\ Len(s) + i \in 1 .. Len(st)
      BY <1>3, <3>2
    <3> QED BY <3>1, <3>3
  <2> QED BY <2>1, <2>2
<1>7. ASSUME NEW i \in 1 .. Len(st)
      PROVE  \/ i \in 1 .. Len(s) /\ st[i] = s[i] /\ st[i] \in T
             \/ i - Len(s) \in 1 .. Len(t) /\ st[i] = t[i - Len(s)] /\ st[i] \in U
  <2>1. CASE i <= Len(s)
    <3>1. i \in 1 .. Len(s) /\ i \in 1 .. Len(s) + Len(t)
      BY <1>1, <1>3, <2>1
    <3> QED BY <1>3, <1>4, <2>1, <3>1
  <2>2. CASE ~(i <= Len(s))
    <3>1. i - Len(s) \in 1 .. Len(t) /\ i \in 1 .. Len(s) + Len(t)
      BY <1>1, <1>3, <2>2
    <3> QED BY <1>3, <1>5, <2>2, <3>1
  <2> QED BY <2>1, <2>2
<1>8. ASSUME NEW i \in 1 .. Len(st), NEW j \in 1 .. Len(st), st[i] = st[j]
      PROVE  i = j
  <2>1. CASE i \in 1 .. Len(s) /\ st[i] = s[i] /\ st[i] \in T
    <3>1. j \in 1 .. Len(s) /\ st[j] = s[j]
      BY <1>7, <1>8, <2>1
    <3> QED BY <1>8, <2>1, <3>1 DEF Once
  <2>2. CASE i - Len(s) \in 1 .. Len(t) /\ st[i] = t[i - Len(s)] /\ st[i] \in U
    <3>1. j - Len(s) \in 1 .. Len(t) /\ st[j] = t[j - Len(s)]
      BY <1>7, <1>8, <2>2
    <3>2. i - Len(s) = j - Len(s)
      BY <1>8, <2>2, <3>1 DEF Once
    <3> QED BY <1>1, <3>2
  <2> QED BY <1>7, <2>1, <2>2
<1> QED BY <1>3, <1>6, <1>8 DEF Once, st

\* Lists of disjoint sets, one after the other.
LEMMA OnceAll ==
  ASSUME NEW k \in Nat, NEW seqs, seqs = [a \in 1 .. k |-> seqs[a]],
         NEW sets, \A a \in 1 .. k : Once(seqs[a], sets[a]),
         \A a, b \in 1 .. k : a # b => sets[a] \cap sets[b] = {}
  PROVE  Once(FlattenSeq(seqs), UNION {sets[a] : a \in 1 .. k})
<1> DEFINE Upto(i) == UNION {sets[a] : a \in 1 .. i}
<1>1. Len(seqs) = k
  <2> DEFINE V == {seqs[a] : a \in 1 .. k}
  <2>1. \A a \in 1 .. k : seqs[a] \in V
    OBVIOUS
  <2> HIDE DEF Upto, V
  <2>2. [a \in 1 .. k |-> seqs[a]] \in [1 .. k -> V]
    BY <2>1
  <2>3. seqs \in Seq(V) /\ DOMAIN seqs = 1 .. k
    BY <2>2
  <2> QED BY <2>3, LenProperties
<1>2. CASE k = 0
  <2>1. seqs = <<>>
    BY <1>1, <1>2
  <2>2. Len(seqs) = 0
    BY <1>1, <1>2
  <2>3. FlattenSeq(seqs) = <<>>
    BY <2>1, <2>2, FlattenIs
  <2>4. Upto(k) = {}
    BY <1>2
  <2> QED BY <2>3, <2>4, OnceNone
<1>3. CASE k # 0
  <2> DEFINE flat == Flat(seqs)
             S == {i \in Nat : i + 1 <= k => Once(flat[i + 1], Upto(i + 1))}
  <2>1. /\ FlattenSeq(seqs) = flat[k]
        /\ \A i \in 1 .. k : flat[i] = IF i = 1 THEN seqs[i] ELSE flat[i - 1] \o seqs[i]
    BY <1>1, <1>3, FlattenIs
  <2> HIDE DEF flat
  <2>2. 0 \in S
    <3>1. Upto(1) = sets[1]
      <4>1. \A a : a \in 1 .. 1 <=> a = 1
        OBVIOUS
      <4> QED BY <4>1
    <3>2. 1 \in 1 .. k /\ flat[1] = seqs[1] /\ 0 + 1 = 1
      BY <1>3, <2>1
    <3> HIDE DEF Upto
    <3> QED BY <3>1, <3>2
  <2>3. ASSUME NEW i \in Nat, i \in S PROVE i + 1 \in S
    <3> SUFFICES ASSUME i + 2 <= k PROVE Once(flat[i + 2], Upto(i + 2))
      <4>1. i + 1 + 1 = i + 2 /\ i + 1 \in Nat
        OBVIOUS
      <4> HIDE DEF Upto
      <4> QED BY <4>1
    <3>1. i + 1 <= k /\ i + 2 \in 1 .. k /\ i + 2 # 1 /\ i + 2 - 1 = i + 1
      OBVIOUS
    <3>2. Once(flat[i + 1], Upto(i + 1)) /\ flat[i + 2] = flat[i + 1] \o seqs[i + 2]
      <4>1. Once(flat[i + 1], Upto(i + 1))
        <5> HIDE DEF Upto
        <5> QED BY <2>3, <3>1
      <4> DEFINE j == i + 2
      <4>2. j \in 1 .. k /\ j # 1 /\ j - 1 = i + 1
        BY <3>1
      <4> HIDE DEF j, Upto
      <4>3. flat[j] = flat[j - 1] \o seqs[j]
        BY <2>1, <4>2
      <4> QED BY <4>1, <4>2, <4>3 DEF j
    <3>3. Upto(i + 1) \cap sets[i + 2] = {}
      <4>1. \A a \in 1 .. i + 1 : a \in 1 .. k /\ a # i + 2
        BY <3>1
      <4> QED BY <3>1, <4>1
    <3>4. Upto(i + 2) = Upto(i + 1) \cup sets[i + 2]
      <4>1. \A a : a \in 1 .. i + 2 <=> a \in 1 .. i + 1 \/ a = i + 2
        OBVIOUS
      <4> QED BY <4>1
    <3> HIDE DEF Upto
    <3>5. Once(seqs[i + 2], sets[i + 2])
      BY <3>1
    <3> QED BY <3>2, <3>3, <3>4, <3>5, OnceBoth
  <2>4. \A i \in Nat : i \in S
    <3> HIDE DEF S
    <3> QED BY <2>2, <2>3, SetInduction
  <2>5. k - 1 \in Nat /\ k - 1 + 1 = k
    BY <1>3
  <2> HIDE DEF Upto
  <2>6. Once(flat[k], Upto(k))
    BY <2>4, <2>5
  <2> QED BY <2>1, <2>6 DEF Upto
<1> QED BY <1>2, <1>3

-----------------------------------------------------------------------------
(* Subsequences *)

Picking(s, S, n, f) ==
  f = [i \in 0 .. n |-> IF i = 0 THEN <<>>
                        ELSE IF s[i] \in S THEN Append(f[i - 1], s[i]) ELSE f[i - 1]]

\* The function Those recurses with exists.
LEMMA PickingExists ==
  ASSUME NEW s, NEW S, NEW n \in Nat
  PROVE  \E f : Picking(s, S, n, f)
<1> DEFINE N == {k \in Nat : \E f : Picking(s, S, k, f)}
<1>1. 0 \in N
  <2>1. Picking(s, S, 0, [i \in 0 .. 0 |-> <<>>])
    BY DEF Picking
  <2> QED BY <2>1
<1>2. ASSUME NEW k \in Nat, k \in N PROVE k + 1 \in N
  <2>1. PICK f : Picking(s, S, k, f)
    BY <1>2
  <2> DEFINE last == IF s[k + 1] \in S THEN Append(f[k], s[k + 1]) ELSE f[k]
             g == [i \in 0 .. k + 1 |-> IF i = k + 1 THEN last ELSE f[i]]
             Next1(h, i) == IF i = 0 THEN <<>>
                            ELSE IF s[i] \in S THEN Append(h[i - 1], s[i]) ELSE h[i - 1]
  <2>2. ASSUME NEW i \in 0 .. k + 1 PROVE g[i] = Next1(g, i)
    <3>1. CASE i = k + 1
      <4>1. i # 0 /\ i - 1 = k /\ k \in 0 .. k + 1 /\ k # k + 1
        BY <3>1
      <4>2. g[k] = f[k] /\ g[i] = last
        BY <3>1, <4>1
      <4> QED BY <3>1, <4>1, <4>2
    <3>2. CASE i \in 0 .. k
      <4>1. g[i] = f[i] /\ i # k + 1
        BY <3>2
      <4>2. f[i] = Next1(f, i)
        BY <2>1, <3>2 DEF Picking
      <4>3. i # 0 => i - 1 \in 0 .. k + 1 /\ i - 1 # k + 1
        BY <3>2
      <4>4. i # 0 => g[i - 1] = f[i - 1]
        BY <4>3
      <4> QED BY <4>1, <4>2, <4>4
    <3> QED BY <3>1, <3>2
  <2>3. Picking(s, S, k + 1, g)
    BY <2>2 DEF Picking
  <2> HIDE DEF g
  <2> QED BY <2>3
<1>3. n \in N
  <2> HIDE DEF N
  <2> QED BY <1>1, <1>2, SetInduction
<1> QED BY <1>3

Picks(s, S) == CHOOSE f : Picking(s, S, Len(s), f)

LEMMA ThoseIs ==
  ASSUME NEW s, NEW S, Len(s) \in Nat
  PROVE  /\ Those(s, S) = Picks(s, S)[Len(s)]
         /\ Picks(s, S)[0] = <<>>
         /\ \A i \in 1 .. Len(s) : Picks(s, S)[i] =
              IF s[i] \in S THEN Append(Picks(s, S)[i - 1], s[i]) ELSE Picks(s, S)[i - 1]
<1>1. Those(s, S) = Picks(s, S)[Len(s)]
  BY DEF Those, Picks, Picking
<1>2. Picking(s, S, Len(s), Picks(s, S))
  BY PickingExists DEF Picks
<1> HIDE DEF Picks
<1> DEFINE f == Picks(s, S)
<1>3. \A i \in 0 .. Len(s) : f[i] = IF i = 0 THEN <<>>
        ELSE IF s[i] \in S THEN Append(f[i - 1], s[i]) ELSE f[i - 1]
  BY <1>2 DEF Picking
<1> HIDE DEF f
<1>4. f[0] = <<>>
  BY <1>3
<1>5. \A i \in 1 .. Len(s) : i \in 0 .. Len(s) /\ i # 0
  OBVIOUS
<1> QED BY <1>1, <1>3, <1>4, <1>5 DEF f

LEMMA ThoseEmpty == \A S : Those(<<>>, S) = <<>>
<1> SUFFICES ASSUME NEW S PROVE Those(<<>>, S) = <<>>
  OBVIOUS
<1>1. Len(<<>>) = 0
  BY EmptySeq
<1> QED BY <1>1, ThoseIs

LEMMA ThoseAppend ==
  ASSUME NEW E, NEW s \in Seq(E), NEW e \in E, NEW S
  PROVE  Those(Append(s, e), S) = IF e \in S THEN Append(Those(s, S), e) ELSE Those(s, S)
<1> DEFINE t == Append(s, e)
           k == Len(s)
<1>1. /\ k \in Nat /\ Len(t) = k + 1 /\ t[k + 1] = e
      /\ \A i \in 1 .. k : t[i] = s[i]
  BY AppendProperties, LenProperties
<1> HIDE DEF t, k
<1> DEFINE f == Picks(s, S)
           g == Picks(t, S)
<1>2. /\ Those(s, S) = f[k] /\ f[0] = <<>>
      /\ \A i \in 1 .. k : f[i] = IF s[i] \in S THEN Append(f[i - 1], s[i]) ELSE f[i - 1]
  BY <1>1, ThoseIs DEF k
<1>3. /\ Those(t, S) = g[k + 1] /\ g[0] = <<>>
      /\ \A i \in 1 .. k + 1 : g[i] = IF t[i] \in S THEN Append(g[i - 1], t[i]) ELSE g[i - 1]
  <2>1. Len(t) \in Nat
    BY <1>1
  <2> QED BY <1>1, <2>1, ThoseIs
<1> HIDE DEF f, g
<1> DEFINE N == {i \in Nat : i <= k => g[i] = f[i]}
<1>4. 0 \in N
  BY <1>2, <1>3
<1>5. ASSUME NEW i \in Nat, i \in N PROVE i + 1 \in N
  <2> SUFFICES ASSUME i + 1 <= k PROVE g[i + 1] = f[i + 1]
    OBVIOUS
  <2>1. i + 1 \in 1 .. k /\ i + 1 \in 1 .. k + 1 /\ (i + 1) - 1 = i /\ i <= k
    BY <1>1
  <2>2. g[i] = f[i] /\ t[i + 1] = s[i + 1]
    BY <1>1, <1>5, <2>1
  <2> QED BY <1>2, <1>3, <2>1, <2>2
<1>6. k \in N
  <2> HIDE DEF N
  <2>1. \A i \in Nat : i \in N
    BY <1>4, <1>5, SetInduction
  <2> QED BY <1>1, <2>1
<1>7. g[k] = f[k]
  BY <1>1, <1>6
<1>8. k + 1 \in 1 .. k + 1 /\ (k + 1) - 1 = k
  BY <1>1
<1>9. g[k + 1] = IF e \in S THEN Append(g[k], e) ELSE g[k]
  BY <1>1, <1>3, <1>8
<1> QED BY <1>2, <1>3, <1>7, <1>9 DEF t

LEMMA ThoseTyped ==
  ASSUME NEW E, NEW S
  PROVE  \A s \in Seq(E) : Those(s, S) \in Seq(E)
<1> DEFINE X == {s \in Seq(E) : Those(s, S) \in Seq(E)}
<1>1. <<>> \in X
  BY ThoseEmpty, EmptySeq
<1>2. ASSUME NEW s \in Seq(E), NEW e \in E, s \in X PROVE Append(s, e) \in X
  <2>1. Append(s, e) \in Seq(E) /\ Append(Those(s, S), e) \in Seq(E)
    BY <1>2, AppendProperties
  <2> QED BY <1>2, <2>1, ThoseAppend
<1>3. \A s \in Seq(E) : s \in X
  <2> HIDE DEF X
  <2> QED BY <1>1, <1>2, SeqInduction
<1> QED BY <1>3

\* x is ahead of y in the queue q.
Ahead(x, y, q) == \E i, j \in DOMAIN q : i < j /\ q[i] = x /\ q[j] = y

LEMMA QueueAppend ==
  ASSUME NEW E, NEW s \in Seq(E), NEW e \in E
  PROVE  /\ Append(s, e) \in Seq(E) /\ Append(s, e) # <<>>
         /\ ToSet(Append(s, e)) = ToSet(s) \cup {e}
         /\ \A x, y : Ahead(x, y, Append(s, e)) <=> Ahead(x, y, s) \/ (x \in ToSet(s) /\ y = e)
<1> DEFINE t == Append(s, e)
           k == Len(s)
<1>1. /\ k \in Nat /\ DOMAIN s = 1 .. k /\ t \in Seq(E) /\ DOMAIN t = 1 .. k + 1
      /\ t[k + 1] = e /\ t # <<>>
      /\ \A i \in 1 .. k : t[i] = s[i]
  BY AppendProperties, LenProperties, EmptySeq
<1> HIDE DEF t, k
<1>2. \A i : i \in 1 .. k + 1 <=> i \in 1 .. k \/ i = k + 1
  BY <1>1
<1>3. ToSet(t) = ToSet(s) \cup {e}
  <2> QED BY <1>1, <1>2 DEF ToSet
<1>4. ASSUME NEW x, NEW y, Ahead(x, y, t)
      PROVE  Ahead(x, y, s) \/ (x \in ToSet(s) /\ y = e)
  <2>1. PICK i \in 1 .. k + 1, j \in 1 .. k + 1 : i < j /\ t[i] = x /\ t[j] = y
    BY <1>1, <1>4 DEF Ahead
  <2>2. i \in 1 .. k /\ s[i] = x
    BY <1>1, <2>1
  <2>3. CASE j = k + 1
    BY <1>1, <2>1, <2>2, <2>3 DEF ToSet
  <2>4. CASE j \in 1 .. k
    BY <1>1, <2>1, <2>2, <2>4 DEF Ahead
  <2> QED BY <1>2, <2>1, <2>3, <2>4
<1>5. ASSUME NEW x, NEW y, Ahead(x, y, s) PROVE Ahead(x, y, t)
  BY <1>1, <1>2, <1>5 DEF Ahead
<1>6. ASSUME NEW x \in ToSet(s) PROVE Ahead(x, e, t)
  <2>1. PICK i \in 1 .. k : s[i] = x
    BY <1>1 DEF ToSet
  <2>2. i \in 1 .. k + 1 /\ k + 1 \in 1 .. k + 1 /\ i < k + 1 /\ t[i] = x
    BY <1>1, <2>1
  <2> QED BY <1>1, <2>2 DEF Ahead
<1> QED BY <1>1, <1>3, <1>4, <1>5, <1>6 DEF t

LEMMA QueueTail ==
  ASSUME NEW E, NEW s \in Seq(E), s # <<>>
  PROVE  /\ Head(s) \in E /\ Tail(s) \in Seq(E)
         /\ ToSet(s) = {Head(s)} \cup ToSet(Tail(s))
         /\ \A x, y : Ahead(x, y, Tail(s)) => Ahead(x, y, s)
         /\ \A y \in ToSet(Tail(s)) : Ahead(Head(s), y, s)
<1> DEFINE t == Tail(s)
           k == Len(t)
<1>1. /\ Head(s) \in E /\ t \in Seq(E) /\ k \in Nat /\ DOMAIN t = 1 .. k
      /\ DOMAIN s = 1 .. k + 1 /\ s[1] = Head(s)
      /\ \A i \in 1 .. k : t[i] = s[i + 1]
  <2>1. /\ Head(s) \in E /\ t \in Seq(E) /\ Len(t) = Len(s) - 1
        /\ \A i \in 1 .. Len(t) : t[i] = s[i + 1]
    BY HeadTailProperties
  <2>2. Len(s) \in Nat /\ DOMAIN s = 1 .. Len(s) /\ k \in Nat /\ DOMAIN t = 1 .. k
    BY <2>1, LenProperties
  <2>3. s[1] = Head(s)
    OBVIOUS
  <2> QED BY <2>1, <2>2, <2>3
<1> HIDE DEF t, k
<1>2. /\ \A i \in 1 .. k : i + 1 \in 1 .. k + 1
      /\ \A i \in 1 .. k + 1 : i = 1 \/ (i - 1 \in 1 .. k /\ (i - 1) + 1 = i)
      /\ 1 \in 1 .. k + 1
  BY <1>1
<1>3. ToSet(s) = {Head(s)} \cup ToSet(t)
  <2>1. ASSUME NEW x \in ToSet(s), x # Head(s) PROVE x \in ToSet(t)
    <3>1. PICK i \in 1 .. k + 1 : s[i] = x
      BY <1>1 DEF ToSet
    <3>2. i - 1 \in 1 .. k /\ t[i - 1] = x
      BY <1>1, <1>2, <2>1, <3>1
    <3> QED BY <1>1, <3>2 DEF ToSet
  <2>2. ToSet(t) \subseteq ToSet(s)
    BY <1>1, <1>2 DEF ToSet
  <2>3. Head(s) \in ToSet(s)
    BY <1>1, <1>2 DEF ToSet
  <2> QED BY <2>1, <2>2, <2>3
<1>4. ASSUME NEW x, NEW y, Ahead(x, y, t) PROVE Ahead(x, y, s)
  <2>1. PICK i \in 1 .. k, j \in 1 .. k : i < j /\ t[i] = x /\ t[j] = y
    BY <1>1, <1>4 DEF Ahead
  <2>2. i + 1 < j + 1 /\ i + 1 \in 1 .. k + 1 /\ j + 1 \in 1 .. k + 1
    BY <1>1, <2>1
  <2>3. s[i + 1] = x /\ s[j + 1] = y
    BY <1>1, <2>1
  <2> QED BY <1>1, <2>2, <2>3 DEF Ahead
<1>5. ASSUME NEW y \in ToSet(t) PROVE Ahead(Head(s), y, s)
  <2>1. PICK j \in 1 .. k : t[j] = y
    BY <1>1 DEF ToSet
  <2>2. 1 < j + 1 /\ j + 1 \in 1 .. k + 1 /\ s[j + 1] = y
    BY <1>1, <2>1
  <2> QED BY <1>1, <1>2, <2>2 DEF Ahead
<1> QED BY <1>1, <1>3, <1>4, <1>5 DEF t

\* What a subsequence holds is in S, in the order it had.
LEMMA ThoseInOrder ==
  ASSUME NEW E, NEW S
  PROVE  \A s \in Seq(E) :
           /\ ToSet(Those(s, S)) = ToSet(s) \cap S
           /\ \A x, y : Ahead(x, y, Those(s, S)) => Ahead(x, y, s)
<1> DEFINE X == {s \in Seq(E) : /\ ToSet(Those(s, S)) = ToSet(s) \cap S
                                /\ \A x, y : Ahead(x, y, Those(s, S)) => Ahead(x, y, s)}
<1>1. <<>> \in X
  <2>1. ToSet(<<>>) = {}
    BY EmptySeq, LenProperties DEF ToSet
  <2> QED BY <2>1, ThoseEmpty, EmptySeq
<1>2. ASSUME NEW s \in Seq(E), NEW e \in E, s \in X PROVE Append(s, e) \in X
  <2> DEFINE u == Those(s, S)
  <2>1. u \in Seq(E)
    BY ThoseTyped
  <2>2. /\ ToSet(u) = ToSet(s) \cap S
        /\ \A x, y : Ahead(x, y, u) => Ahead(x, y, s)
    BY <1>2
  <2>3. Those(Append(s, e), S) = IF e \in S THEN Append(u, e) ELSE u
    BY ThoseAppend
  <2> HIDE DEF u
  <2>4. /\ Append(s, e) \in Seq(E)
        /\ ToSet(Append(s, e)) = ToSet(s) \cup {e}
        /\ \A x, y : Ahead(x, y, Append(s, e)) <=> Ahead(x, y, s) \/ (x \in ToSet(s) /\ y = e)
    BY QueueAppend
  <2>5. /\ ToSet(Append(u, e)) = ToSet(u) \cup {e}
        /\ \A x, y : Ahead(x, y, Append(u, e)) <=> Ahead(x, y, u) \/ (x \in ToSet(u) /\ y = e)
    BY <2>1, QueueAppend
  <2> DEFINE t == Append(s, e)
             v == Those(t, S)
  <2>6. ASSUME e \in S PROVE ToSet(v) = ToSet(t) \cap S /\ \A x, y : Ahead(x, y, v) => Ahead(x, y, t)
    <3>1. v = Append(u, e)
      BY <2>3, <2>6
    <3> QED BY <2>2, <2>4, <2>5, <2>6, <3>1
  <2>7. ASSUME e \notin S PROVE ToSet(v) = ToSet(t) \cap S /\ \A x, y : Ahead(x, y, v) => Ahead(x, y, t)
    <3>1. v = u
      BY <2>3, <2>7
    <3> QED BY <2>2, <2>4, <2>7, <3>1
  <2> QED BY <2>4, <2>6, <2>7
<1>3. \A s \in Seq(E) : s \in X
  <2> HIDE DEF X
  <2> QED BY <1>1, <1>2, SeqInduction
<1> QED BY <1>3

LEMMA ThoseNone ==
  ASSUME NEW E, NEW S
  PROVE  \A s \in Seq(E) : ToSet(s) \cap S = {} => Those(s, S) = <<>>
<1> SUFFICES ASSUME NEW s \in Seq(E), ToSet(s) \cap S = {} PROVE Those(s, S) = <<>>
  OBVIOUS
<1>1. Those(s, S) \in Seq(E) /\ ToSet(Those(s, S)) = {}
  BY ThoseTyped, ThoseInOrder
<1> DEFINE u == Those(s, S)
<1>2. u # <<>> => Head(u) \in ToSet(u)
  <2> HIDE DEF u
  <2>1. u \in Seq(E)
    BY <1>1 DEF u
  <2> QED BY <2>1, QueueTail
<1> QED BY <1>1, <1>2

LEMMA ThoseOfThose ==
  ASSUME NEW E, NEW S, NEW T
  PROVE  \A s \in Seq(E) : ToSet(s) \cap T \subseteq S => Those(Those(s, S), T) = Those(s, T)
<1> DEFINE X == {s \in Seq(E) : ToSet(s) \cap T \subseteq S => Those(Those(s, S), T) = Those(s, T)}
<1>1. <<>> \in X
  BY ThoseEmpty, EmptySeq
<1>2. ASSUME NEW s \in Seq(E), NEW e \in E, s \in X PROVE Append(s, e) \in X
  <2>1. Append(s, e) \in Seq(E) /\ ToSet(Append(s, e)) = ToSet(s) \cup {e}
    BY QueueAppend
  <2> SUFFICES ASSUME (ToSet(s) \cup {e}) \cap T \subseteq S
               PROVE  Those(Those(Append(s, e), S), T) = Those(Append(s, e), T)
    BY <2>1
  <2>2. Those(Those(s, S), T) = Those(s, T)
    BY <1>2
  <2>3. Those(s, S) \in Seq(E)
    BY ThoseTyped
  <2>4. /\ Those(Append(s, e), S) = IF e \in S THEN Append(Those(s, S), e) ELSE Those(s, S)
        /\ Those(Append(s, e), T) = IF e \in T THEN Append(Those(s, T), e) ELSE Those(s, T)
    BY ThoseAppend
  <2>5. Those(Append(Those(s, S), e), T)
          = IF e \in T THEN Append(Those(Those(s, S), T), e) ELSE Those(Those(s, S), T)
    BY <2>3, ThoseAppend
  <2>6. e \in T => e \in S
    OBVIOUS
  <2> QED BY <2>2, <2>4, <2>5, <2>6
<1>3. \A s \in Seq(E) : s \in X
  <2> HIDE DEF X
  <2> QED BY <1>1, <1>2, SeqInduction
<1> QED BY <1>3

LEMMA ThoseAll ==
  ASSUME NEW E, NEW S
  PROVE  \A s \in Seq(E) : ToSet(s) \subseteq S => Those(s, S) = s
<1> DEFINE X == {s \in Seq(E) : ToSet(s) \subseteq S => Those(s, S) = s}
<1>1. <<>> \in X
  BY ThoseEmpty, EmptySeq
<1>2. ASSUME NEW s \in Seq(E), NEW e \in E, s \in X PROVE Append(s, e) \in X
  <2>1. Append(s, e) \in Seq(E) /\ ToSet(Append(s, e)) = ToSet(s) \cup {e}
    BY QueueAppend
  <2>2. Those(Append(s, e), S) = IF e \in S THEN Append(Those(s, S), e) ELSE Those(s, S)
    BY ThoseAppend
  <2> QED BY <1>2, <2>1, <2>2
<1>3. \A s \in Seq(E) : s \in X
  <2> HIDE DEF X
  <2> QED BY <1>1, <1>2, SeqInduction
<1> QED BY <1>3

\* If the elements in S come first, they are what is left.
LEMMA ThosePrefix ==
  ASSUME NEW E, NEW s \in Seq(E), NEW S, NEW k \in 0 .. Len(s),
         \A a \in 1 .. k : s[a] \in S, \A a \in k + 1 .. Len(s) : s[a] \notin S
  PROVE  Those(s, S) = [a \in 1 .. k |-> s[a]]
<1> DEFINE f == Picks(s, S)
           First(i) == [a \in 1 .. i |-> s[a]]
           N == {i \in Nat : /\ i <= k => f[i] = First(i)
                             /\ k <= i /\ i <= Len(s) => f[i] = First(k)}
<1>1. Len(s) \in Nat /\ k \in Nat /\ k <= Len(s) /\ DOMAIN s = 1 .. Len(s)
  BY LenProperties
<1>2. /\ Those(s, S) = f[Len(s)] /\ f[0] = <<>>
      /\ \A i \in 1 .. Len(s) : f[i] = IF s[i] \in S THEN Append(f[i - 1], s[i]) ELSE f[i - 1]
  BY <1>1, ThoseIs
<1>3. ASSUME NEW i \in Nat, i + 1 <= k PROVE Append(First(i), s[i + 1]) = First(i + 1)
  <2>1. First(i) \in Seq(E) /\ Len(First(i)) = i
    <3>1. \A a \in 1 .. i : s[a] \in E
      <4>1. \A a \in 1 .. i : a \in 1 .. Len(s)
        BY <1>1, <1>3
      <4> QED BY <4>1, ElementOfSeq
    <3>2. First(i) \in [1 .. i -> E]
      BY <3>1
    <3> HIDE DEF First
    <3>3. First(i) \in Seq(E)
      BY <3>2, SeqDef
    <3>4. DOMAIN First(i) = 1 .. i
      BY <3>2
    <3>5. DOMAIN First(i) = 1 .. Len(First(i)) /\ Len(First(i)) \in Nat
      BY <3>3, LenProperties
    <3> QED BY <3>3, <3>4, <3>5
  <2>2. s[i + 1] \in E
    BY <1>1, <1>3, ElementOfSeq
  <2>3. \A a \in 1 .. i : First(i)[a] = s[a]
    OBVIOUS
  <2>4. /\ DOMAIN First(i + 1) = 1 .. i + 1
        /\ First(i + 1) = [a \in 1 .. i + 1 |-> s[a]]
    OBVIOUS
  <2> DEFINE t == Append(First(i), s[i + 1])
             u == First(i)
  <2> HIDE DEF First
  <2>5. /\ t \in Seq(E) /\ Len(t) = i + 1 /\ t[i + 1] = s[i + 1]
        /\ \A a \in 1 .. i : t[a] = s[a]
    <3> HIDE DEF u
    <3>1. Append(u, s[i + 1]) \in Seq(E) /\ Len(Append(u, s[i + 1])) = Len(u) + 1
          /\ Append(u, s[i + 1])[Len(u) + 1] = s[i + 1]
          /\ \A a \in 1 .. Len(u) : Append(u, s[i + 1])[a] = u[a]
      BY <2>1, <2>2, AppendProperties DEF u
    <3> QED BY <2>1, <2>3, <3>1 DEF u
  <2> HIDE DEF t
  <2>6. t = [a \in 1 .. i + 1 |-> s[a]]
    <3>1. DOMAIN t = 1 .. i + 1 /\ t = [a \in DOMAIN t |-> t[a]]
      BY <2>5, LenProperties, SeqDef
    <3>2. \A a \in 1 .. i + 1 : t[a] = s[a]
      <4>1. \A a \in 1 .. i + 1 : a = i + 1 \/ a \in 1 .. i
        OBVIOUS
      <4> QED BY <2>5, <4>1
    <3> QED BY <3>1, <3>2
  <2> QED BY <2>4, <2>6 DEF t
<1>4. First(0) = <<>>
  OBVIOUS
<1> HIDE DEF f, First
<1>5. 0 \in N
  <2>1. k <= 0 => k = 0
    BY <1>1
  <2> QED BY <1>2, <1>4, <2>1
<1>6. ASSUME NEW i \in Nat, i \in N PROVE i + 1 \in N
  <2>1. ASSUME i + 1 <= k PROVE f[i + 1] = First(i + 1)
    <3>1. i + 1 \in 1 .. Len(s) /\ (i + 1) - 1 = i /\ i <= k /\ i + 1 \in 1 .. k
      BY <1>1, <2>1
    <3>2. f[i] = First(i) /\ s[i + 1] \in S
      BY <1>6, <3>1
    <3>3. f[i + 1] = Append(f[i], s[i + 1])
      BY <1>2, <3>1, <3>2
    <3> QED BY <1>3, <2>1, <3>2, <3>3
  <2>2. ASSUME k <= i + 1, i + 1 <= Len(s), ~ i + 1 <= k PROVE f[i + 1] = First(k)
    <3>1. i + 1 \in 1 .. Len(s) /\ (i + 1) - 1 = i /\ k <= i /\ i <= Len(s) /\ i + 1 \in k + 1 .. Len(s)
      BY <1>1, <2>2
    <3>2. f[i] = First(k) /\ s[i + 1] \notin S
      BY <1>6, <3>1
    <3> QED BY <1>2, <3>1, <3>2
  <2>3. i + 1 <= k /\ k <= i + 1 => i + 1 = k
    BY <1>1
  <2> QED BY <2>1, <2>2, <2>3
<1>7. \A i \in Nat : i \in N
  <2> HIDE DEF N
  <2> QED BY <1>5, <1>6, SetInduction
<1>8. f[Len(s)] = First(k)
  <2>1. Len(s) \in N
    BY <1>1, <1>7
  <2> QED BY <1>1, <2>1
<1> QED BY <1>2, <1>8 DEF First

\* A queue is read from its head.
HeadIn(s, S) == IF Head(s) \in S THEN <<Head(s)>> ELSE <<>>

LEMMA ThoseTail ==
  ASSUME NEW E, NEW S
  PROVE  \A s \in Seq(E) : s # <<>> => Those(s, S) = HeadIn(s, S) \o Those(Tail(s), S)
<1> DEFINE X == {s \in Seq(E) : s # <<>> => Those(s, S) = HeadIn(s, S) \o Those(Tail(s), S)}
<1>1. <<>> \in X
  BY EmptySeq
<1>2. ASSUME NEW s \in Seq(E), NEW e \in E, s \in X PROVE Append(s, e) \in X
  <2>1. PICK t : t = Append(s, e)
    OBVIOUS
  <2>2. t \in Seq(E) /\ t # <<>>
    BY <2>1, AppendProperties
  <2>3. Those(t, S) = IF e \in S THEN Append(Those(s, S), e) ELSE Those(s, S)
    BY <2>1, ThoseAppend
  <2> SUFFICES Those(t, S) = HeadIn(t, S) \o Those(Tail(t), S)
    BY <2>1, <2>2
  <2>4. Head(t) = (IF s = <<>> THEN e ELSE Head(s))
        /\ Tail(t) = (IF s = <<>> THEN <<>> ELSE Append(Tail(s), e))
    BY <2>1, HeadTailAppend
  <2>5. CASE s = <<>>
    <3>1. Head(t) = e /\ Tail(t) = <<>> /\ Those(s, S) = <<>> /\ Those(Tail(t), S) = <<>>
      BY <2>4, <2>5, ThoseEmpty
    <3>2. <<e>> \in Seq(E) /\ <<>> \in Seq(E) /\ Append(<<>>, e) = <<e>>
      OBVIOUS
    <3>3. <<e>> \o <<>> = <<e>> /\ <<>> \o <<>> = <<>>
      BY <3>2, ConcatEmptySeq
    <3>4. HeadIn(t, S) \o <<>> = IF e \in S THEN <<e>> ELSE <<>>
      BY <3>1, <3>3 DEF HeadIn
    <3> QED BY <2>3, <3>1, <3>2, <3>4
  <2>6. CASE s # <<>>
    <3>1. Head(s) \in E /\ Tail(s) \in Seq(E)
      BY <2>6, QueueTail
    <3>2. PICK u, p : u = Those(Tail(s), S) /\ p = HeadIn(s, S)
      OBVIOUS
    <3>7. <<Head(s)>> \in Seq(E) /\ <<>> \in Seq(E)
      <4>1. \A h \in E : <<h>> \in Seq(E)
        OBVIOUS
      <4> QED BY <3>1, <4>1, EmptySeq
    <3>3. u \in Seq(E) /\ p \in Seq(E) /\ HeadIn(t, S) = p
      <4>1. u \in Seq(E)
        BY <3>1, <3>2, ThoseTyped
      <4>2. p \in Seq(E)
        BY <3>1, <3>2, <3>7 DEF HeadIn
      <4>3. HeadIn(t, S) = p
        BY <2>4, <2>6, <3>2 DEF HeadIn
      <4> QED BY <4>1, <4>2, <4>3
    <3>4. Those(Tail(t), S) = IF e \in S THEN Append(u, e) ELSE u
      <4>1. Tail(t) = Append(Tail(s), e)
        BY <2>4, <2>6
      <4>2. Those(Append(Tail(s), e), S)
              = IF e \in S THEN Append(Those(Tail(s), S), e) ELSE Those(Tail(s), S)
        BY <3>1, ThoseAppend
      <4> QED BY <3>2, <4>1, <4>2
    <3>5. Those(s, S) = p \o u
      BY <1>2, <2>6, <3>2
    <3>6. Append(p \o u, e) = p \o Append(u, e)
      <4>1. <<e>> \in Seq(E) /\ p \o u \in Seq(E)
        BY <3>3, ConcatProperties
      <4>2. Append(p \o u, e) = (p \o u) \o <<e>> /\ Append(u, e) = u \o <<e>>
        BY <3>3, <4>1, AppendIsConcat
      <4> QED BY <3>3, <4>1, <4>2, ConcatAssociative
    <3> QED BY <2>3, <3>3, <3>4, <3>5, <3>6
  <2> QED BY <2>5, <2>6
<1>3. \A s \in Seq(E) : s \in X
  <2> HIDE DEF X
  <2> QED BY <1>1, <1>2, SeqInduction
<1> QED BY <1>3

-----------------------------------------------------------------------------
(* What is ahead of what *)

LEMMA AheadBoth ==
  ASSUME NEW E, NEW s \in Seq(E), NEW t \in Seq(E)
  PROVE  /\ s \o t \in Seq(E)
         /\ ToSet(s \o t) = ToSet(s) \cup ToSet(t)
         /\ \A x, y : Ahead(x, y, s) \/ Ahead(x, y, t) \/ (x \in ToSet(s) /\ y \in ToSet(t))
                        => Ahead(x, y, s \o t)
<1> DEFINE st == s \o t
           k == Len(s)
           l == Len(t)
<1>1. /\ k \in Nat /\ l \in Nat /\ DOMAIN s = 1 .. k /\ DOMAIN t = 1 .. l
      /\ st \in Seq(E) /\ DOMAIN st = 1 .. k + l
      /\ \A i \in 1 .. k + l : st[i] = IF i <= k THEN s[i] ELSE t[i - k]
  BY ConcatProperties, LenProperties
<1> HIDE DEF st, k, l
<1>2. \A i \in 1 .. k : i \in DOMAIN st /\ st[i] = s[i]
  BY <1>1
<1>3. \A i \in 1 .. l : k + i \in DOMAIN st /\ st[k + i] = t[i]
  <2>1. \A i \in 1 .. l : k + i \in 1 .. k + l /\ ~(k + i <= k) /\ (k + i) - k = i
    BY <1>1
  <2> QED BY <1>1, <2>1
<1>4. ToSet(st) = ToSet(s) \cup ToSet(t)
  <2>1. \A i \in 1 .. k + l : i \in 1 .. k \/ (i - k \in 1 .. l /\ k + (i - k) = i)
    BY <1>1
  <2>2. \A i \in 1 .. k + l : (\E j \in 1 .. k : st[i] = s[j]) \/ (\E j \in 1 .. l : st[i] = t[j])
    BY <1>2, <1>3, <2>1
  <2>3. ToSet(st) \subseteq ToSet(s) \cup ToSet(t)
    BY <1>1, <2>2 DEF ToSet
  <2>4. ToSet(s) \subseteq ToSet(st)
    BY <1>1, <1>2 DEF ToSet
  <2>5. ToSet(t) \subseteq ToSet(st)
    BY <1>1, <1>3 DEF ToSet
  <2> QED BY <2>3, <2>4, <2>5
<1>5. ASSUME NEW x, NEW y, Ahead(x, y, s) PROVE Ahead(x, y, st)
  BY <1>1, <1>2, <1>5 DEF Ahead
<1>6. ASSUME NEW x, NEW y, Ahead(x, y, t) PROVE Ahead(x, y, st)
  <2>1. PICK i \in 1 .. l, j \in 1 .. l : i < j /\ t[i] = x /\ t[j] = y
    BY <1>1, <1>6 DEF Ahead
  <2>2. k + i < k + j
    BY <1>1, <2>1
  <2> QED BY <1>3, <2>1, <2>2 DEF Ahead
<1>7. ASSUME NEW x \in ToSet(s), NEW y \in ToSet(t) PROVE Ahead(x, y, st)
  <2>1. PICK i \in 1 .. k, j \in 1 .. l : s[i] = x /\ t[j] = y
    BY <1>1 DEF ToSet
  <2>2. i < k + j
    BY <1>1, <2>1
  <2> QED BY <1>2, <1>3, <2>1, <2>2 DEF Ahead
<1> QED BY <1>1, <1>4, <1>5, <1>6, <1>7 DEF st

\* In sequences put together, elements are in the order of their sequences.
LEMMA AheadAll ==
  ASSUME NEW E, NEW k \in Nat, NEW seqs, seqs = [a \in 1 .. k |-> seqs[a]],
         \A a \in 1 .. k : seqs[a] \in Seq(E)
  PROVE  /\ FlattenSeq(seqs) \in Seq(E)
         /\ \A x \in ToSet(FlattenSeq(seqs)) : \E a \in 1 .. k : x \in ToSet(seqs[a])
         /\ \A a \in 1 .. k : /\ ToSet(seqs[a]) \subseteq ToSet(FlattenSeq(seqs))
                              /\ \A x, y : Ahead(x, y, seqs[a]) => Ahead(x, y, FlattenSeq(seqs))
         /\ \A a, b \in 1 .. k : a < b =>
              \A x \in ToSet(seqs[a]), y \in ToSet(seqs[b]) : Ahead(x, y, FlattenSeq(seqs))
<1> DEFINE Joined(i, f) ==
             /\ f \in Seq(E)
             /\ \A x \in ToSet(f) : \E a \in 1 .. i : x \in ToSet(seqs[a])
             /\ \A a \in 1 .. i : /\ ToSet(seqs[a]) \subseteq ToSet(f)
                                  /\ \A x, y : Ahead(x, y, seqs[a]) => Ahead(x, y, f)
             /\ \A a, b \in 1 .. i : a < b =>
                  \A x \in ToSet(seqs[a]), y \in ToSet(seqs[b]) : Ahead(x, y, f)
<1> SUFFICES Joined(k, FlattenSeq(seqs))
  OBVIOUS
<1>1. Len(seqs) = k
  <2>1. [a \in 1 .. k |-> seqs[a]] \in [1 .. k -> Seq(E)]
    OBVIOUS
  <2>2. seqs \in Seq(Seq(E)) /\ DOMAIN seqs = 1 .. k
    BY <2>1
  <2> QED BY <2>2, LenProperties
<1>2. CASE k = 0
  <2>1. seqs = <<>>
    BY <1>2
  <2>2. FlattenSeq(seqs) = <<>>
    BY <1>1, <1>2, <2>1, FlattenIs
  <2>3. ToSet(<<>>) = {} /\ <<>> \in Seq(E)
    BY EmptySeq, LenProperties DEF ToSet
  <2>4. \A a \in 1 .. k : FALSE
    BY <1>2
  <2> QED BY <2>2, <2>3, <2>4
<1>3. CASE k # 0
  <2> DEFINE flat == Flat(seqs)
             S == {i \in Nat : i + 1 <= k => Joined(i + 1, flat[i + 1])}
  <2>1. /\ FlattenSeq(seqs) = flat[k]
        /\ \A i \in 1 .. k : flat[i] = IF i = 1 THEN seqs[i] ELSE flat[i - 1] \o seqs[i]
    BY <1>1, <1>3, FlattenIs
  <2> HIDE DEF flat
  <2>2. 0 \in S
    <3>1. 1 \in 1 .. k /\ flat[1] = seqs[1] /\ 0 + 1 = 1
      BY <1>3, <2>1
    <3>2. \A a : a \in 1 .. 1 <=> a = 1
      OBVIOUS
    <3>3. Joined(1, seqs[1])
      BY <3>1, <3>2
    <3> HIDE DEF Joined
    <3> QED BY <3>1, <3>3
  <2>3. ASSUME NEW i \in Nat, i \in S PROVE i + 1 \in S
    <3> SUFFICES ASSUME i + 2 <= k PROVE Joined(i + 2, flat[i + 2])
      <4>1. i + 1 + 1 = i + 2 /\ i + 1 \in Nat
        OBVIOUS
      <4> HIDE DEF Joined
      <4> QED BY <4>1
    <3>1. i + 1 <= k /\ i + 2 \in 1 .. k /\ i + 2 # 1 /\ i + 2 - 1 = i + 1
      OBVIOUS
    <3>2. Joined(i + 1, flat[i + 1])
      <4> HIDE DEF Joined
      <4> QED BY <2>3, <3>1
    <3> DEFINE j == i + 2
               f == flat[i + 1]
               g == seqs[j]
    <3>3. flat[j] = f \o g /\ j \in 1 .. k
      <4>1. flat[j] = flat[j - 1] \o seqs[j]
        <5>1. j \in 1 .. k /\ j # 1
          BY <3>1
        <5> HIDE DEF j
        <5> QED BY <2>1, <5>1
      <4>2. j - 1 = i + 1 /\ j \in 1 .. k
        BY <3>1
      <4> HIDE DEF j
      <4> QED BY <4>1, <4>2
    <3>4. \A a : a \in 1 .. j <=> a \in 1 .. i + 1 \/ a = j
      OBVIOUS
    <3>5. \A a \in 1 .. i + 1 : ~(j < a) /\ a \in 1 .. k
      BY <3>1
    <3>9. ~(j < j)
      OBVIOUS
    <3> HIDE DEF f, g, j
    <3>6. f \in Seq(E) /\ g \in Seq(E)
      BY <3>2, <3>3 DEF f, g
    <3> DEFINE h == f \o g
    <3>7. /\ h \in Seq(E) /\ ToSet(h) = ToSet(f) \cup ToSet(g)
          /\ \A x, y : Ahead(x, y, f) \/ Ahead(x, y, g) \/ (x \in ToSet(f) /\ y \in ToSet(g))
                         => Ahead(x, y, h)
      BY <3>6, AheadBoth
    <3>8. Joined(i + 1, f)
      BY <3>2 DEF f
    <3> HIDE DEF h
    <3>10. \A x \in ToSet(h) : \E a \in 1 .. j : x \in ToSet(seqs[a])
      BY <3>4, <3>7, <3>8 DEF g
    <3>11. \A a \in 1 .. j : /\ ToSet(seqs[a]) \subseteq ToSet(h)
                             /\ \A x, y : Ahead(x, y, seqs[a]) => Ahead(x, y, h)
      BY <3>4, <3>7, <3>8 DEF g
    <3>12. ASSUME NEW a \in 1 .. j, NEW b \in 1 .. j, a < b,
                  NEW x \in ToSet(seqs[a]), NEW y \in ToSet(seqs[b])
           PROVE  Ahead(x, y, h)
      <4>1. a \in 1 .. i + 1
        BY <3>4, <3>5, <3>9, <3>12
      <4>2. x \in ToSet(f)
        BY <3>8, <4>1
      <4>3. CASE b = j
        BY <3>7, <4>2, <4>3 DEF g
      <4>4. CASE b \in 1 .. i + 1
        <5>1. Ahead(x, y, f)
          BY <3>8, <3>12, <4>1, <4>4
        <5> QED BY <3>7, <5>1
      <4> QED BY <3>4, <4>3, <4>4
    <3>13. Joined(j, h)
      BY <3>7, <3>10, <3>11, <3>12
    <3> HIDE DEF Joined
    <3> QED BY <3>3, <3>13 DEF h, j
  <2>4. \A i \in Nat : i \in S
    <3> HIDE DEF S
    <3> QED BY <2>2, <2>3, SetInduction
  <2>5. k - 1 \in Nat /\ k - 1 + 1 = k
    BY <1>3
  <2> HIDE DEF Joined
  <2>6. Joined(k, flat[k])
    BY <2>4, <2>5
  <2> QED BY <2>1, <2>6
<1> HIDE DEF Joined
<1> QED BY <1>2, <1>3

\* A subsequence keeps the order.
LEMMA ThoseKeepOrder ==
  ASSUME NEW E, NEW S
  PROVE  \A s \in Seq(E) : \A x, y \in S : Ahead(x, y, s) => Ahead(x, y, Those(s, S))
<1> DEFINE X == {s \in Seq(E) : \A x, y \in S : Ahead(x, y, s) => Ahead(x, y, Those(s, S))}
<1>1. <<>> \in X
  <2>1. \A x, y : ~Ahead(x, y, <<>>)
    BY EmptySeq, LenProperties DEF Ahead
  <2> QED BY <2>1, EmptySeq
<1>2. ASSUME NEW s \in Seq(E), NEW e \in E, s \in X PROVE Append(s, e) \in X
  <2> DEFINE u == Those(s, S)
             t == Append(s, e)
             v == Those(t, S)
  <2>1. u \in Seq(E) /\ ToSet(u) = ToSet(s) \cap S
    BY ThoseTyped, ThoseInOrder
  <2>2. \A x, y \in S : Ahead(x, y, s) => Ahead(x, y, u)
    BY <1>2
  <2>3. v = IF e \in S THEN Append(u, e) ELSE u
    BY ThoseAppend
  <2>4. t \in Seq(E) /\ \A x, y : Ahead(x, y, t) <=> Ahead(x, y, s) \/ (x \in ToSet(s) /\ y = e)
    BY QueueAppend
  <2> HIDE DEF u, v, t
  <2>5. \A x, y : Ahead(x, y, Append(u, e)) <=> Ahead(x, y, u) \/ (x \in ToSet(u) /\ y = e)
    BY <2>1, QueueAppend
  <2>6. ASSUME NEW x \in S, NEW y \in S, Ahead(x, y, t) PROVE Ahead(x, y, v)
    BY <2>1, <2>2, <2>3, <2>4, <2>5, <2>6
  <2> QED BY <2>4, <2>6 DEF t, v
<1>3. \A s \in Seq(E) : s \in X
  <2> HIDE DEF X
  <2> QED BY <1>1, <1>2, SeqInduction
<1> QED BY <1>3

\* In a list without repetition what is ahead stands further to the front.
LEMMA OnceAhead ==
  ASSUME NEW s, NEW T, Once(s, T), NEW i \in 1 .. Len(s), NEW j \in 1 .. Len(s)
  PROVE  Ahead(s[i], s[j], s) <=> i < j
<1>1. DOMAIN s = 1 .. Len(s) /\ \A a, b \in 1 .. Len(s) : s[a] = s[b] => a = b
  BY LenProperties DEF Once
<1>2. ASSUME Ahead(s[i], s[j], s) PROVE i < j
  <2>1. PICK a \in 1 .. Len(s), b \in 1 .. Len(s) : a < b /\ s[a] = s[i] /\ s[b] = s[j]
    BY <1>1, <1>2 DEF Ahead
  <2> QED BY <1>1, <2>1
<1>3. ASSUME i < j PROVE Ahead(s[i], s[j], s)
  BY <1>1, <1>3 DEF Ahead
<1> QED BY <1>2, <1>3

LEMMA OnceThose ==
  ASSUME NEW s, NEW T, Once(s, T), NEW S
  PROVE  Once(Those(s, S), T \cap S)
<1> DEFINE t == Those(s, S)
<1>1. s \in Seq(T) /\ DOMAIN s = 1 .. Len(s) /\ Len(s) \in Nat
  BY LenProperties DEF Once
<1>2. ToSet(s) = T
  <2>1. \A i \in 1 .. Len(s) : s[i] \in T
    BY <1>1, ElementOfSeq
  <2>2. \A x \in T : \E i \in 1 .. Len(s) : s[i] = x
    BY DEF Once
  <2> QED BY <1>1, <2>1, <2>2 DEF ToSet
<1>3. /\ t \in Seq(T) /\ ToSet(t) = T \cap S
      /\ \A x, y : Ahead(x, y, t) => Ahead(x, y, s)
  BY <1>1, <1>2, ThoseTyped, ThoseInOrder
<1> HIDE DEF t
<1>4. DOMAIN t = 1 .. Len(t) /\ Len(t) \in Nat
  BY <1>3, LenProperties
<1>5. \A i \in 1 .. Len(t) : t[i] \in T \cap S
  BY <1>3, <1>4 DEF ToSet
<1>6. t \in Seq(T \cap S)
  <2> DEFINE U == T \cap S
  <2>1. t = [i \in 1 .. Len(t) |-> t[i]]
    BY <1>3, <1>4
  <2>2. \A i \in 1 .. Len(t) : t[i] \in U
    BY <1>5
  <2> HIDE DEF U
  <2>3. [i \in 1 .. Len(t) |-> t[i]] \in Seq(U)
    BY <1>4, <2>2
  <2> QED BY <2>1, <2>3, Zenon DEF U
<1>7. \A x \in T \cap S : \E i \in 1 .. Len(t) : t[i] = x
  BY <1>3, <1>4 DEF ToSet
<1>8. ASSUME NEW i \in 1 .. Len(t), NEW j \in 1 .. Len(t), t[i] = t[j], i < j PROVE FALSE
  <2>1. Ahead(t[i], t[i], t)
    BY <1>4, <1>8 DEF Ahead
  <2>2. Ahead(t[i], t[i], s) /\ t[i] \in T
    BY <1>3, <1>5, <2>1
  <2>3. PICK a \in 1 .. Len(s) : s[a] = t[i]
    BY <2>2 DEF Once
  <2>4. Ahead(s[a], s[a], s)
    BY <2>2, <2>3
  <2>5. a < a
    BY <2>4, OnceAhead
  <2> QED BY <2>5
<1>9. \A i, j \in 1 .. Len(t) : t[i] = t[j] => i = j
  <2>1. \A i, j \in 1 .. Len(t) : i = j \/ i < j \/ j < i
    BY <1>4
  <2> QED BY <1>8, <2>1
<1> QED BY <1>6, <1>7, <1>9 DEF Once, t

-----------------------------------------------------------------------------
(* Up a tree *)

\* Every number but 0 has a parent, which comes before it.
Upward(c, par) == c \in Nat /\ \A n \in 1 .. c - 1 : par[n] \in 0 .. n - 1

\* up[n] is n and, as long as one gets there through members of G, the parents above.
Climb(c, par, G, up) ==
  up = [n \in 0 .. c - 1 |-> {n} \cup (IF n \in G THEN up[par[n]] ELSE {})]

LEMMA ClimbExists ==
  ASSUME NEW c, NEW par, Upward(c, par), NEW G \in SUBSET (1 .. c - 1)
  PROVE  \E up : Climb(c, par, G, up)
<1> DEFINE One(f, i) == {i} \cup (IF i \in G THEN f[par[i]] ELSE {})
           Upto(n, f) == f = [i \in 0 .. n - 1 |-> One(f, i)]
           N == {k \in Nat : k <= c => \E f : Upto(k, f)}
<1>1. c \in Nat /\ \A n \in 1 .. c - 1 : par[n] \in 0 .. n - 1
  BY DEF Upward
<1>2. 0 \in N
  <2>1. Upto(0, [i \in 0 .. 0 - 1 |-> {}])
    OBVIOUS
  <2> HIDE DEF Upto
  <2> QED BY <2>1
<1>3. ASSUME NEW k \in Nat, k \in N PROVE k + 1 \in N
  <2> SUFFICES ASSUME k + 1 <= c PROVE \E f : Upto(k + 1, f)
    <3> HIDE DEF Upto
    <3> QED OBVIOUS
  <2>1. k <= c
    BY <1>1
  <2>2. PICK f : Upto(k, f)
    <3> HIDE DEF Upto
    <3> QED BY <1>3, <2>1
  <2> DEFINE last == One(f, k)
             g == [i \in 0 .. k + 1 - 1 |-> IF i = k THEN last ELSE f[i]]
  <2> HIDE DEF last
  <2>3. ASSUME NEW i \in 0 .. k PROVE One(g, i) = One(f, i)
    <3>1. i \in G => par[i] \in 0 .. k + 1 - 1 /\ par[i] # k
      BY <1>1, <2>3
    <3>2. i \in G => g[par[i]] = f[par[i]]
      BY <3>1
    <3> HIDE DEF g
    <3> QED BY <3>2
  <2>4. ASSUME NEW i \in 0 .. k PROVE g[i] = One(g, i)
    <3>1. CASE i = k
      <4>1. g[i] = last
        BY <3>1
      <4> HIDE DEF g, One
      <4> QED BY <2>3, <3>1, <4>1 DEF last
    <3>2. CASE i # k
      <4>1. g[i] = f[i] /\ i \in 0 .. k - 1
        BY <3>2
      <4> HIDE DEF g, One
      <4>2. f[i] = One(f, i)
        BY <2>2, <4>1
      <4> QED BY <2>3, <4>1, <4>2
    <3> QED BY <3>1, <3>2
  <2>5. g = [i \in 0 .. k + 1 - 1 |-> g[i]] /\ k + 1 - 1 = k
    OBVIOUS
  <2> HIDE DEF g, One
  <2>6. Upto(k + 1, g)
    BY <2>4, <2>5
  <2> HIDE DEF Upto
  <2> QED BY <2>6
<1>4. \A k \in Nat : k \in N
  <2> HIDE DEF N
  <2> QED BY <1>2, <1>3, SetInduction
<1>5. PICK f : Upto(c, f)
  <2> HIDE DEF Upto
  <2> QED BY <1>1, <1>4
<1> QED BY <1>5 DEF Climb

LEMMA ClimbIs ==
  ASSUME NEW c, NEW par, NEW G, NEW up, Climb(c, par, G, up)
  PROVE  \A n \in 0 .. c - 1 : up[n] = {n} \cup (IF n \in G THEN up[par[n]] ELSE {})
BY DEF Climb

\* From a member of G one gets to its parent.
LEMMA ClimbOn ==
  ASSUME NEW c, NEW par, Upward(c, par), NEW G \in SUBSET (1 .. c - 1),
         NEW up, Climb(c, par, G, up)
  PROVE  \A n \in 0 .. c - 1 : up[n] \subseteq 0 .. n /\ \A x \in up[n] \cap G : par[x] \in up[n]
<1> DEFINE S == {n \in 0 .. c - 1 : up[n] \subseteq 0 .. n /\ \A x \in up[n] \cap G : par[x] \in up[n]}
<1>1. c \in Nat /\ \A n \in 1 .. c - 1 : par[n] \in 0 .. n - 1
  BY DEF Upward
<1>2. ASSUME NEW n \in 0 .. c - 1, \A m \in 0 .. n - 1 : m \in S PROVE n \in S
  <2>1. up[n] = {n} \cup (IF n \in G THEN up[par[n]] ELSE {})
    BY ClimbIs
  <2>2. CASE n \in G
    <3>1. par[n] \in 0 .. n - 1 /\ n \in 0 .. n
      BY <1>1, <2>2
    <3>2. up[par[n]] \subseteq 0 .. par[n] /\ \A x \in up[par[n]] \cap G : par[x] \in up[par[n]]
      BY <1>2, <3>1
    <3>3. par[n] \in up[par[n]] /\ 0 .. par[n] \subseteq 0 .. n
      <4>1. par[n] \in 0 .. c - 1
        BY <1>1, <3>1
      <4> QED BY <3>1, <4>1, ClimbIs
    <3> QED BY <2>1, <2>2, <3>1, <3>2, <3>3
  <2>3. CASE n \notin G
    BY <2>1, <2>3
  <2> QED BY <2>2, <2>3
<1> HIDE DEF S
<1>3. 0 .. c - 1 \subseteq S
  BY <1>1, <1>2, StrongInduction
<1> QED BY <1>3 DEF S

\* With nothing in the way: up[n] is n and all that is above it.
Lineage(c, par, up) == Upward(c, par) /\ Climb(c, par, 1 .. c - 1, up)

LEMMA LineageExists ==
  ASSUME NEW c, NEW par, Upward(c, par)
  PROVE  \E up : Lineage(c, par, up)
BY ClimbExists DEF Lineage

\* The numbers above one another: up[x] is part of
\* up[n] when x is; below n there is a way down from each of them; and two
\* different ones have different parents.
LEMMA LineageIs ==
  ASSUME NEW c, NEW par, NEW up, Lineage(c, par, up), NEW n \in 0 .. c - 1
  PROVE  /\ n \in up[n] /\ up[n] \subseteq 0 .. n
         /\ \A x \in up[n] : up[x] \subseteq up[n]
         /\ \A x \in up[n] : x = n \/ \E y \in up[n] \ {0} : par[y] = x
         /\ \A x, y \in up[n] \ {0} : par[x] = par[y] => x = y
<1> DEFINE Good(m) == /\ \A x \in up[m] : up[x] \subseteq up[m]
                      /\ \A x \in up[m] : x = m \/ \E y \in up[m] \ {0} : par[y] = x
                      /\ \A x, y \in up[m] \ {0} : par[x] = par[y] => x = y
           S == {m \in 0 .. c - 1 : Good(m)}
<1>1. c \in Nat /\ \A m \in 1 .. c - 1 : par[m] \in 0 .. m - 1
  BY DEF Upward, Lineage
<1> DEFINE G == 1 .. c - 1
<1>6. \A m \in 0 .. c - 1 : up[m] = {m} \cup (IF m \in G THEN up[par[m]] ELSE {})
  BY DEF Climb, Lineage
<1>2. \A m \in 0 .. c - 1 : m \in up[m] /\ up[m] \subseteq 0 .. m
  <2>1. Upward(c, par) /\ Climb(c, par, G, up) /\ G \in SUBSET (1 .. c - 1)
    BY DEF Lineage
  <2> HIDE DEF G
  <2> QED BY <1>6, <2>1, ClimbOn
<1>3. ASSUME NEW m \in 0 .. c - 1, \A k \in 0 .. m - 1 : k \in S PROVE Good(m)
  <2>1. up[m] = {m} \cup (IF m \in 1 .. c - 1 THEN up[par[m]] ELSE {})
    BY <1>6
  <2>2. CASE m = 0
    <3>1. up[m] = {m}
      BY <2>1, <2>2
    <3> QED BY <2>2, <3>1
  <2>3. CASE m # 0
    <3> DEFINE q == par[m]
    <3>1. q \in 0 .. m - 1 /\ m \in 1 .. c - 1 /\ q \in 0 .. c - 1
      BY <1>1, <2>3
    <3>2. Good(q) /\ up[m] = {m} \cup up[q] /\ q \in up[q] /\ up[q] \subseteq 0 .. q
      BY <1>2, <1>3, <2>1, <3>1
    <3>3. \A x \in up[m] : up[x] \subseteq up[m]
      BY <3>2
    <3>4. ASSUME NEW x \in up[m], x # m PROVE \E y \in up[m] \ {0} : par[y] = x
      <4>1. CASE x = q
        BY <2>3, <3>2, <4>1
      <4>2. CASE x # q
        <5>1. x \in up[q]
          BY <3>2, <3>4
        <5>2. \E y \in up[q] \ {0} : par[y] = x
          <6> HIDE DEF q
          <6> QED BY <3>2, <4>2, <5>1
        <5> QED BY <3>2, <5>2
      <4> QED BY <4>1, <4>2
    <3>5. \A x \in up[q] \ {0} : par[x] # q
      <4> SUFFICES ASSUME NEW x \in up[q] \ {0}, par[x] = q PROVE FALSE
        OBVIOUS
      <4>1. x \in 0 .. q /\ x # 0 /\ x \in 1 .. c - 1
        <5> HIDE DEF q
        <5> QED BY <1>1, <3>1, <3>2
      <4>2. q \in 0 .. x - 1
        BY <1>1, <4>1
      <4> HIDE DEF q
      <4> QED BY <3>1, <4>1, <4>2
    <3>6. \A x, y \in up[m] \ {0} : par[x] = par[y] => x = y
      BY <3>2, <3>5
    <3> HIDE DEF q
    <3> QED BY <3>3, <3>4, <3>6
  <2> QED BY <2>2, <2>3
<1>4. \A m \in 0 .. c - 1 : (\A k \in 0 .. m - 1 : k \in S) => m \in S
  <2> HIDE DEF Good
  <2> QED BY <1>3
<1> HIDE DEF Good
<1>5. n \in S
  <2> HIDE DEF S
  <2> QED BY <1>1, <1>4, StrongInduction
<1> QED BY <1>2, <1>5 DEF Good

\* There is one such function.
LEMMA AncestorsAgree ==
  ASSUME NEW c, NEW par, NEW up, Lineage(c, par, up),
         NEW d, NEW par2, NEW up2, Lineage(d, par2, up2),
         d <= c, \A n \in 1 .. d - 1 : par2[n] = par[n]
  PROVE  \A n \in 0 .. d - 1 : up2[n] = up[n]
<1> DEFINE S == {n \in 0 .. d - 1 : up2[n] = up[n]}
<1>1. c \in Nat /\ d \in Nat /\ \A m \in 1 .. c - 1 : par[m] \in 0 .. m - 1
  BY DEF Lineage, Upward
<1>2. ASSUME NEW n \in 0 .. d - 1, \A m \in 0 .. n - 1 : m \in S PROVE n \in S
  <2>1. n \in 0 .. c - 1 /\ (n \in 1 .. d - 1 <=> n # 0) /\ (n \in 1 .. c - 1 <=> n # 0)
    BY <1>1
  <2>2. /\ up[n] = {n} \cup (IF n # 0 THEN up[par[n]] ELSE {})
        /\ up2[n] = {n} \cup (IF n # 0 THEN up2[par2[n]] ELSE {})
    BY <2>1 DEF Climb, Lineage
  <2>3. n # 0 => par2[n] = par[n] /\ par[n] \in 0 .. n - 1
    BY <1>1, <2>1
  <2>4. n # 0 => up2[par[n]] = up[par[n]]
    BY <1>2, <2>3
  <2> QED BY <2>2, <2>3, <2>4
<1> HIDE DEF S
<1>3. 0 .. d - 1 \subseteq S
  BY <1>1, <1>2, StrongInduction
<1> QED BY <1>3 DEF S
-----------------------------------------------------------------------------
(* Sorting *)

\* s has at each place the element that as many come before.
ByRank(s, B, R) ==
  /\ DOMAIN s = 1 .. Cardinality(B)
  /\ \A i \in DOMAIN s : \A m \in B : Cardinality({k \in B : <<k, m>> \in R}) = i - 1 =>
       s[i] \in B /\ Cardinality({k \in B : <<k, s[i]>> \in R}) = i - 1

\* s lists B, what comes first in R first.
InRow(s, B, R) ==
  /\ \A i \in DOMAIN s : s[i] \in B
  /\ \A x \in B : \E i \in DOMAIN s : s[i] = x
  /\ \A i, j \in DOMAIN s : <<s[i], s[j]>> \in R <=> i < j

\* Sorting by the number of elements that come before.
LEMMA Ranking ==
  ASSUME NEW B, IsFiniteSet(B), NEW R,
         \A x \in B : <<x, x>> \notin R,
         \A x, y \in B : x = y \/ <<x, y>> \in R \/ <<y, x>> \in R,
         \A x, y, z \in B : <<x, y>> \in R /\ <<y, z>> \in R => <<x, z>> \in R,
         NEW s, ByRank(s, B, R)
  PROVE  Cardinality(B) \in Nat /\ InRow(s, B, R)
<1> DEFINE c == Cardinality(B)
           First(x) == {k \in B : <<k, x>> \in R}
           rank == [x \in B |-> Cardinality(First(x))]
<1>1. c \in Nat
  BY FS_CardinalityType
<1>2. ASSUME NEW x \in B PROVE IsFiniteSet(First(x)) /\ Cardinality(First(x)) \in 0 .. c - 1
  <2>1. First(x) \in SUBSET (B \ {x})
    OBVIOUS
  <2>2. IsFiniteSet(B \ {x}) /\ Cardinality(B \ {x}) = c - 1
    BY FS_RemoveElement
  <2> HIDE DEF First
  <2>3. IsFiniteSet(First(x)) /\ Cardinality(First(x)) <= Cardinality(B \ {x})
    BY <2>1, <2>2, FS_Subset
  <2>4. Cardinality(First(x)) \in Nat
    BY <2>3, FS_CardinalityType
  <2> QED BY <1>1, <2>2, <2>3, <2>4
<1>3. ASSUME NEW x \in B, NEW y \in B, <<x, y>> \in R
      PROVE  Cardinality(First(x)) < Cardinality(First(y))
  <2>1. First(x) \in SUBSET First(y) /\ x \in First(y) /\ x \notin First(x)
    BY <1>3
  <2> HIDE DEF First
  <2>2. /\ Cardinality(First(x)) <= Cardinality(First(y))
        /\ Cardinality(First(y)) = Cardinality(First(x)) => First(y) = First(x)
    BY <1>2, <2>1, FS_Subset
  <2>3. Cardinality(First(x)) \in Nat /\ Cardinality(First(y)) \in Nat
    BY <1>2, FS_CardinalityType
  <2> QED BY <2>1, <2>2, <2>3
<1>4. rank \in [B -> 0 .. c - 1] /\ \A x \in B : rank[x] = Cardinality(First(x))
  BY <1>2
<1>5. \A x, y \in B : rank[x] \in Nat /\ (<<x, y>> \in R <=> rank[x] < rank[y])
  <2> HIDE DEF rank, First
  <2>1. \A x \in B : rank[x] \in Nat
    BY <1>1, <1>4
  <2>2. \A x, y \in B : <<x, y>> \in R => rank[x] < rank[y]
    BY <1>3, <1>4
  <2> SUFFICES ASSUME NEW x \in B, NEW y \in B PROVE <<x, y>> \in R <=> rank[x] < rank[y]
    BY <2>1
  <2>3. x = y \/ <<x, y>> \in R \/ <<y, x>> \in R
    OBVIOUS
  <2>4. rank[x] \in Nat /\ rank[y] \in Nat
    BY <2>1
  <2>5. (<<x, y>> \in R => rank[x] < rank[y]) /\ (<<y, x>> \in R => rank[y] < rank[x])
    BY <2>2
  <2> QED BY <2>3, <2>4, <2>5
<1>6. \A x, y \in B : rank[x] = rank[y] => x = y
  <2> HIDE DEF rank
  <2> QED BY <1>5
<1>7. rank \in Surjection(B, 0 .. c - 1)
  <2> HIDE DEF rank
  <2>1. rank \in Injection(B, 0 .. c - 1)
    BY <1>4, <1>6 DEF Injection, IsInjective
  <2>2. IsFiniteSet(0 .. c - 1) /\ Cardinality(0 .. c - 1) = c
    <3>1. 0 \in Int /\ c - 1 \in Int
      BY <1>1
    <3>2. IsFiniteSet(0 .. c - 1) /\ Cardinality(0 .. c - 1) = IF 0 > c - 1 THEN 0 ELSE (c - 1) - 0 + 1
      BY <3>1, FS_Interval
    <3>3. (IF 0 > c - 1 THEN 0 ELSE (c - 1) - 0 + 1) = c
      BY <1>1
    <3> QED BY <3>2, <3>3
  <2>3. Cardinality(B) = Cardinality(0 .. c - 1) <=> rank \in Surjection(B, 0 .. c - 1)
    BY <2>1, <2>2, FS_Injection
  <2> QED BY <2>2, <2>3
<1>8. ASSUME NEW i \in 1 .. c PROVE s[i] \in B /\ rank[s[i]] = i - 1
  <2>1. i - 1 \in 0 .. c - 1
    BY <1>1
  <2>2. PICK m \in B : rank[m] = i - 1
    <3> HIDE DEF rank
    <3> QED BY <1>7, <2>1 DEF Surjection
  <2>3. Cardinality({k \in B : <<k, m>> \in R}) = i - 1
    BY <2>2
  <2>4. s[i] \in B /\ Cardinality({k \in B : <<k, s[i]>> \in R}) = i - 1
    BY <2>3 DEF ByRank
  <2> QED BY <2>4
<1> HIDE DEF rank
<1>9. ASSUME NEW x \in B PROVE rank[x] + 1 \in 1 .. c /\ s[rank[x] + 1] = x
  <2>1. rank[x] \in 0 .. c - 1
    BY <1>4
  <2>2. rank[x] + 1 \in 1 .. c /\ (rank[x] + 1) - 1 = rank[x]
    BY <1>1, <2>1
  <2> QED BY <1>6, <1>8, <2>2
<1>10. \A i, j \in 1 .. c : <<s[i], s[j]>> \in R <=> i < j
  <2> SUFFICES ASSUME NEW i \in 1 .. c, NEW j \in 1 .. c PROVE <<s[i], s[j]>> \in R <=> i < j
    OBVIOUS
  <2>1. s[i] \in B /\ rank[s[i]] = i - 1 /\ s[j] \in B /\ rank[s[j]] = j - 1
    BY <1>8
  <2>2. <<s[i], s[j]>> \in R <=> rank[s[i]] < rank[s[j]]
    BY <1>5, <2>1
  <2> QED BY <1>1, <2>1, <2>2
<1>11. DOMAIN s = 1 .. c
  BY DEF ByRank
<1> QED BY <1>1, <1>8, <1>9, <1>10, <1>11 DEF InRow

-----------------------------------------------------------------------------
(* Places of a tree: the paths of alternatives from the root *)

Alternatives == Nat \ {0}
PlaceSet == Seq(Alternatives)

\* p is above q or q itself, element by element.
LEMMA PrefixIs ==
  ASSUME NEW p \in PlaceSet, NEW q \in PlaceSet
  PROVE  /\ Len(p) \in Nat /\ Len(q) \in Nat
         /\ IsPrefix(p, q) <=> Len(p) <= Len(q) /\ \A i \in 1 .. Len(p) : p[i] = q[i]
<1>1. /\ Len(p) \in Nat /\ Len(q) \in Nat
      /\ \A i \in 1 .. Len(p) : p[i] \in Alternatives
      /\ \A i \in 1 .. Len(q) : q[i] \in Alternatives
  BY LenProperties, ElementOfSeq DEF PlaceSet
<1>2. SubSeq(p, 1, Len(p)) = p
  BY SubSeqFull DEF PlaceSet
<1> SUFFICES ASSUME Len(p) <= Len(q)
             PROVE  SubSeq(q, 1, Len(p)) = p <=> \A i \in 1 .. Len(p) : p[i] = q[i]
  BY <1>1, <1>2 DEF IsPrefix
<1> DEFINE s == SubSeq(q, 1, Len(p))
<1>3. /\ s \in PlaceSet /\ Len(s) = Len(p)
      /\ \A i \in 1 .. Len(p) : s[i] = q[i]
  <2>1. \A i \in 1 .. Len(p) : q[i] \in Alternatives
    BY <1>1
  <2>2. /\ SubSeq(q, 1, Len(p)) \in Seq(Alternatives)
        /\ Len(SubSeq(q, 1, Len(p))) = IF 1 <= Len(p) THEN Len(p) - 1 + 1 ELSE 0
        /\ \A i \in 1 .. Len(p) - 1 + 1 : SubSeq(q, 1, Len(p))[i] = q[1 + i - 1]
    BY <1>1, <2>1, SubSeqProperties
  <2> QED BY <1>1, <2>2 DEF PlaceSet
<1>4. (\A i \in 1 .. Len(p) : p[i] = q[i]) => s = p
  <2> HIDE DEF s
  <2> QED BY <1>3, SeqEqual DEF PlaceSet
<1> HIDE DEF s
<1>5. s = p => \A i \in 1 .. Len(p) : p[i] = q[i]
  BY <1>3
<1> QED BY <1>4, <1>5 DEF s

LEMMA SamePlace ==
  ASSUME NEW p \in PlaceSet, NEW q \in PlaceSet, Len(p) = Len(q),
         \A i \in 1 .. Len(p) : p[i] = q[i]
  PROVE  p = q
BY SeqEqual DEF PlaceSet

\* To be above is an order, and what is above a place is a line.
LEMMA PrefixOrder ==
  /\ \A p \in PlaceSet : IsPrefix(p, p) /\ IsPrefix(<<>>, p)
  /\ \A p, q \in PlaceSet : IsPrefix(p, q) /\ IsPrefix(q, p) => p = q
  /\ \A p, q, s \in PlaceSet : IsPrefix(p, q) /\ IsPrefix(q, s) => IsPrefix(p, s)
  /\ \A p, q, s \in PlaceSet : IsPrefix(p, s) /\ IsPrefix(q, s) => IsPrefix(p, q) \/ IsPrefix(q, p)
<1>1. <<>> \in PlaceSet /\ Len(<<>>) = 0
  BY EmptySeq DEF PlaceSet
<1>2. \A p \in PlaceSet : IsPrefix(p, p) /\ IsPrefix(<<>>, p)
  BY <1>1, PrefixIs
<1>3. ASSUME NEW p \in PlaceSet, NEW q \in PlaceSet, IsPrefix(p, q), IsPrefix(q, p)
      PROVE  p = q
  <2>1. Len(p) = Len(q) /\ \A i \in 1 .. Len(p) : p[i] = q[i]
    BY <1>3, PrefixIs
  <2> QED BY <2>1, SamePlace
<1>4. ASSUME NEW p \in PlaceSet, NEW q \in PlaceSet, NEW s \in PlaceSet,
             IsPrefix(p, q), IsPrefix(q, s)
      PROVE  IsPrefix(p, s)
  <2>1. /\ Len(p) \in Nat /\ Len(q) \in Nat /\ Len(s) \in Nat
        /\ Len(p) <= Len(q) /\ \A i \in 1 .. Len(p) : p[i] = q[i]
        /\ Len(q) <= Len(s) /\ \A i \in 1 .. Len(q) : q[i] = s[i]
    BY <1>4, PrefixIs
  <2>2. Len(p) <= Len(s) /\ \A i \in 1 .. Len(p) : p[i] = s[i]
    BY <2>1
  <2> QED BY <2>2, PrefixIs
<1>5. ASSUME NEW p \in PlaceSet, NEW q \in PlaceSet, NEW s \in PlaceSet,
             IsPrefix(p, s), IsPrefix(q, s)
      PROVE  IsPrefix(p, q) \/ IsPrefix(q, p)
  <2>1. /\ Len(p) \in Nat /\ Len(q) \in Nat /\ Len(s) \in Nat
        /\ Len(p) <= Len(s) /\ \A i \in 1 .. Len(p) : p[i] = s[i]
        /\ Len(q) <= Len(s) /\ \A i \in 1 .. Len(q) : q[i] = s[i]
    BY <1>5, PrefixIs
  <2>2. \/ Len(p) <= Len(q) /\ \A i \in 1 .. Len(p) : p[i] = q[i]
        \/ Len(q) <= Len(p) /\ \A i \in 1 .. Len(q) : q[i] = p[i]
    BY <2>1
  <2> QED BY <2>2, PrefixIs
<1> QED BY <1>2, <1>3, <1>4, <1>5

\* The place of a child.
LEMMA AppendIs ==
  ASSUME NEW p \in PlaceSet, NEW a \in Alternatives
  PROVE  /\ Append(p, a) \in PlaceSet /\ Append(p, a) # <<>> /\ Append(p, a) # p
         /\ Len(Append(p, a)) = Len(p) + 1 /\ Append(p, a)[Len(p) + 1] = a
         /\ Front(Append(p, a)) = p /\ Last(Append(p, a)) = a
         /\ IsPrefix(p, Append(p, a)) /\ ~IsPrefix(Append(p, a), p)
         /\ \A q \in PlaceSet : IsPrefix(q, Append(p, a)) <=> q = Append(p, a) \/ IsPrefix(q, p)
<1> DEFINE s == Append(p, a)
<1>1. /\ s \in PlaceSet /\ s # <<>> /\ Len(s) = Len(p) + 1
      /\ \A i \in 1 .. Len(p) : s[i] = p[i]
      /\ s[Len(p) + 1] = a
  BY AppendProperties DEF PlaceSet
<1>2. Len(p) \in Nat
  BY LenProperties DEF PlaceSet
<1>3. Last(s) = a
  BY <1>1 DEF Last
<1> HIDE DEF s
<1>4. Front(s) = p
  <2>1. Front(s) = SubSeq(s, 1, Len(p))
    <3>1. Len(s) - 1 = Len(p)
      BY <1>1, <1>2
    <3> QED BY <3>1 DEF Front
  <2>2. \A i \in 1 .. Len(p) : s[i] \in Alternatives
    BY <1>1, <1>2, ElementOfSeq DEF PlaceSet
  <2>3. /\ SubSeq(s, 1, Len(p)) \in Seq(Alternatives)
        /\ Len(SubSeq(s, 1, Len(p))) = IF 1 <= Len(p) THEN Len(p) - 1 + 1 ELSE 0
        /\ \A i \in 1 .. Len(p) - 1 + 1 : SubSeq(s, 1, Len(p))[i] = s[1 + i - 1]
    BY <1>2, <2>2, SubSeqProperties
  <2> DEFINE f == SubSeq(s, 1, Len(p))
  <2>4. f \in PlaceSet /\ Len(f) = Len(p) /\ \A i \in 1 .. Len(f) : f[i] = p[i]
    BY <1>1, <1>2, <2>3 DEF PlaceSet
  <2> HIDE DEF f
  <2>5. f = p
    BY <2>4, SamePlace
  <2> QED BY <2>1, <2>5 DEF f
<1>5. IsPrefix(p, s) /\ ~IsPrefix(s, p) /\ s # p
  <2>1. IsPrefix(p, s) /\ ~IsPrefix(s, p)
    BY <1>1, <1>2, PrefixIs
  <2>2. IsPrefix(p, p)
    BY PrefixOrder
  <2> QED BY <2>1, <2>2
<1>6. ASSUME NEW q \in PlaceSet, IsPrefix(q, s), q # s
      PROVE  IsPrefix(q, p)
  <2>1. Len(q) \in Nat /\ Len(q) <= Len(s) /\ \A i \in 1 .. Len(q) : q[i] = s[i]
    BY <1>1, <1>6, PrefixIs
  <2>2. Len(q) # Len(s)
    BY <1>1, <1>6, <2>1, SamePlace
  <2>3. Len(q) <= Len(p) /\ \A i \in 1 .. Len(q) : q[i] = p[i]
    BY <1>1, <1>2, <2>1, <2>2
  <2> QED BY <2>3, PrefixIs
<1>7. ASSUME NEW q \in PlaceSet, q = s \/ IsPrefix(q, p)
      PROVE  IsPrefix(q, s)
  BY <1>1, <1>5, <1>7, PrefixOrder
<1> QED BY <1>1, <1>3, <1>4, <1>5, <1>6, <1>7 DEF s

LEMMA AppendSame ==
  ASSUME NEW p \in PlaceSet, NEW q \in PlaceSet, NEW a \in Alternatives, NEW b \in Alternatives,
         Append(p, a) = Append(q, b)
  PROVE  p = q /\ a = b
<1>1. Front(Append(p, a)) = p /\ Last(Append(p, a)) = a
  BY AppendIs
<1>2. Front(Append(q, b)) = q /\ Last(Append(q, b)) = b
  BY AppendIs
<1> QED BY <1>1, <1>2

\* Every place but the root's is that of a child.
LEMMA FrontIs ==
  ASSUME NEW p \in PlaceSet, p # <<>>
  PROVE  /\ Front(p) \in PlaceSet /\ Last(p) \in Alternatives /\ Append(Front(p), Last(p)) = p
         /\ Len(p) = Len(Front(p)) + 1
<1>1. PICK q \in PlaceSet, a \in Alternatives : p = Append(q, a)
  BY SequenceEmptyOrAppend DEF PlaceSet
<1> QED BY <1>1, AppendIs

\* The first step from a place to one below.
LEMMA StepDown ==
  ASSUME NEW p \in PlaceSet, NEW q \in PlaceSet, IsPrefix(p, q), p # q
  PROVE  /\ Len(p) < Len(q)
         /\ q[Len(p) + 1] \in Alternatives /\ IsPrefix(Append(p, q[Len(p) + 1]), q)
<1>1. /\ Len(p) \in Nat /\ Len(q) \in Nat /\ Len(p) <= Len(q)
      /\ \A i \in 1 .. Len(p) : p[i] = q[i]
  BY PrefixIs
<1>2. Len(p) # Len(q)
  BY <1>1, SamePlace
<1>3. Len(p) + 1 \in 1 .. Len(q)
  BY <1>1, <1>2
<1>4. q[Len(p) + 1] \in Alternatives
  BY <1>3, ElementOfSeq DEF PlaceSet
<1> DEFINE s == Append(p, q[Len(p) + 1])
<1>5. /\ s \in PlaceSet /\ Len(s) = Len(p) + 1
      /\ \A i \in 1 .. Len(p) : s[i] = p[i]
      /\ s[Len(p) + 1] = q[Len(p) + 1]
  BY <1>4, AppendProperties DEF PlaceSet
<1> HIDE DEF s
<1>6. Len(s) <= Len(q) /\ \A i \in 1 .. Len(s) : s[i] = q[i]
  BY <1>1, <1>3, <1>5
<1>7. IsPrefix(s, q)
  BY <1>5, <1>6, PrefixIs
<1> QED BY <1>1, <1>3, <1>4, <1>7 DEF s
=============================================================================
