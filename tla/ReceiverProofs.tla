---------------------------- MODULE ReceiverProofs ----------------------------
(***************************************************************************)
(* What happens to the bytes of a connection: doRead cuts them where the   *)
(* solver put its messages together, and the builder makes of the messages *)
(* the tree the solver explored.                                           *)
(*                                                                         *)
(* The first part holds for every number and size of messages, every       *)
(* MSG_PER_BUFFER and every way the bytes arrive in.  Laid describes the   *)
(* stream by the places its messages start at; it is proved of FlattenSeq  *)
(* by induction over the number of messages.  Cut says how far doRead has  *)
(* come, in terms of those places.                                         *)
(*                                                                         *)
(* The second part holds for every number of nodes, children and           *)
(* identifiers.  The builder drives the tree as the tree's specification   *)
(* says, and its two maps and the tree tell the same story.  Each relies   *)
(* on the other: a message is placed at a node nobody has reported because *)
(* the maps are exact, and the maps stay exact because the tree never      *)
(* moves a node or takes a report back.  BuilderInv holds both, and what   *)
(* is known of the message between two steps.                              *)
(***************************************************************************)
EXTENDS TreeBuilder, Framing, Induction

\* The theorems about the tree, for the tree this builder drives.
Proved == INSTANCE NodeTreeProofs

-----------------------------------------------------------------------------
(* The stream *)

\* The bytes of message m of size n.
LEMMA MessageBytes ==
  ASSUME NEW m, NEW n \in Nat
  PROVE  /\ Message(m, n) \in Seq([msg : {m}, at : Int, value : Int])
         /\ Len(Message(m, n)) = FieldSize + n
         /\ \A i \in 1 .. FieldSize + n :
              Message(m, n)[i] = [msg |-> m, at |-> i - FieldSize,
                value |-> IF i <= FieldSize THEN (n \div Weight[i]) % 256 ELSE 0]
<1> DEFINE B == [msg : {m}, at : Int, value : Int]
           v(i) == (n \div Weight[i]) % 256
           field == [i \in 1 .. 4 |-> [msg |-> m, at |-> i - 4, value |-> v(i)]]
           body == [i \in 1 .. n |-> [msg |-> m, at |-> i, value |-> 0]]
<1>1. /\ SizeField(m, n) = field /\ Body(m, n) = body /\ FieldSize = 4
  BY DEF SizeField, Body, FieldSize
<1>2. \A i \in 1 .. 4 : v(i) \in Int
  <2>1. \A w \in Nat \ {0} : (n \div w) % 256 \in Int
    OBVIOUS
  <2>2. \A i \in 1 .. 4 : Weight[i] \in Nat \ {0}
    BY DEF Weight
  <2> QED BY <2>1, <2>2
<1> HIDE DEF v
<1>3. field \in Seq(B) /\ Len(field) = 4
  <2>1. \A i \in 1 .. 4 : [msg |-> m, at |-> i - 4, value |-> v(i)] \in B
    BY <1>2
  <2> HIDE DEF B
  <2>2. field \in [1 .. 4 -> B]
    BY <2>1
  <2> QED BY <2>2
<1>4. body \in Seq(B) /\ Len(body) = n
  <2>1. \A i \in 1 .. n : [msg |-> m, at |-> i, value |-> 0] \in B
    OBVIOUS
  <2> HIDE DEF B
  <2>2. body \in [1 .. n -> B] /\ DOMAIN body = 1 .. n
    BY <2>1
  <2> HIDE DEF body
  <2>3. body \in Seq(B)
    BY <2>2
  <2> QED BY <2>2, <2>3
<1>5. /\ Message(m, n) \in Seq(B) /\ Len(Message(m, n)) = 4 + n
      /\ \A i \in 1 .. 4 + n : Message(m, n)[i] = IF i <= 4 THEN field[i] ELSE body[i - 4]
  <2> HIDE DEF field, body, B
  <2>1. Message(m, n) = field \o body
    BY <1>1 DEF Message
  <2>2. /\ field \o body \in Seq(B) /\ Len(field \o body) = 4 + n
        /\ \A i \in 1 .. 4 + n : (field \o body)[i] = IF i <= 4 THEN field[i] ELSE body[i - 4]
    <3>1. /\ field \o body \in Seq(B) /\ Len(field \o body) = Len(field) + Len(body)
          /\ \A i \in 1 .. Len(field) + Len(body) :
               (field \o body)[i] = IF i <= Len(field) THEN field[i] ELSE body[i - Len(field)]
      BY <1>3, <1>4, ConcatProperties
    <3> QED BY <1>3, <1>4, <3>1
  <2> QED BY <2>1, <2>2
<1>6. ASSUME NEW i \in 1 .. 4 + n
      PROVE  Message(m, n)[i] = [msg |-> m, at |-> i - 4, value |-> IF i <= 4 THEN v(i) ELSE 0]
  <2>1. CASE i <= 4
    <3>1. i \in 1 .. 4
      BY <2>1
    <3> QED BY <1>5, <2>1, <3>1
  <2>2. CASE i > 4
    <3>1. i - 4 \in 1 .. n /\ ~(i <= 4)
      BY <2>2
    <3>2. Message(m, n)[i] = body[i - 4]
      BY <1>5, <3>1
    <3>3. body[i - 4] = [msg |-> m, at |-> i - 4, value |-> 0]
      BY <3>1
    <3> QED BY <3>1, <3>2, <3>3
  <2> QED BY <2>1, <2>2
<1> QED BY <1>1, <1>5, <1>6 DEF v

Bytes == [msg : Nat, at : Int, value : Int]

\* s is the first n messages of the sizes given, one after the other; before
\* message m come where[m] bytes.
Laid(s, size, where, n) ==
  /\ s \in Seq(Bytes)
  /\ where \in [1 .. n + 1 -> Nat] /\ where[1] = 0 /\ where[n + 1] = Len(s)
  /\ \A m \in 1 .. n :
       /\ where[m + 1] = where[m] + FieldSize + size[m]
       /\ \A i \in 1 .. FieldSize + size[m] : s[where[m] + i] = Message(m, size[m])[i]
  /\ \A i \in 1 .. Len(s) : \E m \in 1 .. n : where[m] < i /\ i <= where[m + 1]
  /\ \A m, k \in 1 .. n + 1 : m <= k => where[m] <= where[k]

LEMMA LaidNone == \A size : Laid(<<>>, size, [m \in 1 .. 1 |-> 0], 0)
<1>1. <<>> \in Seq(Bytes) /\ Len(<<>>) = 0
  BY EmptySeq
<1> QED BY <1>1 DEF Laid

LEMMA LaidMore ==
  ASSUME NEW n \in Nat, NEW size, \A m \in 1 .. n + 1 : size[m] \in Nat,
         NEW s, NEW where, Laid(s, size, where, n)
  PROVE  Laid(s \o Message(n + 1, size[n + 1]), size,
              [m \in 1 .. n + 2 |-> IF m = n + 2 THEN Len(s) + FieldSize + size[n + 1] ELSE where[m]],
              n + 1)
<1> DEFINE c == size[n + 1]
           new == Message(n + 1, c)
           t == s \o new
           w == [m \in 1 .. n + 2 |-> IF m = n + 2 THEN Len(s) + FieldSize + c ELSE where[m]]
<1>1. /\ new \in Seq(Bytes) /\ Len(new) = FieldSize + c /\ FieldSize = 4 /\ c \in Nat
  <2>0. c \in Nat
    BY n + 1 \in 1 .. n + 1
  <2>1. new \in Seq([msg : {n + 1}, at : Int, value : Int]) /\ Len(new) = FieldSize + c
    <3> HIDE DEF c
    <3> QED BY <2>0, MessageBytes
  <2>2. [msg : {n + 1}, at : Int, value : Int] \subseteq Bytes
    BY DEF Bytes
  <2>3. new \in Seq(Bytes)
    <3> HIDE DEF new
    <3> QED BY <2>1, <2>2, SeqMonotonic
  <2> QED BY <2>0, <2>1, <2>3 DEF FieldSize
<1>2. /\ s \in Seq(Bytes) /\ Len(s) \in Nat
      /\ where \in [1 .. n + 1 -> Nat] /\ where[1] = 0 /\ where[n + 1] = Len(s)
      /\ \A m \in 1 .. n : where[m + 1] = where[m] + FieldSize + size[m]
      /\ \A m \in 1 .. n : \A i \in 1 .. FieldSize + size[m] :
           s[where[m] + i] = Message(m, size[m])[i]
      /\ \A i \in 1 .. Len(s) : \E m \in 1 .. n : where[m] < i /\ i <= where[m + 1]
      /\ \A m, k \in 1 .. n + 1 : m <= k => where[m] <= where[k]
  BY LenProperties DEF Laid
<1> HIDE DEF new, c
<1>3. /\ t \in Seq(Bytes) /\ Len(t) = Len(s) + 4 + c
      /\ \A i \in 1 .. Len(s) : t[i] = s[i]
      /\ \A i \in 1 .. 4 + c : t[Len(s) + i] = new[i]
  <2>1. /\ t \in Seq(Bytes) /\ Len(t) = Len(s) + Len(new)
        /\ \A i \in 1 .. Len(s) + Len(new) :
             t[i] = IF i <= Len(s) THEN s[i] ELSE new[i - Len(s)]
    BY <1>1, <1>2, ConcatProperties
  <2> HIDE DEF t
  <2>2. ASSUME NEW i \in 1 .. Len(s) PROVE t[i] = s[i]
    <3>1. i \in 1 .. Len(s) + Len(new) /\ i <= Len(s)
      BY <1>1, <1>2
    <3> QED BY <2>1, <3>1
  <2>3. ASSUME NEW i \in 1 .. 4 + c PROVE t[Len(s) + i] = new[i]
    <3>1. Len(s) + i \in 1 .. Len(s) + Len(new) /\ ~(Len(s) + i <= Len(s)) /\ Len(s) + i - Len(s) = i
      BY <1>1, <1>2
    <3> QED BY <2>1, <3>1
  <2> QED BY <1>1, <1>2, <2>1, <2>2, <2>3
<1> HIDE DEF t
<1>4. /\ w \in [1 .. n + 2 -> Nat]
      /\ \A m \in 1 .. n + 1 : w[m] = where[m]
      /\ w[n + 2] = Len(t) /\ w[1] = 0 /\ w[n + 1] = Len(s)
  BY <1>1, <1>2, <1>3
<1> HIDE DEF w
<1>5. ASSUME NEW m \in 1 .. n + 1
      PROVE  /\ w[m + 1] = w[m] + 4 + size[m]
             /\ \A i \in 1 .. 4 + size[m] : t[w[m] + i] = Message(m, size[m])[i]
  <2>1. CASE m = n + 1
    <3>1. m + 1 = n + 2 /\ w[m] = Len(s) /\ size[m] = c /\ new = Message(m, size[m])
      BY <1>4, <2>1 DEF new, c
    <3> QED BY <1>3, <1>4, <3>1
  <2>2. CASE m \in 1 .. n
    <3>1. m + 1 \in 1 .. n + 1 /\ w[m] = where[m] /\ w[m + 1] = where[m + 1]
      BY <1>4, <2>2
    <3>2. /\ where[m] \in Nat /\ where[m + 1] = where[m] + 4 + size[m]
          /\ where[m + 1] \in Nat /\ where[m + 1] <= Len(s)
      BY <1>1, <1>2, <2>2, <3>1
    <3>3. ASSUME NEW i \in 1 .. 4 + size[m] PROVE t[w[m] + i] = Message(m, size[m])[i]
      <4>1. where[m] + i \in 1 .. Len(s)
        <5>1. i \in Int /\ 1 <= i
          OBVIOUS
        <5>2. where[m] + i <= where[m + 1]
          <6>1. size[m] \in Nat
            BY <2>2
          <6> QED BY <3>2, <6>1
        <5>3. where[m] + i <= Len(s) /\ 1 <= where[m] + i
          <6>1. Len(s) \in Int /\ where[m] \in Int /\ where[m + 1] \in Int
            BY <1>2, <3>2
          <6>2. where[m + 1] <= Len(s) /\ 0 <= where[m]
            BY <3>2
          <6> QED BY <5>1, <5>2, <6>1, <6>2
        <5> QED BY <1>2, <3>2, <5>1, <5>3
      <4> QED BY <1>1, <1>2, <1>3, <2>2, <3>1, <4>1
    <3> QED BY <3>1, <3>2, <3>3
  <2> QED BY <2>1, <2>2
<1>6. ASSUME NEW i \in 1 .. Len(t)
      PROVE  \E m \in 1 .. n + 1 : w[m] < i /\ i <= w[m + 1]
  <2>1. CASE i <= Len(s)
    <3>1. PICK m \in 1 .. n : where[m] < i /\ i <= where[m + 1]
      BY <1>2, <2>1
    <3>2. m \in 1 .. n + 1 /\ m + 1 \in 1 .. n + 1
      OBVIOUS
    <3> QED BY <1>4, <3>1, <3>2
  <2>2. CASE i > Len(s)
    <3>1. n + 1 \in 1 .. n + 1 /\ n + 1 + 1 = n + 2
      OBVIOUS
    <3> QED BY <1>2, <1>4, <2>2, <3>1
  <2> QED BY <1>2, <1>3, <2>1, <2>2
<1>7. ASSUME NEW m \in 1 .. n + 2, NEW k \in 1 .. n + 2, m <= k
      PROVE  w[m] <= w[k]
  <2>1. CASE k \in 1 .. n + 1
    BY <1>2, <1>4, <1>7, <2>1
  <2>2. CASE k = n + 2 /\ m \in 1 .. n + 1
    BY <1>1, <1>2, <1>3, <1>4, <2>2
  <2>3. CASE k = n + 2 /\ m = n + 2
    BY <1>4, <2>3
  <2> QED BY <2>1, <2>2, <2>3
<1>8. n + 1 + 1 = n + 2
  OBVIOUS
<1>9. Laid(t, size, w, n + 1)
  BY <1>1, <1>3, <1>4, <1>5, <1>6, <1>7, <1>8 DEF Laid
<1> QED BY <1>9 DEF t, w, new, c

\* A stream is the messages one after the other.
LEMMA StreamLaid ==
  ASSUME NEW size \in [1 .. MaxMsgs -> Sizes]
  PROVE  \E where : Laid(StreamOf(size), size, where, MaxMsgs)
<1> DEFINE seqs == [m \in 1 .. MaxMsgs |-> Message(m, size[m])]
<1>1. \A m \in 1 .. MaxMsgs : size[m] \in Nat
  <2>1. \A n \in Sizes : n \in Nat
    BY SizesAssumption
  <2> QED BY <2>1
<1>2. MaxMsgs \in Nat /\ DOMAIN seqs = 1 .. MaxMsgs /\ StreamOf(size) = FlattenSeq(seqs)
  BY SizesAssumption DEF StreamOf
<1>3. seqs \in Seq({seqs[m] : m \in 1 .. MaxMsgs}) /\ Len(seqs) = MaxMsgs
  BY <1>2
<1>4. CASE MaxMsgs = 0
  <2>1. seqs = <<>>
    BY <1>4
  <2>2. StreamOf(size) = <<>>
    BY <1>2, <1>3, <1>4, <2>1, FlattenIs
  <2> QED BY <1>4, <2>2, LaidNone
<1>5. CASE MaxMsgs > 0
  <2> DEFINE flat == Flat(seqs)
  <2>1. /\ FlattenSeq(seqs) = flat[MaxMsgs]
        /\ \A i \in 1 .. MaxMsgs : flat[i] = IF i = 1 THEN seqs[i] ELSE flat[i - 1] \o seqs[i]
    <3> HIDE DEF seqs
    <3>1. Len(seqs) \in Nat /\ Len(seqs) = MaxMsgs /\ MaxMsgs # 0 /\ StreamOf(size) = FlattenSeq(seqs)
      BY <1>2, <1>3, <1>5
    <3>2. /\ FlattenSeq(seqs) = IF Len(seqs) = 0 THEN seqs ELSE flat[Len(seqs)]
          /\ \A i \in 1 .. Len(seqs) : flat[i] = IF i = 1 THEN seqs[i] ELSE flat[i - 1] \o seqs[i]
      BY <3>1, FlattenIs
    <3> HIDE DEF flat
    <3> QED BY <3>1, <3>2
  <2> HIDE DEF flat
  <2>2. \A i \in 1 .. MaxMsgs : seqs[i] = Message(i, size[i])
    OBVIOUS
  <2> HIDE DEF seqs
  <2> DEFINE S == {n \in Nat : n + 1 \in 1 .. MaxMsgs => \E where : Laid(flat[n + 1], size, where, n + 1)}
  <2>3. 0 \in S
    <3>1. flat[1] = Message(1, size[1]) /\ size[1] \in Nat
      <4>1. 1 \in 1 .. MaxMsgs
        BY <1>2, <1>5
      <4> QED BY <1>1, <2>1, <2>2, <4>1
    <3>2. \E where : Laid(<<>> \o Message(1, size[1]), size, where, 0 + 1)
      <4>1. Laid(<<>>, size, [m \in 1 .. 1 |-> 0], 0)
        BY LaidNone
      <4>2. 0 \in Nat /\ 0 + 1 = 1 /\ \A m \in 1 .. 0 + 1 : size[m] \in Nat
        BY <3>1
      <4> QED BY <4>1, <4>2, LaidMore
    <3>3. <<>> \o Message(1, size[1]) = Message(1, size[1])
      <4>1. Message(1, size[1]) \in Seq([msg : {1}, at : Int, value : Int])
        BY <3>1, MessageBytes
      <4> QED BY <4>1, ConcatEmptySeq
    <3> QED BY <3>1, <3>2, <3>3
  <2>4. ASSUME NEW n \in Nat, n \in S PROVE n + 1 \in S
    <3> SUFFICES ASSUME n + 2 \in 1 .. MaxMsgs
                 PROVE  \E where : Laid(flat[n + 2], size, where, n + 2)
      BY n + 1 + 1 = n + 2
    <3>1. PICK where : Laid(flat[n + 1], size, where, n + 1)
      BY <1>2, <2>4
    <3>2. flat[n + 2] = flat[n + 1] \o Message(n + 2, size[n + 2])
      <4> DEFINE k == n + 2
      <4>1. k \in 1 .. MaxMsgs /\ k # 1 /\ k - 1 = n + 1
        OBVIOUS
      <4> HIDE DEF k
      <4>2. flat[k] = flat[k - 1] \o seqs[k]
        BY <2>1, <4>1
      <4>3. flat[k] = flat[n + 1] \o Message(k, size[k])
        BY <2>2, <4>1, <4>2
      <4> QED BY <4>3 DEF k
    <3>3. n + 1 \in Nat /\ n + 1 + 1 = n + 2 /\ \A m \in 1 .. n + 1 + 1 : size[m] \in Nat
      BY <1>1, <1>2
    <3> QED BY <3>1, <3>2, <3>3, LaidMore
  <2>5. MaxMsgs - 1 \in S
    <3> HIDE DEF S
    <3> QED BY <1>2, <1>5, <2>3, <2>4, SetInduction
  <2> QED BY <1>2, <1>5, <2>1, <2>5
<1> QED BY <1>2, <1>4, <1>5

LEMMA MaxIntNat == MaxInt \in Nat
<1> QED BY SMT DEF MaxInt

LEMMA SizesNat ==
  ASSUME NEW size \in [1 .. MaxMsgs -> Sizes]
  PROVE  MaxMsgs \in Nat /\ \A m \in 1 .. MaxMsgs : size[m] \in Nat
<1>1. \A n \in Sizes : n \in Nat
  BY SizesAssumption, MaxIntNat
<1> QED BY <1>1, SizesAssumption

\* Byte i of the stream, if it comes after the first where[m] bytes and is not
\* past message m, is of that message.
Bytewise(size, where) ==
  \A m \in 1 .. MaxMsgs : \A i \in 1 .. Len(stream) :
    where[m] < i /\ i <= where[m + 1] =>
      /\ stream[i].msg = m /\ stream[i].at = i - where[m] - FieldSize
      /\ stream[i].at <= size[m]

LEMMA ByteOf ==
  \A size \in [1 .. MaxMsgs -> Sizes] : \A where :
    Laid(stream, size, where, MaxMsgs) => Bytewise(size, where)
<1> SUFFICES ASSUME NEW size \in [1 .. MaxMsgs -> Sizes], NEW where,
                    Laid(stream, size, where, MaxMsgs)
             PROVE  Bytewise(size, where)
  OBVIOUS
<1> SUFFICES ASSUME NEW m \in 1 .. MaxMsgs, NEW i \in 1 .. Len(stream),
                    where[m] < i, i <= where[m + 1]
             PROVE  /\ stream[i].msg = m /\ stream[i].at = i - where[m] - FieldSize
                    /\ stream[i].at <= size[m]
  BY DEF Bytewise
<1> DEFINE c == size[m]
<1>1. /\ where[m] \in Nat /\ c \in Nat /\ FieldSize = 4
      /\ where[m + 1] = where[m] + 4 + c
      /\ \A j \in 1 .. 4 + c : stream[where[m] + j] = Message(m, c)[j]
  <2>1. MaxMsgs \in Nat /\ c \in Nat
    BY SizesNat
  <2>2. m \in 1 .. MaxMsgs + 1
    BY <2>1
  <2> QED BY <2>1, <2>2 DEF Laid, FieldSize
<1> HIDE DEF c
<1> DEFINE j == i - where[m]
<1>2. j \in 1 .. 4 + c /\ where[m] + j = i
  BY <1>1
<1> HIDE DEF j
<1>3. Message(m, c)[j].msg = m /\ Message(m, c)[j].at = j - 4
  <2>1. \A k \in 1 .. FieldSize + c : Message(m, c)[k] = [msg |-> m, at |-> k - FieldSize,
                value |-> IF k <= FieldSize THEN (c \div Weight[k]) % 256 ELSE 0]
    BY <1>1, MessageBytes
  <2>2. Message(m, c)[j] = [msg |-> m, at |-> j - FieldSize,
                value |-> IF j <= FieldSize THEN (c \div Weight[j]) % 256 ELSE 0]
    BY <1>1, <1>2, <2>1
  <2> QED BY <1>1, <2>2
<1>4. stream[i] = Message(m, c)[j] /\ j - 4 <= c
  BY <1>1, <1>2
<1> QED BY <1>1, <1>3, <1>4 DEF j, c

\* A piece of a sequence, counted from where it starts.
LEMMA Piece ==
  ASSUME NEW S, NEW s \in Seq(S), NEW a \in 0 .. Len(s), NEW b \in a .. Len(s)
  PROVE  /\ SubSeq(s, a + 1, b) \in Seq(S)
         /\ Len(SubSeq(s, a + 1, b)) = b - a
         /\ \A i \in 1 .. b - a : SubSeq(s, a + 1, b)[i] = s[a + i]
<1>1. Len(s) \in Nat /\ a \in Int /\ b \in Int /\ a + 1 \in Int
  BY LenProperties
<1>2. \A i \in a + 1 .. b : s[i] \in S
  <2>1. \A i \in a + 1 .. b : i \in 1 .. Len(s)
    BY <1>1
  <2> QED BY <2>1, ElementOfSeq
<1>3. /\ SubSeq(s, a + 1, b) \in Seq(S)
      /\ Len(SubSeq(s, a + 1, b)) = IF a + 1 <= b THEN b - (a + 1) + 1 ELSE 0
      /\ \A i \in 1 .. b - (a + 1) + 1 : SubSeq(s, a + 1, b)[i] = s[a + 1 + i - 1]
  BY <1>1, <1>2, SubSeqProperties
<1>4. b - (a + 1) + 1 = b - a /\ \A i \in 1 .. b - a : a + 1 + i - 1 = a + i
  BY <1>1
<1> QED BY <1>1, <1>3, <1>4

\* A piece of a piece is a piece.
LEMMA PieceOfPiece ==
  ASSUME NEW S, NEW s \in Seq(S), NEW a \in 0 .. Len(s), NEW b \in a .. Len(s),
         NEW c \in 0 .. b - a, NEW d \in c .. b - a
  PROVE  SubSeq(SubSeq(s, a + 1, b), c + 1, d) = SubSeq(s, a + c + 1, a + d)
<1> DEFINE t == SubSeq(s, a + 1, b)
<1>1. /\ t \in Seq(S) /\ Len(t) = b - a
      /\ \A i \in 1 .. b - a : t[i] = s[a + i]
  BY Piece
<1>2. Len(s) \in Nat
  BY LenProperties
<1> HIDE DEF t
<1>3. /\ SubSeq(t, c + 1, d) \in Seq(S) /\ Len(SubSeq(t, c + 1, d)) = d - c
      /\ \A i \in 1 .. d - c : SubSeq(t, c + 1, d)[i] = t[c + i]
  BY <1>1, Piece
<1>4. a + c \in 0 .. Len(s) /\ a + d \in a + c .. Len(s) /\ a + d - (a + c) = d - c
  BY <1>2
<1>5. /\ SubSeq(s, a + c + 1, a + d) \in Seq(S)
      /\ Len(SubSeq(s, a + c + 1, a + d)) = a + d - (a + c)
      /\ \A i \in 1 .. a + d - (a + c) : SubSeq(s, a + c + 1, a + d)[i] = s[a + c + i]
  BY <1>4, Piece
<1>6. ASSUME NEW i \in 1 .. d - c
      PROVE  SubSeq(t, c + 1, d)[i] = SubSeq(s, a + c + 1, a + d)[i]
  <2>1. c + i \in 1 .. b - a /\ a + (c + i) = a + c + i
    OBVIOUS
  <2>2. SubSeq(t, c + 1, d)[i] = s[a + c + i]
    BY <1>1, <1>3, <2>1
  <2> QED BY <1>4, <1>5, <2>2
<1>7. SubSeq(t, c + 1, d) = SubSeq(s, a + c + 1, a + d)
  BY <1>3, <1>4, <1>5, <1>6, SeqEqual
<1> QED BY <1>7 DEF t

-----------------------------------------------------------------------------
(* The invariant of doRead *)

\* The bytes of the stream that have been trimmed off the buffer.
Trimmed(where) == where[Len(passed) - msgProcessed + 1]

\* How many bytes doRead is waiting for.
Needed == IF sizeRead THEN msgSize ELSE FieldSize

\* doRead has handled the first messages of the stream.  Its buffer is a piece
\* of the stream that starts where a message does and ends with what was read
\* last, and bytesRead points between two messages, or behind a size.
Cut(size, where) ==
  /\ arrived \in 0 .. Len(stream) /\ available \in 0 .. arrived
  /\ sizeRead \in BOOLEAN /\ reading \in BOOLEAN /\ canReadMore \in BOOLEAN
  /\ passed \in Seq(Seq(Bytes)) /\ Len(passed) <= MaxMsgs
  /\ msgProcessed \in 0 .. MsgPerBuffer - 1 /\ msgProcessed <= Len(passed)
  /\ msgSize \in Nat /\ bytesRead \in Nat
  /\ Trimmed(where) + bytesRead <= arrived - available
  /\ buffer = SubSeq(stream, Trimmed(where) + 1, arrived - available)
  /\ sizeRead => /\ Len(passed) < MaxMsgs
                 /\ msgSize = size[Len(passed) + 1]
                 /\ Trimmed(where) + bytesRead = where[Len(passed) + 1] + FieldSize
  /\ ~sizeRead => Trimmed(where) + bytesRead = where[Len(passed) + 1]
  /\ ~canReadMore => /\ available = 0
                     /\ arrived < Trimmed(where) + bytesRead + Needed
  /\ ~reading => ~canReadMore
  /\ \A m \in 1 .. Len(passed) : passed[m] = Body(m, size[m])

FramingInv ==
  \E size \in [1 .. MaxMsgs -> Sizes] : \E where :
    Laid(stream, size, where, MaxMsgs) /\ Cut(size, where)

LEMMA FramingInit == ReaderInit => FramingInv
<1> SUFFICES ASSUME ReaderInit PROVE FramingInv
  OBVIOUS
<1>1. PICK size \in [1 .. MaxMsgs -> Sizes] : stream = StreamOf(size)
  BY DEF ReaderInit, Streams
<1>2. PICK where : Laid(stream, size, where, MaxMsgs)
  BY <1>1, StreamLaid
<1>3. /\ stream \in Seq(Bytes) /\ Len(stream) \in Nat /\ where[1] = 0
  BY <1>2, LenProperties DEF Laid
<1>4. passed \in Seq(Seq(Bytes)) /\ Len(passed) = 0
  BY EmptySeq DEF ReaderInit
<1>5. SubSeq(stream, 1, 0) = <<>>
  BY <1>3, SubSeqEmpty
<1>6. Trimmed(where) = 0 /\ MsgPerBuffer \in Nat \ {0} /\ MaxMsgs \in Nat
  <2>1. Len(passed) - msgProcessed + 1 = 1
    BY <1>4 DEF ReaderInit
  <2> QED BY <1>3, <2>1, SizesAssumption, MsgPerBufferAssumption DEF Trimmed
<1>7. /\ arrived = 0 /\ available = 0 /\ bytesRead = 0 /\ msgSize = 0 /\ msgProcessed = 0
      /\ sizeRead = FALSE /\ reading = FALSE /\ canReadMore = FALSE /\ buffer = <<>>
  BY DEF ReaderInit
<1>8. buffer = SubSeq(stream, Trimmed(where) + 1, arrived - available)
  BY <1>5, <1>6, <1>7
<1>9. /\ arrived < Trimmed(where) + bytesRead + Needed
      /\ Trimmed(where) + bytesRead = where[Len(passed) + 1]
  BY <1>3, <1>4, <1>6, <1>7 DEF Needed, FieldSize
<1>10. /\ arrived \in 0 .. Len(stream) /\ available \in 0 .. arrived
       /\ sizeRead \in BOOLEAN /\ reading \in BOOLEAN /\ canReadMore \in BOOLEAN
       /\ Len(passed) <= MaxMsgs
       /\ msgProcessed \in 0 .. MsgPerBuffer - 1 /\ msgProcessed <= Len(passed)
       /\ msgSize \in Nat /\ bytesRead \in Nat
       /\ Trimmed(where) + bytesRead <= arrived - available
  <2>1. sizeRead \in BOOLEAN /\ reading \in BOOLEAN /\ canReadMore \in BOOLEAN
    BY <1>7
  <2>2. 0 \in 0 .. Len(stream) /\ 0 \in 0 .. 0 /\ 0 \in 0 .. MsgPerBuffer - 1 /\ 0 \in Nat
    BY <1>3, <1>6
  <2>3. Trimmed(where) + bytesRead <= arrived - available
    BY <1>6, <1>7
  <2>4. Len(passed) <= MaxMsgs /\ msgProcessed <= Len(passed)
    BY <1>4, <1>6, <1>7
  <2> QED BY <1>7, <2>1, <2>2, <2>3, <2>4
<1>11. \A m \in 1 .. Len(passed) : passed[m] = Body(m, size[m])
  BY <1>4
<1>12. /\ sizeRead => /\ Len(passed) < MaxMsgs
                     /\ msgSize = size[Len(passed) + 1]
                     /\ Trimmed(where) + bytesRead = where[Len(passed) + 1] + FieldSize
       /\ ~sizeRead => Trimmed(where) + bytesRead = where[Len(passed) + 1]
       /\ ~canReadMore => /\ available = 0
                          /\ arrived < Trimmed(where) + bytesRead + Needed
       /\ ~reading => ~canReadMore
  BY <1>7, <1>9
<1>13. Cut(size, where)
  BY <1>4, <1>8, <1>10, <1>11, <1>12, Zenon DEF Cut
<1> QED BY <1>2, <1>13 DEF FramingInv

\* What Cut comes to in numbers, with the bytes doRead is about to look at.
Behind(size, where) ==
  LET h == Len(passed)
      T == Trimmed(where) IN
  /\ stream \in Seq(Bytes) /\ Len(stream) \in Nat
  /\ h \in Nat /\ T \in Nat
  /\ where[h + 1] \in Nat /\ where[h + 1] <= Len(stream)
  /\ Filled = SubSeq(stream, T + 1, arrived)
  /\ Filled \in Seq(Bytes)
  /\ Len(Filled) = arrived - T
  /\ \A i \in 1 .. arrived - T : Filled[i] = stream[T + i]
  /\ h < MaxMsgs =>
       /\ size[h + 1] \in 1 .. MaxInt
       /\ where[h + 2] \in Nat /\ where[h + 2] <= Len(stream)
       /\ where[h + 2] = where[h + 1] + 4 + size[h + 1]
       /\ \A i \in 1 .. 4 + size[h + 1] :
            stream[where[h + 1] + i] = Message(h + 1, size[h + 1])[i]

LEMMA CutBehind ==
  ASSUME NEW size \in [1 .. MaxMsgs -> Sizes], NEW where,
         Laid(stream, size, where, MaxMsgs), Cut(size, where)
  PROVE  Behind(size, where)
<1> DEFINE h == Len(passed)
           T == Trimmed(where)
<1>1. MaxMsgs \in Nat /\ \A n \in Sizes : n \in 1 .. MaxInt
  BY SizesAssumption
<1>2. /\ passed \in Seq(Seq(Bytes)) /\ h <= MaxMsgs
      /\ msgProcessed \in Int /\ 0 <= msgProcessed /\ msgProcessed <= h
      /\ arrived \in Int /\ available \in Int /\ 0 <= available /\ available <= arrived
      /\ arrived <= Len(stream) /\ bytesRead \in Nat
      /\ T + bytesRead <= arrived - available
      /\ buffer = SubSeq(stream, T + 1, arrived - available)
  BY MsgPerBufferAssumption DEF Cut
<1>3. h \in Nat
  BY <1>2, LenProperties
<1>4. /\ stream \in Seq(Bytes) /\ where \in [1 .. MaxMsgs + 1 -> Nat]
      /\ where[MaxMsgs + 1] = Len(stream)
      /\ \A m, k \in 1 .. MaxMsgs + 1 : m <= k => where[m] <= where[k]
      /\ \A m \in 1 .. MaxMsgs : where[m + 1] = where[m] + FieldSize + size[m]
      /\ \A m \in 1 .. MaxMsgs : \A i \in 1 .. FieldSize + size[m] :
           stream[where[m] + i] = Message(m, size[m])[i]
  BY DEF Laid
<1>5. Len(stream) \in Nat
  BY <1>4, LenProperties
<1>6. /\ h - msgProcessed + 1 \in 1 .. MaxMsgs + 1 /\ h + 1 \in 1 .. MaxMsgs + 1
      /\ MaxMsgs + 1 \in 1 .. MaxMsgs + 1
      /\ h < MaxMsgs => h + 1 \in 1 .. MaxMsgs /\ h + 2 \in 1 .. MaxMsgs + 1 /\ h + 1 + 1 = h + 2
  BY <1>1, <1>2, <1>3
<1>7. T \in Nat
  BY <1>4, <1>6 DEF Trimmed
<1> HIDE DEF T, h
<1>8. where[h + 1] \in Nat /\ where[h + 1] <= Len(stream)
  BY <1>4, <1>6
<1>9. h < MaxMsgs => /\ size[h + 1] \in 1 .. MaxInt
                     /\ where[h + 2] \in Nat /\ where[h + 2] <= Len(stream)
                     /\ where[h + 2] = where[h + 1] + 4 + size[h + 1]
                     /\ \A i \in 1 .. 4 + size[h + 1] :
                          stream[where[h + 1] + i] = Message(h + 1, size[h + 1])[i]
  <2> SUFFICES ASSUME h < MaxMsgs
               PROVE  /\ size[h + 1] \in 1 .. MaxInt
                      /\ where[h + 2] \in Nat /\ where[h + 2] <= Len(stream)
                      /\ where[h + 2] = where[h + 1] + 4 + size[h + 1]
                      /\ \A i \in 1 .. 4 + size[h + 1] :
                           stream[where[h + 1] + i] = Message(h + 1, size[h + 1])[i]
    OBVIOUS
  <2>1. size[h + 1] \in 1 .. MaxInt
    BY <1>1, <1>6
  <2>2. /\ h + 2 \in 1 .. MaxMsgs + 1 /\ MaxMsgs + 1 \in 1 .. MaxMsgs + 1 /\ h + 2 <= MaxMsgs + 1
        /\ h + 1 \in 1 .. MaxMsgs /\ h + 1 + 1 = h + 2
    BY <1>1, <1>3, <1>6
  <2>3. where[h + 2] \in Nat /\ where[h + 2] <= Len(stream)
    BY <1>4, <2>2
  <2>4. where[h + 2] = where[h + 1] + 4 + size[h + 1]
    BY <1>4, <2>2 DEF FieldSize
  <2>5. \A i \in 1 .. 4 + size[h + 1] : stream[where[h + 1] + i] = Message(h + 1, size[h + 1])[i]
    BY <1>4, <2>2 DEF FieldSize
  <2> QED BY <2>1, <2>3, <2>4, <2>5
<1>10. /\ Filled = SubSeq(stream, T + 1, arrived)
       /\ Filled \in Seq(Bytes) /\ Len(Filled) = arrived - T
       /\ \A i \in 1 .. arrived - T : Filled[i] = stream[T + i]
  <2>1. T + 1 \in 1 .. Len(stream) + 1 /\ arrived - available \in T + 1 - 1 .. Len(stream)
        /\ arrived \in arrived - available .. Len(stream)
    BY <1>2, <1>5, <1>7
  <2>2. Filled = SubSeq(stream, T + 1, arrived)
    <3> DEFINE m == T + 1
               k == arrived - available
    <3>1. SubSeq(stream, m, k) \o SubSeq(stream, k + 1, arrived) = SubSeq(stream, m, arrived)
      <4>1. /\ m \in 1 .. Len(stream) + 1 /\ k \in m - 1 .. Len(stream)
            /\ arrived \in k .. Len(stream)
        BY <1>2, <1>5, <1>7
      <4> HIDE DEF k, m
      <4> QED BY <1>4, <4>1, ConcatAdjacentSubSeq
    <3> HIDE DEF m
    <3>2. buffer = SubSeq(stream, m, k)
      BY <1>2 DEF m
    <3>3. Filled = SubSeq(stream, m, k) \o SubSeq(stream, k + 1, arrived)
      BY <3>2, Zenon DEF Filled
    <3> QED BY <3>1, <3>3 DEF m
  <2>3. T \in 0 .. Len(stream) /\ arrived \in T .. Len(stream)
    BY <1>2, <1>5, <1>7
  <2> QED BY <1>4, <2>2, <2>3, Piece
<1> QED BY <1>3, <1>4, <1>5, <1>7, <1>8, <1>9, <1>10 DEF Behind, T, h

\* The four bytes of a size field are the size.
LEMMA BytesOfNumber ==
  ASSUME NEW n \in Nat, n <= MaxInt
  PROVE  ((n \div 1) % 256) + ((n \div 256) % 256) * 256 + ((n \div 65536) % 256) * 65536
           + ((n \div 16777216) % 256) * 16777216 = n
<1>1. n = (n \div 256) * 256 + (n % 256)
  BY SMT
<1>2. n \div 256 = (n \div 65536) * 256 + ((n \div 256) % 256)
  BY SMT
<1>3. n \div 65536 = (n \div 16777216) * 256 + ((n \div 65536) % 256)
  BY SMT
<1>4. n \div 1 = n /\ n \div 256 \in Nat /\ n \div 65536 \in Nat /\ n \div 16777216 \in Nat
  BY SMT
<1>5. n \div 16777216 < 256
  BY SMT DEF MaxInt
<1>6. (n \div 16777216) % 256 = n \div 16777216
  BY <1>4, <1>5, SMT
<1>7. \A a, b, c, d, e, f \in Int :
        n = a * 256 + d /\ a = b * 256 + e /\ b = c * 256 + f
          => d + e * 256 + f * 65536 + c * 16777216 = n
  BY SMT
<1>8. n % 256 \in Int /\ (n \div 256) % 256 \in Int /\ (n \div 65536) % 256 \in Int
  BY <1>4, SMT
<1> QED BY <1>1, <1>2, <1>3, <1>4, <1>6, <1>7, <1>8, SMT

LEMMA SizeOfField ==
  ASSUME NEW m, NEW n \in 1 .. MaxInt, NEW bytes,
         \A i \in 1 .. 4 : bytes[i] = Message(m, n)[i]
  PROVE  ArrayToInt(bytes) = n
<1>1. n \in Nat /\ n <= MaxInt
  BY MaxIntNat
<1>2. \A i \in 1 .. 4 : Message(m, n)[i].value = (n \div Weight[i]) % 256
  <2>1. \A i \in 1 .. FieldSize + n :
          Message(m, n)[i] = [msg |-> m, at |-> i - FieldSize,
            value |-> IF i <= FieldSize THEN (n \div Weight[i]) % 256 ELSE 0]
    BY <1>1, MessageBytes
  <2>2. ASSUME NEW i \in 1 .. 4
        PROVE  Message(m, n)[i].value = (n \div Weight[i]) % 256
    <3>1. i \in 1 .. FieldSize + n /\ i <= FieldSize
      <4>1. n \in Int /\ 0 <= n /\ FieldSize = 4
        BY <1>1 DEF FieldSize
      <4> QED BY <4>1
    <3>2. Message(m, n)[i] = [msg |-> m, at |-> i - FieldSize,
            value |-> IF i <= FieldSize THEN (n \div Weight[i]) % 256 ELSE 0]
      BY <2>1, <3>1
    <3> QED BY <3>1, <3>2
  <2> QED BY <2>2
<1>3. 1 \in 1 .. 4 /\ 2 \in 1 .. 4 /\ 3 \in 1 .. 4 /\ 4 \in 1 .. 4
  BY SMT
<1>4. /\ bytes[1].value = (n \div Weight[1]) % 256 /\ bytes[2].value = (n \div Weight[2]) % 256
      /\ bytes[3].value = (n \div Weight[3]) % 256 /\ bytes[4].value = (n \div Weight[4]) % 256
  BY <1>2, <1>3
<1>5. Weight[1] = 1 /\ Weight[2] = 256 /\ Weight[3] = 65536 /\ Weight[4] = 16777216
  BY SMT DEF Weight
<1>6. (n \div 1) % 256 \in Int
  BY <1>1, SMT
<1>7. ((n \div 1) % 256) + ((n \div 256) % 256) * 256 + ((n \div 65536) % 256) * 65536
        + ((n \div 16777216) % 256) * 16777216 = n
  BY <1>1, BytesOfNumber
<1> QED BY <1>4, <1>5, <1>6, <1>7, SMT DEF ArrayToInt

\* What every round of doRead leaves alone, and what it has moved to its buffer.
LEMMA RoundMoves ==
  ASSUME NEW size \in [1 .. MaxMsgs -> Sizes], NEW where,
         Laid(stream, size, where, MaxMsgs), Cut(size, where), Round
  PROVE  /\ stream' = stream /\ arrived' = arrived /\ available' = 0
         /\ reading = TRUE /\ reading' = TRUE
         /\ arrived' \in 0 .. Len(stream') /\ available' \in 0 .. arrived'
         /\ arrived \in Nat /\ arrived <= Len(stream)
         /\ arrived' - available' = arrived
<1>1. stream' = stream /\ arrived' = arrived /\ available' = 0 /\ reading' = reading /\ reading
  BY DEF Round
<1>2. /\ Len(stream) \in Nat /\ arrived \in 0 .. Len(stream) /\ reading \in BOOLEAN
  BY CutBehind DEF Cut, Behind
<1> QED BY <1>1, <1>2

LEMMA ArriveKeeps ==
  ASSUME NEW size \in [1 .. MaxMsgs -> Sizes], NEW where,
         Laid(stream, size, where, MaxMsgs), Cut(size, where),
         NEW k \in 1 .. Len(stream), Arrive(k)
  PROVE  Cut(size, where)'
<1>1. /\ stream' = stream /\ buffer' = buffer /\ sizeRead' = sizeRead /\ msgSize' = msgSize
      /\ msgProcessed' = msgProcessed /\ bytesRead' = bytesRead /\ passed' = passed
      /\ reading' = TRUE /\ canReadMore' = TRUE
      /\ available' = available + k /\ arrived' = arrived + k /\ arrived + k <= Len(stream)
  BY DEF Arrive, readState
<1>2. Trimmed(where)' = Trimmed(where) /\ Needed' = Needed
  BY <1>1 DEF Trimmed, Needed
<1>3. Len(stream) \in Nat /\ arrived \in Int /\ 0 <= arrived /\ available \in Int
      /\ 0 <= available /\ available <= arrived
  BY CutBehind DEF Cut, Behind
<1>4. /\ arrived' \in 0 .. Len(stream') /\ available' \in 0 .. arrived'
      /\ arrived' - available' = arrived - available
  BY <1>1, <1>3
<1> QED BY <1>1, <1>2, <1>4 DEF Cut

LEMMA WaitKeeps ==
  ASSUME NEW size \in [1 .. MaxMsgs -> Sizes], NEW where,
         Laid(stream, size, where, MaxMsgs), Cut(size, where), Wait
  PROVE  Cut(size, where)'
<1>1. /\ sizeRead' = sizeRead /\ msgSize' = msgSize /\ passed' = passed
      /\ msgProcessed' = msgProcessed /\ bytesRead' = bytesRead
      /\ buffer' = Filled /\ canReadMore' = FALSE /\ Round
      /\ Len(Filled) < bytesRead + Needed
  BY DEF Wait, readState, Needed
<1>2. Trimmed(where)' = Trimmed(where) /\ Needed' = Needed
  BY <1>1 DEF Trimmed, Needed
<1>3. /\ stream' = stream /\ arrived' = arrived /\ available' = 0 /\ reading' = TRUE
      /\ arrived' \in 0 .. Len(stream') /\ available' \in 0 .. arrived'
      /\ arrived \in Nat /\ arrived' - available' = arrived
  BY <1>1, RoundMoves
<1>4. /\ Filled = SubSeq(stream, Trimmed(where) + 1, arrived)
      /\ Len(Filled) = arrived - Trimmed(where) /\ Trimmed(where) \in Nat
  BY CutBehind DEF Behind
<1>5. /\ bytesRead \in Nat /\ Needed \in Nat /\ available \in Nat
      /\ Trimmed(where) + bytesRead <= arrived - available
  BY <1>3 DEF Cut, Needed, FieldSize
<1>6. /\ Trimmed(where) + bytesRead <= arrived
      /\ arrived < Trimmed(where) + bytesRead + Needed
  BY <1>1, <1>3, <1>4, <1>5
<1>7. buffer' = SubSeq(stream', Trimmed(where)' + 1, arrived' - available')
  BY <1>1, <1>2, <1>3, <1>4
<1> QED BY <1>1, <1>2, <1>3, <1>6, <1>7 DEF Cut

LEMMA ReturnKeeps ==
  ASSUME NEW size \in [1 .. MaxMsgs -> Sizes], NEW where,
         Laid(stream, size, where, MaxMsgs), Cut(size, where), Return
  PROVE  Cut(size, where)'
<1>1. /\ stream' = stream /\ buffer' = buffer /\ sizeRead' = sizeRead /\ msgSize' = msgSize
      /\ msgProcessed' = msgProcessed /\ bytesRead' = bytesRead /\ passed' = passed
      /\ reading' = FALSE /\ canReadMore' = canReadMore /\ ~canReadMore
      /\ available' = available /\ arrived' = arrived
  BY DEF Return, readState
<1>2. Trimmed(where)' = Trimmed(where) /\ Needed' = Needed
  BY <1>1 DEF Trimmed, Needed
<1> QED BY <1>1, <1>2 DEF Cut

LEMMA StutterKeeps ==
  ASSUME NEW size, NEW where, Cut(size, where), UNCHANGED readerVars
  PROVE  Cut(size, where)'
<1>1. /\ stream' = stream /\ buffer' = buffer /\ sizeRead' = sizeRead /\ msgSize' = msgSize
      /\ msgProcessed' = msgProcessed /\ bytesRead' = bytesRead /\ passed' = passed
      /\ reading' = reading /\ canReadMore' = canReadMore
      /\ available' = available /\ arrived' = arrived
  BY DEF readerVars, readState
<1>2. Trimmed(where)' = Trimmed(where) /\ Needed' = Needed
  BY <1>1 DEF Trimmed, Needed
<1> QED BY <1>1, <1>2 DEF Cut

\* The size field doRead decodes is that of the message it handles next.
LEMMA ReadSizeKeeps ==
  ASSUME NEW size \in [1 .. MaxMsgs -> Sizes], NEW where,
         Laid(stream, size, where, MaxMsgs), Cut(size, where), ReadSize
  PROVE  Cut(size, where)'
<1> DEFINE h == Len(passed)
           T == Trimmed(where)
           field == SubSeq(Filled, bytesRead + 1, bytesRead + 4)
<1>1. /\ sizeRead = FALSE /\ sizeRead' = TRUE /\ canReadMore' = TRUE /\ Round
      /\ Len(Filled) >= bytesRead + 4 /\ msgSize' = ArrayToInt(field)
      /\ bytesRead' = bytesRead + 4 /\ buffer' = Filled
      /\ msgProcessed' = msgProcessed /\ passed' = passed
  BY DEF ReadSize, Cut, FieldSize
<1>2. Trimmed(where)' = T
  BY <1>1 DEF Trimmed
<1>3. /\ stream' = stream /\ arrived' = arrived /\ available' = 0
      /\ reading = TRUE /\ reading' = TRUE
      /\ arrived' \in 0 .. Len(stream') /\ available' \in 0 .. arrived'
      /\ arrived \in Nat /\ arrived <= Len(stream) /\ arrived' - available' = arrived
  BY <1>1, RoundMoves
<1>4. /\ Len(stream) \in Nat /\ h \in Nat /\ T \in Nat /\ where[h + 1] \in Nat
      /\ Filled = SubSeq(stream, T + 1, arrived) /\ Filled \in Seq(Bytes)
      /\ Len(Filled) = arrived - T
      /\ \A i \in 1 .. arrived - T : Filled[i] = stream[T + i]
      /\ h < MaxMsgs =>
           /\ size[h + 1] \in 1 .. MaxInt
           /\ \A i \in 1 .. 4 + size[h + 1] :
                stream[where[h + 1] + i] = Message(h + 1, size[h + 1])[i]
  <2>1. Behind(size, where)
    BY CutBehind
  <2> QED BY <2>1 DEF Behind
<1>5. /\ bytesRead \in Nat /\ T + bytesRead = where[h + 1] /\ h <= MaxMsgs
      /\ where[MaxMsgs + 1] = Len(stream)
  BY <1>1 DEF Cut, Laid
<1> HIDE DEF T, h
<1>6. T + bytesRead + 4 <= arrived
  BY <1>1, <1>3, <1>4, <1>5
<1>7. h < MaxMsgs
  <2>1. h # MaxMsgs
    BY <1>3, <1>4, <1>5, <1>6
  <2> QED BY <1>4, <1>5, <2>1, SizesAssumption
<1>8. msgSize' = size[h + 1]
  <2>1. /\ bytesRead \in 0 .. Len(Filled) /\ bytesRead + 4 \in bytesRead .. Len(Filled)
        /\ bytesRead + 4 - bytesRead = 4
    BY <1>1, <1>3, <1>4, <1>5
  <2>2. \A i \in 1 .. bytesRead + 4 - bytesRead : field[i] = Filled[bytesRead + i]
    <3>1. Filled \in Seq(Bytes)
      BY <1>4
    <3> QED BY <2>1, <3>1, Piece
  <2> HIDE DEF field
  <2>3. ASSUME NEW i \in 1 .. 4 PROVE field[i] = Message(h + 1, size[h + 1])[i]
    <3>1. /\ bytesRead + i \in 1 .. arrived - T /\ T + (bytesRead + i) = where[h + 1] + i
          /\ i \in 1 .. 4 + size[h + 1]
      <4>1. size[h + 1] \in Nat
        BY <1>4, <1>7, MaxIntNat
      <4> QED BY <1>3, <1>4, <1>5, <1>6, <4>1
    <3>2. field[i] = Filled[bytesRead + i]
      BY <2>1, <2>2
    <3>3. Filled[bytesRead + i] = stream[where[h + 1] + i]
      BY <1>4, <3>1
    <3> QED BY <1>4, <1>7, <3>1, <3>2, <3>3
  <2>4. ArrayToInt(field) = size[h + 1]
    <3>1. size[h + 1] \in 1 .. MaxInt
      BY <1>4, <1>7
    <3> QED BY <2>3, <3>1, SizeOfField
  <2> QED BY <1>1, <2>4 DEF field
<1>9. msgSize' \in Nat
  BY <1>4, <1>7, <1>8, MaxIntNat
<1>10. /\ bytesRead' \in Nat /\ T + bytesRead' <= arrived' - available'
       /\ T + bytesRead' = where[h + 1] + FieldSize
  BY <1>1, <1>3, <1>4, <1>5, <1>6 DEF FieldSize
<1>11. buffer' = SubSeq(stream', T + 1, arrived' - available')
  BY <1>1, <1>3, <1>4
<1>12. Len(passed') = h
  BY <1>1 DEF h
<1>13. /\ passed \in Seq(Seq(Bytes)) /\ h <= MaxMsgs
       /\ msgProcessed \in 0 .. MsgPerBuffer - 1 /\ msgProcessed <= h
       /\ \A m \in 1 .. h : passed[m] = Body(m, size[m])
  BY DEF Cut, h
<1> HIDE DEF field
<1> QED BY <1>1, <1>2, <1>3, <1>7, <1>8, <1>9, <1>10, <1>11, <1>12, <1>13 DEF Cut

\* What is handed to handleMessage is the body of the next message; the buffer
\* is cut off, every MsgPerBuffer messages, at the start of a message.
LEMMA ReadMessageKeeps ==
  ASSUME NEW size \in [1 .. MaxMsgs -> Sizes], NEW where,
         Laid(stream, size, where, MaxMsgs), Cut(size, where), ReadMessage
  PROVE  Cut(size, where)'
<1> DEFINE h == Len(passed)
           T == Trimmed(where)
           end == bytesRead + msgSize
           piece == SubSeq(Filled, bytesRead + 1, end)
           n == size[h + 1]
<1>1. /\ sizeRead = TRUE /\ sizeRead' = FALSE /\ canReadMore' = TRUE /\ Round
      /\ Len(Filled) >= end /\ passed' = Append(passed, piece) /\ msgSize' = msgSize
      /\ msgProcessed' = IF Full THEN 0 ELSE msgProcessed + 1
      /\ bytesRead' = IF Full THEN 0 ELSE end
      /\ buffer' = IF Full THEN SubSeq(Filled, end + 1, Len(Filled)) ELSE Filled
  BY DEF ReadMessage, Cut
<1>2. /\ stream' = stream /\ arrived' = arrived /\ available' = 0
      /\ reading = TRUE /\ reading' = TRUE
      /\ arrived' \in 0 .. Len(stream') /\ available' \in 0 .. arrived'
      /\ arrived \in Nat /\ arrived <= Len(stream) /\ arrived' - available' = arrived
  BY <1>1, RoundMoves
<1>3. /\ passed \in Seq(Seq(Bytes)) /\ h < MaxMsgs
      /\ msgProcessed \in 0 .. MsgPerBuffer - 1 /\ msgProcessed <= h
      /\ msgSize = n /\ msgSize \in Nat /\ bytesRead \in Nat
      /\ T + bytesRead = where[h + 1] + 4
      /\ \A m \in 1 .. h : passed[m] = Body(m, size[m])
  BY <1>1 DEF Cut, FieldSize
<1>4. /\ stream \in Seq(Bytes) /\ Len(stream) \in Nat /\ h \in Nat /\ T \in Nat
      /\ where[h + 1] \in Nat
      /\ Filled = SubSeq(stream, T + 1, arrived) /\ Filled \in Seq(Bytes)
      /\ Len(Filled) = arrived - T
      /\ \A i \in 1 .. arrived - T : Filled[i] = stream[T + i]
      /\ where[h + 2] \in Nat /\ where[h + 2] = where[h + 1] + 4 + n
      /\ \A i \in 1 .. 4 + n : stream[where[h + 1] + i] = Message(h + 1, n)[i]
  <2>1. Behind(size, where)
    BY CutBehind
  <2>2. h < MaxMsgs
    BY <1>3
  <2> QED BY <2>1, <2>2, Zenon DEF Behind
<1> HIDE DEF T, h, n
<1>5. end \in Nat /\ T + end = where[h + 2] /\ T + end <= arrived
  <2>1. /\ T \in Int /\ arrived \in Int /\ where[h + 1] \in Int /\ bytesRead \in Nat
        /\ msgSize = n /\ msgSize \in Nat /\ T + bytesRead = where[h + 1] + 4
        /\ where[h + 2] = where[h + 1] + 4 + n
        /\ arrived - T >= bytesRead + msgSize
    <3>1. Len(Filled) >= bytesRead + msgSize /\ Len(Filled) = arrived - T
      BY <1>1, <1>4
    <3>2. T \in Int /\ arrived \in Int /\ where[h + 1] \in Int
      BY <1>2, <1>4
    <3> QED BY <1>3, <1>4, <3>1, <3>2
  <2> QED BY <2>1
<1>6. piece = Body(h + 1, n)
  <2>1. /\ bytesRead \in 0 .. Len(Filled) /\ end \in bytesRead .. Len(Filled)
        /\ end - bytesRead = n /\ n \in Nat
    BY <1>1, <1>2, <1>3, <1>4, SMTT(30)
  <2>2. /\ piece \in Seq(Bytes) /\ Len(piece) = n
        /\ \A i \in 1 .. n : piece[i] = Filled[bytesRead + i]
    <3>1. /\ piece \in Seq(Bytes) /\ Len(piece) = end - bytesRead
          /\ \A i \in 1 .. end - bytesRead : piece[i] = Filled[bytesRead + i]
      <4>1. Filled \in Seq(Bytes)
        BY <1>4
      <4> HIDE DEF end
      <4> QED BY <2>1, <4>1, Piece
    <3> QED BY <2>1, <3>1
  <2> HIDE DEF piece
  <2>3. ASSUME NEW i \in 1 .. n
        PROVE  piece[i] = [msg |-> h + 1, at |-> i, value |-> 0]
    <3>1. /\ bytesRead + i \in 1 .. arrived - T /\ T + (bytesRead + i) = where[h + 1] + (4 + i)
          /\ 4 + i \in 1 .. 4 + n /\ ~(4 + i <= 4) /\ 4 + i - 4 = i
      <4>1. /\ T \in Int /\ arrived \in Int /\ where[h + 1] \in Int /\ bytesRead \in Nat
            /\ msgSize = n /\ T + bytesRead = where[h + 1] + 4
            /\ T + (bytesRead + msgSize) <= arrived /\ n \in Nat
        BY <1>2, <1>3, <1>4, <1>5, <2>1, SMTT(30)
      <4> QED BY <4>1
    <3>2. piece[i] = Message(h + 1, n)[4 + i]
      <4>1. piece[i] = Filled[bytesRead + i]
        BY <2>2
      <4>2. Filled[bytesRead + i] = stream[T + (bytesRead + i)]
        BY <1>4, <3>1
      <4>3. stream[where[h + 1] + (4 + i)] = Message(h + 1, n)[4 + i]
        BY <1>4, <3>1
      <4> QED BY <3>1, <4>1, <4>2, <4>3
    <3>3. \A j \in 1 .. 4 + n : Message(h + 1, n)[j] = [msg |-> h + 1, at |-> j - 4,
            value |-> IF j <= 4 THEN (n \div Weight[j]) % 256 ELSE 0]
      BY <2>1, MessageBytes DEF FieldSize
    <3>4. Message(h + 1, n)[4 + i] = [msg |-> h + 1, at |-> 4 + i - 4,
            value |-> IF 4 + i <= 4 THEN (n \div Weight[4 + i]) % 256 ELSE 0]
      BY <3>1, <3>3
    <3> QED BY <3>1, <3>2, <3>4
  <2>4. piece = [i \in 1 .. n |-> piece[i]]
    BY <2>2
  <2>5. piece = [i \in 1 .. n |-> [msg |-> h + 1, at |-> i, value |-> 0]]
    BY <2>3, <2>4
  <2> QED BY <2>5 DEF Body
<1>7. piece \in Seq(Bytes)
  <2>1. bytesRead \in 0 .. Len(Filled) /\ end \in bytesRead .. Len(Filled)
    <3>1. /\ bytesRead \in Nat /\ msgSize \in Nat /\ Len(Filled) \in Int
          /\ Len(Filled) >= bytesRead + msgSize
      BY <1>1, <1>2, <1>3, <1>4
    <3> QED BY <3>1
  <2>2. Filled \in Seq(Bytes)
    BY <1>4
  <2> HIDE DEF end
  <2> QED BY <2>1, <2>2, Piece
<1> HIDE DEF piece
<1>8. /\ passed' \in Seq(Seq(Bytes)) /\ Len(passed') = h + 1
      /\ \A m \in 1 .. Len(passed') : passed'[m] = Body(m, size[m])
  <2>1. /\ passed' \in Seq(Seq(Bytes)) /\ Len(passed') = h + 1
        /\ \A i \in 1 .. h : passed'[i] = passed[i]
        /\ passed'[h + 1] = piece
    BY <1>1, <1>3, <1>7, AppendProperties DEF h
  <2>2. ASSUME NEW m \in 1 .. h + 1 PROVE passed'[m] = Body(m, size[m])
    <3>1. CASE m \in 1 .. h
      BY <1>3, <2>1, <3>1
    <3>2. CASE m = h + 1
      BY <1>6, <2>1, <3>2 DEF n
    <3> QED BY <1>4, <3>1, <3>2
  <2> QED BY <2>1, <2>2
<1>9. /\ msgProcessed' \in 0 .. MsgPerBuffer - 1 /\ msgProcessed' <= h + 1
      /\ h + 1 <= MaxMsgs
      /\ IF Full THEN msgProcessed' = 0 /\ Trimmed(where)' = where[h + 2]
                 ELSE msgProcessed' = msgProcessed + 1 /\ Trimmed(where)' = T
  <2>1. MaxMsgs \in Nat /\ MsgPerBuffer \in Nat \ {0}
    BY SizesAssumption, MsgPerBufferAssumption
  <2>2. CASE Full
    <3>1. msgProcessed' = 0 /\ h + 1 - 0 + 1 = h + 2
      BY <1>1, <1>4, <2>2
    <3>2. Trimmed(where)' = where[h + 2]
      BY <1>8, <3>1 DEF Trimmed
    <3> QED BY <1>3, <1>4, <2>1, <2>2, <3>1, <3>2
  <2>3. CASE ~Full
    <3>1. msgProcessed' = msgProcessed + 1 /\ msgProcessed + 1 # MsgPerBuffer
      BY <1>1, <2>3 DEF Full
    <3>2. h + 1 - (msgProcessed + 1) + 1 = h - msgProcessed + 1
      <4>1. h \in Int /\ msgProcessed \in Int
        BY <1>3, <1>4, <2>1
      <4> QED BY <4>1
    <3>3. Trimmed(where)' = T
      BY <1>8, <3>1, <3>2 DEF Trimmed, T, h
    <3> QED BY <1>3, <1>4, <2>1, <2>3, <3>1, <3>3
  <2> QED BY <2>2, <2>3
<1>10. /\ bytesRead' \in Nat /\ Trimmed(where)' + bytesRead' = where[h + 2]
       /\ Trimmed(where)' + bytesRead' <= arrived' - available'
       /\ buffer' = SubSeq(stream', Trimmed(where)' + 1, arrived' - available')
  <2>1. CASE Full
    <3>1. bytesRead' = 0 /\ Trimmed(where)' = where[h + 2]
      BY <1>1, <1>9, <2>1
    <3>2. SubSeq(SubSeq(stream, T + 1, arrived), end + 1, arrived - T)
            = SubSeq(stream, T + end + 1, T + (arrived - T))
      <4>1. /\ T \in 0 .. Len(stream) /\ arrived \in T .. Len(stream)
            /\ end \in 0 .. arrived - T /\ arrived - T \in end .. arrived - T
        BY <1>2, <1>4, <1>5
      <4> HIDE DEF end
      <4> QED BY <1>4, <4>1, PieceOfPiece
    <3>3. T + (arrived - T) = arrived
      BY <1>2, <1>4
    <3>4. buffer' = SubSeq(stream, where[h + 2] + 1, arrived)
      <4>1. buffer' = SubSeq(Filled, end + 1, Len(Filled))
        BY <1>1, <2>1
      <4>2. Filled = SubSeq(stream, T + 1, arrived) /\ Len(Filled) = arrived - T
        BY <1>4
      <4>3. buffer' = SubSeq(stream, T + end + 1, arrived)
        BY <3>2, <3>3, <4>1, <4>2
      <4>4. T + end + 1 = where[h + 2] + 1
        BY <1>5
      <4> QED BY <4>3, <4>4
    <3>5. buffer' = SubSeq(stream', Trimmed(where)' + 1, arrived' - available')
      BY <1>2, <3>1, <3>4
    <3>6. where[h + 2] \in Nat /\ where[h + 2] <= arrived
      BY <1>4, <1>5
    <3> QED BY <1>2, <3>1, <3>5, <3>6
  <2>2. CASE ~Full
    <3>1. bytesRead' = end /\ Trimmed(where)' = T /\ buffer' = Filled
      BY <1>1, <1>9, <2>2
    <3> QED BY <1>2, <1>4, <1>5, <3>1
  <2> QED BY <2>1, <2>2
<1>11. Len(passed') + 1 = h + 2
  BY <1>4, <1>8
<1>12. Len(passed') <= MaxMsgs /\ msgProcessed' <= Len(passed')
  BY <1>8, <1>9
<1> HIDE DEF end
<1>13. msgSize' \in Nat
  BY <1>1, <1>3
<1> QED BY <1>1, <1>2, <1>8, <1>9, <1>10, <1>11, <1>12, <1>13 DEF Cut

LEMMA FramingStep == FramingInv /\ [ReaderNext]_readerVars => FramingInv'
<1> SUFFICES ASSUME FramingInv, [ReaderNext]_readerVars PROVE FramingInv'
  OBVIOUS
<1>1. PICK size, where :
        /\ size \in [1 .. MaxMsgs -> Sizes]
        /\ Laid(stream, size, where, MaxMsgs) /\ Cut(size, where)
  BY DEF FramingInv
<1>2. stream' = stream
  BY DEF ReaderNext, DoRead, ReadSize, ReadMessage, Wait, Return, Arrive, Round, readerVars
<1>3. Cut(size, where)'
  <2>1. CASE ReadSize
    BY <1>1, <2>1, ReadSizeKeeps
  <2>2. CASE ReadMessage
    BY <1>1, <2>2, ReadMessageKeeps
  <2>3. CASE Wait
    BY <1>1, <2>3, WaitKeeps
  <2>4. CASE Return
    BY <1>1, <2>4, ReturnKeeps
  <2>5. ASSUME NEW k \in 1 .. Len(stream), Arrive(k) PROVE Cut(size, where)'
    BY <1>1, <2>5, ArriveKeeps
  <2>6. CASE UNCHANGED readerVars
    BY <1>1, <2>6, StutterKeeps
  <2> QED BY <2>1, <2>2, <2>3, <2>4, <2>5, <2>6 DEF ReaderNext, DoRead
<1>4. Laid(stream, size, where, MaxMsgs)'
  BY <1>1, <1>2
<1> QED BY <1>1, <1>3, <1>4 DEF FramingInv

-----------------------------------------------------------------------------
(* What follows from it *)

LEMMA BodyLength ==
  ASSUME NEW m, NEW n \in Nat
  PROVE  Len(Body(m, n)) = n
<1> DEFINE B == {[msg |-> m, at |-> i, value |-> 0] : i \in 1 .. n}
<1>1. Body(m, n) \in [1 .. n -> B] /\ DOMAIN Body(m, n) = 1 .. n
  BY DEF Body
<1> HIDE DEF B
<1>2. Body(m, n) \in Seq(B)
  BY <1>1
<1> QED BY <1>1, <1>2, LenProperties

\* Every byte is of a message, after the messages before it and not after those behind it.
LEMMA ByteSomewhere ==
  ASSUME NEW size \in [1 .. MaxMsgs -> Sizes], NEW where,
         Laid(stream, size, where, MaxMsgs), NEW i \in 1 .. Len(stream)
  PROVE  /\ stream[i].msg \in 1 .. MaxMsgs
         /\ where[stream[i].msg] < i /\ i <= where[stream[i].msg + 1]
         /\ stream[i].at <= size[stream[i].msg]
<1>1. PICK m \in 1 .. MaxMsgs : where[m] < i /\ i <= where[m + 1]
  BY DEF Laid
<1>2. stream[i].msg = m /\ stream[i].at <= size[m]
  <2>1. \A k \in 1 .. MaxMsgs : \A j \in 1 .. Len(stream) :
          where[k] < j /\ j <= where[k + 1] => stream[j].msg = k /\ stream[j].at <= size[k]
    <3>1. Bytewise(size, where)
      BY ByteOf, Zenon
    <3> QED BY <3>1 DEF Bytewise
  <2> QED BY <1>1, <2>1
<1> QED BY <1>1, <1>2

LEMMA InvTypeOK ==
  ASSUME NEW size \in [1 .. MaxMsgs -> Sizes], NEW where,
         Laid(stream, size, where, MaxMsgs), Cut(size, where)
  PROVE  ReaderTypeOK
<1> DEFINE T == Trimmed(where)
<1>1. /\ stream \in Seq(Bytes) /\ Len(stream) \in Nat /\ T \in Nat
  BY CutBehind DEF Behind
<1>2. /\ arrived \in 0 .. Len(stream) /\ available \in 0 .. arrived
      /\ sizeRead \in BOOLEAN /\ reading \in BOOLEAN /\ canReadMore \in BOOLEAN
      /\ Len(passed) <= MaxMsgs /\ msgProcessed \in 0 .. MsgPerBuffer - 1
      /\ msgSize \in Nat /\ bytesRead \in Nat
      /\ T + bytesRead <= arrived - available
      /\ buffer = SubSeq(stream, T + 1, arrived - available)
  BY DEF Cut
<1> HIDE DEF T
<1>3. Len(buffer) = arrived - available - T
  <2>1. T \in 0 .. Len(stream) /\ arrived - available \in T .. Len(stream)
    BY <1>1, <1>2
  <2> QED BY <1>1, <1>2, <2>1, Piece
<1>4. bytesRead \in 0 .. Len(buffer)
  BY <1>1, <1>2, <1>3
<1> QED BY <1>2, <1>4 DEF ReaderTypeOK

LEMMA InvHandledAsSent ==
  ASSUME NEW size \in [1 .. MaxMsgs -> Sizes], NEW where,
         Laid(stream, size, where, MaxMsgs), Cut(size, where)
  PROVE  HandledAsSent
<1>1. /\ passed \in Seq(Seq(Bytes)) /\ Len(passed) <= MaxMsgs
      /\ \A m \in 1 .. Len(passed) : passed[m] = Body(m, size[m])
      /\ stream \in Seq(Bytes)
  BY DEF Cut, Laid
<1>2. /\ DOMAIN passed = 1 .. Len(passed) /\ DOMAIN stream = 1 .. Len(stream)
      /\ Len(passed) \in Nat
  BY <1>1, LenProperties
<1>3. ASSUME NEW m \in 1 .. Len(passed)
      PROVE  passed[m] = Body(m, Len(passed[m])) /\ Len(passed[m]) = size[m]
  <2>1. m \in 1 .. MaxMsgs
    BY <1>1, <1>2, SizesAssumption
  <2>2. size[m] \in Nat
    BY <2>1, SizesNat
  <2> QED BY <1>1, <2>2, BodyLength
<1>4. ASSUME NEW m \in 1 .. Len(passed), NEW i \in 1 .. Len(stream), stream[i].msg = m
      PROVE  stream[i].at <= Len(passed[m])
  BY <1>3, <1>4, ByteSomewhere
<1> QED BY <1>2, <1>3, <1>4 DEF HandledAsSent

\* While doRead waits, the last byte of the next message has not arrived.
LEMMA InvNoneLeftBehind ==
  ASSUME NEW size \in [1 .. MaxMsgs -> Sizes], NEW where,
         Laid(stream, size, where, MaxMsgs), Cut(size, where)
  PROVE  NoneLeftBehind
<1> DEFINE h == Len(passed)
<1> SUFFICES ASSUME ~reading, NEW m \in 1 .. MaxMsgs,
                    \A i \in DOMAIN stream : stream[i].msg = m => i <= arrived
             PROVE  m \in DOMAIN passed
  BY DEF NoneLeftBehind
<1>1. /\ stream \in Seq(Bytes) /\ Len(stream) \in Nat /\ DOMAIN stream = 1 .. Len(stream)
      /\ passed \in Seq(Seq(Bytes)) /\ h \in Nat /\ DOMAIN passed = 1 .. h
      /\ where \in [1 .. MaxMsgs + 1 -> Nat] /\ where[MaxMsgs + 1] = Len(stream)
      /\ \A a, b \in 1 .. MaxMsgs + 1 : a <= b => where[a] <= where[b]
      /\ \A k \in 1 .. MaxMsgs : where[k + 1] = where[k] + 4 + size[k]
  BY LenProperties DEF Cut, Laid, FieldSize
<1>2. MaxMsgs \in Nat /\ \A k \in 1 .. MaxMsgs : size[k] \in Nat
  BY SizesNat
<1>3. m + 1 \in 1 .. MaxMsgs + 1 /\ MaxMsgs + 1 \in 1 .. MaxMsgs + 1
  BY <1>2
<1>4. /\ where[m] \in Nat /\ where[m + 1] = where[m] + 4 + size[m] /\ size[m] \in Nat
      /\ where[m + 1] <= Len(stream)
  <2>1. where[m + 1] <= where[MaxMsgs + 1]
    BY <1>1, <1>3
  <2>2. m \in 1 .. MaxMsgs + 1
    BY <1>2
  <2> QED BY <1>1, <1>2, <2>1, <2>2
\* The last byte of message m has arrived
<1>5. where[m + 1] <= arrived
  <2> DEFINE last == where[m + 1]
  <2>1. last \in 1 .. Len(stream) /\ where[m] < last /\ last <= where[m + 1]
    BY <1>1, <1>4
  <2> HIDE DEF last
  <2>2. stream[last].msg = m
    <3>1. \A k \in 1 .. MaxMsgs : \A j \in 1 .. Len(stream) :
            where[k] < j /\ j <= where[k + 1] => stream[j].msg = k
      <4>1. Bytewise(size, where)
        BY ByteOf, Zenon
      <4> QED BY <4>1 DEF Bytewise
    <3> QED BY <2>1, <3>1
  <2> QED BY <1>1, <2>1, <2>2 DEF last
<1>6. ASSUME m > h PROVE FALSE
  <2>1. h < MaxMsgs
    BY <1>1, <1>2, <1>6
  <2>2. /\ ~canReadMore /\ arrived < Trimmed(where) + bytesRead + Needed
        /\ sizeRead \in BOOLEAN /\ arrived \in Int
        /\ sizeRead => msgSize = size[h + 1] /\ Trimmed(where) + bytesRead = where[h + 1] + 4
        /\ ~sizeRead => Trimmed(where) + bytesRead = where[h + 1]
    <3>1. arrived \in 0 .. Len(stream)
      BY DEF Cut
    <3>2. arrived \in Int
      BY <1>1, <3>1
    <3> QED BY <3>2 DEF Cut, FieldSize
  <2>3. h + 1 \in 1 .. MaxMsgs /\ h + 2 \in 1 .. MaxMsgs + 1 /\ h + 1 + 1 = h + 2 /\ h + 2 <= m + 1
    <3>1. h \in Nat /\ MaxMsgs \in Nat
      BY <1>1, <1>2
    <3> HIDE DEF h
    <3> QED BY <1>6, <2>1, <3>1
  <2>4. /\ where[h + 2] = where[h + 1] + 4 + size[h + 1] /\ size[h + 1] \in Nat
        /\ where[h + 1] \in Nat
    <3>1. h + 1 \in 1 .. MaxMsgs + 1
      BY <1>2, <2>3
    <3> QED BY <1>1, <1>2, <2>3, <3>1
  <2>5. where[h + 2] <= where[m + 1] /\ where[h + 2] \in Nat
    BY <1>1, <1>3, <2>3
  <2>6. arrived < where[h + 2]
    <3>1. CASE sizeRead
      <4>1. Needed = size[h + 1]
        BY <2>2, <3>1 DEF Needed
      <4> QED BY <2>2, <2>4, <3>1, <4>1
    <3>2. CASE ~sizeRead
      <4>1. Needed = 4
        BY <3>2 DEF Needed, FieldSize
      <4> QED BY <2>2, <2>4, <3>2, <4>1
    <3> QED BY <3>1, <3>2
  <2> QED BY <1>4, <1>5, <2>2, <2>5, <2>6
<1> QED BY <1>1, <1>2, <1>6

\* The buffer starts fewer than MsgPerBuffer messages before the next one.
LEMMA InvBufferTrimmed ==
  ASSUME NEW size \in [1 .. MaxMsgs -> Sizes], NEW where,
         Laid(stream, size, where, MaxMsgs), Cut(size, where)
  PROVE  BufferTrimmed
<1> DEFINE h == Len(passed)
           f == h - msgProcessed + 1
           T == Trimmed(where)
<1>1. /\ stream \in Seq(Bytes) /\ Len(stream) \in Nat /\ T \in Nat /\ h \in Nat
  BY CutBehind DEF Behind
<1>2. /\ arrived \in 0 .. Len(stream) /\ available \in 0 .. arrived /\ h <= MaxMsgs
      /\ msgProcessed \in 0 .. MsgPerBuffer - 1 /\ msgProcessed <= h /\ bytesRead \in Nat
      /\ T + bytesRead <= arrived - available
      /\ buffer = SubSeq(stream, T + 1, arrived - available)
      /\ MaxMsgs \in Nat /\ MsgPerBuffer \in Nat \ {0}
  BY SizesAssumption, MsgPerBufferAssumption DEF Cut
<1>3. T = where[f]
  BY DEF Trimmed
<1>4. f \in 1 .. MaxMsgs + 1 /\ f > h - MsgPerBuffer + 1
  BY <1>1, <1>2
<1> HIDE DEF T, f, h
<1>5. /\ buffer \in Seq(Bytes) /\ Len(buffer) = arrived - available - T
      /\ \A i \in 1 .. arrived - available - T : buffer[i] = stream[T + i]
  <2>1. PICK c : c = arrived - available
    OBVIOUS
  <2>2. T \in 0 .. Len(stream) /\ c \in T .. Len(stream) /\ buffer = SubSeq(stream, T + 1, c)
    BY <1>1, <1>2, <2>1
  <2>3. /\ SubSeq(stream, T + 1, c) \in Seq(Bytes) /\ Len(SubSeq(stream, T + 1, c)) = c - T
        /\ \A i \in 1 .. c - T : SubSeq(stream, T + 1, c)[i] = stream[T + i]
    BY <1>1, <2>2, Piece
  <2> QED BY <2>1, <2>2, <2>3
<1>6. DOMAIN buffer = 1 .. arrived - available - T
  BY <1>5, LenProperties
<1>7. ASSUME NEW i \in 1 .. arrived - available - T
      PROVE  buffer[i].msg > h - MsgPerBuffer
  <2> DEFINE m == stream[T + i].msg
  <2>1. T + i \in 1 .. Len(stream) /\ T < T + i
    BY <1>1, <1>2
  <2>2. m \in 1 .. MaxMsgs /\ T + i <= where[m + 1]
    BY <2>1, ByteSomewhere
  <2> HIDE DEF m
  <2>3. m + 1 \in 1 .. MaxMsgs + 1
    BY <1>2, <2>2
  <2>4. /\ \A a, b \in 1 .. MaxMsgs + 1 : a <= b => where[a] <= where[b]
        /\ where \in [1 .. MaxMsgs + 1 -> Nat]
    BY DEF Laid
  <2>5. ~(m + 1 <= f)
    <3>1. where[m + 1] \in Nat /\ where[m + 1] > where[f]
      BY <1>1, <1>3, <2>1, <2>2, <2>3, <2>4
    <3>2. where[f] \in Nat
      BY <1>4, <2>4
    <3> QED BY <1>4, <2>3, <2>4, <3>1, <3>2
  <2>6. m > h - MsgPerBuffer
    <3>1. h \in Int /\ MsgPerBuffer \in Int /\ m \in Int /\ f \in Int
      BY <1>1, <1>2, <1>4, <2>2
    <3> QED BY <1>4, <2>5, <3>1
  <2> QED BY <1>5, <2>6 DEF m
<1> QED BY <1>6, <1>7 DEF BufferTrimmed, h

LEMMA InvHandledInTime == FramingInv => HandledInTime
<1> SUFFICES ASSUME FramingInv PROVE HandledInTime
  OBVIOUS
<1>1. PICK size, where :
        /\ size \in [1 .. MaxMsgs -> Sizes]
        /\ Laid(stream, size, where, MaxMsgs) /\ Cut(size, where)
  BY DEF FramingInv
<1> QED BY <1>1, InvTypeOK, InvHandledAsSent, InvNoneLeftBehind, InvBufferTrimmed
        DEF HandledInTime

\* The messages come out of the byte stream whole, in order and as soon as they are
\* complete, whatever the pieces the network delivers them in, and the buffer of
\* ReceiverWorker::doRead never holds MSG_PER_BUFFER messages it has handled.
THEOREM DoReadCuts == ReaderSpec => []HandledInTime
<1>1. ReaderSpec => []FramingInv
  BY FramingInit, FramingStep, PTL DEF ReaderSpec
<1> QED BY <1>1, InvHandledInTime, PTL

-----------------------------------------------------------------------------
(* The tree of the builder is the tree the theorems are about *)

LEMMA SameOperators ==
  /\ Nodes = Proved!Nodes /\ Tree!Nodes = Proved!Nodes
  /\ Root = Proved!Root /\ Tree!Root = Proved!Root
  /\ NoNode = Proved!NoNode /\ Tree!NoNode = Proved!NoNode
  /\ Tree!TypeOK <=> Proved!TypeOK
  /\ \A n : Tree!RestartRoot(n) <=> Proved!RestartRoot(n)
  /\ \A n, i : Tree!GetChild(n, i) = Proved!GetChild(n, i)
BY DEF Nodes, Tree!Nodes, Proved!Nodes, Root, Tree!Root, Proved!Root,
       NoNode, Tree!NoNode, Proved!NoNode, Tree!NodeStatus, Proved!NodeStatus,
       Tree!TypeOK, Proved!TypeOK, Tree!RestartRoot, Proved!RestartRoot,
       Tree!GetChild, Proved!GetChild

LEMMA SamePromote == \A n, k, st : Tree!Promote(n, k, st) <=> Proved!Promote(n, k, st)
BY DEF Tree!Promote, Proved!Promote, Tree!ClosedBy, Proved!ClosedBy, Tree!Nodes, Proved!Nodes,
       Tree!NoNode, Proved!NoNode, Tree!AllClosed, Proved!AllClosed, Tree!AddEntries,
       Proved!AddEntries, Tree!NewKids, Proved!NewKids, Tree!SolvedBy, Proved!SolvedBy,
       Tree!Ancestors, Proved!Ancestors, Tree!StatsAfter, Proved!StatsAfter, Tree!Larger,
       Proved!Larger, Tree!Depth, Proved!Depth, Tree!IsClosing, Proved!IsClosing,
       Tree!Cardinality, Proved!Cardinality

LEMMA SameGrowth ==
  /\ \A k : Tree!CreateRoot(k) <=> Proved!CreateRoot(k)
  /\ \A n : Tree!AddExtraChild(n) <=> Proved!AddExtraChild(n)
BY DEF Tree!CreateRoot, Proved!CreateRoot, Tree!RootWith, Proved!RootWith, Tree!Root, Proved!Root,
       Tree!NoNode, Proved!NoNode, Tree!AddExtraChild, Proved!AddExtraChild,
       Tree!AddEntries, Proved!AddEntries

LEMMA SameNext == [Tree!Next]_treeVars <=> [Proved!Next]_(Proved!vars)
<1>1. treeVars = Proved!vars
  BY DEF treeVars, Proved!vars
<1>2. treeVars' = Proved!vars'
  BY DEF treeVars, Proved!vars
<1>3. \A p, a, r : Tree!PromoteNode(p, a, r) <=> Proved!PromoteNode(p, a, r)
  BY SamePromote, SameOperators DEF Tree!PromoteNode, Proved!PromoteNode,
     Tree!ChildrenCount, Proved!ChildrenCount
<1>4. Tree!Reports = Proved!Reports
  BY DEF Tree!Reports, Proved!Reports
<1>5. Tree!Next <=> Proved!Next
  BY <1>3, <1>4, SameGrowth, SameOperators DEF Tree!Next, Proved!Next
<1> QED BY <1>1, <1>2, <1>5

LEMMA SameInit == Tree!Init <=> Proved!Init
BY DEF Tree!Init, Proved!Init, Tree!RootWith, Proved!RootWith, Tree!Root, Proved!Root,
       Tree!NoNode, Proved!NoNode

-----------------------------------------------------------------------------
(* What the tree's operations leave behind *)

\* What is known of a tree between two steps.
LEMMA TreeFacts ==
  ASSUME Proved!ClosingInv
  PROVE  /\ Tree!TypeOK
         /\ nodeCount \in Nat
         /\ kids \in [Nodes -> Seq(Nodes)] /\ parent \in [Nodes -> Nodes \cup {NoNode}]
         /\ NoNode \notin Nodes
         /\ restarts => Root \in Nodes /\ status[Root] = "BRANCH"
         /\ \A n \in Nodes : kids[n] # <<>> => status[n] = "BRANCH"
         /\ \A n \in Nodes : \A i, j \in DOMAIN kids[n] :
              /\ parent[kids[n][i]] = n
              /\ kids[n][i] = kids[n][j] => i = j
         /\ \A n \in Nodes : parent[n] = NoNode <=> n = Root
<1>1. /\ Proved!TypeOK /\ Proved!TreeShape /\ Proved!DummyRoot /\ Proved!InnerAreBranches
  BY DEF Proved!ClosingInv, Proved!TreeInv
<1>2. /\ nodeCount \in Nat
      /\ kids \in [Proved!Nodes -> Seq(Proved!Nodes)]
      /\ parent \in [Proved!Nodes -> Proved!Nodes \cup {Proved!NoNode}]
  BY <1>1, BoundsAssumption DEF Proved!TypeOK
<1>3. NoNode \notin Nodes
  BY DEF NoNode, Tree!NoNode, Nodes, Tree!Nodes
<1> QED BY <1>1, <1>2, <1>3, SameOperators
        DEF Proved!TreeShape, Proved!DummyRoot, Proved!InnerAreBranches

\* Promoting an undetermined node changes that node only and gives it k
\* undetermined children.
LEMMA PromoteLeaves ==
  ASSUME Proved!ClosingInv, NEW nid \in Nodes, status[nid] = "UNDETERMINED",
         NEW k \in Nat, NEW st \in {"FAILED", "SOLVED", "SKIPPED", "BRANCH"},
         Tree!Promote(nid, k, st)
  PROVE  /\ Nodes \subseteq Nodes' /\ restarts' = restarts
         /\ status'[nid] = st /\ Len(kids'[nid]) = k
         /\ \A n \in Nodes \ {nid} : status'[n] = status[n] /\ kids'[n] = kids[n]
         /\ \A n \in Nodes : parent'[n] = parent[n]
         /\ \A n \in Nodes' : n \notin Nodes => status'[n] = "UNDETERMINED"
<1>1. /\ Proved!TypeOK /\ Proved!InnerAreBranches /\ Proved!Promote(nid, k, st)
      /\ nid \in Proved!Nodes /\ st \in Proved!NodeStatus
  BY SamePromote, SameOperators
     DEF Proved!ClosingInv, Proved!TreeInv, Proved!NodeStatus
<1>2. /\ nodeCount' = nodeCount + k
      /\ Proved!Nodes \subseteq Proved!Nodes'
      /\ status'[nid] = st
      /\ \A d \in Proved!Nodes \ {nid} : status'[d] = status[d] /\ kids'[d] = kids[d]
      /\ \A d \in Proved!Nodes' : d \notin Proved!Nodes => status'[d] = "UNDETERMINED"
      /\ restarts' = restarts
  BY <1>1, BoundsAssumption, Proved!PromotedMaps
<1>3. Len(kids'[nid]) = Len(kids[nid]) + k
  BY <1>1, BoundsAssumption, Proved!PromoteHangs DEF Proved!Hangs
<1>4. kids[nid] = <<>>
  BY <1>1 DEF Proved!InnerAreBranches
<1>5. \A n \in Proved!Nodes : parent'[n] = parent[n]
  <2>1. parent' = Proved!AddEntries(parent, k, nid)
    BY <1>1 DEF Proved!Promote
  <2> QED BY <1>1, <1>2, <2>1, BoundsAssumption, Proved!Grows
<1>6. Nodes' = Proved!Nodes'
  BY DEF Nodes, Tree!Nodes, Proved!Nodes
<1> QED BY <1>2, <1>3, <1>4, <1>5, <1>6, SameOperators

\* A root of a restart is one more undetermined child of the dummy root.
LEMMA ExtraChildLeaves ==
  ASSUME Proved!ClosingInv, restarts, Tree!AddExtraChild(Root)
  PROVE  /\ Nodes \subseteq Nodes' /\ restarts' = restarts
         /\ \A n \in Nodes : status'[n] = status[n] /\ parent'[n] = parent[n]
         /\ \A n \in Nodes \ {Root} : kids'[n] = kids[n]
         /\ \A n \in Nodes' : n \notin Nodes => status'[n] = "UNDETERMINED"
         /\ Len(kids'[Root]) = Len(kids[Root]) + 1
         /\ kids'[Root][Len(kids[Root]) + 1] \in Nodes'
         /\ status'[kids'[Root][Len(kids[Root]) + 1]] = "UNDETERMINED"
<1>1. /\ nodeCount \in Nat /\ Root \in Nodes /\ kids[Root] \in Seq(Nodes)
      /\ nodeCount' = nodeCount + 1 /\ restarts' = restarts
  BY TreeFacts DEF Tree!AddExtraChild
<1>2. /\ Nodes = 0 .. nodeCount - 1 /\ Nodes' = 0 .. nodeCount + 1 - 1
      /\ Nodes \subseteq Nodes' /\ nodeCount \in Nodes' /\ nodeCount \notin Nodes
      /\ \A n \in Nodes' : n < nodeCount <=> n \in Nodes
  BY <1>1 DEF Nodes, Tree!Nodes
<1>3. /\ \A n \in Nodes : status'[n] = status[n] /\ parent'[n] = parent[n]
      /\ \A n \in Nodes \ {Root} : kids'[n] = kids[n]
      /\ \A n \in Nodes' : n \notin Nodes => status'[n] = "UNDETERMINED"
      /\ kids'[Root] = Append(kids[Root], nodeCount)
  BY <1>1, <1>2 DEF Tree!AddExtraChild, Tree!AddEntries
<1>4. /\ Len(kids'[Root]) = Len(kids[Root]) + 1
      /\ kids'[Root][Len(kids[Root]) + 1] = nodeCount
  BY <1>1, <1>3
<1> QED BY <1>1, <1>2, <1>3, <1>4

\* The first tree: a branch and its undetermined children.
LEMMA CreateRootLeaves ==
  ASSUME NEW k \in Nat, Tree!CreateRoot(k)
  PROVE  /\ Nodes = {} /\ Root \in Nodes' /\ restarts' = restarts
         /\ status'[Root] = "BRANCH" /\ Len(kids'[Root]) = k
         /\ \A n \in Nodes' \ {Root} : status'[n] = "UNDETERMINED"
<1>1. Nodes = {} /\ Nodes' = 0 .. k /\ Root = 0
  BY DEF Tree!CreateRoot, Tree!RootWith, Nodes, Tree!Nodes, Root, Tree!Root
<1>2. /\ kids' = [n \in 0 .. k |-> IF n = Root THEN [i \in 1 .. k |-> i] ELSE <<>>]
      /\ status' = [n \in 0 .. k |-> IF n = Root THEN "BRANCH" ELSE "UNDETERMINED"]
      /\ restarts' = restarts
  BY DEF Tree!CreateRoot, Tree!RootWith, Root
<1>3. Len([i \in 1 .. k |-> i]) = k
  OBVIOUS
<1> QED BY <1>1, <1>2, <1>3
-----------------------------------------------------------------------------
(* The invariant of the builder *)

\* A message the solver may send: its identifier is new, and only a branch
\* node has children.
Fresh(m) ==
  /\ m \in Messages
  /\ \A h \in handled : h.uid # m.uid
  /\ m.status # "BRANCH" => m.kids = 0

\* The message it names as its parent was handled and has the child it names.
BelowHandled(m) ==
  m.puid # NoUid => \E g \in handled : g.uid = m.puid /\ m.alt < g.kids

\* Node n is what message m describes.
PlacedAt(m, n) ==
  /\ IF m.puid = NoUid
     THEN n = Root \/ (restarts /\ parent[n] = Root)
     ELSE n = kids[uid2id[m.puid]][m.alt + 1]
  /\ n # Root => status[n] = m.status
  /\ Len(kids[n]) = m.kids

\* The identifiers recorded are those of the messages handled, one each.
HandledKnown ==
  /\ DOMAIN uid2id = {h.uid : h \in handled}
  /\ \A g, h \in handled : g.uid = h.uid => g = h
  /\ \A h \in handled : BelowHandled(h)

\* What holds of the message being handled, the node it goes to and the
\* restarts counted, at each place handleNode can be in.
StepKnown ==
  /\ step # "placed" => target = NoNode
  /\ step = "extended" =>
       /\ restarts /\ Fresh(msg) /\ msg.puid = NoUid
       /\ Len(kids[Root]) = restartCount + 1
       /\ status[kids[Root][restartCount + 1]] = "UNDETERMINED"
  /\ step = "placed" =>
       /\ Fresh(msg) /\ BelowHandled(msg)
       /\ target \in Nodes /\ status[target] # "UNDETERMINED" /\ ~Tree!RestartRoot(target)
       /\ PlacedAt(msg, target)
  /\ restarts /\ step # "extended" => Len(kids[Root]) = restartCount
  /\ ~restarts /\ handled = {} /\ step # "placed" => nodeCount = 0

BuilderInv ==
  /\ Proved!ClosingInv
  /\ IdMapSound
  /\ BuildsWhatIsSent
  /\ HandledKnown
  /\ StepKnown

-----------------------------------------------------------------------------
(* Where a message goes *)

\* A handled message has a node of its own, which has been reported and is not
\* the dummy root.
LEMMA HandledNode ==
  ASSUME BuilderInv, NEW h \in handled
  PROVE  /\ h.uid \in DOMAIN uid2id
         /\ uid2id[h.uid] \in Nodes
         /\ uid2id[h.uid] \in DOMAIN nid2uid
         /\ status[uid2id[h.uid]] # "UNDETERMINED"
         /\ ~Tree!RestartRoot(uid2id[h.uid])
         /\ PlacedAt(h, uid2id[h.uid])
<1>1. h.uid \in DOMAIN uid2id /\ PlacedAt(h, uid2id[h.uid])
  BY DEF BuilderInv, BuildsWhatIsSent, MirrorsSolver, PlacedAt
<1>2. PICK n \in DOMAIN nid2uid : nid2uid[n] = h.uid
  BY <1>1 DEF BuilderInv, IdMapSound, IdMapExact, Range
<1>3. uid2id[h.uid] = n /\ n \in Nodes
  BY <1>2 DEF BuilderInv, IdMapSound, IdMapExact, TypeOK
<1> QED BY <1>1, <1>2, <1>3 DEF BuilderInv, IdMapSound, IdMapExact

\* A node that was reported and registered is the node of a handled message.
LEMMA RegisteredNode ==
  ASSUME BuilderInv, NEW n \in Nodes, n # target, status[n] # "UNDETERMINED",
         ~Tree!RestartRoot(n)
  PROVE  \E h \in handled : uid2id[h.uid] = n
<1>1. n \in DOMAIN nid2uid /\ uid2id[nid2uid[n]] = n
  BY DEF BuilderInv, IdMapSound, IdMapExact
<1>2. nid2uid[n] \in DOMAIN uid2id
  BY <1>1 DEF BuilderInv, IdMapSound, IdMapExact, Range
<1> QED BY <1>1, <1>2 DEF BuilderInv, HandledKnown

\* The message of a child that the solver may send goes to a node that has not
\* been reported, unless its parent was announced without children.
LEMMA ChildFree ==
  ASSUME BuilderInv, step = "idle", NEW m \in Messages, MaySend(m), m.puid # NoUid
  PROVE  \E h \in handled :
           /\ h.uid = m.puid
           /\ ParentOf(m) = uid2id[h.uid] /\ uid2id[h.uid] \in Nodes
           /\ ParentOf(m) # NoNode
           /\ Len(kids[ParentOf(m)]) = h.kids
           /\ h.kids > 0 =>
                /\ m.alt \in 0 .. h.kids - 1
                /\ m.alt + 1 \in DOMAIN kids[ParentOf(m)]
                /\ Tree!GetChild(ParentOf(m), m.alt) \in Nodes
                /\ status[Tree!GetChild(ParentOf(m), m.alt)] = "UNDETERMINED"
<1>1. PICK h \in handled : /\ h.uid = m.puid
                           /\ m.alt < h.kids \/ (h.kids = 0 /\ h.status = "BRANCH")
  BY DEF MaySend
<1> DEFINE pid == uid2id[h.uid]
<1>2. /\ h.uid \in DOMAIN uid2id /\ pid \in Nodes /\ pid \in DOMAIN nid2uid
      /\ ~Tree!RestartRoot(pid) /\ PlacedAt(h, pid)
  BY HandledNode
<1>3. Proved!ClosingInv
  BY DEF BuilderInv
<1>4. ParentOf(m) = pid /\ pid # NoNode /\ Len(kids[pid]) = h.kids
  BY <1>1, <1>2, <1>3, TreeFacts DEF ParentOf, GetNodeId, PlacedAt
<1>5. ASSUME h.kids > 0
      PROVE  /\ m.alt \in 0 .. h.kids - 1
             /\ m.alt + 1 \in DOMAIN kids[pid]
             /\ Tree!GetChild(pid, m.alt) \in Nodes
             /\ status[Tree!GetChild(pid, m.alt)] = "UNDETERMINED"
  <2> DEFINE c == kids[pid][m.alt + 1]
  <2>1. m.alt \in Nat /\ h.kids \in Nat /\ m.alt < h.kids
    <3>1. h \in Messages
      BY DEF BuilderInv, IdMapSound, TypeOK
    <3>2. m.alt \in Nat /\ h.kids \in Nat
      BY <3>1, BoundsAssumption DEF Messages
    <3> QED BY <1>1, <1>5, <3>2
  <2>2. kids[pid] \in Seq(Nodes)
    BY <1>2, <1>3, TreeFacts
  <2>3. m.alt + 1 \in DOMAIN kids[pid] /\ c \in Nodes
    BY <1>4, <2>1, <2>2
  <2>4. parent[c] = pid
    BY <1>2, <1>3, <2>3, TreeFacts
  <2>5. c # Root /\ ~Tree!RestartRoot(c)
    BY <1>2, <1>3, <1>4, <2>3, <2>4, TreeFacts, SameOperators DEF Tree!RestartRoot
  <2>6. status[c] = "UNDETERMINED"
    <3> SUFFICES ASSUME status[c] # "UNDETERMINED" PROVE FALSE
      OBVIOUS
    <3>1. c # target
      BY <1>3, <2>3, TreeFacts DEF BuilderInv, StepKnown
    <3>2. PICK g \in handled : uid2id[g.uid] = c
      BY <2>3, <2>5, <3>1, RegisteredNode
    <3>3. PlacedAt(g, c)
      BY <3>2, HandledNode
    <3>4. CASE g.puid = NoUid
      <4>1. restarts /\ parent[c] = Root
        BY <2>5, <3>3, <3>4 DEF PlacedAt
      <4>2. Tree!RestartRoot(pid)
        BY <2>4, <4>1, SameOperators DEF Tree!RestartRoot
      <4> QED BY <1>2, <4>2
    <3>5. CASE g.puid # NoUid
      <4>1. PICK f \in handled : f.uid = g.puid /\ g.alt < f.kids
        BY <3>5 DEF BuilderInv, HandledKnown, BelowHandled
      <4> DEFINE q == uid2id[f.uid]
      <4>2. q \in Nodes /\ PlacedAt(f, q)
        BY HandledNode
      <4>3. c = kids[q][g.alt + 1] /\ Len(kids[q]) = f.kids
        BY <3>3, <3>5, <4>1, <4>2 DEF PlacedAt
      <4>4. g.alt \in Nat /\ f.kids \in Nat
        <5>1. g \in Messages /\ f \in Messages
          BY DEF BuilderInv, IdMapSound, TypeOK
        <5> QED BY <5>1, BoundsAssumption DEF Messages
      <4>5. kids[q] \in Seq(Nodes)
        BY <1>3, <4>2, TreeFacts
      <4>6. g.alt + 1 \in DOMAIN kids[q]
        BY <4>1, <4>3, <4>4, <4>5
      <4>7. parent[c] = q
        BY <1>3, <4>2, <4>3, <4>6, TreeFacts
      <4>8. f = h
        BY <2>4, <4>7 DEF BuilderInv, BuildsWhatIsSent, MirrorsSolver
      <4>9. g.alt + 1 = m.alt + 1
        BY <1>2, <1>3, <2>3, <4>3, <4>6, <4>8, TreeFacts
      <4>10. g.puid = m.puid /\ g.alt = m.alt
        BY <1>1, <2>1, <4>1, <4>4, <4>8, <4>9
      <4> QED BY <4>10 DEF MaySend
    <3> QED BY <3>4, <3>5
  <2> QED BY <2>1, <2>3, <2>6 DEF Tree!GetChild
<1> QED BY <1>1, <1>2, <1>4, <1>5
\* The tree throws only at a child of a node announced without children.
LEMMA RejectedChild ==
  ASSUME BuilderInv, step = "idle", NEW m \in Messages, MaySend(m), Rejects(m)
  PROVE  \E h \in handled : h.uid = m.puid /\ h.kids = 0
<1>1. CASE m.puid = NoUid
  <2>1. ~restarts /\ nodeCount > 0 /\ handled = {}
    BY <1>1 DEF Rejects, ParentOf, MaySend
  <2>2. nodeCount = 0
    BY <2>1 DEF BuilderInv, StepKnown
  <2> QED BY <2>1, <2>2
<1>2. CASE m.puid # NoUid
  <2>1. PICK h \in handled :
          /\ h.uid = m.puid
          /\ ParentOf(m) # NoNode
          /\ Len(kids[ParentOf(m)]) = h.kids
          /\ h.kids > 0 =>
               /\ Tree!GetChild(ParentOf(m), m.alt) \in Nodes
               /\ status[Tree!GetChild(ParentOf(m), m.alt)] = "UNDETERMINED"
    BY <1>2, ChildFree
  <2>2. h.kids \in Nat
    BY BoundsAssumption DEF BuilderInv, IdMapSound, TypeOK, Messages
  <2>3. CASE h.kids > 0
    <3>1. kids[ParentOf(m)] # <<>>
      BY <2>1, <2>3
    <3>2. kids[Tree!GetChild(ParentOf(m), m.alt)] # <<>>
      BY <2>1, <3>1 DEF Rejects
    <3>3. Proved!ClosingInv
      BY DEF BuilderInv
    <3> QED BY <2>1, <2>3, <3>2, <3>3, TreeFacts
  <2> QED BY <2>1, <2>2, <2>3
<1> QED BY <1>1, <1>2

\* The message of a child that the tree accepts names a child of its parent.
LEMMA AcceptedChild ==
  ASSUME BuilderInv, step = "idle", NEW m \in Messages, MaySend(m),
         ParentOf(m) # NoNode, ~Rejects(m)
  PROVE  /\ m.puid # NoUid
         /\ \E h \in handled :
              /\ h.uid = m.puid /\ ParentOf(m) = uid2id[h.uid] /\ m.alt < h.kids
         /\ ParentOf(m) \in Nodes
         /\ m.alt \in Nat /\ m.alt < Len(kids[ParentOf(m)])
         /\ Tree!GetChild(ParentOf(m), m.alt) \in Nodes
         /\ status[Tree!GetChild(ParentOf(m), m.alt)] = "UNDETERMINED"
<1>1. m.puid # NoUid
  BY DEF ParentOf
<1>2. PICK h \in handled :
        /\ h.uid = m.puid
        /\ ParentOf(m) = uid2id[h.uid] /\ uid2id[h.uid] \in Nodes
        /\ Len(kids[ParentOf(m)]) = h.kids
        /\ h.kids > 0 =>
             /\ m.alt \in 0 .. h.kids - 1
             /\ Tree!GetChild(ParentOf(m), m.alt) \in Nodes
             /\ status[Tree!GetChild(ParentOf(m), m.alt)] = "UNDETERMINED"
  BY <1>1, ChildFree
<1>3. h.kids \in Nat
  BY BoundsAssumption DEF BuilderInv, IdMapSound, TypeOK, Messages
<1>4. h.kids > 0
  <2>1. kids[ParentOf(m)] # <<>>
    BY DEF Rejects
  <2>2. kids[ParentOf(m)] \in Seq(Nodes)
    BY <1>2, TreeFacts DEF BuilderInv
  <2> QED BY <1>2, <1>3, <2>1, <2>2
<1> QED BY <1>1, <1>2, <1>3, <1>4

\* A node has no more children than the tree has nodes.
LEMMA AltInTree ==
  ASSUME BuilderInv, NEW n \in Nodes, NEW a \in Nat, a < Len(kids[n])
  PROVE  a \in 0 .. nodeCount
<1>1. /\ kids[n] \in Seq(Nodes) /\ nodeCount \in Nat
      /\ \A i, j \in DOMAIN kids[n] : kids[n][i] = kids[n][j] => i = j
  BY TreeFacts DEF BuilderInv
<1> DEFINE D == 1 .. Len(kids[n])
<1>2. /\ DOMAIN kids[n] = D /\ Len(kids[n]) \in Nat /\ kids[n] \in [D -> Nodes]
  BY <1>1
<1>3. kids[n] \in Injection(D, Nodes)
  BY <1>1, <1>2 DEF Injection, IsInjective
<1>4. /\ IsFiniteSet(D) /\ Cardinality(D) = Len(kids[n])
  <2>1. Cardinality(D) = IF 1 > Len(kids[n]) THEN 0 ELSE Len(kids[n]) - 1 + 1
    BY <1>2, FS_Interval
  <2>2. IsFiniteSet(D)
    BY <1>2, FS_Interval
  <2> QED BY <1>2, <2>1, <2>2
<1>5. /\ IsFiniteSet(Nodes) /\ Cardinality(Nodes) = nodeCount
  <2>1. Nodes = 0 .. nodeCount - 1
    BY DEF Nodes, Tree!Nodes
  <2>2. IsFiniteSet(0 .. nodeCount - 1)
    BY <1>1, FS_Interval
  <2>3. Cardinality(0 .. nodeCount - 1) = IF 0 > nodeCount - 1 THEN 0 ELSE nodeCount - 1 - 0 + 1
    BY <1>1, FS_Interval
  <2> QED BY <1>1, <2>1, <2>2, <2>3
<1>6. Cardinality(D) <= Cardinality(Nodes)
  <2> HIDE DEF D
  <2> QED BY <1>3, <1>4, <1>5, FS_Injection
<1> QED BY <1>1, <1>2, <1>4, <1>5, <1>6

\* Every step of the builder is a step of the tree, or leaves it alone.
LEMMA TreeStep ==
  ASSUME BuilderInv, [Next]_vars
  PROVE  [Tree!Next]_treeVars
<1>0. Root = Tree!Root /\ Nodes = Tree!Nodes
  BY DEF Root, Nodes
<1>1. ASSUME NEW m \in Messages, HandleNode(m) PROVE Tree!Next \/ UNCHANGED treeVars
  <2>1. MaySend(m) /\ (Abort(m) \/ PlaceRoot(m) \/ PlaceNode(m) \/ ExtendRoot(m))
    BY <1>1 DEF HandleNode
  <2>2. CASE Abort(m)
    BY <2>2 DEF Abort
  <2>3. CASE PlaceRoot(m)
    <3>1. m.kids \in 0 .. MaxKids
      BY DEF Messages
    <3> QED BY <2>3, <3>1 DEF PlaceRoot, Tree!Next
  <2>4. CASE PlaceNode(m)
    <3> DEFINE pid == ParentOf(m)
               r == [kids |-> m.kids, status |-> m.status]
    <3>1. /\ step = "idle" /\ pid # NoNode /\ ~Rejects(m)
          /\ Tree!Promote(Tree!GetChild(pid, m.alt), m.kids, m.status)
      BY <2>4 DEF PlaceNode, Begin
    <3>2. /\ pid \in Nodes /\ m.alt \in Nat /\ m.alt < Len(kids[pid])
          /\ status[Tree!GetChild(pid, m.alt)] = "UNDETERMINED"
      BY <2>1, <3>1, AcceptedChild
    <3>3. m.alt \in 0 .. nodeCount
      BY <3>2, AltInTree
    <3>4. r \in Tree!Reports
      BY <2>1 DEF Tree!Reports, MaySend, Messages
    <3>5. Tree!PromoteNode(pid, m.alt, r)
      BY <3>1, <3>2 DEF Tree!PromoteNode, Tree!ChildrenCount
    <3> QED BY <1>0, <3>2, <3>3, <3>4, <3>5 DEF Tree!Next
  <2>5. CASE ExtendRoot(m)
    BY <1>0, <2>5 DEF ExtendRoot, Tree!Next
  <2> QED BY <2>1, <2>2, <2>3, <2>4, <2>5
<1>2. ASSUME PlaceRestart PROVE Tree!Next
  <2> DEFINE r == [kids |-> msg.kids, status |-> msg.status]
  <2>1. /\ step = "extended"
        /\ Tree!Promote(Tree!GetChild(Root, restartCount), msg.kids, msg.status)
    BY <1>2 DEF PlaceRestart
  <2>2. /\ restarts /\ Fresh(msg) /\ Len(kids[Root]) = restartCount + 1
        /\ status[kids[Root][restartCount + 1]] = "UNDETERMINED"
        /\ restartCount \in Nat /\ Root \in Nodes
    BY <2>1, TreeFacts DEF BuilderInv, StepKnown, IdMapSound, TypeOK
  <2>3. restartCount \in 0 .. nodeCount
    BY <2>2, AltInTree
  <2>4. r \in Tree!Reports
    BY <2>2 DEF Tree!Reports, Fresh, Messages
  <2>5. Tree!PromoteNode(Root, restartCount, r)
    BY <2>1, <2>2 DEF Tree!PromoteNode, Tree!ChildrenCount, Tree!GetChild
  <2> QED BY <1>0, <2>2, <2>3, <2>4, <2>5 DEF Tree!Next
<1>3. ASSUME Register PROVE UNCHANGED treeVars
  BY <1>3 DEF Register
<1>4. ASSUME UNCHANGED vars PROVE UNCHANGED treeVars
  BY <1>4 DEF vars
<1> QED BY <1>1, <1>2, <1>3, <1>4 DEF Next

-----------------------------------------------------------------------------
(* What a step that changes one node keeps *)

\* A handled message stays where it was placed when another node changes.
LEMMA StaysPlaced ==
  ASSUME BuilderInv, restarts' = restarts, uid2id' = uid2id,
         NEW x, \A g \in handled : uid2id[g.uid] # x,
         \A n \in Nodes \ {x} : status'[n] = status[n] /\ kids'[n] = kids[n],
         \A n \in Nodes : parent'[n] = parent[n],
         NEW h \in handled
  PROVE  PlacedAt(h, uid2id[h.uid])'
<1>1. uid2id[h.uid] \in Nodes \ {x} /\ PlacedAt(h, uid2id[h.uid])
  BY HandledNode
<1>2. ASSUME h.puid # NoUid PROVE uid2id[h.puid] \in Nodes \ {x}
  <2>1. PICK g \in handled : g.uid = h.puid
    BY <1>2 DEF BuilderInv, HandledKnown, BelowHandled
  <2> QED BY <2>1, HandledNode
<1>3. Root' = Root
  BY DEF Root, Tree!Root
<1> QED BY <1>1, <1>2, <1>3 DEF PlacedAt

\* The tree grew and one node x changed, which is the node just placed or the
\* dummy root: the messages handled before are where they were.
LEMMA OneNodeChanged ==
  ASSUME BuilderInv, [Next]_vars, UNCHANGED <<uid2id, nid2uid, handled>>,
         target = NoNode, restarts' = restarts, Nodes \subseteq Nodes',
         restartCount' \in Nat, msg' \in Messages, step' \in {"extended", "placed"},
         NEW x \in Nodes',
         x \in Nodes => status[x] = "UNDETERMINED" \/ Tree!RestartRoot(x),
         IF Tree!RestartRoot(x) THEN target' = NoNode ELSE target' = x,
         \A n \in Nodes \ {x} : status'[n] = status[n] /\ kids'[n] = kids[n],
         \A n \in Nodes : parent'[n] = parent[n],
         \A n \in Nodes' \ {x} : n \notin Nodes => status'[n] = "UNDETERMINED"
  PROVE  Proved!ClosingInv' /\ IdMapSound' /\ MirrorsSolver' /\ HandledKnown'
<1>1. Proved!ClosingInv'
  BY TreeStep, SameNext, Proved!ClosingInvStep, BoundsAssumption DEF BuilderInv
<1>2. /\ Tree!TypeOK' /\ NoNode' = NoNode /\ Root' = Root /\ NoNode \notin Nodes'
      /\ \A n : Tree!RestartRoot(n)' <=> Tree!RestartRoot(n)
  <2>1. (Proved!ClosingInv => Tree!TypeOK)'
    BY TreeFacts, PTL
  <2>2. NoNode \notin Nodes'
    BY DEF NoNode, Tree!NoNode, Nodes, Tree!Nodes
  <2> QED BY <1>1, <2>1, <2>2
          DEF NoNode, Tree!NoNode, Root, Tree!Root, Tree!RestartRoot
<1>3. \A g \in handled : uid2id[g.uid] # x
  BY HandledNode
<1>4. TypeOK'
  BY <1>2 DEF BuilderInv, IdMapSound, TypeOK
<1>5. IdMapExact'
  <2>1. ASSUME NEW n \in Nodes'
        PROVE  n \in DOMAIN nid2uid <=>
                 status'[n] # "UNDETERMINED" /\ ~Tree!RestartRoot(n) /\ n # target'
    <3>1. CASE n = x
      <4>1. x \notin DOMAIN nid2uid
        BY DEF BuilderInv, IdMapSound, IdMapExact, TypeOK
      <4> QED BY <3>1, <4>1
    <3>2. CASE n # x /\ n \in Nodes
      <4>1. n # target /\ n # target'
        BY <1>2, <3>2
      <4> QED BY <3>2, <4>1 DEF BuilderInv, IdMapSound, IdMapExact
    <3>3. CASE n # x /\ n \notin Nodes
      BY <3>3 DEF BuilderInv, IdMapSound, TypeOK
    <3> QED BY <3>1, <3>2, <3>3
  <2> QED BY <1>2, <2>1 DEF BuilderInv, IdMapSound, IdMapExact
<1>6. MirrorsSolver'
  <2>1. \A h \in handled : PlacedAt(h, uid2id[h.uid])'
    BY <1>3, StaysPlaced
  <2> QED BY <2>1 DEF BuilderInv, BuildsWhatIsSent, MirrorsSolver, PlacedAt
<1>7. HandledKnown'
  BY DEF BuilderInv, HandledKnown, BelowHandled
<1> QED BY <1>1, <1>4, <1>5, <1>6, <1>7 DEF IdMapSound

-----------------------------------------------------------------------------
(* The steps of handleNode *)

\* What stays known while the tree and the maps do not change.
LEMMA NothingChanged ==
  ASSUME BuilderInv, [Next]_vars, UNCHANGED <<treeVars, uid2id, nid2uid, restartCount, handled>>,
         target = NoNode, target' = NoNode, msg' \in Messages \cup {NoMsg},
         step = "idle", step' \in {"idle", "aborted"}
  PROVE  Proved!ClosingInv' /\ IdMapSound' /\ MirrorsSolver' /\ HandledKnown' /\ StepKnown'
<1>1. Proved!ClosingInv'
  BY TreeStep, SameNext, Proved!ClosingInvStep, BoundsAssumption DEF BuilderInv
<1>2. /\ Nodes' = Nodes /\ NoNode' = NoNode /\ Root' = Root /\ Tree!TypeOK'
      /\ \A n : Tree!RestartRoot(n)' <=> Tree!RestartRoot(n)
  <2>1. (Proved!ClosingInv => Tree!TypeOK)'
    BY TreeFacts, PTL
  <2> QED BY <1>1, <2>1
          DEF treeVars, Nodes, Tree!Nodes, NoNode, Tree!NoNode, Root, Tree!Root, Tree!RestartRoot
<1>3. TypeOK' /\ IdMapExact'
  BY <1>2 DEF BuilderInv, IdMapSound, TypeOK, IdMapExact, treeVars
<1>4. MirrorsSolver' /\ HandledKnown'
  BY <1>2 DEF BuilderInv, BuildsWhatIsSent, MirrorsSolver, HandledKnown, BelowHandled, treeVars
<1>5. StepKnown'
  BY <1>2 DEF BuilderInv, StepKnown, treeVars
<1> QED BY <1>1, <1>3, <1>4, <1>5 DEF IdMapSound

LEMMA AbortStep ==
  ASSUME BuilderInv, [Next]_vars, NEW m \in Messages, MaySend(m), Abort(m)
  PROVE  BuilderInv'
<1>1. /\ step = "idle" /\ msg' = m /\ step' = "aborted" /\ Rejects(m)
      /\ UNCHANGED <<treeVars, uid2id, nid2uid, restartCount, target, handled>>
  BY DEF Abort, Begin
<1>2. target = NoNode
  BY <1>1 DEF BuilderInv, StepKnown
<1>3. AbortsOnlyOnUnannounced'
  BY <1>1, RejectedChild DEF AbortsOnlyOnUnannounced
<1> QED BY <1>1, <1>2, <1>3, NothingChanged DEF BuilderInv, BuildsWhatIsSent

LEMMA PlaceRootStep ==
  ASSUME BuilderInv, [Next]_vars, NEW m \in Messages, MaySend(m), PlaceRoot(m)
  PROVE  BuilderInv'
<1>1. /\ step = "idle" /\ msg' = m /\ step' = "placed" /\ target' = Root
      /\ ParentOf(m) = NoNode /\ ~restarts /\ Tree!CreateRoot(m.kids)
      /\ UNCHANGED <<uid2id, nid2uid, restartCount, handled>>
  BY DEF PlaceRoot, Begin
<1>2. m.kids \in Nat /\ restartCount \in Nat /\ target = NoNode
  BY <1>1, BoundsAssumption DEF Messages, BuilderInv, StepKnown, IdMapSound, TypeOK
<1>3. /\ Nodes = {} /\ Root \in Nodes' /\ restarts' = restarts
      /\ status'[Root] = "BRANCH" /\ Len(kids'[Root]) = m.kids
      /\ \A n \in Nodes' \ {Root} : status'[n] = "UNDETERMINED"
  BY <1>1, <1>2, CreateRootLeaves
<1>4. ~Tree!RestartRoot(Root) /\ ~Tree!RestartRoot(Root)' /\ Root' = Root /\ NoNode' = NoNode
  BY <1>1, <1>3 DEF Tree!RestartRoot, Root, Tree!Root, NoNode, Tree!NoNode
<1>5. Proved!ClosingInv' /\ IdMapSound' /\ MirrorsSolver' /\ HandledKnown'
  BY <1>1, <1>2, <1>3, <1>4, OneNodeChanged
<1>6. m.puid = NoUid
  BY <1>1, ChildFree
<1>7. StepKnown'
  <2>1. Fresh(m)' /\ BelowHandled(m)'
    BY <1>1, <1>6 DEF Fresh, BelowHandled, MaySend
  <2>2. PlacedAt(m, Root)'
    BY <1>3, <1>4, <1>6 DEF PlacedAt
  <2> QED BY <1>1, <1>3, <1>4, <2>1, <2>2 DEF StepKnown, PlacedAt, Fresh, BelowHandled
<1> QED BY <1>1, <1>5, <1>7 DEF BuilderInv, BuildsWhatIsSent, AbortsOnlyOnUnannounced

LEMMA PlaceNodeStep ==
  ASSUME BuilderInv, [Next]_vars, NEW m \in Messages, MaySend(m), PlaceNode(m)
  PROVE  BuilderInv'
<1> DEFINE pid == ParentOf(m)
           x == kids[pid][m.alt + 1]
<1>1. /\ step = "idle" /\ msg' = m /\ step' = "placed" /\ target' = x
      /\ pid # NoNode /\ ~Rejects(m) /\ Tree!Promote(x, m.kids, m.status)
      /\ UNCHANGED <<uid2id, nid2uid, restartCount, handled>>
  BY DEF PlaceNode, Begin, Tree!GetChild
<1>2. /\ m.puid # NoUid
      /\ \E h \in handled : h.uid = m.puid /\ pid = uid2id[h.uid] /\ m.alt < h.kids
      /\ pid \in Nodes /\ m.alt \in Nat /\ m.alt < Len(kids[pid])
      /\ x \in Nodes /\ status[x] = "UNDETERMINED"
  BY <1>1, AcceptedChild DEF Tree!GetChild
<1>3. /\ m.kids \in Nat /\ restartCount \in Nat /\ target = NoNode
      /\ m.status \in {"FAILED", "SOLVED", "SKIPPED", "BRANCH"}
      /\ Proved!ClosingInv
  BY <1>1, BoundsAssumption DEF Messages, BuilderInv, StepKnown, IdMapSound, TypeOK
<1>4. /\ Nodes \subseteq Nodes' /\ restarts' = restarts
      /\ status'[x] = m.status /\ Len(kids'[x]) = m.kids
      /\ \A n \in Nodes \ {x} : status'[n] = status[n] /\ kids'[n] = kids[n]
      /\ \A n \in Nodes : parent'[n] = parent[n]
      /\ \A n \in Nodes' : n \notin Nodes => status'[n] = "UNDETERMINED"
  <2> HIDE DEF x
  <2> QED BY <1>1, <1>2, <1>3, PromoteLeaves
<1>5. /\ restarts => Root \in Nodes /\ x # Root
      /\ ~Tree!RestartRoot(x) /\ Root' = Root /\ NoNode' = NoNode
  <2>1. restarts => Root \in Nodes /\ x # Root
    BY <1>2, <1>3, TreeFacts
  <2> QED BY <2>1 DEF Tree!RestartRoot, Root, Tree!Root, NoNode, Tree!NoNode
<1>6. Proved!ClosingInv' /\ IdMapSound' /\ MirrorsSolver' /\ HandledKnown'
  <2> HIDE DEF x
  <2> QED BY <1>1, <1>2, <1>3, <1>4, <1>5, OneNodeChanged
<1>7. StepKnown'
  <2>1. Fresh(m)' /\ BelowHandled(m)'
    BY <1>1, <1>2 DEF Fresh, BelowHandled, MaySend
  <2>2. pid # x
    <3>1. kids[pid] # <<>>
      BY <1>2, <1>3, TreeFacts
    <3> QED BY <1>2, <1>3, <3>1, TreeFacts
  <2>3. kids'[uid2id'[m.puid]][m.alt + 1] = x
    BY <1>1, <1>2, <1>4, <2>2
  <2>4. PlacedAt(m, target)'
    BY <1>1, <1>2, <1>4, <2>3 DEF PlacedAt
  <2>5. target' \in Nodes' /\ status'[target'] # "UNDETERMINED"
    BY <1>1, <1>2, <1>3, <1>4
  <2>6. restarts' => Len(kids'[Root]) = restartCount
    BY <1>1, <1>4, <1>5 DEF BuilderInv, StepKnown
  <2>7. ~Tree!RestartRoot(target)'
    BY <1>1, <1>4, <1>5 DEF Tree!RestartRoot, Root
  <2> QED BY <1>1, <1>2, <2>1, <2>4, <2>5, <2>6, <2>7
          DEF StepKnown, Fresh, BelowHandled, PlacedAt
<1> QED BY <1>1, <1>6, <1>7 DEF BuilderInv, BuildsWhatIsSent, AbortsOnlyOnUnannounced

LEMMA ExtendRootStep ==
  ASSUME BuilderInv, [Next]_vars, NEW m \in Messages, MaySend(m), ExtendRoot(m)
  PROVE  BuilderInv'
<1>1. /\ step = "idle" /\ msg' = m /\ step' = "extended"
      /\ ParentOf(m) = NoNode /\ restarts /\ Tree!AddExtraChild(Root)
      /\ UNCHANGED <<uid2id, nid2uid, restartCount, target, handled>>
  BY DEF ExtendRoot, Begin
<1>2. /\ restartCount \in Nat /\ target = NoNode /\ Proved!ClosingInv
      /\ Len(kids[Root]) = restartCount /\ Root \in Nodes
  BY <1>1, TreeFacts DEF BuilderInv, StepKnown, IdMapSound, TypeOK
<1>3. /\ Nodes \subseteq Nodes' /\ restarts' = restarts
      /\ \A n \in Nodes : status'[n] = status[n] /\ parent'[n] = parent[n]
      /\ \A n \in Nodes \ {Root} : kids'[n] = kids[n]
      /\ \A n \in Nodes' : n \notin Nodes => status'[n] = "UNDETERMINED"
      /\ Len(kids'[Root]) = restartCount + 1
      /\ status'[kids'[Root][restartCount + 1]] = "UNDETERMINED"
  BY <1>1, <1>2, ExtraChildLeaves
<1>4. Tree!RestartRoot(Root) /\ Root' = Root /\ NoNode' = NoNode
  BY <1>1 DEF Tree!RestartRoot, Root, Tree!Root, NoNode, Tree!NoNode
<1>5. Proved!ClosingInv' /\ IdMapSound' /\ MirrorsSolver' /\ HandledKnown'
  BY <1>1, <1>2, <1>3, <1>4, OneNodeChanged
<1>6. m.puid = NoUid
  BY <1>1, ChildFree
<1>7. Fresh(m)'
  BY <1>1 DEF Fresh, MaySend
<1>8. StepKnown'
  BY <1>1, <1>2, <1>3, <1>4, <1>6, <1>7 DEF StepKnown, Fresh
<1> QED BY <1>1, <1>5, <1>8 DEF BuilderInv, BuildsWhatIsSent, AbortsOnlyOnUnannounced

LEMMA PlaceRestartStep ==
  ASSUME BuilderInv, [Next]_vars, PlaceRestart
  PROVE  BuilderInv'
<1> DEFINE x == kids[Root][restartCount + 1]
<1>1. /\ step = "extended" /\ step' = "placed" /\ msg' = msg /\ target' = x
      /\ restartCount' = restartCount + 1
      /\ Tree!Promote(x, msg.kids, msg.status)
      /\ UNCHANGED <<uid2id, nid2uid, handled>>
  BY DEF PlaceRestart, Tree!GetChild
<1>2. /\ restarts /\ Fresh(msg) /\ msg.puid = NoUid /\ target = NoNode
      /\ restartCount \in Nat /\ Len(kids[Root]) = restartCount + 1
      /\ status[x] = "UNDETERMINED" /\ Proved!ClosingInv
  BY <1>1 DEF BuilderInv, StepKnown, IdMapSound, TypeOK
<1>3. /\ msg.kids \in Nat /\ restartCount' \in Nat /\ msg' \in Messages
      /\ msg.status \in {"FAILED", "SOLVED", "SKIPPED", "BRANCH"}
  BY <1>1, <1>2, BoundsAssumption DEF Messages, Fresh
<1>4. x \in Nodes /\ Root \in Nodes /\ x # Root /\ parent[x] = Root
  <2>1. /\ Root \in Nodes /\ status[Root] = "BRANCH" /\ kids[Root] \in Seq(Nodes)
        /\ \A i \in DOMAIN kids[Root] : parent[kids[Root][i]] = Root
    BY <1>2, TreeFacts
  <2>2. restartCount + 1 \in DOMAIN kids[Root] /\ x \in Nodes
    BY <1>2, <2>1
  <2> QED BY <1>2, <2>1, <2>2
<1>5. /\ Nodes \subseteq Nodes' /\ restarts' = restarts
      /\ status'[x] = msg.status /\ Len(kids'[x]) = msg.kids
      /\ \A n \in Nodes \ {x} : status'[n] = status[n] /\ kids'[n] = kids[n]
      /\ \A n \in Nodes : parent'[n] = parent[n]
      /\ \A n \in Nodes' : n \notin Nodes => status'[n] = "UNDETERMINED"
  <2> HIDE DEF x
  <2> QED BY <1>1, <1>2, <1>3, <1>4, PromoteLeaves
<1>6. ~Tree!RestartRoot(x) /\ Root' = Root /\ NoNode' = NoNode
  BY <1>4 DEF Tree!RestartRoot, Root, Tree!Root, NoNode, Tree!NoNode
<1>7. Proved!ClosingInv' /\ IdMapSound' /\ MirrorsSolver' /\ HandledKnown'
  <2> HIDE DEF x
  <2> QED BY <1>1, <1>2, <1>3, <1>4, <1>5, <1>6, OneNodeChanged
<1>8. StepKnown'
  <2>1. Fresh(msg)' /\ BelowHandled(msg)'
    BY <1>1, <1>2 DEF Fresh, BelowHandled
  <2>2. PlacedAt(msg, target)'
    BY <1>1, <1>2, <1>4, <1>5, <1>6 DEF PlacedAt
  <2>3. target' \in Nodes' /\ status'[target'] # "UNDETERMINED"
    BY <1>1, <1>3, <1>4, <1>5
  <2>4. Len(kids'[Root]) = restartCount'
    BY <1>1, <1>2, <1>4, <1>5
  <2>5. ~Tree!RestartRoot(target)'
    BY <1>1, <1>4, <1>5 DEF Tree!RestartRoot, Root
  <2> QED BY <1>1, <1>2, <1>5, <1>6, <2>1, <2>2, <2>3, <2>4, <2>5 DEF StepKnown
<1> QED BY <1>1, <1>7, <1>8 DEF BuilderInv, BuildsWhatIsSent, AbortsOnlyOnUnannounced

\* Registering records the new identifier and its node, neither of which had
\* an entry, so insert keeps nothing it should replace.
LEMMA RegisterStep ==
  ASSUME BuilderInv, [Next]_vars, Register
  PROVE  BuilderInv'
<1>1. /\ step = "placed" /\ step' = "idle" /\ msg' = NoMsg /\ target' = NoNode
      /\ uid2id' = Insert(uid2id, msg.uid, target)
      /\ nid2uid' = Insert(nid2uid, target, msg.uid)
      /\ handled' = handled \cup {msg}
      /\ UNCHANGED <<treeVars, restartCount>>
  BY DEF Register, SetNodeId
<1>2. /\ Fresh(msg) /\ BelowHandled(msg) /\ PlacedAt(msg, target)
      /\ target \in Nodes /\ status[target] # "UNDETERMINED" /\ ~Tree!RestartRoot(target)
      /\ restarts => Len(kids[Root]) = restartCount
      /\ msg \in Messages /\ msg.uid \in Uids
  BY <1>1 DEF BuilderInv, StepKnown, Fresh, Messages
<1>3. Proved!ClosingInv'
  BY TreeStep, SameNext, Proved!ClosingInvStep, BoundsAssumption DEF BuilderInv
<1>4. /\ Nodes' = Nodes /\ NoNode' = NoNode /\ Root' = Root /\ Tree!TypeOK' /\ NoNode \notin Nodes
      /\ \A n : Tree!RestartRoot(n)' <=> Tree!RestartRoot(n)
      /\ status' = status /\ kids' = kids /\ parent' = parent /\ restarts' = restarts
  <2>1. (Proved!ClosingInv => Tree!TypeOK)'
    BY TreeFacts, PTL
  <2>2. NoNode \notin Nodes
    BY TreeFacts DEF BuilderInv
  <2> QED BY <1>1, <1>3, <2>1, <2>2
          DEF treeVars, Nodes, Tree!Nodes, NoNode, Tree!NoNode, Root, Tree!Root, Tree!RestartRoot
<1>5. /\ target \notin DOMAIN nid2uid /\ msg.uid \notin DOMAIN uid2id
      /\ DOMAIN nid2uid \subseteq Nodes
      /\ \A n \in DOMAIN nid2uid : nid2uid[n] \in DOMAIN uid2id /\ uid2id[nid2uid[n]] = n
      /\ \A u \in DOMAIN uid2id : \E n \in DOMAIN nid2uid : nid2uid[n] = u
  BY <1>2 DEF BuilderInv, IdMapSound, IdMapExact, TypeOK, HandledKnown, Fresh, Range
<1>6. /\ DOMAIN uid2id' = DOMAIN uid2id \cup {msg.uid}
      /\ \A u \in DOMAIN uid2id : uid2id'[u] = uid2id[u]
      /\ uid2id'[msg.uid] = target
      /\ DOMAIN nid2uid' = DOMAIN nid2uid \cup {target}
      /\ \A n \in DOMAIN nid2uid : nid2uid'[n] = nid2uid[n]
      /\ nid2uid'[target] = msg.uid
  BY <1>1, <1>5 DEF Insert
<1>7. TypeOK'
  <2>1. /\ DOMAIN uid2id' \subseteq Uids /\ Range(uid2id)' \subseteq Nodes
        /\ DOMAIN nid2uid' \subseteq Nodes /\ Range(nid2uid)' \subseteq Uids
    BY <1>2, <1>6 DEF BuilderInv, IdMapSound, TypeOK, Range
  <2> QED BY <1>1, <1>2, <1>4, <2>1 DEF BuilderInv, IdMapSound, TypeOK
<1>8. IdMapExact'
  <2>1. \A n \in Nodes' : n \in DOMAIN nid2uid' <=>
          status'[n] # "UNDETERMINED" /\ ~Tree!RestartRoot(n) /\ n # NoNode
    BY <1>2, <1>4, <1>6 DEF BuilderInv, IdMapSound, IdMapExact
  <2>2. Range(nid2uid)' = DOMAIN uid2id'
    BY <1>5, <1>6 DEF Range
  <2>3. \A n \in DOMAIN nid2uid' : uid2id'[nid2uid'[n]] = n
    BY <1>5, <1>6
  <2> QED BY <1>1, <1>4, <2>1, <2>2, <2>3 DEF IdMapExact
<1>9. HandledKnown'
  <2>1. DOMAIN uid2id' = {h.uid : h \in handled'}
    BY <1>1, <1>6 DEF BuilderInv, HandledKnown
  <2>2. \A g, h \in handled' : g.uid = h.uid => g = h
    BY <1>1, <1>2 DEF BuilderInv, HandledKnown, Fresh
  <2>3. \A h \in handled' : BelowHandled(h)'
    BY <1>1, <1>2 DEF BuilderInv, HandledKnown, BelowHandled
  <2> QED BY <2>1, <2>2, <2>3 DEF HandledKnown
<1>10. MirrorsSolver'
  <2>1. ASSUME NEW h \in handled
        PROVE  /\ h.uid \in DOMAIN uid2id /\ uid2id[h.uid] # target
               /\ PlacedAt(h, uid2id[h.uid])
               /\ h.puid # NoUid => h.puid \in DOMAIN uid2id
    BY <1>5, HandledNode DEF BuilderInv, HandledKnown, BelowHandled
  <2>2. msg.puid # NoUid => msg.puid \in DOMAIN uid2id
    BY <1>2 DEF BuilderInv, HandledKnown, BelowHandled
  <2>3. \A h \in handled : PlacedAt(h, uid2id[h.uid])'
    BY <1>4, <1>6, <2>1 DEF PlacedAt
  <2>4. PlacedAt(msg, target) <=>
          /\ IF msg.puid = NoUid
             THEN target = Root \/ (restarts' /\ parent'[target] = Root)
             ELSE target = kids'[uid2id'[msg.puid]][msg.alt + 1]
          /\ target # Root => status'[target] = msg.status
          /\ Len(kids'[target]) = msg.kids
    BY <1>4, <1>6, <2>2 DEF PlacedAt
  <2>5. ASSUME NEW m \in handled'
        PROVE  /\ m.uid \in DOMAIN uid2id'
               /\ LET n == uid2id'[m.uid] IN
                  /\ IF m.puid = NoUid
                     THEN n = Root' \/ (restarts' /\ parent'[n] = Root')
                     ELSE n = kids'[uid2id'[m.puid]][m.alt + 1]
                  /\ n # Root' => status'[n] = m.status
                  /\ Len(kids'[n]) = m.kids
    <3>1. CASE m \in handled
      BY <1>4, <1>6, <2>1, <2>3, <3>1 DEF PlacedAt
    <3>2. CASE m = msg
      BY <1>2, <1>4, <1>6, <2>4, <3>2
    <3> QED BY <1>1, <3>1, <3>2
  <2>6. ASSUME NEW m1 \in handled', NEW m2 \in handled', m1 # m2
        PROVE  uid2id'[m1.uid] # uid2id'[m2.uid]
    <3>1. m1 \in handled /\ m2 \in handled => uid2id[m1.uid] # uid2id[m2.uid]
      BY <2>6 DEF BuilderInv, BuildsWhatIsSent, MirrorsSolver
    <3> QED BY <1>1, <1>6, <2>1, <2>6, <3>1
  <2> QED BY <2>5, <2>6 DEF MirrorsSolver
<1>11. StepKnown'
  BY <1>1, <1>2, <1>4 DEF StepKnown
<1> QED BY <1>1, <1>3, <1>7, <1>8, <1>9, <1>10, <1>11
        DEF BuilderInv, IdMapSound, BuildsWhatIsSent, AbortsOnlyOnUnannounced

-----------------------------------------------------------------------------
(* The theorems *)

LEMMA BuilderInvInit ==
  ASSUME Init
  PROVE  BuilderInv
<1>1. /\ Tree!Init /\ uid2id = <<>> /\ nid2uid = <<>> /\ restartCount = 0
      /\ step = "idle" /\ msg = NoMsg /\ target = NoNode /\ handled = {}
  BY DEF Init
<1>2. Proved!ClosingInv
  BY <1>1, SameInit, BoundsAssumption, Proved!TreeInvInit, Proved!ClosingStart
     DEF Proved!ClosingInv
<1>3. Tree!TypeOK /\ NoNode \notin Nodes
  BY <1>2, TreeFacts
<1>4. IdMapSound
  <2>1. DOMAIN uid2id = {} /\ DOMAIN nid2uid = {}
    BY <1>1
  <2>2. TypeOK
    BY <1>1, <1>3, <2>1 DEF TypeOK, Range
  <2>3. \A n \in Nodes : status[n] = "UNDETERMINED" \/ Tree!RestartRoot(n)
    BY <1>1 DEF Tree!Init, Tree!RootWith, Tree!RestartRoot, Nodes, Tree!Nodes, Tree!Root
  <2> QED BY <1>1, <2>1, <2>2, <2>3 DEF IdMapSound, IdMapExact, Range
<1>5. BuildsWhatIsSent /\ HandledKnown
  BY <1>1 DEF BuildsWhatIsSent, MirrorsSolver, AbortsOnlyOnUnannounced, HandledKnown
<1>6. StepKnown
  BY <1>1 DEF StepKnown, Tree!Init, Tree!RootWith, Root
<1> QED BY <1>2, <1>4, <1>5, <1>6 DEF BuilderInv

LEMMA BuilderInvStep ==
  ASSUME BuilderInv, [Next]_vars
  PROVE  BuilderInv'
<1>1. ASSUME NEW m \in Messages, HandleNode(m) PROVE BuilderInv'
  BY <1>1, AbortStep, PlaceRootStep, PlaceNodeStep, ExtendRootStep DEF HandleNode
<1>2. ASSUME UNCHANGED vars PROVE BuilderInv'
  <2>1. Proved!ClosingInv'
    BY TreeStep, SameNext, Proved!ClosingInvStep, BoundsAssumption DEF BuilderInv
  <2>2. IdMapSound'
    BY <1>2 DEF BuilderInv, vars, treeVars, builderVars, IdMapSound, TypeOK, IdMapExact,
       Tree!TypeOK, Nodes, Tree!Nodes, NoNode, Root, Tree!RestartRoot
  <2>3. BuildsWhatIsSent' /\ HandledKnown'
    BY <1>2 DEF BuilderInv, vars, treeVars, builderVars, BuildsWhatIsSent, MirrorsSolver,
       AbortsOnlyOnUnannounced, HandledKnown, BelowHandled, Root, Tree!Root
  <2>4. StepKnown'
    BY <1>2 DEF BuilderInv, vars, treeVars, builderVars, StepKnown, Fresh, BelowHandled, PlacedAt,
       Nodes, Tree!Nodes, NoNode, Tree!NoNode, Root, Tree!Root, Tree!RestartRoot
  <2> QED BY <2>1, <2>2, <2>3, <2>4 DEF BuilderInv
<1> QED BY <1>1, <1>2, PlaceRestartStep, RegisterStep DEF Next

\* BuilderInv is an inductive invariant of the builder: whatever it is in the
\* middle of, it knows of every message handled and of the one at hand what the
\* next step of handleNode relies on.
THEOREM BuilderInvariant == Spec => []BuilderInv
<1>1. Init => BuilderInv
  BY BuilderInvInit
<1>2. BuilderInv /\ [Next]_vars => BuilderInv'
  BY BuilderInvStep
<1> QED BY <1>1, <1>2, PTL DEF Spec

\* The tree is the tree the solver explored, and the tree throws only at a child
\* of a node announced without children (handleNode).
THEOREM BuildsTheSolversTree == Spec => []BuildsWhatIsSent
<1>1. BuilderInv => BuildsWhatIsSent
  BY DEF BuilderInv
<1> QED BY <1>1, BuilderInvariant, PTL

\* Every reported node, and no other, can be traced to its solver's identifier
\* and back (IdMap), except the one between addNode and setNodeId.
THEOREM IdMapCorrect == Spec => []IdMapSound
<1>1. BuilderInv => IdMapSound
  BY DEF BuilderInv
<1> QED BY <1>1, BuilderInvariant, PTL

\* The builder drives the tree only through the operations of the tree's
\* specification, under the conditions it states, so everything proved about the
\* tree holds of the tree it builds.
THEOREM BuilderDrivesTree == Spec => ImplementsNodeTree
<1>1. Init => Tree!Init
  BY DEF Init
<1>2. BuilderInv /\ [Next]_vars => [Tree!Next]_(Tree!vars)
  BY TreeStep DEF treeVars, Tree!vars
<1> QED BY <1>1, <1>2, BuilderInvariant, PTL DEF Spec, ImplementsNodeTree, Tree!Spec
=============================================================================
