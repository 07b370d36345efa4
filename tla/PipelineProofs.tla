---------------------------- MODULE PipelineProofs ----------------------------
(***************************************************************************)
(* What becomes of the messages of a solver, for every number of           *)
(* connections, messages and executions.                                   *)
(*                                                                         *)
(* First how messages flow from one queue to the next.  Then the invariant *)
(* PipelineInv: the life of a connection, what may stand where in the      *)
(* queues, that no node message is lost, and that an execution that is     *)
(* done or saved has what one of its connections sent.  From it follow     *)
(* NothingMissing, DoneMeansBuilt when executions are not shared,          *)
(* SearchesSound when searches are not, and that the pipeline is a channel *)
(* of Delivery.                                                            *)
(***************************************************************************)
EXTENDS Pipeline, Induction

-----------------------------------------------------------------------------
(* A message that moves from one queue to the next *)

\* The messages of a queue of events.
Msgs(q) == [i \in DOMAIN q |-> q[i].msg]

LEMMA MsgsTyped ==
  ASSUME NEW E, NEW M, \A x \in E : x.msg \in M
  PROVE  \A q \in Seq(E) : /\ Msgs(q) \in Seq(M) /\ Len(Msgs(q)) = Len(q)
                           /\ \A i \in 1 .. Len(q) : Msgs(q)[i] = q[i].msg
<1> SUFFICES ASSUME NEW q \in Seq(E)
             PROVE  /\ Msgs(q) \in Seq(M) /\ Len(Msgs(q)) = Len(q)
                    /\ \A i \in 1 .. Len(q) : Msgs(q)[i] = q[i].msg
  OBVIOUS
<1>1. Len(q) \in Nat /\ DOMAIN q = 1 .. Len(q) /\ \A i \in 1 .. Len(q) : q[i] \in E
  BY LenProperties
<1>2. Msgs(q) = [i \in 1 .. Len(q) |-> q[i].msg]
  BY <1>1 DEF Msgs
<1>3. \A i \in 1 .. Len(q) : q[i].msg \in M
  BY <1>1
<1>4. [i \in 1 .. Len(q) |-> q[i].msg] \in Seq(M)
  BY <1>1, <1>3
<1>5. Len([i \in 1 .. Len(q) |-> q[i].msg]) = Len(q)
  BY <1>1
<1> QED BY <1>2, <1>4, <1>5

LEMMA MsgsAppend ==
  ASSUME NEW E, NEW M, \A x \in E : x.msg \in M
  PROVE  \A q \in Seq(E), x \in E : Msgs(Append(q, x)) = Append(Msgs(q), x.msg)
<1> SUFFICES ASSUME NEW q \in Seq(E), NEW x \in E
             PROVE  Msgs(Append(q, x)) = Append(Msgs(q), x.msg)
  OBVIOUS
<1>1. PICK k : k = Len(q)
  OBVIOUS
<1>2. PICK t, m, n : t = Append(q, x) /\ m = Msgs(q) /\ n = Append(m, x.msg)
  OBVIOUS
<1>3. /\ k \in Nat /\ t \in Seq(E) /\ Len(t) = k + 1 /\ t[k + 1] = x
      /\ \A i \in 1 .. k : t[i] = q[i]
  BY <1>1, <1>2, AppendProperties, LenProperties
<1>4. m \in Seq(M) /\ Len(m) = k /\ \A i \in 1 .. k : m[i] = q[i].msg
  BY <1>1, <1>2, MsgsTyped
<1>5. /\ Msgs(t) \in Seq(M) /\ Len(Msgs(t)) = k + 1
      /\ \A i \in 1 .. k + 1 : Msgs(t)[i] = t[i].msg
  <2>1. /\ Msgs(t) \in Seq(M) /\ Len(Msgs(t)) = Len(t)
        /\ \A i \in 1 .. Len(t) : Msgs(t)[i] = t[i].msg
    BY <1>3, MsgsTyped
  <2> QED BY <1>3, <2>1
<1>6. /\ n \in Seq(M) /\ Len(n) = k + 1 /\ n[k + 1] = x.msg
      /\ \A i \in 1 .. k : n[i] = m[i]
  BY <1>2, <1>4, AppendProperties
<1>7. \A i \in 1 .. k + 1 : Msgs(t)[i] = n[i]
  <2> SUFFICES ASSUME NEW i \in 1 .. k + 1 PROVE Msgs(t)[i] = n[i]
    OBVIOUS
  <2>1. i \in 1 .. k \/ i = k + 1
    BY <1>3
  <2> QED BY <1>3, <1>4, <1>5, <1>6, <2>1
<1>8. Msgs(t) = n
  BY <1>5, <1>6, <1>7, SeqEqual
<1> QED BY <1>2, <1>8

LEMMA MsgsCons ==
  ASSUME NEW E, NEW M, \A x \in E : x.msg \in M
  PROVE  \A q \in Seq(E), x \in E : Msgs(<<x>> \o q) = <<x.msg>> \o Msgs(q)
<1> SUFFICES ASSUME NEW q \in Seq(E), NEW x \in E
             PROVE  Msgs(<<x>> \o q) = <<x.msg>> \o Msgs(q)
  OBVIOUS
<1>1. PICK k : k = Len(q)
  OBVIOUS
<1>2. PICK t, m, n, o, p : /\ o = <<x>> /\ p = <<x.msg>>
                           /\ t = o \o q /\ m = Msgs(q) /\ n = p \o m
  OBVIOUS
<1>3. o \in Seq(E) /\ Len(o) = 1 /\ o[1] = x /\ p \in Seq(M) /\ Len(p) = 1 /\ p[1] = x.msg
  <2>1. x.msg \in M
    OBVIOUS
  <2>2. o \in Seq(E) /\ Len(o) = 1 /\ o[1] = x
    BY <1>2
  <2>3. p \in Seq(M) /\ Len(p) = 1 /\ p[1] = x.msg
    BY <1>2, <2>1
  <2> QED BY <2>2, <2>3
<1>4. /\ k \in Nat /\ t \in Seq(E) /\ Len(t) = 1 + k
      /\ \A i \in 1 .. 1 + k : t[i] = IF i <= 1 THEN o[i] ELSE q[i - 1]
  <2>1. k \in Nat
    BY <1>1, LenProperties
  <2>2. /\ t \in Seq(E) /\ Len(t) = Len(o) + Len(q)
        /\ \A i \in 1 .. Len(o) + Len(q) : t[i] = IF i <= Len(o) THEN o[i] ELSE q[i - Len(o)]
    BY <1>2, <1>3, ConcatProperties
  <2> QED BY <1>1, <1>3, <2>1, <2>2
<1>5. m \in Seq(M) /\ Len(m) = k /\ \A i \in 1 .. k : m[i] = q[i].msg
  BY <1>1, <1>2, MsgsTyped
<1>6. /\ Msgs(t) \in Seq(M) /\ Len(Msgs(t)) = 1 + k
      /\ \A i \in 1 .. 1 + k : Msgs(t)[i] = t[i].msg
  <2>1. /\ Msgs(t) \in Seq(M) /\ Len(Msgs(t)) = Len(t)
        /\ \A i \in 1 .. Len(t) : Msgs(t)[i] = t[i].msg
    BY <1>4, MsgsTyped
  <2> QED BY <1>4, <2>1
<1>7. /\ n \in Seq(M) /\ Len(n) = 1 + k
      /\ \A i \in 1 .. 1 + k : n[i] = IF i <= 1 THEN p[i] ELSE m[i - 1]
  <2>1. /\ n \in Seq(M) /\ Len(n) = Len(p) + Len(m)
        /\ \A i \in 1 .. Len(p) + Len(m) : n[i] = IF i <= Len(p) THEN p[i] ELSE m[i - Len(p)]
    BY <1>2, <1>3, <1>5, ConcatProperties
  <2> QED BY <1>3, <1>5, <2>1
<1>8. \A i \in 1 .. 1 + k : Msgs(t)[i] = n[i]
  <2> SUFFICES ASSUME NEW i \in 1 .. 1 + k PROVE Msgs(t)[i] = n[i]
    OBVIOUS
  <2>1. CASE i = 1
    <3>1. 1 \in 1 .. 1 + k /\ 1 <= 1
      BY <1>4
    <3>2. t[1] = x /\ n[1] = x.msg
      BY <1>3, <1>4, <1>7, <3>1
    <3> QED BY <1>6, <2>1, <3>1, <3>2
  <2>2. CASE i # 1
    <3>1. ~ (i <= 1) /\ i - 1 \in 1 .. k
      BY <1>4, <2>2
    <3>2. t[i] = q[i - 1] /\ n[i] = m[i - 1]
      BY <1>4, <1>7, <3>1
    <3> QED BY <1>5, <1>6, <3>1, <3>2
  <2> QED BY <2>1, <2>2
<1>9. Msgs(t) = n
  BY <1>6, <1>7, <1>8, SeqEqual
<1> QED BY <1>2, <1>9

\* s, then t.
Then(s, t) == s \o t

One(x) == <<x>>

LEMMA ThenAssociates ==
  /\ \A N : \A s, t \in Seq(N) : Then(s, t) \in Seq(N)
  /\ \A N : \A s, t, u \in Seq(N) : Then(Then(s, t), u) = Then(s, Then(t, u))
  /\ \A N : \A x \in N : One(x) \in Seq(N)
  /\ \A N : \A s \in Seq(N), x \in N : Append(s, x) = Then(s, One(x))
<1>1. \A N : \A s, t \in Seq(N) : s \o t \in Seq(N)
  BY ConcatProperties
<1>2. \A N : \A s, t, u \in Seq(N) : (s \o t) \o u = s \o (t \o u)
  BY ConcatAssociative
<1>3. \A N : \A s \in Seq(N), x \in N : Append(s, x) = s \o <<x>>
  BY AppendIsConcat
<1>4. \A N : \A x \in N : <<x>> \in Seq(N)
  OBVIOUS
<1> QED BY <1>1, <1>2, <1>3, <1>4 DEF Then, One

\* What is applied, what waits for the builder, for the main thread and on the
\* wire, one after the other.
Flow(a, b, m, w) == Then(a, Then(Then(b, m), w))

\* However a message moves on, the flow stays what it was.
LEMMA Moves ==
  \A N : \A a, b, m, w, o \in Seq(N) :
    /\ Flow(a, b, m, Then(w, o)) = Then(Flow(a, b, m, w), o)
    /\ Flow(a, b, Then(m, o), w) = Flow(a, b, m, Then(o, w))
    /\ Flow(a, Then(b, o), m, w) = Flow(a, b, Then(o, m), w)
    /\ Flow(Then(a, o), b, m, w) = Flow(a, Then(o, b), m, w)
<1> SUFFICES ASSUME NEW N, NEW a \in Seq(N), NEW b \in Seq(N), NEW m \in Seq(N),
                    NEW w \in Seq(N), NEW o \in Seq(N)
             PROVE  /\ Flow(a, b, m, Then(w, o)) = Then(Flow(a, b, m, w), o)
                    /\ Flow(a, b, Then(m, o), w) = Flow(a, b, m, Then(o, w))
                    /\ Flow(a, Then(b, o), m, w) = Flow(a, b, Then(o, m), w)
                    /\ Flow(Then(a, o), b, m, w) = Flow(a, Then(o, b), m, w)
  OBVIOUS
<1>1. \A s, t \in Seq(N) : Then(s, t) \in Seq(N)
  BY ThenAssociates
<1>2. \A s, t, u \in Seq(N) : Then(Then(s, t), u) = Then(s, Then(t, u))
  BY ThenAssociates
<1>3. Then(b, m) \in Seq(N) /\ Then(Then(b, m), w) \in Seq(N)
  BY <1>1
<1>4. Flow(a, b, m, Then(w, o)) = Then(Flow(a, b, m, w), o)
  <2>1. Then(Then(b, m), Then(w, o)) = Then(Then(Then(b, m), w), o)
    BY <1>2, <1>3
  <2> QED BY <1>2, <1>3, <2>1 DEF Flow
<1>5. Flow(a, b, Then(m, o), w) = Flow(a, b, m, Then(o, w))
  <2>1. Then(b, Then(m, o)) = Then(Then(b, m), o)
    BY <1>2
  <2>2. Then(Then(Then(b, m), o), w) = Then(Then(b, m), Then(o, w))
    BY <1>2, <1>3
  <2> QED BY <2>1, <2>2 DEF Flow
<1>6. Flow(a, Then(b, o), m, w) = Flow(a, b, Then(o, m), w)
  <2>1. Then(Then(b, o), m) = Then(b, Then(o, m))
    BY <1>2
  <2> QED BY <2>1 DEF Flow
<1>7. Flow(Then(a, o), b, m, w) = Flow(a, Then(o, b), m, w)
  <2>1. Then(Then(o, b), m) = Then(o, Then(b, m))
    BY <1>2
  <2>2. Then(Then(o, Then(b, m)), w) = Then(o, Then(Then(b, m), w))
    BY <1>2, <1>3
  <2>3. Then(Then(a, o), Then(Then(b, m), w)) = Then(a, Then(o, Then(Then(b, m), w)))
    BY <1>2, <1>3
  <2> QED BY <2>1, <2>2, <2>3 DEF Flow
<1> QED BY <1>4, <1>5, <1>6, <1>7

-----------------------------------------------------------------------------
(* What may be where *)

Delete == [type |-> "DELETE"]
Built(e) == [conn |-> Nil, msg |-> [type |-> "BUILT", exec |-> e]]

Nodes == UNION {NodesOf(c) : c \in Conns}
Msg == Nodes \cup {Start, Done, Delete} \cup {Built(e).msg : e \in Execs}

Messages(c) == NodesOf(c) \cup {Start, Done}
EventsOf(c) == [conn : {c}, msg : Messages(c) \cup {Delete}]
Events == (UNION {EventsOf(c) : c \in Conns}) \cup {Built(e) : e \in Execs}
NodeEvents(c) == [conn : {c}, msg : NodesOf(c)]

Typed ==
  /\ phase \in [Conns -> {"new", "started", "done", "closed"}]
  /\ sent \in [Conns -> Seq(Msg)] /\ \A c \in Conns : ToSet(sent[c]) \subseteq NodesOf(c)
  /\ wire \in [Conns -> Seq(Msg)]
  /\ receiver \in [Conns -> {"reading", "blocked", "finished", "deleted"}]
  /\ mainQ \in Seq(Events)
  /\ executions \subseteq Execs
  /\ links \in [Conns -> SUBSET Execs]
  /\ builderQ \in [Execs -> Seq(Msg)]
  /\ log \in [Execs -> Seq(Msg)]
  /\ done \subseteq Execs
  /\ saved \in [Execs -> Seq(Msg)]
  /\ process \in {"running", "quit", "aborted"}

\* What one connection has on its wire: START first, DONE last.
WireInOrder(c) ==
  /\ ToSet(wire[c]) \subseteq Messages(c)
  /\ \A x, y \in ToSet(wire[c]) : Ahead(x, y, wire[c]) => x # Done /\ y # Start
  /\ Done \in ToSet(wire[c]) => phase[c] \in {"done", "closed"}

\* Where a connection is in its life: START is read first and is the only event
\* of the connection while the receiver is blocked; the receiver is connected to
\* one builder at most, and ends when everything is read.
InLife(c) ==
  /\ links[c] \in {{}, {ExecOf(c)}}
  /\ receiver[c] = "reading" /\ links[c] = {} =>
       \/ phase[c] = "new" /\ wire[c] = <<>>
       \/ phase[c] # "new" /\ wire[c] # <<>> /\ Head(wire[c]) = Start
  /\ receiver[c] = "reading" /\ links[c] # {} =>
       phase[c] # "new" /\ Start \notin ToSet(wire[c])
  /\ receiver[c] = "blocked" =>
       phase[c] # "new" /\ Start \notin ToSet(wire[c]) /\ links[c] = {}
  /\ receiver[c] \in {"finished", "deleted"} => phase[c] = "closed" /\ wire[c] = <<>>
  /\ receiver[c] = "deleted" => links[c] = {}

\* What a queued event says of its connection.
EventInLife(x) ==
  /\ x.msg.type = "START" => receiver[x.conn] = "blocked"
  /\ x.msg.type \in {"NODE", "DONE"} =>
       receiver[x.conn] \in {"reading", "finished"} /\ links[x.conn] = {ExecOf(x.conn)}
  /\ x.msg.type = "DONE" => wire[x.conn] = <<>> /\ phase[x.conn] \in {"done", "closed"}
  /\ x.msg.type = "DELETE" => receiver[x.conn] = "finished"
  /\ x.msg.type = "BUILT" => x.msg.exec \in executions

\* Of two queued events of one connection, the first is a node, or DONE before
\* DELETE.
InOrder(x, y) ==
  \/ x.msg.type = "NODE" /\ y.msg.type # "START"
  \/ x.msg.type = "DONE" /\ y.msg.type = "DELETE"

MainInOrder ==
  /\ \A x \in ToSet(mainQ) : EventInLife(x)
  /\ \A x, y \in ToSet(mainQ) :
       Ahead(x, y, mainQ) /\ x.conn = y.conn /\ x.conn # Nil => InOrder(x, y)

\* Everything c has sent has reached its builder: nothing but DELETE is still
\* to come.
Passed(c) ==
  /\ phase[c] \in {"done", "closed"} /\ wire[c] = <<>>
  /\ \A x \in ToSet(mainQ) : x.conn = c => x.msg.type = "DELETE"

\* A DONE that waits for a builder stands behind all nodes of some connection.
DoneIsBehind ==
  \A e \in Execs : \A i \in DOMAIN builderQ[e] : builderQ[e][i] = Done =>
    \E c \in Conns : /\ ExecOf(c) = e /\ Passed(c)
                     /\ \A j \in DOMAIN builderQ[e] : j > i => builderQ[e][j] \notin NodesOf(c)

\* The tree of e holds everything one of its connections has sent.
BuiltFor(c) ==
  /\ Passed(c)
  /\ ToSet(builderQ[ExecOf(c)]) \cap NodesOf(c) = {}
  /\ From(c, log[ExecOf(c)]) = sent[c]

BuiltForOne(e) == \E c \in Conns : ExecOf(c) = e /\ BuiltFor(c)

DoneIsTrue ==
  /\ \A e \in done : BuiltForOne(e)
  /\ \A x \in ToSet(mainQ) : x.msg.type = "BUILT" => BuiltForOne(x.msg.exec)

Executed ==
  /\ \A c \in Conns : links[c] \subseteq executions
  /\ \A e \in Execs : builderQ[e] # <<>> => e \in executions
  /\ done \subseteq executions

SavedOnce ==
  /\ Saving /\ process # "quit" => done = {}
  /\ process = "quit" => \A e \in done : saved[e] = log[e]

Lives == \A c \in Conns : WireInOrder(c) /\ InLife(c)

PipelineInv ==
  /\ Typed
  /\ Lives
  /\ MainInOrder
  /\ NothingLost
  /\ DoneIsBehind
  /\ DoneIsTrue
  /\ Executed
  /\ SavedOnce

LEMMA MsgKinds ==
  \A m \in Msg : /\ m.type = "NODE" <=> m \in Nodes
                 /\ m.type = "START" <=> m = Start
                 /\ m.type = "DONE" <=> m = Done
                 /\ m.type = "DELETE" <=> m = Delete
<1> SUFFICES ASSUME NEW m \in Msg
             PROVE  /\ m.type = "NODE" <=> m \in Nodes
                    /\ m.type = "START" <=> m = Start
                    /\ m.type = "DONE" <=> m = Done
                    /\ m.type = "DELETE" <=> m = Delete
  OBVIOUS
<1>1. \A x \in Nodes : x.type = "NODE"
  BY DEF Nodes, NodesOf
<1>2. Start.type = "START" /\ Done.type = "DONE" /\ Delete.type = "DELETE"
  BY DEF Start, Done, Delete
<1>3. \A e : Built(e).msg.type = "BUILT"
  BY DEF Built
<1>4. m \in Nodes \/ m = Start \/ m = Done \/ m = Delete \/ \E e \in Execs : m = Built(e).msg
  BY DEF Msg
<1>5. CASE m \in Nodes
  BY <1>1, <1>2, <1>5
<1>6. CASE m = Start
  BY <1>1, <1>2, <1>6
<1>7. CASE m = Done
  BY <1>1, <1>2, <1>7
<1>8. CASE m = Delete
  BY <1>1, <1>2, <1>8
<1>9. CASE \E e \in Execs : m = Built(e).msg
  BY <1>1, <1>2, <1>3, <1>9
<1> QED BY <1>4, <1>5, <1>6, <1>7, <1>8, <1>9

LEMMA MsgTyped ==
  /\ Start \in Msg /\ Done \in Msg /\ Nodes \subseteq Msg
  /\ \A c \in Conns : NodesOf(c) \subseteq Nodes /\ Messages(c) \subseteq Msg
  /\ \A c, d \in Conns : c # d => NodesOf(c) \cap NodesOf(d) = {}
  /\ \A c \in Conns : Start \notin NodesOf(c) /\ Done \notin NodesOf(c)
<1>1. \A c, d \in Conns : c # d => NodesOf(c) \cap NodesOf(d) = {}
  <2> SUFFICES ASSUME NEW c \in Conns, NEW d \in Conns, NEW m \in NodesOf(c), m \in NodesOf(d)
               PROVE  c = d
    OBVIOUS
  <2>1. m.id \in {c} \X (1 .. MaxSent) /\ m.id \in {d} \X (1 .. MaxSent)
    BY DEF NodesOf
  <2> QED BY <2>1
<1>2. \A c \in Conns : NodesOf(c) \subseteq Nodes
  BY DEF Nodes
<1>3. Start \in Msg /\ Done \in Msg /\ Nodes \subseteq Msg
  BY DEF Msg
<1>4. Start \notin Nodes /\ Done \notin Nodes
  <2>1. Start.type = "START" /\ Done.type = "DONE"
    BY DEF Start, Done
  <2> QED BY <1>3, <2>1, MsgKinds
<1> QED BY <1>1, <1>2, <1>3, <1>4 DEF Messages

LEMMA EventKinds ==
  \A x \in Events :
    /\ x.msg \in Msg
    /\ \/ x.conn \in Conns /\ x.conn # Nil /\ x.msg \in Messages(x.conn) \cup {Delete}
       \/ x.conn = Nil /\ x.conn \notin Conns /\ x.msg.exec \in Execs /\ x.msg.type = "BUILT"
    /\ \A c \in Conns : x \in NodeEvents(c) <=> x.conn = c /\ x.msg.type = "NODE"
<1> SUFFICES ASSUME NEW x \in Events
             PROVE  /\ x.msg \in Msg
                    /\ \/ x.conn \in Conns /\ x.conn # Nil /\ x.msg \in Messages(x.conn) \cup {Delete}
                       \/ x.conn = Nil /\ x.conn \notin Conns /\ x.msg.exec \in Execs /\ x.msg.type = "BUILT"
                    /\ \A c \in Conns : x \in NodeEvents(c) <=> x.conn = c /\ x.msg.type = "NODE"
  OBVIOUS
<1>1. Nil \notin Conns
  BY NilAssumption
<1>2. CASE \E d \in Conns : x \in EventsOf(d)
  <2>1. PICK d \in Conns : x \in EventsOf(d)
    BY <1>2
  <2>2. x.conn = d /\ x.msg \in Messages(d) \cup {Delete} /\ x = [conn |-> d, msg |-> x.msg]
    BY <2>1 DEF EventsOf
  <2>3. x.msg \in Msg
    <3>1. Messages(d) \subseteq Msg /\ Delete \in Msg
      BY MsgTyped DEF Msg
    <3> QED BY <2>2, <3>1
  <2>4. x.msg.type = "NODE" <=> x.msg \in NodesOf(d)
    <3>1. Start.type # "NODE" /\ Done.type # "NODE" /\ Delete.type # "NODE"
      BY DEF Start, Done, Delete
    <3>2. \A m \in NodesOf(d) : m.type = "NODE"
      BY DEF NodesOf
    <3>3. x.msg \in NodesOf(d) \/ x.msg = Start \/ x.msg = Done \/ x.msg = Delete
      BY <2>2 DEF Messages
    <3> QED BY <3>1, <3>2, <3>3
  <2>5. \A c \in Conns : x \in NodeEvents(c) <=> c = d /\ x.msg \in NodesOf(d)
    BY <2>2 DEF NodeEvents
  <2> QED BY <1>1, <2>2, <2>3, <2>4, <2>5
<1>3. CASE \E e \in Execs : x = Built(e)
  <2>1. PICK e \in Execs : x = Built(e)
    BY <1>3
  <2>2. x.conn = Nil /\ x.msg.exec = e /\ x.msg.type = "BUILT" /\ x.msg = Built(e).msg
    BY <2>1 DEF Built
  <2>3. \A c \in Conns : x \notin NodeEvents(c)
    BY <1>1, <2>2 DEF NodeEvents
  <2> QED BY <1>1, <2>2, <2>3 DEF Msg
<1>4. (\E d \in Conns : x \in EventsOf(d)) \/ (\E e \in Execs : x = Built(e))
  BY DEF Events
<1> QED BY <1>2, <1>3, <1>4

-----------------------------------------------------------------------------
(* Types *)

\* What a solver may send next.
LEMMA SentTyped ==
  ASSUME Typed, NEW c \in Conns, Len(sent[c]) < MaxSent,
         NEW par \in IF SentBy(Team(c)) = {} THEN {Nil} ELSE SentBy(Team(c))
  PROVE  Node(<<c, Len(sent[c]) + 1>>, par) \in NodesOf(c)
<1>1. par \in NodeIds \cup {Nil}
  <2>1. \A d \in Conns : \A m \in NodesOf(d) : m.id \in NodeIds
    BY DEF NodesOf, NodeIds
  <2>2. \A d \in Conns : \A i \in DOMAIN sent[d] : sent[d][i] \in NodesOf(d)
    BY DEF Typed, ToSet
  <2>3. \A d \in Conns : \A i \in DOMAIN sent[d] : sent[d][i].id \in NodeIds
    BY <2>1, <2>2
  <2>4. SentBy(Team(c)) \subseteq NodeIds
    <3>1. ASSUME NEW x \in SentBy(Team(c)) PROVE x \in NodeIds
      <4>1. PICK d \in Conns : x \in {sent[d][i].id : i \in DOMAIN sent[d]}
        BY <3>1 DEF SentBy, Team
      <4> QED BY <2>3, <4>1
    <3> QED BY <3>1
  <2> QED BY <2>4
<1>2. Len(sent[c]) + 1 \in 1 .. MaxSent
  <2>1. sent[c] \in Seq(Msg)
    BY DEF Typed
  <2>2. Len(sent[c]) \in Nat
    BY <2>1, LenProperties
  <2> QED BY <2>2, ConnsAssumption
<1> QED BY <1>1, <1>2 DEF NodesOf, Node

LEMMA EventTyped ==
  /\ \A c \in Conns : \A m \in Messages(c) \cup {Delete} : [conn |-> c, msg |-> m] \in Events
  /\ \A e \in Execs : [conn |-> Nil, msg |-> [type |-> "BUILT", exec |-> e]] \in Events
<1>1. ASSUME NEW c \in Conns, NEW m \in Messages(c) \cup {Delete}
      PROVE  [conn |-> c, msg |-> m] \in Events
  <2>1. [conn |-> c, msg |-> m] \in EventsOf(c)
    BY DEF EventsOf
  <2> QED BY <2>1 DEF Events
<1>2. ASSUME NEW e \in Execs
      PROVE  [conn |-> Nil, msg |-> [type |-> "BUILT", exec |-> e]] \in Events
  BY DEF Events, Built
<1> QED BY <1>1, <1>2

LEMMA SolverTyped ==
  ASSUME Typed, NEW c \in Conns, Solver(c) PROVE Typed'
<1> USE DEF Solver
<1>1. wire[c] \in Seq(Msg) /\ sent[c] \in Seq(Msg)
  BY DEF Typed
<1>2. ASSUME NEW m \in Msg, Send(c, m) PROVE wire' \in [Conns -> Seq(Msg)]
  <2>1. Append(wire[c], m) \in Seq(Msg)
    BY <1>1, AppendProperties
  <2> QED BY <1>2, <2>1 DEF Send, Typed
<1>3. CASE SendStart(c)
  <2>1. wire' \in [Conns -> Seq(Msg)]
    BY <1>2, <1>3, MsgTyped DEF SendStart
  <2> QED BY <1>3, <2>1 DEF SendStart, Typed
<1>4. CASE SendDone(c)
  <2>1. wire' \in [Conns -> Seq(Msg)]
    BY <1>2, <1>4, MsgTyped DEF SendDone
  <2> QED BY <1>4, <2>1 DEF SendDone, Typed
<1>5. CASE Disconnect(c)
  BY <1>5 DEF Disconnect, Typed
<1>6. CASE SendNode(c)
  <2>1. PICK m \in NodesOf(c) : Send(c, m) /\ sent' = [sent EXCEPT ![c] = Append(@, m)]
    <3>1. PICK par \in IF SentBy(Team(c)) = {} THEN {Nil} ELSE SentBy(Team(c)) :
            LET m == Node(<<c, Len(sent[c]) + 1>>, par)
            IN  Send(c, m) /\ sent' = [sent EXCEPT ![c] = Append(@, m)]
      BY <1>6 DEF SendNode
    <3> QED BY <1>6, <3>1, SentTyped DEF SendNode
  <2>2. m \in Msg
    BY MsgTyped
  <2>3. wire' \in [Conns -> Seq(Msg)]
    BY <1>2, <2>1, <2>2
  <2>4. Append(sent[c], m) \in Seq(Msg) /\ ToSet(Append(sent[c], m)) = ToSet(sent[c]) \cup {m}
    BY <1>1, <2>2, QueueAppend
  <2>5. sent' \in [Conns -> Seq(Msg)] /\ \A d \in Conns : ToSet(sent'[d]) \subseteq NodesOf(d)
    BY <2>1, <2>4 DEF Typed
  <2> QED BY <1>6, <2>3, <2>5 DEF SendNode, Typed
<1> QED BY <1>3, <1>4, <1>5, <1>6

LEMMA ReceiverTyped ==
  ASSUME Typed, NEW c \in Conns, ToSet(wire[c]) \subseteq Messages(c), Receiver(c)
  PROVE  Typed'
<1> USE DEF Receiver, solverVars
<1>1. ASSUME NEW x \in Events, Post(x) PROVE mainQ' \in Seq(Events)
  BY <1>1, AppendProperties DEF Post, Typed
<1>2. CASE HandleMessage(c)
  <2>1. wire[c] \in Seq(Msg) /\ wire[c] # <<>>
    BY <1>2 DEF Typed, HandleMessage
  <2>2. Head(wire[c]) \in Messages(c) /\ Tail(wire[c]) \in Seq(Msg)
    BY <2>1, QueueTail
  <2>3. mainQ' \in Seq(Events)
    BY <1>1, <1>2, <2>2, EventTyped DEF HandleMessage
  <2>4. wire' \in [Conns -> Seq(Msg)]
    BY <1>2, <2>2 DEF HandleMessage, Typed
  <2> QED BY <1>2, <2>3, <2>4 DEF HandleMessage, Typed
<1>3. CASE Finish(c)
  <2>1. mainQ' \in Seq(Events)
    BY <1>1, <1>3, EventTyped DEF Finish, Delete
  <2> QED BY <1>3, <2>1 DEF Finish, Typed
<1> QED BY <1>2, <1>3

LEMMA ConductorTyped ==
  ASSUME Typed, MainInOrder, Conductor PROVE Typed'
<1> DEFINE x == Head(mainQ)
<1>1. mainQ \in Seq(Events) /\ mainQ # <<>>
  BY DEF Typed, Conductor
<1>2. x \in Events /\ Tail(mainQ) \in Seq(Events) /\ x \in ToSet(mainQ)
  BY <1>1, QueueTail
<1>3. mainQ' \in Seq(Events)
  BY <1>2, ThoseTyped DEF Conductor
<1>4. /\ x.msg \in Msg
      /\ \/ x.conn \in Conns
         \/ x.conn = Nil /\ x.msg.exec \in Execs /\ x.msg.type = "BUILT"
      /\ x.msg.type = "BUILT" => x.msg.exec \in Execs
  <2>1. ASSUME x.msg \in Messages(x.conn) \cup {Delete}, x.conn \in Conns PROVE x.msg.type # "BUILT"
    <3>1. Start.type = "START" /\ Done.type = "DONE" /\ Delete.type = "DELETE"
      BY DEF Start, Done, Delete
    <3>2. \A m \in NodesOf(x.conn) : m.type = "NODE"
      BY DEF NodesOf
    <3> QED BY <2>1, <3>1, <3>2 DEF Messages
  <2> QED BY <1>2, <2>1, EventKinds
<1>5. Start.type = "START"
  BY DEF Start
<1> HIDE DEF x
<1>6. /\ \/ x.msg = Start /\ HandleStart(x.conn)
         \/ x.msg.type \in {"NODE", "DONE"} /\ Forward(x.conn, x.msg)
         \/ x.msg.type = "DELETE" /\ DeleteReceiver(x.conn)
         \/ x.msg.type = "BUILT" /\ ExecutionDone(x.msg.exec)
      /\ UNCHANGED <<solverVars, wire, log>>
  BY DEF Conductor, x
<1> USE DEF solverVars
<1>7. CASE x.msg = Start /\ HandleStart(x.conn)
  <2>1. x.conn \in Conns
    BY <1>4, <1>5, <1>7
  <2>2. ExecOf(x.conn) \in Execs
    BY <2>1 DEF Execs
  <2>3. /\ executions' \subseteq Execs /\ links' \in [Conns -> SUBSET Execs]
        /\ receiver' \in [Conns -> {"reading", "blocked", "finished", "deleted"}]
    BY <1>7, <2>1, <2>2 DEF HandleStart, Typed
  <2> QED BY <1>3, <1>6, <1>7, <2>3 DEF HandleStart, Typed
<1>8. CASE x.msg.type \in {"NODE", "DONE"} /\ Forward(x.conn, x.msg)
  <2>1. \A e \in Execs : Append(builderQ[e], x.msg) \in Seq(Msg) /\ builderQ[e] \in Seq(Msg)
    <3> SUFFICES ASSUME NEW e \in Execs
                 PROVE  Append(builderQ[e], x.msg) \in Seq(Msg) /\ builderQ[e] \in Seq(Msg)
      OBVIOUS
    <3>1. builderQ[e] \in Seq(Msg)
      BY DEF Typed
    <3> QED BY <1>4, <3>1, AppendProperties
  <2>2. builderQ' \in [Execs -> Seq(Msg)]
    BY <1>8, <2>1 DEF Forward
  <2> QED BY <1>3, <1>6, <1>8, <2>2 DEF Forward, Typed
<1>9. CASE x.msg.type = "DELETE" /\ DeleteReceiver(x.conn)
  <2>1. x.conn \in Conns
    BY <1>4, <1>9
  <2>2. /\ links' \in [Conns -> SUBSET Execs]
        /\ receiver' \in [Conns -> {"reading", "blocked", "finished", "deleted"}]
    BY <1>9, <2>1 DEF DeleteReceiver, Typed
  <2> QED BY <1>3, <1>6, <1>9, <2>2 DEF DeleteReceiver, Typed
<1>10. CASE x.msg.type = "BUILT" /\ ExecutionDone(x.msg.exec)
  <2>1. x.msg.exec \in Execs
    BY <1>4, <1>10
  <2>2. /\ done' \subseteq Execs /\ saved' \in [Execs -> Seq(Msg)]
        /\ process' \in {"running", "quit", "aborted"}
    BY <1>10, <2>1 DEF ExecutionDone, Typed
  <2> QED BY <1>3, <1>6, <1>10, <2>2 DEF ExecutionDone, Typed
<1> QED BY <1>6, <1>7, <1>8, <1>9, <1>10

LEMMA BuilderTyped ==
  ASSUME Typed, NEW e \in Execs, Builder(e) PROVE Typed'
<1> DEFINE m == Head(builderQ[e])
<1>1. builderQ[e] \in Seq(Msg) /\ builderQ[e] # <<>> /\ log[e] \in Seq(Msg)
  BY DEF Typed, Builder
<1>2. m \in Msg /\ Tail(builderQ[e]) \in Seq(Msg)
  BY <1>1, QueueTail
<1>3. builderQ' \in [Execs -> Seq(Msg)]
  BY <1>2 DEF Builder, Typed
<1>4. Append(log[e], m) \in Seq(Msg)
  BY <1>1, <1>2, AppendProperties
<1> HIDE DEF m
<1>5. /\ \/ m.type = "NODE" /\ HandleNode(e, m)
         \/ m.type = "DONE" /\ FinishBuilding(e)
      /\ UNCHANGED <<solverVars, wire, receiver, executions, links, done, saved>>
  BY DEF Builder, m
<1> USE DEF solverVars
<1>6. CASE HandleNode(e, m)
  <2>1. log' \in [Execs -> Seq(Msg)] /\ process' \in {"running", "quit", "aborted"}
    BY <1>1, <1>4, <1>6 DEF HandleNode, Typed
  <2> QED BY <1>3, <1>5, <1>6, <2>1 DEF HandleNode, Typed
<1>7. CASE FinishBuilding(e)
  <2>1. mainQ' \in Seq(Events)
    BY <1>7, EventTyped, AppendProperties DEF FinishBuilding, Post, Typed
  <2> QED BY <1>3, <1>5, <1>7, <2>1 DEF FinishBuilding, Typed
<1> QED BY <1>5, <1>6, <1>7

-----------------------------------------------------------------------------
(* The life of a connection *)

LEMMA KindOfEvent ==
  /\ \A x \in Events : x.conn \in Conns => x.msg.type \in {"START", "NODE", "DONE", "DELETE"}
  /\ \A c \in Conns : \A m \in Messages(c) : m.type \in {"START", "NODE", "DONE"}
  /\ Start.type = "START" /\ Done.type = "DONE" /\ Delete.type = "DELETE"
  /\ \A c \in Conns : \A m \in NodesOf(c) : m.type = "NODE"
<1>1. Start.type = "START" /\ Done.type = "DONE" /\ Delete.type = "DELETE"
  BY DEF Start, Done, Delete
<1>2. \A c \in Conns : \A m \in NodesOf(c) : m.type = "NODE"
  BY DEF NodesOf
<1>3. \A c \in Conns : \A m \in Messages(c) : m.type \in {"START", "NODE", "DONE"}
  BY <1>1, <1>2 DEF Messages
<1> QED BY <1>1, <1>2, <1>3, EventKinds

LEMMA SolverLives ==
  ASSUME Typed, Lives, MainInOrder, NEW c \in Conns, Solver(c)
  PROVE  Lives' /\ MainInOrder'
<1> USE DEF Solver
<1>1. wire[c] \in Seq(Msg) /\ WireInOrder(c) /\ InLife(c)
  BY DEF Typed, Lives
<1>2. ASSUME NEW d \in Conns, d # c PROVE WireInOrder(d)' /\ InLife(d)'
  <2>1. wire'[d] = wire[d] /\ phase'[d] = phase[d]
    BY <1>2 DEF SendStart, SendNode, SendDone, Disconnect, Send, Typed
  <2>2. links' = links /\ receiver' = receiver
    OBVIOUS
  <2>3. WireInOrder(d) /\ InLife(d)
    BY DEF Lives
  <2> QED BY <2>1, <2>2, <2>3 DEF WireInOrder, InLife
<1>3. ASSUME NEW m \in Msg, Send(c, m)
      PROVE  /\ wire'[c] = Append(wire[c], m) /\ wire'[c] # <<>>
             /\ ToSet(wire'[c]) = ToSet(wire[c]) \cup {m}
             /\ \A x, y : Ahead(x, y, wire'[c]) <=> Ahead(x, y, wire[c]) \/ (x \in ToSet(wire[c]) /\ y = m)
             /\ Head(wire'[c]) = IF wire[c] = <<>> THEN m ELSE Head(wire[c])
  <2>1. wire'[c] = Append(wire[c], m)
    BY <1>3 DEF Send, Typed
  <2> QED BY <1>1, <2>1, QueueAppend, HeadTailAppend
<1>10. ASSUME NEW m \in Messages(c), Send(c, m), phase[c] \in {"new", "started"},
              m = Start => ToSet(wire[c]) = {}, m = Done => phase'[c] = "done"
       PROVE  WireInOrder(c)'
  <2>1. m \in Msg
    BY MsgTyped
  <2>2. /\ ToSet(wire'[c]) = ToSet(wire[c]) \cup {m}
        /\ \A x, y : Ahead(x, y, wire'[c]) <=> Ahead(x, y, wire[c]) \/ (x \in ToSet(wire[c]) /\ y = m)
    BY <1>3, <1>10, <2>1
  <2>3. Done \notin ToSet(wire[c])
    BY <1>1, <1>10 DEF WireInOrder
  <2>4. ToSet(wire'[c]) \subseteq Messages(c)
    BY <1>1, <2>2 DEF WireInOrder
  <2>5. ASSUME NEW x \in ToSet(wire'[c]), NEW y \in ToSet(wire'[c]), Ahead(x, y, wire'[c])
        PROVE  x # Done /\ y # Start
    <3>1. CASE x \in ToSet(wire[c]) /\ y = m
      BY <1>10, <2>3, <3>1
    <3>2. CASE Ahead(x, y, wire[c])
      <4>1. x \in ToSet(wire[c]) /\ y \in ToSet(wire[c])
        BY <3>2 DEF Ahead, ToSet
      <4> QED BY <1>1, <3>2, <4>1 DEF WireInOrder
    <3> QED BY <2>2, <2>5, <3>1, <3>2
  <2>6. Done \in ToSet(wire'[c]) => phase'[c] \in {"done", "closed"}
    BY <1>10, <2>2, <2>3
  <2> QED BY <2>4, <2>5, <2>6 DEF WireInOrder
<1>4. ASSUME phase[c] \in {"new", "started"}
             \/ (wire'[c] = wire[c] /\ phase'[c] \in {"done", "closed"})
      PROVE  MainInOrder'
  <2>1. mainQ' = mainQ /\ receiver' = receiver /\ links' = links /\ executions' = executions
    OBVIOUS
  <2>2. ASSUME NEW x \in ToSet(mainQ) PROVE EventInLife(x)'
    <3>1. EventInLife(x)
      BY <2>2 DEF MainInOrder
    <3>2. CASE x.conn = c
      BY <1>4, <2>1, <3>1, <3>2 DEF EventInLife
    <3>3. CASE x.conn # c
      <4>1. x \in Events
        BY <2>2, ElementOfSeq DEF Typed, ToSet
      <4>2. x.msg.type = "DONE" => x.conn \in Conns
        BY <4>1, EventKinds
      <4>3. x.conn \in Conns => wire'[x.conn] = wire[x.conn] /\ phase'[x.conn] = phase[x.conn]
        BY <3>3 DEF SendStart, SendNode, SendDone, Disconnect, Send, Typed
      <4> QED BY <2>1, <3>1, <4>2, <4>3 DEF EventInLife
    <3> QED BY <3>2, <3>3
  <2> QED BY <2>1, <2>2 DEF MainInOrder, InOrder
<1>5. ASSUME WireInOrder(c)', InLife(c)' PROVE Lives'
  BY <1>2, <1>5 DEF Lives
<1>6. CASE SendStart(c)
  <2>1. phase[c] = "new" /\ phase'[c] = "started" /\ Send(c, Start)
    BY <1>6 DEF SendStart, Typed
  <2>2. receiver[c] = "reading" /\ links[c] = {} /\ wire[c] = <<>>
    BY <1>1, <2>1 DEF InLife, Typed
  <2>3. ToSet(wire[c]) = {}
    BY <2>2, EmptySeq, LenProperties DEF ToSet
  <2>4. WireInOrder(c)'
    <3>1. Start \in Messages(c) /\ Start # Done
      BY KindOfEvent DEF Messages
    <3> QED BY <1>10, <2>1, <2>3, <3>1
  <2>5. InLife(c)'
    BY <1>3, <2>1, <2>2, MsgTyped DEF InLife
  <2>6. MainInOrder'
    BY <1>4, <2>1
  <2> QED BY <1>5, <2>4, <2>5, <2>6
<1>7. CASE SendNode(c)
  <2>1. PICK m \in NodesOf(c) : Send(c, m)
    <3>1. PICK par \in IF SentBy(Team(c)) = {} THEN {Nil} ELSE SentBy(Team(c)) :
            LET m == Node(<<c, Len(sent[c]) + 1>>, par)
            IN  Send(c, m) /\ sent' = [sent EXCEPT ![c] = Append(@, m)]
      BY <1>7 DEF SendNode
    <3> QED BY <1>7, <3>1, SentTyped DEF SendNode
  <2>2. phase[c] = "started" /\ phase' = phase
    BY <1>7 DEF SendNode
  <2>3. m \in Msg /\ m # Start /\ m # Done
    BY MsgTyped
  <2>4. WireInOrder(c)'
    <3>1. m \in Messages(c)
      BY DEF Messages
    <3> QED BY <1>10, <2>1, <2>2, <2>3, <3>1
  <2>5. InLife(c)'
    BY <1>1, <1>3, <2>1, <2>2, <2>3 DEF InLife
  <2>6. MainInOrder'
    BY <1>4, <2>2
  <2> QED BY <1>5, <2>4, <2>5, <2>6
<1>8. CASE SendDone(c)
  <2>1. phase[c] = "started" /\ phase'[c] = "done" /\ Send(c, Done)
    BY <1>8 DEF SendDone, Typed
  <2>2. Done \in Msg /\ Done # Start
    BY MsgTyped, KindOfEvent
  <2>3. WireInOrder(c)'
    <3>1. Done \in Messages(c)
      BY DEF Messages
    <3> QED BY <1>10, <2>1, <2>2, <3>1
  <2>4. InLife(c)'
    BY <1>1, <1>3, <2>1, <2>2 DEF InLife
  <2>5. MainInOrder'
    BY <1>4, <2>1
  <2> QED BY <1>5, <2>3, <2>4, <2>5
<1>9. CASE Disconnect(c)
  <2>1. phase[c] \in {"started", "done"} /\ phase'[c] = "closed" /\ wire' = wire
    BY <1>9 DEF Disconnect, Typed
  <2>2. WireInOrder(c)'
    BY <1>1, <2>1 DEF WireInOrder
  <2>3. InLife(c)'
    BY <1>1, <2>1 DEF InLife
  <2>4. MainInOrder'
    BY <1>4, <2>1
  <2> QED BY <1>5, <2>2, <2>3, <2>4
<1> QED BY <1>6, <1>7, <1>8, <1>9

\* What is still queued for a receiver that is reading.
LEMMA EventsOfReader ==
  ASSUME Typed, Lives, MainInOrder, NEW c \in Conns, receiver[c] = "reading"
  PROVE  \A x \in ToSet(mainQ) : x.conn = c =>
           /\ x.msg.type \in {"NODE", "DONE"} /\ links[c] = {ExecOf(c)}
           /\ x.msg.type = "DONE" => wire[c] = <<>>
<1> SUFFICES ASSUME NEW x \in ToSet(mainQ), x.conn = c
             PROVE  /\ x.msg.type \in {"NODE", "DONE"} /\ links[c] = {ExecOf(c)}
                    /\ x.msg.type = "DONE" => wire[c] = <<>>
  OBVIOUS
<1>1. EventInLife(x)
  BY DEF MainInOrder
<1>2. x \in Events
  BY ElementOfSeq DEF Typed, ToSet
<1>3. x.msg.type \in {"START", "NODE", "DONE", "DELETE"}
  BY <1>2, KindOfEvent
<1> QED BY <1>1, <1>3 DEF EventInLife

LEMMA PostedInOrder ==
  ASSUME Typed, MainInOrder, NEW z \in Events, mainQ' = Append(mainQ, z),
         \A x \in ToSet(mainQ) \cup {z} : EventInLife(x)',
         \A x \in ToSet(mainQ) : x.conn = z.conn /\ z.conn # Nil => InOrder(x, z)
  PROVE  MainInOrder'
<1>1. mainQ \in Seq(Events)
  BY DEF Typed
<1>2. /\ ToSet(mainQ') = ToSet(mainQ) \cup {z}
      /\ \A x, y : Ahead(x, y, mainQ') <=> Ahead(x, y, mainQ) \/ (x \in ToSet(mainQ) /\ y = z)
  BY <1>1, QueueAppend
<1>3. ASSUME NEW x \in ToSet(mainQ'), NEW y \in ToSet(mainQ'), Ahead(x, y, mainQ'),
             x.conn = y.conn, x.conn # Nil
      PROVE  InOrder(x, y)
  <2>1. CASE Ahead(x, y, mainQ)
    <3>1. x \in ToSet(mainQ) /\ y \in ToSet(mainQ)
      BY <2>1 DEF Ahead, ToSet
    <3> QED BY <1>3, <2>1, <3>1 DEF MainInOrder
  <2>2. CASE x \in ToSet(mainQ) /\ y = z
    BY <1>3, <2>2
  <2> QED BY <1>2, <1>3, <2>1, <2>2
<1> QED BY <1>2, <1>3 DEF MainInOrder, InOrder

LEMMA ReceiverLives ==
  ASSUME Typed, Lives, MainInOrder, NEW c \in Conns, Receiver(c)
  PROVE  Lives' /\ MainInOrder'
<1>0. PICK w, z : w = wire[c] /\ z = [conn |-> c, msg |-> Head(wire[c])]
  OBVIOUS
<1> USE DEF Receiver, solverVars
<1>1. w \in Seq(Msg) /\ WireInOrder(c) /\ InLife(c)
  BY <1>0 DEF Typed, Lives
<1>2. receiver[c] = "reading"
  BY DEF HandleMessage, Finish
<1>3. \A d \in Conns : d # c => wire'[d] = wire[d] /\ receiver'[d] = receiver[d]
  BY DEF HandleMessage, Finish, Typed
<1>4. phase' = phase /\ links' = links /\ executions' = executions
  OBVIOUS
<1>5. ASSUME NEW d \in Conns, d # c PROVE WireInOrder(d)' /\ InLife(d)'
  <2>1. wire'[d] = wire[d] /\ receiver'[d] = receiver[d]
    BY <1>3, <1>5
  <2>2. WireInOrder(d) /\ InLife(d)
    BY DEF Lives
  <2> QED BY <1>4, <2>1, <2>2 DEF WireInOrder, InLife
<1>6. ASSUME WireInOrder(c)', InLife(c)' PROVE Lives'
  BY <1>5, <1>6 DEF Lives
<1>7. ASSUME NEW x \in ToSet(mainQ), x.conn # c PROVE EventInLife(x)'
  <2>1. EventInLife(x) /\ x \in Events
    BY ElementOfSeq DEF MainInOrder, Typed, ToSet
  <2>2. x.conn \in Conns \/ x.msg.type = "BUILT"
    BY <2>1, EventKinds
  <2>3. x.conn \in Conns => wire'[x.conn] = wire[x.conn] /\ receiver'[x.conn] = receiver[x.conn]
    BY <1>3, <1>7
  <2> QED BY <1>4, <2>1, <2>2, <2>3 DEF EventInLife
<1>8. \A x \in ToSet(mainQ) : x.conn = c =>
        /\ x.msg.type \in {"NODE", "DONE"} /\ links[c] = {ExecOf(c)}
        /\ x.msg.type = "DONE" => wire[c] = <<>>
  BY <1>2, EventsOfReader
<1>9. CASE HandleMessage(c)
  <2>1. PICK m : m = Head(w)
    OBVIOUS
  <2>2. /\ w # <<>> /\ wire'[c] = Tail(w) /\ mainQ' = Append(mainQ, z)
        /\ receiver'[c] = IF m = Start THEN "blocked" ELSE "reading"
    BY <1>0, <1>2, <1>9, <2>1 DEF HandleMessage, Post, Typed
  <2>3. /\ m \in ToSet(w) /\ ToSet(w) = {m} \cup ToSet(wire'[c]) /\ wire'[c] \in Seq(Msg)
        /\ \A x, y : Ahead(x, y, wire'[c]) => Ahead(x, y, w)
        /\ \A y \in ToSet(wire'[c]) : Ahead(m, y, w)
    BY <1>1, <2>1, <2>2, QueueTail
  <2>4. m \in Messages(c) /\ m \in Msg
    BY <1>0, <1>1, <2>3, MsgTyped DEF WireInOrder
  <2>5. WireInOrder(c)'
    BY <1>0, <1>1, <1>4, <2>3 DEF WireInOrder
  <2>6. Start \notin ToSet(wire'[c])
    BY <1>0, <1>1, <2>3 DEF WireInOrder
  <2>7. phase[c] # "new" /\ (m = Start <=> links[c] = {})
    BY <1>0, <1>1, <1>2, <2>1, <2>2, <2>3 DEF InLife
  <2>8. InLife(c)'
    BY <1>1, <1>4, <2>2, <2>6, <2>7 DEF InLife
  <2>9. m = Done => phase[c] \in {"done", "closed"} /\ wire'[c] = <<>>
    <3>1. m = Done => ToSet(wire'[c]) = {}
      BY <1>0, <1>1, <2>3 DEF WireInOrder
    <3>2. wire'[c] # <<>> => Head(wire'[c]) \in ToSet(wire'[c])
      BY <2>3, QueueTail
    <3> QED BY <1>0, <1>1, <2>3, <3>1, <3>2 DEF WireInOrder
  <2>10. z \in Events /\ z.conn = c /\ z.msg = m
    BY <1>0, <2>1, <2>4, EventTyped
  <2>11. m.type \in {"START", "NODE", "DONE"} /\ (m.type = "START" <=> m = Start)
         /\ (m.type = "DONE" <=> m = Done)
    BY <2>4, KindOfEvent, MsgKinds
  <2>12. links[c] # {} => links[c] = {ExecOf(c)}
    BY <1>1 DEF InLife
  <2>13. EventInLife(z)'
    BY <1>4, <2>2, <2>7, <2>9, <2>10, <2>11, <2>12 DEF EventInLife
  <2>14. ASSUME NEW x \in ToSet(mainQ), x.conn = c
         PROVE  x.msg.type = "NODE" /\ links[c] # {} /\ EventInLife(x)'
    <3>1. x.msg.type = "NODE" /\ links[c] = {ExecOf(c)}
      BY <1>0, <1>8, <2>2, <2>14
    <3> QED BY <1>4, <2>2, <2>7, <2>14, <3>1 DEF EventInLife
  <2>15. \A x \in ToSet(mainQ) : x.conn = z.conn => InOrder(x, z)
    BY <2>7, <2>10, <2>11, <2>14 DEF InOrder
  <2>16. MainInOrder'
    BY <1>7, <2>2, <2>10, <2>13, <2>14, <2>15, PostedInOrder
  <2> QED BY <1>6, <2>5, <2>8, <2>16
<1>10. CASE Finish(c)
  <2>1. PICK y : y = [conn |-> c, msg |-> Delete]
    OBVIOUS
  <2>2. /\ phase[c] = "closed" /\ wire[c] = <<>> /\ wire' = wire
        /\ receiver'[c] = "finished" /\ mainQ' = Append(mainQ, y)
    BY <1>10, <2>1 DEF Finish, Post, Typed, Delete
  <2>3. WireInOrder(c)' /\ InLife(c)'
    BY <1>1, <1>4, <2>2 DEF WireInOrder, InLife
  <2>4. y \in Events /\ y.conn = c /\ y.msg.type = "DELETE"
    BY <2>1, EventTyped, KindOfEvent
  <2>5. EventInLife(y)'
    BY <2>2, <2>4 DEF EventInLife
  <2>6. ASSUME NEW x \in ToSet(mainQ), x.conn = c PROVE InOrder(x, y) /\ EventInLife(x)'
    <3>1. x.msg.type \in {"NODE", "DONE"} /\ links[c] = {ExecOf(c)}
      BY <1>8, <2>6
    <3> QED BY <1>4, <2>2, <2>4, <2>6, <3>1 DEF EventInLife, InOrder
  <2>7. MainInOrder'
    BY <1>7, <2>2, <2>4, <2>5, <2>6, PostedInOrder
  <2> QED BY <1>6, <2>3, <2>7
<1> QED BY <1>9, <1>10

\* What the main thread has left after an event.
LEMMA TakenFromMain ==
  ASSUME Typed, Conductor
  PROVE  LET x == Head(mainQ) IN
         /\ x \in Events /\ x \in ToSet(mainQ) /\ mainQ \in Seq(Events) /\ mainQ # <<>>
         /\ mainQ' \in Seq(Events) /\ ToSet(mainQ') \subseteq ToSet(mainQ)
         /\ \A y, z : Ahead(y, z, mainQ') => Ahead(y, z, mainQ)
         /\ \A y \in ToSet(mainQ') : Ahead(x, y, mainQ)
         /\ x.msg.type = "DELETE" => \A y \in ToSet(mainQ') : y.conn # x.conn
<1> DEFINE x == Head(mainQ)
           S == {y \in ToSet(mainQ) : y.conn # x.conn}
           t == Tail(mainQ)
<1>1. mainQ \in Seq(Events) /\ mainQ # <<>>
  BY DEF Typed, Conductor
<1>2. /\ x \in Events /\ t \in Seq(Events) /\ ToSet(mainQ) = {x} \cup ToSet(t)
      /\ \A y, z : Ahead(y, z, t) => Ahead(y, z, mainQ)
      /\ \A y \in ToSet(t) : Ahead(x, y, mainQ)
  BY <1>1, QueueTail
<1>3. /\ Those(t, S) \in Seq(Events) /\ ToSet(Those(t, S)) = ToSet(t) \cap S
      /\ \A y, z : Ahead(y, z, Those(t, S)) => Ahead(y, z, t)
  <2> HIDE DEF t, S
  <2> QED BY <1>2, ThoseTyped, ThoseInOrder
<1>4. mainQ' = IF x.msg.type = "DELETE" THEN Those(t, S) ELSE t
  BY DEF Conductor
<1>5. CASE x.msg.type = "DELETE"
  <2>1. \A y \in S : y.conn # x.conn
    OBVIOUS
  <2> HIDE DEF x, S, t
  <2>2. mainQ' = Those(t, S)
    BY <1>4, <1>5
  <2>3. \A y, z : Ahead(y, z, mainQ') => Ahead(y, z, mainQ)
    BY <1>2, <1>3, <2>2
  <2>4. ToSet(mainQ') = ToSet(t) \cap S /\ mainQ' \in Seq(Events)
    BY <1>3, <2>2
  <2>5. /\ ToSet(mainQ') \subseteq ToSet(mainQ)
        /\ \A y \in ToSet(mainQ') : Ahead(x, y, mainQ) /\ y.conn # x.conn
    BY <1>2, <2>1, <2>4
  <2> QED BY <1>1, <1>2, <2>3, <2>4, <2>5 DEF x
<1>6. CASE x.msg.type # "DELETE"
  <2> HIDE DEF x, S, t
  <2>1. mainQ' = t
    BY <1>4, <1>6
  <2> QED BY <1>1, <1>2, <1>6, <2>1 DEF x
<1> QED BY <1>5, <1>6

LEMMA ConductorLives ==
  ASSUME Typed, Lives, MainInOrder, Executed, Conductor
  PROVE  Lives' /\ MainInOrder' /\ Executed'
<1>0. PICK x : x = Head(mainQ)
  OBVIOUS
<1>1. /\ x \in Events /\ x \in ToSet(mainQ) /\ mainQ \in Seq(Events) /\ mainQ # <<>>
      /\ mainQ' \in Seq(Events) /\ ToSet(mainQ') \subseteq ToSet(mainQ)
      /\ \A y, z : Ahead(y, z, mainQ') => Ahead(y, z, mainQ)
      /\ \A y \in ToSet(mainQ') : Ahead(x, y, mainQ)
      /\ x.msg.type = "DELETE" => \A y \in ToSet(mainQ') : y.conn # x.conn
  BY <1>0, TakenFromMain
<1>2. /\ \/ x.msg = Start /\ HandleStart(x.conn)
         \/ x.msg.type \in {"NODE", "DONE"} /\ Forward(x.conn, x.msg)
         \/ x.msg.type = "DELETE" /\ DeleteReceiver(x.conn)
         \/ x.msg.type = "BUILT" /\ ExecutionDone(x.msg.exec)
      /\ UNCHANGED <<solverVars, wire, log>>
  BY <1>0 DEF Conductor
<1>3. wire' = wire /\ phase' = phase
  BY <1>2 DEF solverVars
<1>4. EventInLife(x) /\ \A y \in ToSet(mainQ') : EventInLife(y) /\ y \in Events
  <2>1. \A y \in ToSet(mainQ) : EventInLife(y)
    BY DEF MainInOrder
  <2>2. \A y \in ToSet(mainQ') : y \in Events
    BY <1>1, ElementOfSeq DEF ToSet
  <2> QED BY <1>1, <2>1, <2>2
<1>5. /\ x.msg \in Msg
      /\ \/ x.conn \in Conns /\ x.conn # Nil
         \/ x.conn = Nil /\ x.conn \notin Conns /\ x.msg.type = "BUILT"
  BY <1>1, EventKinds
<1>6. ASSUME \A y \in ToSet(mainQ') : EventInLife(y)' PROVE MainInOrder'
  <2>1. ASSUME NEW y \in ToSet(mainQ'), NEW z \in ToSet(mainQ'), Ahead(y, z, mainQ'),
               y.conn = z.conn, y.conn # Nil
        PROVE  InOrder(y, z)
    <3>1. Ahead(y, z, mainQ) /\ y \in ToSet(mainQ) /\ z \in ToSet(mainQ)
      BY <1>1, <2>1
    <3> QED BY <2>1, <3>1 DEF MainInOrder
  <2> QED BY <1>6, <2>1 DEF MainInOrder, InOrder
<1>7. ASSUME receiver' = receiver, links' = links, executions' = executions
      PROVE  Lives' /\ MainInOrder'
  <2>1. \A d \in Conns : WireInOrder(d)' /\ InLife(d)'
    BY <1>3, <1>7 DEF Lives, WireInOrder, InLife
  <2>2. \A y \in ToSet(mainQ') : EventInLife(y)'
    BY <1>3, <1>4, <1>7 DEF EventInLife
  <2> QED BY <1>6, <2>1, <2>2 DEF Lives
<1>8. CASE x.msg = Start /\ HandleStart(x.conn)
  <2>1. PICK c \in Conns : c = x.conn /\ c # Nil
    BY <1>5, <1>8, KindOfEvent
  <2>2. /\ executions' = executions \cup {ExecOf(c)} /\ links'[c] = links[c] \cup {ExecOf(c)}
        /\ receiver'[c] = "reading" /\ builderQ' = builderQ /\ done' = done
        /\ \A d \in Conns : d # c => links'[d] = links[d] /\ receiver'[d] = receiver[d]
    BY <1>8, <2>1 DEF HandleStart, Typed
  <2>3. receiver[c] = "blocked"
    BY <1>4, <1>8, <2>1, KindOfEvent DEF EventInLife
  <2>4. InLife(c)' /\ WireInOrder(c)'
    <3>1. InLife(c) /\ WireInOrder(c)
      BY DEF Lives
    <3> QED BY <1>3, <2>2, <2>3, <3>1 DEF InLife, WireInOrder
  <2>5. ASSUME NEW d \in Conns, d # c PROVE InLife(d)' /\ WireInOrder(d)'
    <3>1. InLife(d) /\ WireInOrder(d)
      BY DEF Lives
    <3> QED BY <1>3, <2>2, <2>5, <3>1 DEF InLife, WireInOrder
  <2>6. ASSUME NEW y \in ToSet(mainQ') PROVE EventInLife(y)'
    <3>1. y.conn # c
      <4>1. y.conn = c => InOrder(x, y)
        BY <1>1, <2>1, <2>6 DEF MainInOrder
      <4>2. ~ InOrder(x, y)
        BY <1>8, KindOfEvent DEF InOrder
      <4> QED BY <4>1, <4>2
    <3>2. EventInLife(y) /\ (y.conn \in Conns \/ y.msg.type = "BUILT")
      BY <1>4, <2>6, EventKinds
    <3> QED BY <1>3, <2>2, <3>1, <3>2 DEF EventInLife
  <2>7. Lives'
    BY <2>4, <2>5 DEF Lives
  <2>8. Executed'
    <3>1. \A d \in Conns : links'[d] \subseteq executions'
      BY <2>2 DEF Executed
    <3> QED BY <2>2, <3>1 DEF Executed
  <2> QED BY <1>6, <2>6, <2>7, <2>8
<1>9. CASE x.msg.type \in {"NODE", "DONE"} /\ Forward(x.conn, x.msg)
  <2>1. /\ receiver' = receiver /\ links' = links /\ executions' = executions /\ done' = done
        /\ builderQ' = [e \in Execs |-> IF e \in links[x.conn] THEN Append(builderQ[e], x.msg)
                                        ELSE builderQ[e]]
    BY <1>9 DEF Forward
  <2>2. x.conn \in Conns
    BY <1>5, <1>9
  <2>3. Executed'
    BY <2>1, <2>2 DEF Executed
  <2> QED BY <1>7, <2>1, <2>3
<1>10. CASE x.msg.type = "DELETE" /\ DeleteReceiver(x.conn)
  <2>1. PICK c \in Conns : c = x.conn
    BY <1>5, <1>10
  <2>2. /\ executions' = executions /\ links'[c] = {} /\ receiver'[c] = "deleted"
        /\ builderQ' = builderQ /\ done' = done
        /\ \A d \in Conns : d # c => links'[d] = links[d] /\ receiver'[d] = receiver[d]
    BY <1>10, <2>1 DEF DeleteReceiver, Typed
  <2>3. receiver[c] = "finished"
    BY <1>4, <1>10, <2>1 DEF EventInLife
  <2>4. InLife(c)' /\ WireInOrder(c)'
    <3>1. InLife(c) /\ WireInOrder(c)
      BY DEF Lives
    <3> QED BY <1>3, <2>2, <2>3, <3>1 DEF InLife, WireInOrder
  <2>5. ASSUME NEW d \in Conns, d # c PROVE InLife(d)' /\ WireInOrder(d)'
    <3>1. InLife(d) /\ WireInOrder(d)
      BY DEF Lives
    <3> QED BY <1>3, <2>2, <2>5, <3>1 DEF InLife, WireInOrder
  <2>6. ASSUME NEW y \in ToSet(mainQ') PROVE EventInLife(y)'
    <3>1. y.conn # c
      BY <1>1, <1>10, <2>1
    <3>2. EventInLife(y) /\ (y.conn \in Conns \/ y.msg.type = "BUILT")
      BY <1>4, <2>6, EventKinds
    <3> QED BY <1>3, <2>2, <3>1, <3>2 DEF EventInLife
  <2>7. Lives'
    BY <2>4, <2>5 DEF Lives
  <2>8. Executed'
    <3>1. \A d \in Conns : links'[d] \subseteq executions'
      BY <2>2 DEF Executed
    <3> QED BY <2>2, <3>1 DEF Executed
  <2> QED BY <1>6, <2>6, <2>7, <2>8
<1>11. CASE x.msg.type = "BUILT" /\ ExecutionDone(x.msg.exec)
  <2>1. /\ receiver' = receiver /\ links' = links /\ executions' = executions
        /\ builderQ' = builderQ /\ done' = done \cup {x.msg.exec}
    BY <1>11 DEF ExecutionDone
  <2>2. x.msg.exec \in executions
    BY <1>4, <1>11 DEF EventInLife
  <2>3. Executed'
    BY <2>1, <2>2 DEF Executed
  <2> QED BY <1>7, <2>1, <2>3
<1> QED BY <1>2, <1>8, <1>9, <1>10, <1>11

LEMMA BuilderLives ==
  ASSUME Typed, Lives, MainInOrder, Executed, NEW e \in Execs, Builder(e)
  PROVE  Lives' /\ MainInOrder' /\ Executed'
<1>1. /\ phase' = phase /\ wire' = wire /\ receiver' = receiver /\ links' = links
      /\ executions' = executions /\ done' = done
  BY DEF Builder, solverVars
<1>2. Lives'
  BY <1>1 DEF Lives, WireInOrder, InLife
<1>3. \A x : EventInLife(x) => EventInLife(x)'
  BY <1>1 DEF EventInLife
<1>4. e \in executions
  BY DEF Executed, Builder
<1>5. MainInOrder'
  <2>1. CASE mainQ' = mainQ
    BY <1>3, <2>1 DEF MainInOrder, InOrder
  <2>2. CASE mainQ' = Append(mainQ, Built(e))
    <3>1. Built(e) \in Events /\ Built(e).conn = Nil /\ EventInLife(Built(e))'
      <4>1. /\ Built(e).msg.type = "BUILT" /\ Built(e).msg.exec = e /\ Built(e).conn = Nil
        BY DEF Built
      <4> QED BY <1>1, <1>4, <4>1 DEF EventInLife, Events
    <3>2. \A x \in ToSet(mainQ) : EventInLife(x)'
      BY <1>3 DEF MainInOrder
    <3> QED BY <2>2, <3>1, <3>2, PostedInOrder
  <2> QED BY <2>1, <2>2 DEF Builder, HandleNode, FinishBuilding, Post, Built
<1>6. Executed'
  <2>1. ASSUME NEW f \in Execs, builderQ'[f] # <<>> PROVE f \in executions
    <3>1. CASE f = e
      BY <1>4, <3>1
    <3>2. CASE f # e
      BY <2>1, <3>2 DEF Builder, Typed, Executed
    <3> QED BY <3>1, <3>2
  <2> QED BY <1>1, <2>1 DEF Executed
<1> QED BY <1>2, <1>5, <1>6

-----------------------------------------------------------------------------
(* No node is lost *)

WaitingIn(c, q) == Msgs(Those(q, NodeEvents(c)))

\* The nodes of c are all there, applied or on their way, in the order sent.
Kept(c) ==
  Flow(From(c, log[ExecOf(c)]), From(c, builderQ[ExecOf(c)]), WaitingIn(c, mainQ), From(c, wire[c]))
    = sent[c]

LEMMA NothingLostIsKept ==
  NothingLost <=> (process # "aborted" => \A c \in Conns : Kept(c))
BY DEF NothingLost, InFlight, Kept, Flow, Then, WaitingIn, Msgs, NodeEvents

LEMMA FromFacts ==
  ASSUME NEW c \in Conns
  PROVE  \A s \in Seq(Msg) :
           /\ From(c, s) \in Seq(Msg)
           /\ \A m \in Msg : From(c, Append(s, m))
                = IF m \in NodesOf(c) THEN Then(From(c, s), One(m)) ELSE From(c, s)
           /\ s # <<>> => From(c, s) = IF Head(s) \in NodesOf(c)
                                       THEN Then(One(Head(s)), From(c, Tail(s)))
                                       ELSE From(c, Tail(s))
<1> SUFFICES ASSUME NEW s \in Seq(Msg)
             PROVE  /\ From(c, s) \in Seq(Msg)
                    /\ \A m \in Msg : From(c, Append(s, m))
                         = IF m \in NodesOf(c) THEN Then(From(c, s), One(m)) ELSE From(c, s)
                    /\ s # <<>> => From(c, s) = IF Head(s) \in NodesOf(c)
                                                THEN Then(One(Head(s)), From(c, Tail(s)))
                                                ELSE From(c, Tail(s))
  OBVIOUS
<1>1. From(c, s) \in Seq(Msg)
  BY ThoseTyped DEF From
<1>2. \A m \in Msg : From(c, Append(s, m))
        = IF m \in NodesOf(c) THEN Then(From(c, s), One(m)) ELSE From(c, s)
  <2>1. \A m \in Msg : From(c, Append(s, m))
          = IF m \in NodesOf(c) THEN Append(From(c, s), m) ELSE From(c, s)
    BY ThoseAppend DEF From
  <2> QED BY <1>1, <2>1, ThenAssociates
<1>3. ASSUME s # <<>>
      PROVE  From(c, s) = IF Head(s) \in NodesOf(c)
                          THEN Then(One(Head(s)), From(c, Tail(s))) ELSE From(c, Tail(s))
  <2>1. PICK u : u = Those(Tail(s), NodesOf(c))
    OBVIOUS
  <2>2. u \in Seq(Msg)
    BY <1>3, <2>1, QueueTail, ThoseTyped
  <2>3. Those(s, NodesOf(c)) = HeadIn(s, NodesOf(c)) \o u
    BY <1>3, <2>1, ThoseTail
  <2>4. <<>> \o u = u
    BY <2>2, ConcatEmptySeq
  <2> QED BY <2>1, <2>3, <2>4 DEF HeadIn, From, Then, One
<1> QED BY <1>1, <1>2, <1>3

LEMMA WaitingFacts ==
  ASSUME NEW c \in Conns
  PROVE  \A q \in Seq(Events) :
           /\ WaitingIn(c, q) \in Seq(Msg)
           /\ \A x \in Events : WaitingIn(c, Append(q, x))
                = IF x \in NodeEvents(c) THEN Then(WaitingIn(c, q), One(x.msg)) ELSE WaitingIn(c, q)
           /\ q # <<>> => WaitingIn(c, q) = IF Head(q) \in NodeEvents(c)
                                            THEN Then(One(Head(q).msg), WaitingIn(c, Tail(q)))
                                            ELSE WaitingIn(c, Tail(q))
<1> SUFFICES ASSUME NEW q \in Seq(Events)
             PROVE  /\ WaitingIn(c, q) \in Seq(Msg)
                    /\ \A x \in Events : WaitingIn(c, Append(q, x))
                         = IF x \in NodeEvents(c) THEN Then(WaitingIn(c, q), One(x.msg))
                           ELSE WaitingIn(c, q)
                    /\ q # <<>> => WaitingIn(c, q) = IF Head(q) \in NodeEvents(c)
                                                     THEN Then(One(Head(q).msg), WaitingIn(c, Tail(q)))
                                                     ELSE WaitingIn(c, Tail(q))
  OBVIOUS
<1>1. \A x \in Events : x.msg \in Msg
  BY EventKinds
<1>2. \A s \in Seq(Events) : Msgs(s) \in Seq(Msg)
  BY <1>1, MsgsTyped
<1>3. \A s \in Seq(Events), x \in Events : Msgs(Append(s, x)) = Append(Msgs(s), x.msg)
  BY <1>1, MsgsAppend
<1>4. \A s \in Seq(Events), x \in Events : Msgs(<<x>> \o s) = <<x.msg>> \o Msgs(s)
  BY <1>1, MsgsCons
<1>5. \A s \in Seq(Events) : Those(s, NodeEvents(c)) \in Seq(Events)
  BY ThoseTyped
<1>6. ASSUME NEW x \in Events
      PROVE  WaitingIn(c, Append(q, x))
               = IF x \in NodeEvents(c) THEN Then(WaitingIn(c, q), One(x.msg)) ELSE WaitingIn(c, q)
  <2>1. Those(Append(q, x), NodeEvents(c))
          = IF x \in NodeEvents(c) THEN Append(Those(q, NodeEvents(c)), x) ELSE Those(q, NodeEvents(c))
    BY ThoseAppend
  <2>2. x \in NodeEvents(c) => WaitingIn(c, Append(q, x)) = Append(WaitingIn(c, q), x.msg)
    BY <1>3, <1>5, <2>1 DEF WaitingIn
  <2>3. WaitingIn(c, q) \in Seq(Msg)
    BY <1>2, <1>5 DEF WaitingIn
  <2> QED BY <1>1, <2>1, <2>2, <2>3, ThenAssociates DEF WaitingIn
<1>7. ASSUME q # <<>>
      PROVE  WaitingIn(c, q) = IF Head(q) \in NodeEvents(c)
                               THEN Then(One(Head(q).msg), WaitingIn(c, Tail(q)))
                               ELSE WaitingIn(c, Tail(q))
  <2>1. PICK u : u = Those(Tail(q), NodeEvents(c))
    OBVIOUS
  <2>2. u \in Seq(Events) /\ Head(q) \in Events
    BY <1>5, <1>7, <2>1, QueueTail
  <2>3. Those(q, NodeEvents(c)) = HeadIn(q, NodeEvents(c)) \o u
    BY <1>7, <2>1, ThoseTail
  <2>4. <<>> \o u = u
    BY <2>2, ConcatEmptySeq
  <2>5. Msgs(<<Head(q)>> \o u) = <<Head(q).msg>> \o Msgs(u)
    BY <1>4, <2>2
  <2>6. CASE Head(q) \in NodeEvents(c)
    <3>1. Those(q, NodeEvents(c)) = <<Head(q)>> \o u
      BY <2>3, <2>6 DEF HeadIn
    <3> QED BY <2>1, <2>5, <2>6, <3>1 DEF WaitingIn, Then, One
  <2>7. CASE Head(q) \notin NodeEvents(c)
    <3>1. Those(q, NodeEvents(c)) = u
      BY <2>3, <2>4, <2>7 DEF HeadIn
    <3> QED BY <2>1, <2>7, <3>1 DEF WaitingIn
  <2> QED BY <2>6, <2>7
<1> QED BY <1>2, <1>5, <1>6, <1>7 DEF WaitingIn

\* What may flow from one queue to the next.
LEMMA FlowTyped ==
  ASSUME Typed, NEW c \in Conns
  PROVE  /\ ExecOf(c) \in Execs /\ log[ExecOf(c)] \in Seq(Msg) /\ builderQ[ExecOf(c)] \in Seq(Msg)
         /\ wire[c] \in Seq(Msg) /\ mainQ \in Seq(Events)
         /\ From(c, log[ExecOf(c)]) \in Seq(Msg) /\ From(c, builderQ[ExecOf(c)]) \in Seq(Msg)
         /\ WaitingIn(c, mainQ) \in Seq(Msg) /\ From(c, wire[c]) \in Seq(Msg)
<1>1. ExecOf(c) \in Execs
  BY DEF Execs
<1>2. /\ log[ExecOf(c)] \in Seq(Msg) /\ builderQ[ExecOf(c)] \in Seq(Msg)
      /\ wire[c] \in Seq(Msg) /\ mainQ \in Seq(Events)
  BY <1>1 DEF Typed
<1> QED BY <1>1, <1>2, FromFacts, WaitingFacts

LEMMA SolverKeeps ==
  ASSUME Typed, NEW c \in Conns, Solver(c), NEW d \in Conns, Kept(d)
  PROVE  Kept(d)'
<1> USE DEF Solver
<1>1. mainQ' = mainQ /\ builderQ' = builderQ /\ log' = log
  OBVIOUS
<1>2. wire[c] \in Seq(Msg) /\ sent[c] \in Seq(Msg)
  BY DEF Typed
<1>3. CASE d # c \/ Disconnect(c)
  <2>1. wire'[d] = wire[d] /\ sent'[d] = sent[d]
    BY <1>3 DEF SendStart, SendNode, SendDone, Disconnect, Send, Typed
  <2> QED BY <1>1, <2>1 DEF Kept
<1>4. CASE d = c /\ (SendStart(c) \/ SendDone(c))
  <2>1. PICK m \in {Start, Done} : wire'[c] = Append(wire[c], m)
    BY <1>4 DEF SendStart, SendDone, Send, Typed
  <2>2. m \in Msg /\ m \notin NodesOf(c)
    BY MsgTyped
  <2>3. From(c, wire'[c]) = From(c, wire[c])
    <3>1. \A x \in Msg : x \notin NodesOf(c) => From(c, Append(wire[c], x)) = From(c, wire[c])
      BY <1>2, FromFacts
    <3> QED BY <2>1, <2>2, <3>1
  <2>4. sent' = sent
    BY <1>4 DEF SendStart, SendDone
  <2> QED BY <1>1, <1>4, <2>3, <2>4 DEF Kept
<1>5. CASE d = c /\ SendNode(c)
  <2>1. PICK m \in NodesOf(c) : Send(c, m) /\ sent' = [sent EXCEPT ![c] = Append(@, m)]
    <3>1. PICK par \in IF SentBy(Team(c)) = {} THEN {Nil} ELSE SentBy(Team(c)) :
            LET m == Node(<<c, Len(sent[c]) + 1>>, par)
            IN  Send(c, m) /\ sent' = [sent EXCEPT ![c] = Append(@, m)]
      BY <1>5 DEF SendNode
    <3> QED BY <1>5, <3>1, SentTyped DEF SendNode
  <2>2. wire'[c] = Append(wire[c], m) /\ sent'[c] = Append(sent[c], m) /\ m \in Msg
    BY <2>1, MsgTyped DEF Send, Typed
  <2>3. From(c, wire'[c]) = Then(From(c, wire[c]), One(m)) /\ One(m) \in Seq(Msg)
    BY <1>2, <2>2, FromFacts, ThenAssociates
  <2>4. PICK a, b, q, w : /\ a = From(c, log[ExecOf(c)]) /\ b = From(c, builderQ[ExecOf(c)])
                          /\ q = WaitingIn(c, mainQ) /\ w = From(c, wire[c])
    OBVIOUS
  <2>5. Flow(a, b, q, Then(w, One(m))) = Then(Flow(a, b, q, w), One(m))
    <3>1. a \in Seq(Msg) /\ b \in Seq(Msg) /\ q \in Seq(Msg) /\ w \in Seq(Msg)
      BY <2>4, FlowTyped
    <3> QED BY <2>3, <3>1, Moves
  <2>6. Flow(a, b, q, w) = sent[c]
    BY <1>5, <2>4 DEF Kept
  <2>7. sent'[c] = Then(sent[c], One(m))
    BY <1>2, <2>2, ThenAssociates
  <2>8. Flow(a, b, q, From(c, wire'[c])) = sent'[c]
    BY <2>3, <2>4, <2>5, <2>6, <2>7
  <2> QED BY <1>1, <1>5, <2>4, <2>8 DEF Kept
<1> QED BY <1>3, <1>4, <1>5

LEMMA ReceiverKeeps ==
  ASSUME Typed, Lives, NEW c \in Conns, Receiver(c), NEW d \in Conns, Kept(d)
  PROVE  Kept(d)'
<1> USE DEF Receiver, solverVars
<1>1. builderQ' = builderQ /\ log' = log /\ sent' = sent
  OBVIOUS
<1>2. mainQ \in Seq(Events) /\ wire[c] \in Seq(Msg)
  BY DEF Typed
<1>3. CASE Finish(c)
  <2>1. PICK y : y = [conn |-> c, msg |-> Delete]
    OBVIOUS
  <2>2. mainQ' = Append(mainQ, y) /\ wire' = wire
    BY <1>3, <2>1 DEF Finish, Post, Delete
  <2>3. y \in Events /\ y.msg.type # "NODE"
    BY <2>1, EventTyped, KindOfEvent
  <2>4. y \notin NodeEvents(d)
    BY <2>3, EventKinds
  <2>5. WaitingIn(d, mainQ') = WaitingIn(d, mainQ)
    BY <1>2, <2>2, <2>3, <2>4, WaitingFacts
  <2> QED BY <1>1, <2>2, <2>5 DEF Kept
<1>4. CASE HandleMessage(c)
  <2>1. PICK m, y : m = Head(wire[c]) /\ y = [conn |-> c, msg |-> m]
    OBVIOUS
  <2>2. /\ wire[c] # <<>> /\ mainQ' = Append(mainQ, y) /\ wire'[c] = Tail(wire[c])
        /\ d # c => wire'[d] = wire[d]
    BY <1>4, <2>1 DEF HandleMessage, Post, Typed
  <2>3. m \in ToSet(wire[c])
    BY <1>2, <2>1, <2>2, QueueTail
  <2>4. m \in Messages(c) /\ m \in Msg
    BY <2>3, MsgTyped DEF Lives, WireInOrder
  <2>5. y \in Events /\ y.conn = c /\ y.msg = m
    BY <2>1, <2>4, EventTyped
  <2>6. m \in NodesOf(c) <=> m.type = "NODE"
    <3>1. m \in NodesOf(c) \/ m = Start \/ m = Done
      BY <2>4 DEF Messages
    <3> QED BY <3>1, KindOfEvent
  <2>7. y \in NodeEvents(d) <=> d = c /\ m \in NodesOf(c)
    BY <2>5, <2>6, EventKinds
  <2>8. CASE d = c /\ m \in NodesOf(c)
    <3>1. WaitingIn(c, mainQ') = Then(WaitingIn(c, mainQ), One(m))
      BY <1>2, <2>2, <2>5, <2>7, <2>8, WaitingFacts
    <3>2. From(c, wire[c]) = Then(One(m), From(c, wire'[c])) /\ One(m) \in Seq(Msg)
      BY <1>2, <2>1, <2>2, <2>4, <2>8, FromFacts, ThenAssociates
    <3>3. PICK a, b, q, w : /\ a = From(c, log[ExecOf(c)]) /\ b = From(c, builderQ[ExecOf(c)])
                            /\ q = WaitingIn(c, mainQ) /\ w = From(c, wire'[c])
      OBVIOUS
    <3>4. a \in Seq(Msg) /\ b \in Seq(Msg) /\ q \in Seq(Msg) /\ w \in Seq(Msg)
      <4>1. wire'[c] \in Seq(Msg)
        BY <1>2, <2>2, QueueTail
      <4>2. w \in Seq(Msg)
        BY <3>3, <4>1, FromFacts
      <4> QED BY <3>3, <4>2, FlowTyped
    <3>5. Flow(a, b, Then(q, One(m)), w) = Flow(a, b, q, Then(One(m), w))
      BY <3>2, <3>4, Moves
    <3> QED BY <1>1, <2>8, <3>1, <3>2, <3>3, <3>5 DEF Kept
  <2>9. CASE ~ (d = c /\ m \in NodesOf(c))
    <3>1. WaitingIn(d, mainQ') = WaitingIn(d, mainQ)
      BY <1>2, <2>2, <2>5, <2>7, <2>9, WaitingFacts
    <3>2. From(d, wire'[d]) = From(d, wire[d])
      <4>1. CASE d = c
        BY <1>2, <2>1, <2>2, <2>9, <4>1, FromFacts
      <4> QED BY <2>2, <4>1
    <3> QED BY <1>1, <3>1, <3>2 DEF Kept
  <2> QED BY <2>8, <2>9
<1> QED BY <1>3, <1>4

\* Nothing of a connection is behind its DELETE, so that nothing is dropped.
LEMMA WaitingTaken ==
  ASSUME Typed, MainInOrder, Conductor, NEW d \in Conns
  PROVE  LET x == Head(mainQ) IN
         WaitingIn(d, mainQ) = IF x \in NodeEvents(d) THEN Then(One(x.msg), WaitingIn(d, mainQ'))
                               ELSE WaitingIn(d, mainQ')
<1>0. PICK x, t, S : x = Head(mainQ) /\ t = Tail(mainQ) /\ S = {y \in ToSet(mainQ) : y.conn # x.conn}
  OBVIOUS
<1>1. mainQ \in Seq(Events) /\ mainQ # <<>>
  BY DEF Typed, Conductor
<1>2. WaitingIn(d, mainQ) = IF x \in NodeEvents(d) THEN Then(One(x.msg), WaitingIn(d, t))
                            ELSE WaitingIn(d, t)
  BY <1>0, <1>1, WaitingFacts
<1>3. /\ x \in Events /\ x \in ToSet(mainQ) /\ t \in Seq(Events)
      /\ ToSet(t) \subseteq ToSet(mainQ) /\ \A y \in ToSet(t) : Ahead(x, y, mainQ)
  BY <1>0, <1>1, QueueTail
<1>4. mainQ' = IF x.msg.type = "DELETE" THEN Those(t, S) ELSE t
  BY <1>0 DEF Conductor
<1>5. CASE x.msg.type # "DELETE"
  BY <1>0, <1>2, <1>4, <1>5
<1>6. CASE x.msg.type = "DELETE"
  <2>1. ASSUME NEW y \in ToSet(t), y \in NodeEvents(d) PROVE y \in S
    <3>1. y \in Events
      BY <1>3, <2>1, ElementOfSeq DEF ToSet
    <3>2. y.conn = d /\ d # Nil
      BY <2>1, <3>1, EventKinds, NilAssumption
    <3>3. ~ InOrder(x, y)
      BY <1>6 DEF InOrder
    <3>4. x.conn # y.conn
      BY <1>3, <2>1, <3>2, <3>3 DEF MainInOrder
    <3> QED BY <1>0, <1>3, <2>1, <3>4
  <2>2. Those(Those(t, S), NodeEvents(d)) = Those(t, NodeEvents(d))
    <3>1. ToSet(t) \cap NodeEvents(d) \subseteq S
      BY <2>1
    <3> QED BY <1>3, <3>1, ThoseOfThose
  <2> QED BY <1>0, <1>2, <1>4, <1>6, <2>2 DEF WaitingIn
<1> QED BY <1>5, <1>6

LEMMA ConductorKeeps ==
  ASSUME Typed, MainInOrder, Conductor, NEW d \in Conns, Kept(d)
  PROVE  Kept(d)'
<1>0. PICK x : x = Head(mainQ)
  OBVIOUS
<1>1. x \in Events /\ x \in ToSet(mainQ) /\ mainQ' \in Seq(Events)
  BY <1>0, TakenFromMain
<1>2. WaitingIn(d, mainQ) = IF x \in NodeEvents(d) THEN Then(One(x.msg), WaitingIn(d, mainQ'))
                            ELSE WaitingIn(d, mainQ')
  BY <1>0, WaitingTaken
<1>3. /\ \/ x.msg = Start /\ HandleStart(x.conn)
         \/ x.msg.type \in {"NODE", "DONE"} /\ Forward(x.conn, x.msg)
         \/ x.msg.type = "DELETE" /\ DeleteReceiver(x.conn)
         \/ x.msg.type = "BUILT" /\ ExecutionDone(x.msg.exec)
      /\ wire' = wire /\ log' = log /\ sent' = sent
  BY <1>0 DEF Conductor, solverVars
<1>4. x.msg \in Msg /\ (x \in NodeEvents(d) <=> x.conn = d /\ x.msg.type = "NODE")
  BY <1>1, EventKinds
<1>5. ExecOf(d) \in Execs /\ builderQ[ExecOf(d)] \in Seq(Msg)
  BY FlowTyped
<1>6. CASE x.msg.type \in {"NODE", "DONE"} /\ Forward(x.conn, x.msg)
  <2>1. builderQ'[ExecOf(d)] = IF ExecOf(d) \in links[x.conn]
                               THEN Append(builderQ[ExecOf(d)], x.msg) ELSE builderQ[ExecOf(d)]
    BY <1>5, <1>6 DEF Forward
  <2>2. CASE x \in NodeEvents(d)
    <3>1. links[d] = {ExecOf(d)}
      BY <1>1, <1>4, <2>2 DEF MainInOrder, EventInLife
    <3>2. x.msg \in NodesOf(d)
      BY <2>2 DEF NodeEvents
    <3>3. From(d, builderQ'[ExecOf(d)]) = Then(From(d, builderQ[ExecOf(d)]), One(x.msg))
      <4>1. builderQ'[ExecOf(d)] = Append(builderQ[ExecOf(d)], x.msg)
        BY <1>4, <2>1, <2>2, <3>1
      <4> QED BY <1>4, <1>5, <3>2, <4>1, FromFacts
    <3>4. PICK a, b, q, w, o : /\ a = From(d, log[ExecOf(d)]) /\ b = From(d, builderQ[ExecOf(d)])
                               /\ q = WaitingIn(d, mainQ') /\ w = From(d, wire[d])
                               /\ o = One(x.msg)
      OBVIOUS
    <3>5. a \in Seq(Msg) /\ b \in Seq(Msg) /\ w \in Seq(Msg)
      BY <3>4, FlowTyped
    <3>6. q \in Seq(Msg) /\ o \in Seq(Msg)
      BY <1>1, <1>4, <3>4, WaitingFacts, ThenAssociates
    <3>7. Flow(a, Then(b, o), q, w) = Flow(a, b, Then(o, q), w)
      BY <3>5, <3>6, Moves
    <3> QED BY <1>2, <1>3, <2>2, <3>3, <3>4, <3>7 DEF Kept
  <2>3. CASE x \notin NodeEvents(d)
    <3>1. x.msg \notin NodesOf(d)
      <4>1. x.conn \in Conns /\ x.msg \in Messages(x.conn) \cup {Delete}
        BY <1>1, <1>6, EventKinds
      <4>2. x.msg.type # "NODE" => x.msg \notin NodesOf(d)
        BY KindOfEvent
      <4>3. x.msg.type = "NODE" => x.msg \in NodesOf(x.conn)
        BY <4>1, KindOfEvent DEF Messages
      <4> QED BY <1>4, <2>3, <4>1, <4>2, <4>3, MsgTyped
    <3>2. From(d, builderQ'[ExecOf(d)]) = From(d, builderQ[ExecOf(d)])
      <4>1. From(d, Append(builderQ[ExecOf(d)], x.msg)) = From(d, builderQ[ExecOf(d)])
        BY <1>4, <1>5, <3>1, FromFacts
      <4> QED BY <2>1, <4>1
    <3> QED BY <1>2, <1>3, <2>3, <3>2 DEF Kept
  <2> QED BY <2>2, <2>3
<1>7. CASE builderQ' = builderQ /\ x.msg.type # "NODE"
  <2>1. x \notin NodeEvents(d)
    BY <1>4, <1>7
  <2> QED BY <1>2, <1>3, <1>7, <2>1 DEF Kept
<1>8. builderQ' = builderQ \/ (x.msg.type \in {"NODE", "DONE"} /\ Forward(x.conn, x.msg))
  <2>1. HandleStart(x.conn) => builderQ' = builderQ
    BY DEF HandleStart
  <2>2. DeleteReceiver(x.conn) => builderQ' = builderQ
    BY DEF DeleteReceiver
  <2>3. ExecutionDone(x.msg.exec) => builderQ' = builderQ
    BY DEF ExecutionDone
  <2> QED BY <1>3, <2>1, <2>2, <2>3
<1> QED BY <1>3, <1>6, <1>7, <1>8, KindOfEvent

LEMMA BuilderKeeps ==
  ASSUME Typed, NEW e \in Execs, Builder(e), process' # "aborted", NEW d \in Conns, Kept(d)
  PROVE  Kept(d)'
<1>0. PICK m : m = Head(builderQ[e])
  OBVIOUS
<1>1. builderQ[e] \in Seq(Msg) /\ builderQ[e] # <<>> /\ log[e] \in Seq(Msg) /\ mainQ \in Seq(Events)
  BY DEF Typed, Builder
<1>2. m \in Msg /\ Tail(builderQ[e]) \in Seq(Msg)
  BY <1>0, <1>1, QueueTail
<1>3. /\ builderQ'[e] = Tail(builderQ[e]) /\ \A f \in Execs : f # e => builderQ'[f] = builderQ[f]
      /\ wire' = wire /\ sent' = sent
  BY DEF Builder, Typed, solverVars
<1>4. \/ /\ m.type = "NODE" /\ mainQ' = mainQ /\ log'[e] = Append(log[e], m)
         /\ \A f \in Execs : f # e => log'[f] = log[f]
      \/ /\ m.type = "DONE" /\ mainQ' = Append(mainQ, Built(e)) /\ log' = log
  BY <1>0 DEF Builder, HandleNode, FinishBuilding, Post, Built, Typed
<1>5. WaitingIn(d, mainQ') = WaitingIn(d, mainQ)
  <2>1. Built(e) \in Events /\ Built(e) \notin NodeEvents(d)
    <3>1. Built(e) \in Events /\ Built(e).msg.type # "NODE"
      BY DEF Built, Events
    <3> QED BY <3>1, EventKinds
  <2>2. WaitingIn(d, Append(mainQ, Built(e))) = WaitingIn(d, mainQ)
    BY <1>1, <2>1, WaitingFacts
  <2> QED BY <1>4, <2>2
<1>6. ExecOf(d) \in Execs
  BY FlowTyped
<1>7. CASE ExecOf(d) # e
  <2>1. builderQ'[ExecOf(d)] = builderQ[ExecOf(d)] /\ log'[ExecOf(d)] = log[ExecOf(d)]
    BY <1>3, <1>4, <1>6, <1>7
  <2> QED BY <1>3, <1>5, <2>1 DEF Kept
<1>8. CASE ExecOf(d) = e /\ m \in NodesOf(d)
  <2>1. m.type = "NODE"
    BY <1>8, KindOfEvent
  <2>2. log'[e] = Append(log[e], m)
    BY <1>4, <2>1
  <2>3. From(d, log'[e]) = Then(From(d, log[e]), One(m)) /\ One(m) \in Seq(Msg)
    BY <1>1, <1>2, <1>8, <2>2, FromFacts, ThenAssociates
  <2>4. From(d, builderQ[e]) = Then(One(m), From(d, builderQ'[e]))
    BY <1>0, <1>1, <1>3, <1>8, FromFacts
  <2>5. PICK a, b, q, w : /\ a = From(d, log[e]) /\ b = From(d, builderQ'[e])
                          /\ q = WaitingIn(d, mainQ) /\ w = From(d, wire[d])
    OBVIOUS
  <2>6. a \in Seq(Msg) /\ q \in Seq(Msg) /\ w \in Seq(Msg)
    BY <1>8, <2>5, FlowTyped
  <2>7. b \in Seq(Msg)
    BY <1>2, <1>3, <2>5, FromFacts
  <2>8. Flow(Then(a, One(m)), b, q, w) = Flow(a, Then(One(m), b), q, w)
    BY <2>3, <2>6, <2>7, Moves
  <2> QED BY <1>3, <1>5, <1>8, <2>3, <2>4, <2>5, <2>8 DEF Kept
<1>9. CASE ExecOf(d) = e /\ m \notin NodesOf(d)
  <2>1. From(d, builderQ'[e]) = From(d, builderQ[e])
    BY <1>0, <1>1, <1>3, <1>9, FromFacts
  <2>2. From(d, log'[e]) = From(d, log[e])
    <3>1. From(d, Append(log[e], m)) = From(d, log[e])
      BY <1>1, <1>2, <1>9, FromFacts
    <3> QED BY <1>4, <3>1
  <2> QED BY <1>3, <1>5, <1>9, <2>1, <2>2 DEF Kept
<1> QED BY <1>7, <1>8, <1>9

-----------------------------------------------------------------------------
(* What is done is built *)

Actor == \/ \E c \in Conns : Solver(c)
         \/ \E c \in Conns : Receiver(c)
         \/ Conductor
         \/ \E e \in Execs : Builder(e)

\* A connection all of whose nodes are past the main thread stays so.
LEMMA PassedStays ==
  ASSUME Typed, NEW c \in Conns, Passed(c), Actor
  PROVE  Passed(c)' /\ sent'[c] = sent[c]
<1>1. /\ phase[c] \in {"done", "closed"} /\ wire[c] = <<>>
      /\ \A x \in ToSet(mainQ) : x.conn = c => x.msg.type = "DELETE"
  BY DEF Passed
<1>2. mainQ \in Seq(Events)
  BY DEF Typed
<1>3. ASSUME NEW d \in Conns, Solver(d) PROVE Passed(c)' /\ sent'[c] = sent[c]
  <2>1. mainQ' = mainQ
    BY <1>3 DEF Solver
  <2>2. phase'[c] \in {"done", "closed"} /\ wire'[c] = wire[c] /\ sent'[c] = sent[c]
    BY <1>1, <1>3 DEF Solver, SendStart, SendNode, SendDone, Disconnect, Send, Typed
  <2> QED BY <1>1, <2>1, <2>2 DEF Passed
<1>4. ASSUME NEW d \in Conns, Receiver(d) PROVE Passed(c)' /\ sent'[c] = sent[c]
  <2>1. phase' = phase /\ sent' = sent
    BY <1>4 DEF Receiver, solverVars
  <2>2. CASE Finish(d)
    <3>1. PICK y : y = [conn |-> d, msg |-> Delete]
      OBVIOUS
    <3>2. mainQ' = Append(mainQ, y) /\ wire' = wire
      BY <2>2, <3>1 DEF Finish, Post, Delete
    <3>3. y \in Events /\ y.msg.type = "DELETE"
      BY <3>1, EventTyped, KindOfEvent
    <3>4. ToSet(mainQ') = ToSet(mainQ) \cup {y}
      BY <1>2, <3>2, <3>3, QueueAppend
    <3> QED BY <1>1, <2>1, <3>2, <3>3, <3>4 DEF Passed
  <2>3. CASE HandleMessage(d)
    <3>1. d # c
      BY <1>1, <2>3 DEF HandleMessage
    <3>2. PICK y : y = [conn |-> d, msg |-> Head(wire[d])]
      OBVIOUS
    <3>3. mainQ' = Append(mainQ, y) /\ wire'[c] = wire[c]
      BY <2>3, <3>1, <3>2 DEF HandleMessage, Post, Typed
    <3>4. ToSet(mainQ') = ToSet(mainQ) \cup {y}
      <4>1. mainQ \in Seq(Events \cup {y}) /\ y \in Events \cup {y}
        BY <1>2, SeqMonotonic
      <4> QED BY <3>3, <4>1, QueueAppend
    <3>5. y.conn # c
      BY <3>1, <3>2
    <3> QED BY <1>1, <2>1, <3>3, <3>4, <3>5 DEF Passed
  <2> QED BY <1>4, <2>2, <2>3 DEF Receiver
<1>5. ASSUME Conductor PROVE Passed(c)' /\ sent'[c] = sent[c]
  <2>1. phase' = phase /\ wire' = wire /\ sent' = sent
    BY <1>5 DEF Conductor, solverVars
  <2>2. ToSet(mainQ') \subseteq ToSet(mainQ)
    BY <1>5, TakenFromMain
  <2> QED BY <1>1, <2>1, <2>2 DEF Passed
<1>6. ASSUME NEW e \in Execs, Builder(e) PROVE Passed(c)' /\ sent'[c] = sent[c]
  <2>1. phase' = phase /\ wire' = wire /\ sent' = sent
    BY <1>6 DEF Builder, solverVars
  <2>2. mainQ' = mainQ \/ mainQ' = Append(mainQ, Built(e))
    BY <1>6 DEF Builder, HandleNode, FinishBuilding, Post, Built
  <2>3. Built(e) \in Events /\ Built(e).conn # c
    BY NilAssumption DEF Built, Events
  <2>4. ToSet(mainQ') \subseteq ToSet(mainQ) \cup {Built(e)}
    BY <1>2, <2>2, <2>3, QueueAppend
  <2> QED BY <1>1, <2>1, <2>3, <2>4 DEF Passed
<1> QED BY <1>3, <1>4, <1>5, <1>6 DEF Actor

\* What the main thread does to the builders' queues.
LEMMA Forwarded ==
  ASSUME Typed, MainInOrder, Conductor
  PROVE  \/ builderQ' = builderQ
         \/ LET x == Head(mainQ) IN
            /\ x.conn \in Conns /\ x.msg \in Msg /\ x.msg.type \in {"NODE", "DONE"}
            /\ x \in ToSet(mainQ) /\ EventInLife(x)
            /\ builderQ' = [e \in Execs |-> IF e = ExecOf(x.conn) THEN Append(builderQ[e], x.msg)
                                            ELSE builderQ[e]]
<1>0. PICK x : x = Head(mainQ)
  OBVIOUS
<1>1. x \in Events /\ x \in ToSet(mainQ)
  BY <1>0, TakenFromMain
<1>2. \/ x.msg = Start /\ HandleStart(x.conn)
      \/ x.msg.type \in {"NODE", "DONE"} /\ Forward(x.conn, x.msg)
      \/ x.msg.type = "DELETE" /\ DeleteReceiver(x.conn)
      \/ x.msg.type = "BUILT" /\ ExecutionDone(x.msg.exec)
  BY <1>0 DEF Conductor
<1>3. HandleStart(x.conn) \/ DeleteReceiver(x.conn) \/ ExecutionDone(x.msg.exec) => builderQ' = builderQ
  <2>1. HandleStart(x.conn) => builderQ' = builderQ
    BY DEF HandleStart
  <2>2. DeleteReceiver(x.conn) => builderQ' = builderQ
    BY DEF DeleteReceiver
  <2>3. ExecutionDone(x.msg.exec) => builderQ' = builderQ
    BY DEF ExecutionDone
  <2> QED BY <2>1, <2>2, <2>3
<1>4. CASE x.msg.type \in {"NODE", "DONE"} /\ Forward(x.conn, x.msg)
  <2>1. EventInLife(x)
    BY <1>1 DEF MainInOrder
  <2>2. links[x.conn] = {ExecOf(x.conn)}
    BY <1>4, <2>1 DEF EventInLife
  <2>3. x.conn \in Conns /\ x.msg \in Msg
    BY <1>1, <1>4, EventKinds
  <2>4. builderQ' = [e \in Execs |-> IF e = ExecOf(x.conn) THEN Append(builderQ[e], x.msg)
                                     ELSE builderQ[e]]
    BY <1>4, <2>2 DEF Forward
  <2> QED BY <1>0, <1>1, <1>4, <2>1, <2>3, <2>4
<1> QED BY <1>2, <1>3, <1>4

LEMMA PassedSendsNothing ==
  ASSUME Typed, MainInOrder, Conductor, NEW c \in Conns, Passed(c)
  PROVE  \/ builderQ'[ExecOf(c)] = builderQ[ExecOf(c)]
         \/ \E m \in Msg \ NodesOf(c) : builderQ'[ExecOf(c)] = Append(builderQ[ExecOf(c)], m)
<1>0. PICK x : x = Head(mainQ)
  OBVIOUS
<1>1. CASE builderQ' = builderQ
  BY <1>1
<1>2. CASE /\ x.conn \in Conns /\ x.msg \in Msg /\ x.msg.type \in {"NODE", "DONE"}
           /\ x \in ToSet(mainQ)
           /\ builderQ' = [e \in Execs |-> IF e = ExecOf(x.conn) THEN Append(builderQ[e], x.msg)
                                           ELSE builderQ[e]]
  <2>1. x.conn # c
    BY <1>2 DEF Passed
  <2>2. x.msg \notin NodesOf(c)
    <3>1. x \in Events
      BY <1>0, TakenFromMain
    <3>2. x.msg \in Messages(x.conn) \cup {Delete}
      BY <1>2, <3>1, EventKinds
    <3>3. x.msg \in NodesOf(c) => x.msg.type = "NODE"
      BY KindOfEvent
    <3>4. x.msg.type = "NODE" => x.msg \in NodesOf(x.conn)
      BY <1>2, <3>2, KindOfEvent DEF Messages
    <3> QED BY <1>2, <2>1, <3>3, <3>4, MsgTyped
  <2>3. ExecOf(c) \in Execs
    BY DEF Execs
  <2> QED BY <1>2, <2>2, <2>3
<1> QED BY <1>0, <1>1, <1>2, Forwarded

LEMMA BehindStays ==
  ASSUME Typed, MainInOrder, DoneIsBehind, Actor
  PROVE  DoneIsBehind'
<1> SUFFICES ASSUME NEW e \in Execs, NEW i \in DOMAIN builderQ'[e], builderQ'[e][i] = Done
             PROVE  \E c \in Conns : /\ ExecOf(c) = e /\ Passed(c)'
                      /\ \A j \in DOMAIN builderQ'[e] : j > i => builderQ'[e][j] \notin NodesOf(c)
  BY DEF DoneIsBehind
<1>1. PICK q, r : q = builderQ[e] /\ r = builderQ'[e]
  OBVIOUS
<1>2. q \in Seq(Msg) /\ Len(q) \in Nat /\ DOMAIN q = 1 .. Len(q)
  <2>1. q \in Seq(Msg)
    BY <1>1 DEF Typed
  <2> QED BY <2>1, LenProperties
<1>3. \A k \in DOMAIN q : q[k] = Done =>
        \E c \in Conns : /\ ExecOf(c) = e /\ Passed(c)'
                         /\ Passed(c)
                         /\ \A j \in DOMAIN q : j > k => q[j] \notin NodesOf(c)
  BY <1>1, PassedStays DEF DoneIsBehind
<1>4. CASE r = q
  BY <1>1, <1>3, <1>4
<1>5. ASSUME Conductor, r # q
      PROVE  \E c \in Conns : /\ ExecOf(c) = e /\ Passed(c)'
                              /\ \A j \in DOMAIN r : j > i => r[j] \notin NodesOf(c)
  <2>0. PICK x : x = Head(mainQ)
    OBVIOUS
  <2>1. /\ x.conn \in Conns /\ x.msg \in Msg /\ x.msg.type \in {"NODE", "DONE"}
        /\ x \in ToSet(mainQ) /\ EventInLife(x) /\ e = ExecOf(x.conn) /\ r = Append(q, x.msg)
    BY <1>1, <1>5, <2>0, Forwarded
  <2>2. /\ DOMAIN r = 1 .. Len(q) + 1 /\ r[Len(q) + 1] = x.msg
        /\ \A k \in 1 .. Len(q) : r[k] = q[k]
    <3>1. r \in Seq(Msg) /\ Len(r) = Len(q) + 1
      BY <1>2, <2>1, AppendProperties
    <3>2. DOMAIN r = 1 .. Len(r)
      BY <3>1, LenProperties
    <3> QED BY <1>2, <2>1, <3>1, <3>2, AppendProperties
  <2>3. CASE i \in 1 .. Len(q)
    <3>1. q[i] = Done
      BY <1>1, <2>2, <2>3
    <3>2. PICK c \in Conns : /\ ExecOf(c) = e /\ Passed(c)' /\ Passed(c)
                             /\ \A j \in DOMAIN q : j > i => q[j] \notin NodesOf(c)
      BY <1>2, <1>3, <2>3, <3>1
    <3>3. x.msg \notin NodesOf(c)
      <4>1. r = q \/ \E m \in Msg \ NodesOf(c) : r = Append(q, m)
        BY <1>1, <1>5, <3>2, PassedSendsNothing
      <4>2. PICK m \in Msg \ NodesOf(c) : r = Append(q, m)
        BY <1>5, <4>1
      <4>3. r[Len(q) + 1] = m
        BY <1>2, <4>2, AppendProperties
      <4> QED BY <2>2, <4>2, <4>3
    <3>4. ASSUME NEW j \in DOMAIN r, j > i PROVE r[j] \notin NodesOf(c)
      <4>1. CASE j = Len(q) + 1
        BY <2>2, <3>3, <4>1
      <4>2. CASE j \in 1 .. Len(q)
        BY <1>2, <2>2, <3>2, <3>4, <4>2
      <4> QED BY <1>2, <2>2, <4>1, <4>2
    <3> QED BY <3>2, <3>4
  <2>4. CASE i = Len(q) + 1
    <3>1. x.msg = Done
      BY <1>1, <2>2, <2>4
    <3>2. x.msg.type = "DONE"
      BY <3>1, KindOfEvent
    <3>3. PICK c \in Conns : c = x.conn /\ c # Nil
      BY <2>1, NilAssumption
    <3>4. wire[c] = <<>> /\ phase[c] \in {"done", "closed"}
      BY <2>1, <3>2, <3>3 DEF EventInLife
    <3>5. ASSUME NEW y \in ToSet(mainQ'), y.conn = c PROVE y.msg.type = "DELETE"
      <4>1. Ahead(x, y, mainQ) /\ y \in ToSet(mainQ)
        BY <1>5, <2>0, <3>5, TakenFromMain
      <4>2. InOrder(x, y)
        BY <2>1, <3>3, <3>5, <4>1 DEF MainInOrder
      <4> QED BY <3>2, <4>2 DEF InOrder
    <3>6. wire' = wire /\ phase' = phase
      BY <1>5 DEF Conductor, solverVars
    <3>7. Passed(c)'
      BY <3>4, <3>5, <3>6 DEF Passed
    <3>8. \A j \in DOMAIN r : ~ (j > i)
      BY <1>2, <2>2, <2>4
    <3> QED BY <2>1, <3>3, <3>7, <3>8
  <2> QED BY <1>1, <1>2, <2>2, <2>3, <2>4
<1>6. ASSUME NEW f \in Execs, Builder(f), r # q
      PROVE  \E c \in Conns : /\ ExecOf(c) = e /\ Passed(c)'
                              /\ \A j \in DOMAIN r : j > i => r[j] \notin NodesOf(c)
  <2>1. q # <<>> /\ r = Tail(q)
    <3>1. f = e
      BY <1>1, <1>6 DEF Builder, Typed
    <3> QED BY <1>1, <1>6, <3>1 DEF Builder, Typed
  <2>2. /\ DOMAIN r = 1 .. Len(q) - 1
        /\ \A k \in 1 .. Len(q) - 1 : r[k] = q[k + 1] /\ k + 1 \in DOMAIN q
    <3>1. r \in Seq(Msg) /\ Len(r) = Len(q) - 1 /\ \A k \in 1 .. Len(r) : r[k] = q[k + 1]
      BY <1>2, <2>1, HeadTailProperties
    <3>2. DOMAIN r = 1 .. Len(r)
      BY <3>1, LenProperties
    <3> QED BY <1>2, <3>1, <3>2
  <2>3. q[i + 1] = Done /\ i + 1 \in DOMAIN q
    BY <1>1, <2>2
  <2>4. PICK c \in Conns : /\ ExecOf(c) = e /\ Passed(c)'
                           /\ \A j \in DOMAIN q : j > i + 1 => q[j] \notin NodesOf(c)
    BY <1>3, <2>3
  <2>5. ASSUME NEW j \in DOMAIN r, j > i PROVE r[j] \notin NodesOf(c)
    <3>1. j + 1 > i + 1 /\ j + 1 \in DOMAIN q /\ r[j] = q[j + 1]
      BY <1>1, <1>2, <2>2, <2>5
    <3> QED BY <2>4, <3>1
  <2> QED BY <2>4, <2>5
<1>7. r = q \/ Conductor \/ \E f \in Execs : Builder(f)
  BY <1>1 DEF Actor, Solver, Receiver
<1> QED BY <1>1, <1>4, <1>5, <1>6, <1>7

\* What is built stays built.
LEMMA BuiltStays ==
  ASSUME Typed, MainInOrder, NEW c \in Conns, BuiltFor(c), Actor
  PROVE  BuiltFor(c)'
<1>1. PICK e, q : e = ExecOf(c) /\ q = builderQ[e]
  OBVIOUS
<1>2. e \in Execs /\ q \in Seq(Msg) /\ log[e] \in Seq(Msg)
  BY <1>1, FlowTyped
<1>3. Passed(c) /\ ToSet(q) \cap NodesOf(c) = {} /\ From(c, log[e]) = sent[c]
  BY <1>1 DEF BuiltFor
<1>4. Passed(c)' /\ sent'[c] = sent[c]
  BY <1>3, PassedStays
<1>5. ASSUME ToSet(builderQ'[e]) \cap NodesOf(c) = {}, From(c, log'[e]) = From(c, log[e])
      PROVE  BuiltFor(c)'
  BY <1>1, <1>3, <1>4, <1>5 DEF BuiltFor
<1>6. CASE builderQ' = builderQ /\ log' = log
  BY <1>1, <1>3, <1>5, <1>6
<1>7. CASE Conductor
  <2>1. log' = log
    BY <1>7 DEF Conductor
  <2>2. builderQ'[e] = q \/ \E m \in Msg \ NodesOf(c) : builderQ'[e] = Append(q, m)
    BY <1>1, <1>3, <1>7, PassedSendsNothing
  <2>3. ASSUME NEW m \in Msg \ NodesOf(c), builderQ'[e] = Append(q, m)
        PROVE  ToSet(builderQ'[e]) \cap NodesOf(c) = {}
    BY <1>2, <1>3, <2>3, QueueAppend
  <2> QED BY <1>3, <1>5, <2>1, <2>2, <2>3
<1>8. ASSUME NEW f \in Execs, Builder(f) PROVE BuiltFor(c)'
  <2>1. CASE f # e
    <3>1. builderQ'[e] = q /\ log'[e] = log[e]
      BY <1>1, <1>2, <1>8, <2>1 DEF Builder, HandleNode, FinishBuilding, Typed
    <3> QED BY <1>3, <1>5, <3>1
  <2>2. CASE f = e
    <3>1. q # <<>> /\ builderQ'[e] = Tail(q)
      BY <1>1, <1>2, <1>8, <2>2 DEF Builder, Typed
    <3>2. Head(q) \in Msg /\ Head(q) \notin NodesOf(c) /\ ToSet(Tail(q)) \subseteq ToSet(q)
      BY <1>2, <1>3, <3>1, QueueTail
    <3>3. log'[e] = log[e] \/ log'[e] = Append(log[e], Head(q))
      BY <1>1, <1>2, <1>8, <2>2 DEF Builder, HandleNode, FinishBuilding, Typed
    <3>4. From(c, Append(log[e], Head(q))) = From(c, log[e])
      BY <1>2, <3>2, FromFacts
    <3> QED BY <1>3, <1>5, <3>1, <3>2, <3>3, <3>4
  <2> QED BY <2>1, <2>2
<1>9. (builderQ' = builderQ /\ log' = log) \/ Conductor \/ \E f \in Execs : Builder(f)
  BY DEF Actor, Solver, Receiver
<1> QED BY <1>6, <1>7, <1>8, <1>9

\* When DONE reaches the builder, everything its connection sent is in the tree.
LEMMA DoneIsBuilt ==
  ASSUME Typed, DoneIsBehind, \A c \in Conns : Kept(c), NEW e \in Execs,
         builderQ[e] # <<>>, Head(builderQ[e]).type = "DONE",
         builderQ'[e] = Tail(builderQ[e]), log' = log, Actor
  PROVE  \E c \in Conns : ExecOf(c) = e /\ BuiltFor(c)'
<1>1. PICK q : q = builderQ[e]
  OBVIOUS
<1>2. q \in Seq(Msg) /\ q # <<>> /\ Len(q) \in Nat /\ DOMAIN q = 1 .. Len(q)
  <2>1. q \in Seq(Msg)
    BY <1>1 DEF Typed
  <2> QED BY <1>1, <2>1, LenProperties
<1>3. Head(q) = Done /\ 1 \in DOMAIN q /\ q[1] = Done
  <2>1. Head(q) \in Msg
    BY <1>2, QueueTail
  <2>2. Head(q) = Done
    BY <1>1, <2>1, MsgKinds
  <2>3. 1 \in DOMAIN q
    BY <1>2, EmptySeq
  <2> QED BY <2>2, <2>3
<1>4. PICK c \in Conns : /\ ExecOf(c) = e /\ Passed(c)
                         /\ \A j \in DOMAIN q : j > 1 => q[j] \notin NodesOf(c)
  BY <1>1, <1>3 DEF DoneIsBehind
<1>5. ToSet(q) \cap NodesOf(c) = {}
  <2>1. ASSUME NEW j \in DOMAIN q PROVE q[j] \notin NodesOf(c)
    <3>1. CASE j = 1
      BY <1>3, <3>1, MsgTyped
    <3>2. CASE j # 1
      BY <1>2, <1>4, <3>2
    <3> QED BY <3>1, <3>2
  <2> QED BY <2>1 DEF ToSet
<1>6. From(c, q) = <<>> /\ From(c, wire[c]) = <<>> /\ WaitingIn(c, mainQ) = <<>>
  <2>1. From(c, q) = <<>>
    BY <1>2, <1>5, ThoseNone DEF From
  <2>2. From(c, wire[c]) = <<>>
    BY <1>4, ThoseEmpty DEF From, Passed
  <2>3. mainQ \in Seq(Events)
    BY DEF Typed
  <2>4. ASSUME NEW y \in ToSet(mainQ) PROVE y \notin NodeEvents(c)
    <3>1. y \in Events
      BY <2>3, ElementOfSeq DEF Typed, ToSet
    <3> QED BY <1>4, <3>1, EventKinds DEF Passed
  <2>5. Those(mainQ, NodeEvents(c)) = <<>>
    BY <2>3, <2>4, ThoseNone
  <2>6. Msgs(<<>>) = <<>>
    BY DEF Msgs
  <2> QED BY <2>1, <2>2, <2>5, <2>6 DEF WaitingIn
<1>7. From(c, log[e]) = sent[c]
  <2>1. PICK a : a = From(c, log[e])
    OBVIOUS
  <2>2. a \in Seq(Msg)
    BY <1>4, <2>1, FlowTyped
  <2>3. Flow(a, <<>>, <<>>, <<>>) = sent[c]
    BY <1>1, <1>4, <1>6, <2>1 DEF Kept
  <2>4. <<>> \o <<>> = <<>> /\ a \o <<>> = a
    BY <2>2, ConcatEmptySeq, EmptySeq
  <2> QED BY <2>1, <2>3, <2>4 DEF Flow, Then
<1>8. ToSet(builderQ'[e]) \cap NodesOf(c) = {}
  BY <1>1, <1>2, <1>5, QueueTail
<1>9. Passed(c)' /\ sent'[c] = sent[c]
  BY <1>4, PassedStays
<1> QED BY <1>4, <1>7, <1>8, <1>9 DEF BuiltFor

LEMMA TrueStays ==
  ASSUME Typed, Lives, MainInOrder, DoneIsBehind, DoneIsTrue, \A c \in Conns : Kept(c), Actor
  PROVE  DoneIsTrue'
<1>1. \A e : BuiltForOne(e) => BuiltForOne(e)'
  BY BuiltStays DEF BuiltForOne
<1>2. \A e \in done : BuiltForOne(e)'
  BY <1>1 DEF DoneIsTrue
<1>3. \A x \in ToSet(mainQ) : x.msg.type = "BUILT" => BuiltForOne(x.msg.exec)'
  BY <1>1 DEF DoneIsTrue
<1>4. mainQ \in Seq(Events)
  BY DEF Typed
<1>5. ASSUME NEW c \in Conns, Solver(c) PROVE DoneIsTrue'
  <2>1. mainQ' = mainQ /\ done' = done
    BY <1>5 DEF Solver
  <2> QED BY <1>2, <1>3, <2>1 DEF DoneIsTrue
<1>6. ASSUME NEW c \in Conns, Receiver(c), ToSet(wire[c]) \subseteq Messages(c) PROVE DoneIsTrue'
  <2>1. done' = done
    BY <1>6 DEF Receiver
  <2>2. PICK m \in Messages(c) \cup {Delete} : mainQ' = Append(mainQ, [conn |-> c, msg |-> m])
    <3>1. CASE Finish(c)
      BY <3>1 DEF Finish, Post, Delete
    <3>2. CASE HandleMessage(c)
      <4>1. wire[c] \in Seq(Msg) /\ wire[c] # <<>>
        BY <3>2 DEF HandleMessage, Typed
      <4>2. Head(wire[c]) \in Messages(c)
        BY <1>6, <4>1, QueueTail
      <4> QED BY <3>2, <4>2 DEF HandleMessage, Post
    <3> QED BY <1>6, <3>1, <3>2 DEF Receiver
  <2>3. PICK y : y = [conn |-> c, msg |-> m]
    OBVIOUS
  <2>4. y \in Events /\ y.msg.type # "BUILT"
    BY <2>3, EventTyped, KindOfEvent
  <2>5. ToSet(mainQ') = ToSet(mainQ) \cup {y}
    BY <1>4, <2>2, <2>3, <2>4, QueueAppend
  <2> QED BY <1>2, <1>3, <2>1, <2>4, <2>5 DEF DoneIsTrue
<1>7. ASSUME Conductor PROVE DoneIsTrue'
  <2>1. PICK x : x = Head(mainQ)
    OBVIOUS
  <2>2. x \in ToSet(mainQ) /\ ToSet(mainQ') \subseteq ToSet(mainQ)
    BY <1>7, <2>1, TakenFromMain
  <2>3. done' = done \/ (x.msg.type = "BUILT" /\ done' = done \cup {x.msg.exec})
    <3>1. HandleStart(x.conn) => done' = done
      BY DEF HandleStart
    <3>2. Forward(x.conn, x.msg) => done' = done
      BY DEF Forward
    <3>3. DeleteReceiver(x.conn) => done' = done
      BY DEF DeleteReceiver
    <3>4. ExecutionDone(x.msg.exec) => done' = done \cup {x.msg.exec}
      BY DEF ExecutionDone
    <3> QED BY <1>7, <2>1, <3>1, <3>2, <3>3, <3>4 DEF Conductor
  <2>4. \A e \in done' : BuiltForOne(e)'
    BY <1>2, <1>3, <2>2, <2>3
  <2> QED BY <1>3, <2>2, <2>4 DEF DoneIsTrue
<1>8. ASSUME NEW e \in Execs, Builder(e) PROVE DoneIsTrue'
  <2>1. PICK m : m = Head(builderQ[e])
    OBVIOUS
  <2>2. done' = done /\ builderQ[e] # <<>> /\ builderQ'[e] = Tail(builderQ[e])
    BY <1>8 DEF Builder, Typed
  <2>3. mainQ' = mainQ \/ (m.type = "DONE" /\ log' = log /\ mainQ' = Append(mainQ, Built(e)))
    BY <1>8, <2>1 DEF Builder, HandleNode, FinishBuilding, Post, Built
  <2>4. CASE mainQ' = mainQ
    BY <1>2, <1>3, <2>2, <2>4 DEF DoneIsTrue
  <2>5. CASE m.type = "DONE" /\ log' = log /\ mainQ' = Append(mainQ, Built(e))
    <3>1. \E c \in Conns : ExecOf(c) = e /\ BuiltFor(c)'
      BY <2>1, <2>2, <2>5, DoneIsBuilt
    <3>2. BuiltForOne(e)'
      BY <3>1 DEF BuiltForOne
    <3>3. Built(e) \in Events /\ Built(e).msg.exec = e
      BY DEF Built, Events
    <3>4. ToSet(mainQ') = ToSet(mainQ) \cup {Built(e)}
      BY <1>4, <2>5, <3>3, QueueAppend
    <3> QED BY <1>2, <1>3, <2>2, <3>2, <3>3, <3>4 DEF DoneIsTrue
  <2> QED BY <2>3, <2>4, <2>5
<1>9. \A c \in Conns : ToSet(wire[c]) \subseteq Messages(c)
  BY DEF Lives, WireInOrder
<1> QED BY <1>5, <1>6, <1>7, <1>8, <1>9 DEF Actor

LEMMA SavedStays ==
  ASSUME SavedOnce, process = "running", Typed, DoneIsTrue, Actor
  PROVE  SavedOnce'
<1>1. CASE UNCHANGED <<done, saved>> /\ process' # "quit"
  BY <1>1 DEF SavedOnce
<1>2. CASE Conductor
  <2>1. PICK x : x = Head(mainQ)
    OBVIOUS
  <2>2. log' = log /\ x \in ToSet(mainQ)
    BY <1>2, <2>1, TakenFromMain DEF Conductor
  <2>3. CASE ExecutionDone(x.msg.exec) /\ x.msg.type = "BUILT"
    <3>1. x.msg.exec \in Execs
      <4>1. PICK c \in Conns : ExecOf(c) = x.msg.exec
        BY <2>2, <2>3 DEF DoneIsTrue, BuiltForOne
      <4> QED BY <4>1 DEF Execs
    <3>2. CASE Saving
      <4>1. done' = {x.msg.exec} /\ saved'[x.msg.exec] = log[x.msg.exec] /\ process' = "quit"
        BY <2>3, <3>1, <3>2 DEF SavedOnce, ExecutionDone, Typed
      <4> QED BY <2>2, <3>2, <4>1 DEF SavedOnce
    <3>3. CASE ~ Saving
      <4>1. process' = "running"
        BY <2>3, <3>3 DEF ExecutionDone
      <4> QED BY <3>3, <4>1 DEF SavedOnce
    <3> QED BY <3>2, <3>3
  <2>4. CASE HandleStart(x.conn) \/ Forward(x.conn, x.msg) \/ DeleteReceiver(x.conn)
    <3>1. HandleStart(x.conn) => UNCHANGED <<done, saved, process>>
      BY DEF HandleStart
    <3>2. Forward(x.conn, x.msg) => UNCHANGED <<done, saved, process>>
      BY DEF Forward
    <3>3. DeleteReceiver(x.conn) => UNCHANGED <<done, saved, process>>
      BY DEF DeleteReceiver
    <3>4. UNCHANGED <<done, saved, process>>
      BY <2>4, <3>1, <3>2, <3>3
    <3> QED BY <1>1, <3>4
  <2> QED BY <1>2, <2>1, <2>3, <2>4 DEF Conductor
<1>3. ASSUME NEW e \in Execs, Builder(e) PROVE SavedOnce'
  <2>1. UNCHANGED <<done, saved>> /\ process' # "quit"
    BY <1>3 DEF Builder, HandleNode, FinishBuilding
  <2> QED BY <1>1, <2>1
<1>4. (UNCHANGED <<done, saved>> /\ process' # "quit") \/ Conductor \/ \E e \in Execs : Builder(e)
  BY DEF Actor, Solver, Receiver
<1> QED BY <1>1, <1>2, <1>3, <1>4

LEMMA PipelineInit == Init => PipelineInv
<1> SUFFICES ASSUME Init PROVE PipelineInv
  OBVIOUS
<1> USE DEF Init
<1>1. ToSet(<<>>) = {} /\ (\A S : <<>> \in Seq(S))
  BY EmptySeq, LenProperties DEF ToSet
<1>2. Typed
  BY <1>1 DEF Typed
<1>3. Lives
  BY <1>1 DEF Lives, WireInOrder, InLife
<1>4. MainInOrder
  BY <1>1 DEF MainInOrder
<1>5. \A c \in Conns : Kept(c)
  <2> SUFFICES ASSUME NEW c \in Conns PROVE Kept(c)
    OBVIOUS
  <2>1. From(c, <<>>) = <<>> /\ Those(<<>>, NodeEvents(c)) = <<>>
    BY ThoseEmpty DEF From
  <2>2. Msgs(<<>>) = <<>>
    BY DEF Msgs
  <2>3. ExecOf(c) \in Execs
    BY DEF Execs
  <2>4. Flow(<<>>, <<>>, <<>>, <<>>) = <<>>
    BY DEF Flow, Then
  <2> QED BY <2>1, <2>2, <2>3, <2>4 DEF Kept, WaitingIn
<1>6. NothingLost
  BY <1>5, NothingLostIsKept
<1>7. DoneIsBehind
  <2>1. DOMAIN <<>> = {}
    BY EmptySeq, LenProperties
  <2>2. \A e \in Execs : builderQ[e] = <<>>
    OBVIOUS
  <2> QED BY <2>1, <2>2 DEF DoneIsBehind
<1>8. DoneIsTrue /\ Executed /\ SavedOnce
  BY <1>1 DEF DoneIsTrue, Executed, SavedOnce
<1> QED BY <1>2, <1>3, <1>4, <1>6, <1>7, <1>8 DEF PipelineInv

LEMMA PipelineStep == PipelineInv /\ [Next]_vars => PipelineInv'
<1> SUFFICES ASSUME PipelineInv, [Next]_vars PROVE PipelineInv'
  OBVIOUS
<1>1. CASE UNCHANGED vars
  <2>1. Typed' /\ Executed'
    BY <1>1 DEF vars, PipelineInv, Typed, Executed
  <2>4. Lives'
    BY <1>1 DEF vars, PipelineInv, Lives, WireInOrder, InLife
  <2>5. MainInOrder'
    BY <1>1 DEF vars, PipelineInv, MainInOrder, EventInLife, InOrder
  <2>2. DoneIsBehind' /\ DoneIsTrue' /\ SavedOnce'
    BY <1>1 DEF vars, PipelineInv, DoneIsBehind, DoneIsTrue, SavedOnce, Passed, BuiltFor, BuiltForOne
  <2>3. NothingLost'
    BY <1>1 DEF vars, PipelineInv, NothingLost, InFlight
  <2> QED BY <2>1, <2>2, <2>3, <2>4, <2>5 DEF PipelineInv
<1>2. CASE Next
  <2> USE DEF PipelineInv
  <2>1. process = "running" /\ Actor
    BY <1>2 DEF Next, Actor
  <2>2. \A c \in Conns : Kept(c)
    BY <2>1, NothingLostIsKept
  <2>3. \A c \in Conns : ToSet(wire[c]) \subseteq Messages(c)
    BY DEF Lives, WireInOrder
  <2>4. Typed'
    BY <2>1, <2>3, SolverTyped, ReceiverTyped, ConductorTyped, BuilderTyped DEF Actor
  <2>5. Lives' /\ MainInOrder'
    BY <2>1, SolverLives, ReceiverLives, ConductorLives, BuilderLives DEF Actor
  <2>6. Executed'
    <3>1. (\E c \in Conns : Solver(c) \/ Receiver(c)) => Executed'
      BY DEF Executed, Solver, Receiver
    <3> QED BY <2>1, <3>1, ConductorLives, BuilderLives DEF Actor
  <2>7. NothingLost'
    <3>1. ASSUME process' # "aborted" PROVE \A d \in Conns : Kept(d)'
      BY <2>1, <2>2, <3>1, SolverKeeps, ReceiverKeeps, ConductorKeeps, BuilderKeeps DEF Actor
    <3>2. (NothingLost <=> (process # "aborted" => \A c \in Conns : Kept(c)))'
      BY NothingLostIsKept, PTL
    <3> QED BY <3>1, <3>2
  <2>8. DoneIsBehind'
    BY <2>1, BehindStays
  <2>9. DoneIsTrue'
    BY <2>1, <2>2, TrueStays
  <2>10. SavedOnce'
    BY <2>1, SavedStays
  <2> QED BY <2>4, <2>5, <2>6, <2>7, <2>8, <2>9, <2>10
<1> QED BY <1>1, <1>2

\* Whatever the solvers send and whichever thread runs, the queues and the
\* connections between them are in order.
THEOREM PipelineInvariant == Spec => []PipelineInv
<1>1. Init => PipelineInv
  BY PipelineInit
<1>2. PipelineInv /\ [Next]_vars => PipelineInv'
  BY PipelineStep
<1> QED BY <1>1, <1>2, PTL DEF Spec

LEMMA NothingMissingFollows == PipelineInv => NothingMissing
<1> SUFFICES ASSUME PipelineInv PROVE NothingMissing
  OBVIOUS
<1>1. NothingLost
  BY DEF PipelineInv
<1>2. ASSUME process = "quit", NEW e \in done
      PROVE  \E c \in Conns : /\ ExecOf(c) = e /\ phase[c] \in {"done", "closed"}
                              /\ From(c, saved[e]) = sent[c]
  <2>1. PICK c \in Conns : ExecOf(c) = e /\ BuiltFor(c)
    BY <1>2 DEF PipelineInv, DoneIsTrue, BuiltForOne
  <2>2. saved[e] = log[e]
    BY <1>2 DEF PipelineInv, SavedOnce
  <2> QED BY <2>1, <2>2 DEF BuiltFor, Passed
<1> QED BY <1>1, <1>2 DEF NothingMissing, SavedComplete

\* Over any number of connections, whichever of them share an execution, no node
\* is lost, duplicated or overtaken by another of its connection between solver
\* and tree, and what is written before quitting holds all nodes of a solver
\* that is done.
THEOREM NoNodeIsMissing == Spec => []NothingMissing
BY PipelineInvariant, NothingMissingFollows, PTL

\* No two connections report to one execution.
ExecsApart == \A c, d \in Conns : c # d => ExecOf(c) # ExecOf(d)

LEMMA DoneMeansBuiltFollows == ExecsApart /\ PipelineInv => DoneMeansBuilt
<1> SUFFICES ASSUME ExecsApart, PipelineInv, NEW e \in done, NEW c \in Conns, ExecOf(c) = e
             PROVE  phase[c] \in {"done", "closed"} /\ Len(From(c, log[e])) = Len(sent[c])
  BY DEF DoneMeansBuilt, Complete
<1>1. PICK d \in Conns : ExecOf(d) = e /\ BuiltFor(d)
  BY DEF PipelineInv, DoneIsTrue, BuiltForOne
<1>2. d = c
  BY <1>1 DEF ExecsApart
<1> QED BY <1>1, <1>2 DEF BuiltFor, Passed

\* An execution is marked done only when its tree holds all nodes of its solver:
\* DONE does not overtake a node, on whichever threads the two are handled.
THEOREM DoneIsBuiltUp == ASSUME ExecsApart PROVE Spec => []DoneMeansBuilt
<1>1. PipelineInv => DoneMeansBuilt
  BY DoneMeansBuiltFollows
<1> QED BY <1>1, PipelineInvariant, PTL

-----------------------------------------------------------------------------
(* Searches that know nothing of each other *)

\* Every connection reports on a search of its own to an execution of its own.
OneEach == \A c, d \in Conns : c # d => SearchOf[c] # SearchOf[d] /\ ExecOf(c) # ExecOf(d)

\* The parent of a node has been sent before it.
SentInOrder ==
  \A c \in Conns : \A i \in DOMAIN sent[c] :
    /\ sent[c][i].id = <<c, i>>
    /\ i > 1 => \E j \in DOMAIN sent[c] : j < i /\ sent[c][i].parent = sent[c][j].id

\* A builder only gets the nodes of its own search.
OwnNodes ==
  \A c \in Conns : /\ ToSet(log[ExecOf(c)]) \subseteq NodesOf(c)
                   /\ ToSet(builderQ[ExecOf(c)]) \cap Nodes \subseteq NodesOf(c)

SoundInv == OneEach /\ PipelineInv /\ SentInOrder /\ OwnNodes /\ NeverAborts

LEMMA SentStays ==
  ASSUME OneEach, Typed, SentInOrder, Actor
  PROVE  SentInOrder'
<1>1. CASE sent' = sent
  BY <1>1 DEF SentInOrder
<1>2. ASSUME NEW c \in Conns, SendNode(c) PROVE SentInOrder'
  <2>1. PICK s, k : s = sent[c] /\ k = Len(s)
    OBVIOUS
  <2>2. s \in Seq(Msg) /\ k \in Nat /\ DOMAIN s = 1 .. k
    <3>1. s \in Seq(Msg)
      BY <2>1 DEF Typed
    <3> QED BY <2>1, <3>1, LenProperties
  <2>3. PICK par \in IF SentBy(Team(c)) = {} THEN {Nil} ELSE SentBy(Team(c)) :
          sent' = [sent EXCEPT ![c] = Append(s, Node(<<c, k + 1>>, par))]
    BY <1>2, <2>1 DEF SendNode
  <2>4. PICK m : m = Node(<<c, k + 1>>, par)
    OBVIOUS
  <2>5. m \in Msg /\ m.id = <<c, k + 1>> /\ m.parent = par
    <3>1. m \in NodesOf(c)
      BY <1>2, <2>1, <2>3, <2>4, SentTyped DEF SendNode
    <3> QED BY <2>4, <3>1, MsgTyped DEF Node
  <2>6. PICK t : t = Append(s, m)
    OBVIOUS
  <2>7. /\ DOMAIN t = 1 .. k + 1 /\ t[k + 1] = m /\ \A i \in 1 .. k : t[i] = s[i]
    <3>1. t \in Seq(Msg) /\ Len(t) = k + 1
      BY <2>1, <2>2, <2>5, <2>6, AppendProperties
    <3>2. DOMAIN t = 1 .. Len(t)
      BY <3>1, LenProperties
    <3> QED BY <2>1, <2>2, <2>5, <2>6, <3>1, <3>2, AppendProperties
  <2>8. sent'[c] = t /\ \A d \in Conns : d # c => sent'[d] = sent[d]
    BY <2>1, <2>3, <2>4, <2>6 DEF Typed
  <2>9. Team(c) = {c}
    BY DEF Team, OneEach
  <2>10. SentBy(Team(c)) = {s[i].id : i \in DOMAIN s}
    BY <2>1, <2>9 DEF SentBy
  <2>11. ASSUME NEW i \in 1 .. k + 1
         PROVE  /\ t[i].id = <<c, i>>
                /\ i > 1 => \E j \in 1 .. k + 1 : j < i /\ t[i].parent = t[j].id
    <3>1. CASE i \in 1 .. k
      <4>1. /\ s[i].id = <<c, i>>
            /\ i > 1 => \E j \in 1 .. k : j < i /\ s[i].parent = s[j].id
        BY <2>1, <2>2, <3>1 DEF SentInOrder
      <4>2. \A j \in 1 .. k : j \in 1 .. k + 1
        BY <2>2
      <4> QED BY <2>7, <3>1, <4>1, <4>2
    <3>2. CASE i = k + 1
      <4>1. t[i].id = <<c, i>> /\ t[i].parent = par
        BY <2>5, <2>7, <3>2
      <4>2. ASSUME i > 1 PROVE \E j \in 1 .. k : par = s[j].id
        <5>1. 1 \in DOMAIN s
          BY <2>2, <3>2, <4>2
        <5>2. par \in {s[j].id : j \in DOMAIN s}
          BY <2>3, <2>10, <5>1
        <5> QED BY <2>2, <5>2
      <4>3. \A j \in 1 .. k : j \in 1 .. k + 1 /\ j < k + 1
        BY <2>2
      <4> QED BY <2>7, <3>2, <4>1, <4>2, <4>3
    <3> QED BY <2>2, <3>1, <3>2
  <2>12. ASSUME NEW d \in Conns, NEW i \in DOMAIN sent'[d]
         PROVE  /\ sent'[d][i].id = <<d, i>>
                /\ i > 1 => \E j \in DOMAIN sent'[d] : j < i /\ sent'[d][i].parent = sent'[d][j].id
    <3>1. CASE d = c
      <4>1. sent'[d] = t /\ DOMAIN sent'[d] = 1 .. k + 1 /\ i \in 1 .. k + 1
        BY <2>7, <2>8, <2>12, <3>1
      <4>2. /\ t[i].id = <<c, i>>
            /\ i > 1 => \E j \in 1 .. k + 1 : j < i /\ t[i].parent = t[j].id
        BY <2>11, <4>1
      <4> QED BY <3>1, <4>1, <4>2
    <3>2. CASE d # c
      BY <2>8, <3>2 DEF SentInOrder
    <3> QED BY <3>1, <3>2
  <2> QED BY <2>12 DEF SentInOrder
<1>3. sent' = sent \/ \E c \in Conns : SendNode(c)
  BY DEF Actor, Solver, SendStart, SendDone, Disconnect, Receiver, Conductor, Builder, solverVars
<1> QED BY <1>1, <1>2, <1>3

LEMMA OwnStays ==
  ASSUME OneEach, Typed, MainInOrder, OwnNodes, Actor
  PROVE  OwnNodes'
<1>1. CASE builderQ' = builderQ /\ log' = log
  BY <1>1 DEF OwnNodes
<1>2. \A c \in Conns : ExecOf(c) \in Execs /\ builderQ[ExecOf(c)] \in Seq(Msg) /\ log[ExecOf(c)] \in Seq(Msg)
  BY FlowTyped
<1>3. CASE Conductor
  <2>1. log' = log
    BY <1>3 DEF Conductor
  <2>2. PICK x : x = Head(mainQ)
    OBVIOUS
  <2>3. CASE /\ x.conn \in Conns /\ x.msg \in Msg
             /\ builderQ' = [e \in Execs |-> IF e = ExecOf(x.conn) THEN Append(builderQ[e], x.msg)
                                             ELSE builderQ[e]]
    <3>1. x.msg \in Nodes => x.msg \in NodesOf(x.conn)
      <4>1. x \in Events
        BY <1>3, <2>2, TakenFromMain
      <4>2. x.msg \in Messages(x.conn) \cup {Delete}
        BY <2>3, <4>1, EventKinds
      <4>3. x.msg \in Nodes => x.msg.type = "NODE"
        BY <2>3, MsgKinds
      <4> QED BY <4>2, <4>3, KindOfEvent DEF Messages
    <3>2. ASSUME NEW c \in Conns PROVE ToSet(builderQ'[ExecOf(c)]) \cap Nodes \subseteq NodesOf(c)
      <4>1. CASE c = x.conn
        <5>1. builderQ'[ExecOf(c)] = Append(builderQ[ExecOf(c)], x.msg)
          BY <1>2, <2>3, <4>1
        <5>2. ToSet(builderQ'[ExecOf(c)]) = ToSet(builderQ[ExecOf(c)]) \cup {x.msg}
          BY <1>2, <2>3, <5>1, QueueAppend
        <5> QED BY <3>1, <4>1, <5>2 DEF OwnNodes
      <4>2. CASE c # x.conn
        <5>1. builderQ'[ExecOf(c)] = builderQ[ExecOf(c)]
          BY <1>2, <2>3, <4>2 DEF OneEach
        <5> QED BY <5>1 DEF OwnNodes
      <4> QED BY <4>1, <4>2
    <3> QED BY <2>1, <3>2 DEF OwnNodes
  <2> QED BY <1>1, <1>3, <2>1, <2>2, <2>3, Forwarded
<1>4. ASSUME NEW e \in Execs, Builder(e) PROVE OwnNodes'
  <2>1. PICK m : m = Head(builderQ[e])
    OBVIOUS
  <2>2. /\ builderQ[e] # <<>> /\ builderQ'[e] = Tail(builderQ[e])
        /\ \A f \in Execs : f # e => builderQ'[f] = builderQ[f] /\ log'[f] = log[f]
        /\ log'[e] = log[e] \/ (m.type = "NODE" /\ log'[e] = Append(log[e], m))
    BY <1>4, <2>1 DEF Builder, HandleNode, FinishBuilding, Typed
  <2>3. ASSUME NEW c \in Conns
        PROVE  /\ ToSet(log'[ExecOf(c)]) \subseteq NodesOf(c)
               /\ ToSet(builderQ'[ExecOf(c)]) \cap Nodes \subseteq NodesOf(c)
    <3>1. CASE ExecOf(c) # e
      BY <1>2, <2>2, <3>1 DEF OwnNodes
    <3>2. CASE ExecOf(c) = e
      <4>1. /\ m \in Msg /\ m \in ToSet(builderQ[e])
            /\ ToSet(builderQ'[e]) \subseteq ToSet(builderQ[e])
        BY <1>2, <2>1, <2>2, <3>2, QueueTail
      <4>2. m.type = "NODE" => m \in NodesOf(c)
        BY <3>2, <4>1, MsgKinds DEF OwnNodes
      <4>3. ToSet(Append(log[e], m)) = ToSet(log[e]) \cup {m}
        BY <1>2, <3>2, <4>1, QueueAppend
      <4> QED BY <2>2, <3>2, <4>1, <4>2, <4>3 DEF OwnNodes
    <3> QED BY <3>1, <3>2
  <2> QED BY <2>3 DEF OwnNodes
<1>5. (builderQ' = builderQ /\ log' = log) \/ Conductor \/ \E e \in Execs : Builder(e)
  BY DEF Actor, Solver, Receiver
<1> QED BY <1>1, <1>3, <1>4, <1>5

\* s begins with a, and m follows it.
Follows(m, a, s) ==
  /\ Len(a) \in Nat /\ Len(a) + 1 \in DOMAIN s /\ s[Len(a) + 1] = m
  /\ \A j \in DOMAIN s : j <= Len(a) => j \in DOMAIN a /\ s[j] = a[j]

\* Which messages the two parts of a sequence hold.
LEMMA ThenIndex ==
  \A N : \A a, v \in Seq(N) :
    /\ Then(a, v) \in Seq(N)
    /\ Len(Then(a, v)) = Len(a) + Len(v)
    /\ \A i \in 1 .. Len(a) + Len(v) :
         Then(a, v)[i] = IF i <= Len(a) THEN a[i] ELSE v[i - Len(a)]
<1> SUFFICES ASSUME NEW N, NEW a \in Seq(N), NEW v \in Seq(N)
             PROVE  /\ Then(a, v) \in Seq(N)
                    /\ Len(Then(a, v)) = Len(a) + Len(v)
                    /\ \A i \in 1 .. Len(a) + Len(v) :
                         Then(a, v)[i] = IF i <= Len(a) THEN a[i] ELSE v[i - Len(a)]
  OBVIOUS
<1>1. PICK t : t = a \o v
  OBVIOUS
<1>2. t \in Seq(N)
  BY <1>1, ConcatProperties
<1>3. Len(t) = Len(a) + Len(v)
  BY <1>1, ConcatProperties
<1>4. \A i \in 1 .. Len(a) + Len(v) : t[i] = IF i <= Len(a) THEN a[i] ELSE v[i - Len(a)]
  BY <1>1, ConcatProperties
<1>5. Then(a, v) = t
  BY <1>1 DEF Then
<1> QED BY <1>2, <1>3, <1>4, <1>5

\* What has been sent begins with what is applied, and what is next follows it.
LEMMA NextOfFlow ==
  \A N : \A a, b, q, w \in Seq(N) : \A m \in N : Follows(m, a, Flow(a, Then(One(m), b), q, w))
<1> SUFFICES ASSUME NEW N, NEW a \in Seq(N), NEW b \in Seq(N), NEW q \in Seq(N),
                    NEW w \in Seq(N), NEW m \in N
             PROVE  Follows(m, a, Flow(a, Then(One(m), b), q, w))
  OBVIOUS
<1>1. PICK r, o, u : r = Then(Then(b, q), w) /\ o = One(m) /\ u = Then(Then(One(m), b), q)
  OBVIOUS
<1>2. o \in Seq(N) /\ Len(o) = 1 /\ o[1] = m
  BY <1>1 DEF One
<1>3. r \in Seq(N)
  BY <1>1, ThenAssociates
<1>4. Then(Then(Then(o, b), q), w) = Then(o, r)
  <2>1. Then(b, q) \in Seq(N)
    BY ThenAssociates
  <2>2. Then(Then(o, b), q) = Then(o, Then(b, q))
    BY <1>2, ThenAssociates
  <2>3. Then(Then(o, Then(b, q)), w) = Then(o, Then(Then(b, q), w))
    BY <1>2, <2>1, ThenAssociates
  <2> QED BY <1>1, <2>2, <2>3
<1>5. PICK v : v = Then(o, r)
  OBVIOUS
<1>6. v \in Seq(N) /\ Len(v) = 1 + Len(r) /\ Len(r) \in Nat /\ v[1] = m
  <2>1. /\ v \in Seq(N) /\ Len(v) = Len(o) + Len(r)
        /\ \A i \in 1 .. Len(o) + Len(r) : v[i] = IF i <= Len(o) THEN o[i] ELSE r[i - Len(o)]
    BY <1>2, <1>3, <1>5, ConcatProperties DEF Then
  <2>2. Len(r) \in Nat
    BY <1>3, LenProperties
  <2>3. 1 \in 1 .. Len(o) + Len(r) /\ 1 <= Len(o)
    BY <1>2, <2>2
  <2> QED BY <1>2, <2>1, <2>2, <2>3
<1>7. PICK s : s = Flow(a, Then(One(m), b), q, w)
  OBVIOUS
<1>8. s = Then(a, v)
  BY <1>1, <1>4, <1>5, <1>7 DEF Flow
<1>9. PICK k, n : k = Len(a) /\ n = Len(v)
  OBVIOUS
<1>10. /\ s \in Seq(N) /\ Len(s) = k + n
       /\ \A i \in 1 .. k + n : s[i] = IF i <= k THEN a[i] ELSE v[i - k]
  <2>1. /\ Then(a, v) \in Seq(N)
        /\ Len(Then(a, v)) = Len(a) + Len(v)
        /\ \A i \in 1 .. Len(a) + Len(v) :
             Then(a, v)[i] = IF i <= Len(a) THEN a[i] ELSE v[i - Len(a)]
    <3>1. v \in Seq(N) /\ a \in Seq(N)
      BY <1>6
    <3> QED BY <3>1, ThenIndex, Zenon
  <2> HIDE <1>1, <1>7
  <2> QED BY <1>8, <1>9, <2>1
<1>11. k \in Nat /\ DOMAIN a = 1 .. k /\ n \in Nat /\ n >= 1
  BY <1>6, <1>9, LenProperties
<1>12. DOMAIN s = 1 .. k + n
  BY <1>10, LenProperties
<1>13. k + 1 \in 1 .. k + n /\ ~ (k + 1 <= k) /\ (k + 1) - k = 1
  BY <1>11
<1>14. s[k + 1] = m
  BY <1>6, <1>10, <1>13
<1>15. ASSUME NEW j \in 1 .. k + n, j <= k PROVE j \in 1 .. k /\ s[j] = a[j]
  BY <1>10, <1>11, <1>15
<1> QED BY <1>7, <1>9, <1>11, <1>12, <1>13, <1>14, <1>15 DEF Follows

\* A node is only applied below its parent.
LEMMA StaysAlive ==
  ASSUME SoundInv, Actor
  PROVE  NeverAborts'
<1> USE DEF SoundInv, PipelineInv
<1>1. \A c \in Conns : Kept(c)
  BY NothingLostIsKept DEF NeverAborts
<1>2. ASSUME NEW e \in Execs, Builder(e), Head(builderQ[e]).type = "NODE",
             HandleNode(e, Head(builderQ[e]))
      PROVE  NeverAborts'
  <2>1. PICK c \in Conns : ExecOf(c) = e
    BY DEF Execs
  <2>2. PICK m, a : m = Head(builderQ[e]) /\ a = log[e]
    OBVIOUS
  <2>3. builderQ[e] \in Seq(Msg) /\ builderQ[e] # <<>> /\ a \in Seq(Msg)
    BY <1>2, <2>1, <2>2, FlowTyped DEF Builder
  <2>4. m \in Msg /\ m \in ToSet(builderQ[e]) /\ Tail(builderQ[e]) \in Seq(Msg)
    BY <2>2, <2>3, QueueTail
  <2>5. m \in NodesOf(c)
    BY <1>2, <2>1, <2>2, <2>4, MsgKinds DEF OwnNodes
  <2>6. From(c, a) = a
    BY <2>1, <2>2, <2>3, ThoseAll DEF OwnNodes, From
  <2>7. PICK b, q, w : /\ b = From(c, Tail(builderQ[e])) /\ q = WaitingIn(c, mainQ)
                       /\ w = From(c, wire[c])
    OBVIOUS
  <2>8. b \in Seq(Msg) /\ q \in Seq(Msg) /\ w \in Seq(Msg)
    BY <2>4, <2>7, FlowTyped, FromFacts
  <2>9. From(c, builderQ[e]) = Then(One(m), b)
    BY <2>2, <2>3, <2>5, <2>7, FromFacts
  <2>10. Flow(a, Then(One(m), b), q, w) = sent[c]
    BY <1>1, <2>1, <2>2, <2>6, <2>7, <2>9 DEF Kept
  <2>11. /\ Len(a) \in Nat /\ Len(a) + 1 \in DOMAIN sent[c] /\ sent[c][Len(a) + 1] = m
         /\ \A j \in DOMAIN sent[c] : j <= Len(a) => j \in DOMAIN a /\ sent[c][j] = a[j]
    <3>1. Follows(m, a, Flow(a, Then(One(m), b), q, w))
      BY <2>3, <2>4, <2>8, NextOfFlow
    <3> QED BY <2>10, <3>1 DEF Follows
  <2>12. a # <<>> => m.parent \in Known(e)
    <3> SUFFICES ASSUME a # <<>> PROVE m.parent \in Known(e)
      OBVIOUS
    <3>1. Len(a) + 1 > 1
      BY <2>3, <2>11, EmptySeq
    <3>2. PICK j \in DOMAIN sent[c] : j < Len(a) + 1 /\ m.parent = sent[c][j].id
      BY <2>11, <3>1 DEF SentInOrder
    <3>3. j \in Nat
      <4>1. sent[c] \in Seq(Msg)
        BY DEF Typed
      <4>2. DOMAIN sent[c] = 1 .. Len(sent[c]) /\ Len(sent[c]) \in Nat
        BY <4>1, LenProperties
      <4> QED BY <4>2
    <3>4. j \in DOMAIN a /\ sent[c][j] = a[j]
      BY <2>11, <3>2, <3>3
    <3> QED BY <2>2, <3>2, <3>4 DEF Known
  <2>13. process' = process
    BY <1>2, <2>2, <2>12 DEF HandleNode
  <2> QED BY <2>13 DEF NeverAborts
<1>3. CASE Conductor
  <2>1. PICK x : x = Head(mainQ)
    OBVIOUS
  <2>2. HandleStart(x.conn) => process' = process
    BY DEF HandleStart
  <2>3. Forward(x.conn, x.msg) => process' = process
    BY DEF Forward
  <2>4. DeleteReceiver(x.conn) => process' = process
    BY DEF DeleteReceiver
  <2>5. ExecutionDone(x.msg.exec) => process' \in {process, "quit"}
    BY DEF ExecutionDone
  <2>6. process' \in {process, "quit"}
    BY <1>3, <2>1, <2>2, <2>3, <2>4, <2>5 DEF Conductor
  <2> QED BY <2>6 DEF NeverAborts
<1>4. ASSUME NEW e \in Execs, Builder(e), FinishBuilding(e) PROVE NeverAborts'
  BY <1>4 DEF FinishBuilding, NeverAborts
<1>5. CASE process' = process
  BY <1>5 DEF NeverAborts
<1>6. process' = process \/ Conductor \/ \E e \in Execs : Builder(e)
  BY DEF Actor, Solver, Receiver
<1> QED BY <1>2, <1>3, <1>4, <1>5, <1>6 DEF Builder

LEMMA SoundStep == SoundInv /\ [Next]_vars => SoundInv'
<1> SUFFICES ASSUME SoundInv, [Next]_vars PROVE SoundInv'
  OBVIOUS
<1>1. PipelineInv'
  BY PipelineStep DEF SoundInv
<1>2. OneEach'
  BY DEF SoundInv, OneEach, ExecOf
<1>3. CASE UNCHANGED vars
  <2>1. SentInOrder' /\ OwnNodes' /\ NeverAborts'
    BY <1>3 DEF SoundInv, SentInOrder, OwnNodes, NeverAborts, vars
  <2> QED BY <1>1, <1>2, <2>1 DEF SoundInv
<1>4. CASE Next
  <2>1. Actor
    BY <1>4 DEF Next, Actor
  <2>2. SentInOrder' /\ OwnNodes' /\ NeverAborts'
    BY <2>1, SentStays, OwnStays, StaysAlive DEF SoundInv, PipelineInv
  <2> QED BY <1>1, <1>2, <2>2 DEF SoundInv
<1> QED BY <1>3, <1>4

LEMMA SoundFollows == SoundInv => SearchesSound
<1> SUFFICES ASSUME SoundInv PROVE SearchesSound
  OBVIOUS
<1>1. TypeOK
  <2>1. \A e \in Execs : \A i \in DOMAIN log[e] : log[e][i].id \in NodeIds
    <3> SUFFICES ASSUME NEW e \in Execs, NEW i \in DOMAIN log[e] PROVE log[e][i].id \in NodeIds
      OBVIOUS
    <3>1. PICK c \in Conns : ExecOf(c) = e
      BY DEF Execs
    <3>2. log[e][i] \in NodesOf(c)
      BY <3>1 DEF SoundInv, OwnNodes, ToSet
    <3> QED BY <3>2 DEF NodesOf, NodeIds
  <2> QED BY <2>1 DEF SoundInv, PipelineInv, Typed, Executed, SentInOrder, TypeOK
<1>2. SearchesKeptApart
  <2> SUFFICES ASSUME NEW c \in Conns, NEW d \in Conns, SearchOf[c] # SearchOf[d]
               PROVE  links[c] \cap links[d] = {}
    BY DEF SearchesKeptApart
  <2>1. links[c] \in {{}, {ExecOf(c)}} /\ links[d] \in {{}, {ExecOf(d)}}
    BY DEF SoundInv, PipelineInv, Lives, InLife
  <2>2. ExecOf(c) # ExecOf(d)
    BY DEF SoundInv, OneEach
  <2> QED BY <2>1, <2>2
<1> QED BY <1>1, <1>2 DEF SoundInv, PipelineInv, SearchesSound

\* When every connection reports on a search of its own, whatever the number of
\* searches: their messages stay apart, in order and complete through the three
\* threads, and no tree is ever given a second root.
THEOREM SearchesAreSound == ASSUME OneEach PROVE Spec => []SearchesSound
<1>1. Init => SoundInv
  <2> SUFFICES ASSUME Init PROVE SoundInv
    OBVIOUS
  <2>1. PipelineInv
    BY PipelineInit
  <2>2. \A c \in Conns : ExecOf(c) \in Execs
    BY DEF Execs
  <2>3. ToSet(<<>>) = {} /\ DOMAIN <<>> = {}
    BY EmptySeq, LenProperties DEF ToSet
  <2> QED BY <2>1, <2>2, <2>3 DEF SoundInv, Init, SentInOrder, OwnNodes, NeverAborts
<1>2. SoundInv /\ [Next]_vars => SoundInv'
  BY SoundStep
<1>3. SoundInv => SearchesSound
  BY SoundFollows
<1> QED BY <1>1, <1>2, <1>3, PTL DEF Spec

-----------------------------------------------------------------------------
(* The channel from a solver to its tree *)

\* What is applied of connection c.
Got(c) == From(c, log[ExecOf(c)])

\* A builder applies at most one message, which belongs to at most one connection.
LEMMA BuilderDelivers ==
  ASSUME PipelineInv, process = "running", NEW e \in Execs, Builder(e)
  PROVE  \/ \A c \in Conns : Got(c)' = Got(c)
         \/ \E c \in Conns, m \in Msg :
              /\ Got(c)' = Append(Got(c), m)
              /\ Len(Got(c)) + 1 \in DOMAIN sent[c] /\ sent[c][Len(Got(c)) + 1] = m
              /\ \A d \in Conns : d # c => Got(d)' = Got(d)
<1> USE DEF PipelineInv
<1>1. PICK m : m = Head(builderQ[e])
  OBVIOUS
<1>2. builderQ[e] \in Seq(Msg) /\ builderQ[e] # <<>> /\ log[e] \in Seq(Msg)
  BY DEF Typed, Builder
<1>3. m \in Msg /\ Tail(builderQ[e]) \in Seq(Msg)
  BY <1>1, <1>2, QueueTail
<1>4. log' = log \/ (log'[e] = Append(log[e], m) /\ \A f \in Execs : f # e => log'[f] = log[f])
  BY <1>1 DEF Builder, HandleNode, FinishBuilding, Typed
<1>5. CASE log' = log
  BY <1>5 DEF Got
<1>6. ASSUME log'[e] = Append(log[e], m), \A f \in Execs : f # e => log'[f] = log[f]
      PROVE  \A c \in Conns : Got(c)' = IF ExecOf(c) = e /\ m \in NodesOf(c)
                                        THEN Append(Got(c), m) ELSE Got(c)
  <2> SUFFICES ASSUME NEW c \in Conns
               PROVE  Got(c)' = IF ExecOf(c) = e /\ m \in NodesOf(c)
                                THEN Append(Got(c), m) ELSE Got(c)
    OBVIOUS
  <2>1. ExecOf(c) \in Execs
    BY FlowTyped
  <2>2. CASE ExecOf(c) # e
    BY <1>6, <2>1, <2>2 DEF Got
  <2>3. CASE ExecOf(c) = e
    <3>1. From(c, log'[e]) = IF m \in NodesOf(c) THEN Then(From(c, log[e]), One(m))
                             ELSE From(c, log[e])
      BY <1>2, <1>3, <1>6, FromFacts
    <3>2. Append(From(c, log[e]), m) = Then(From(c, log[e]), One(m))
      <4>1. From(c, log[e]) \in Seq(Msg)
        BY <1>2, FromFacts
      <4> QED BY <1>3, <4>1, ThenAssociates
    <3> QED BY <2>3, <3>1, <3>2 DEF Got
  <2> QED BY <2>2, <2>3
<1>7. ASSUME NEW c \in Conns, ExecOf(c) = e, m \in NodesOf(c)
      PROVE  /\ Len(Got(c)) + 1 \in DOMAIN sent[c] /\ sent[c][Len(Got(c)) + 1] = m
             /\ \A d \in Conns : d # c => m \notin NodesOf(d)
  <2>1. PICK a, b, q, w : /\ a = From(c, log[e]) /\ b = From(c, Tail(builderQ[e]))
                          /\ q = WaitingIn(c, mainQ) /\ w = From(c, wire[c])
    OBVIOUS
  <2>2. a \in Seq(Msg) /\ b \in Seq(Msg) /\ q \in Seq(Msg) /\ w \in Seq(Msg)
    BY <1>2, <1>3, <2>1, FlowTyped, FromFacts
  <2>3. From(c, builderQ[e]) = Then(One(m), b)
    BY <1>1, <1>2, <1>7, <2>1, FromFacts
  <2>4. Kept(c)
    BY NothingLostIsKept
  <2>5. Flow(a, Then(One(m), b), q, w) = sent[c]
    BY <1>7, <2>1, <2>3, <2>4 DEF Kept
  <2>6. Follows(m, a, Flow(a, Then(One(m), b), q, w))
    BY <1>3, <2>2, NextOfFlow
  <2>7. Len(a) + 1 \in DOMAIN sent[c] /\ sent[c][Len(a) + 1] = m
    BY <2>5, <2>6 DEF Follows
  <2>8. Got(c) = a
    BY <1>7, <2>1 DEF Got
  <2>9. \A d \in Conns : d # c => m \notin NodesOf(d)
    BY <1>7 DEF NodesOf
  <2> QED BY <2>7, <2>8, <2>9
<1>8. CASE \E c \in Conns : ExecOf(c) = e /\ m \in NodesOf(c)
  BY <1>3, <1>4, <1>5, <1>6, <1>7, <1>8
<1>9. CASE ~ \E c \in Conns : ExecOf(c) = e /\ m \in NodesOf(c)
  BY <1>4, <1>5, <1>6, <1>9
<1> QED BY <1>8, <1>9

\* Every step sends a message, delivers the next one, or is none of the channel's
\* business.
LEMMA StepOfChannel ==
  PipelineInv /\ [Next]_vars => [Channel!Next]_(Channel!vars)
<1> SUFFICES ASSUME PipelineInv, [Next]_vars PROVE [Channel!Next]_(Channel!vars)
  OBVIOUS
<1> DEFINE G == [c \in Conns |-> Got(c)]
<1>g. /\ G = [c \in Conns |-> From(c, log[ExecOf(c)])]
      /\ G' = [c \in Conns |-> From(c, log[ExecOf(c)])']
  BY DEF Got
<1>t. sent \in [Conns -> Seq(Msg)] /\ \A c \in Conns : Got(c) \in Seq(Msg)
  BY FlowTyped DEF PipelineInv, Typed, Got
<1>1. CASE sent' = sent /\ log' = log
  BY <1>1 DEF Channel!vars
<1>2. ASSUME NEW c \in Conns, SendNode(c), log' = log PROVE Channel!Send(c)
  <2>1. PICK m : sent' = [sent EXCEPT ![c] = Append(@, m)] /\ m \in Msg
    <3>1. PICK par \in IF SentBy(Team(c)) = {} THEN {Nil} ELSE SentBy(Team(c)) :
            LET m == Node(<<c, Len(sent[c]) + 1>>, par)
            IN  Send(c, m) /\ sent' = [sent EXCEPT ![c] = Append(@, m)]
      BY <1>2 DEF SendNode
    <3> QED BY <1>2, <3>1, SentTyped, MsgTyped DEF SendNode, PipelineInv
  <2>2. PICK s, t, k : s = sent[c] /\ t = Append(s, m) /\ k = Len(s)
    OBVIOUS
  <2>3. s \in Seq(Msg) /\ sent'[c] = t
    BY <1>t, <2>1, <2>2
  <2>4. Len(t) = k + 1 /\ t[k + 1] = m
    BY <2>1, <2>2, <2>3, AppendProperties
  <2>5. UNCHANGED [d \in Conns |-> From(d, log[ExecOf(d)])]
    BY <1>2
  <2> QED BY <2>1, <2>2, <2>3, <2>4, <2>5 DEF Channel!Send
<1>3. ASSUME NEW c \in Conns, NEW m \in Msg, Got(c)' = Append(Got(c), m), sent' = sent,
             Len(Got(c)) + 1 \in DOMAIN sent[c], sent[c][Len(Got(c)) + 1] = m,
             \A d \in Conns : d # c => Got(d)' = Got(d)
      PROVE  Channel!Deliver(c)
  <2>1. G' = [G EXCEPT ![c] = Append(@, m)]
    BY <1>3
  <2>2. Len(G[c]) < Len(sent[c])
    BY <1>t, <1>3, LenProperties
  <2>3. G' = [G EXCEPT ![c] = Append(@, sent[c][Len(@) + 1])]
    BY <1>3, <2>1
  <2> HIDE DEF G
  <2> QED BY <1>3, <1>g, <2>2, <2>3 DEF Channel!Deliver
<1>4. CASE Next
  <2>1. ASSUME NEW c \in Conns, Solver(c) PROVE Channel!Next \/ (sent' = sent /\ log' = log)
    <3>1. CASE SendNode(c)
      BY <1>2, <2>1, <3>1 DEF Solver, Channel!Next
    <3>2. CASE ~ SendNode(c)
      BY <2>1, <3>2 DEF Solver, SendStart, SendDone, Disconnect
    <3> QED BY <3>1, <3>2
  <2>2. ASSUME NEW e \in Execs, Builder(e)
        PROVE  Channel!Next \/ UNCHANGED Channel!vars
    <3>0. sent' = sent
      BY <2>2 DEF Builder, solverVars
    <3>1. CASE \A c \in Conns : Got(c)' = Got(c)
      <4>1. G' = G
        BY <3>1
      <4> HIDE DEF G
      <4> QED BY <1>g, <3>0, <4>1 DEF Channel!vars
    <3>2. CASE ~ \A c \in Conns : Got(c)' = Got(c)
      <4>1. process = "running"
        BY <1>4 DEF Next
      <4>2. \E c \in Conns : Channel!Deliver(c)
        BY <1>3, <2>2, <3>0, <3>2, <4>1, BuilderDelivers
      <4> QED BY <4>2 DEF Channel!Next
    <3> QED BY <3>1, <3>2
  <2>3. ASSUME (\E c \in Conns : Receiver(c)) \/ Conductor PROVE sent' = sent /\ log' = log
    BY <2>3 DEF Receiver, Conductor, solverVars
  <2> QED BY <1>1, <1>4, <2>1, <2>2, <2>3 DEF Next
<1>5. CASE UNCHANGED vars
  BY <1>1, <1>5 DEF vars
<1> QED BY <1>4, <1>5

\* The threads and queues are a channel of Delivery, whoever shares an execution
\* and however the process ends: what is applied of a connection grows by one
\* message at a time, each time by the next one sent.
THEOREM AppliedInOrder == Spec => Channel!Init /\ [][Channel!Next]_(Channel!vars)
<1>1. Init => Channel!Init
  <2> SUFFICES ASSUME Init PROVE Channel!Init
    OBVIOUS
  <2>1. \A c \in Conns : From(c, log[ExecOf(c)]) = <<>>
    BY ThoseEmpty DEF Init, From, Execs
  <2> QED BY <2>1 DEF Init, Channel!Init
<1>2. PipelineInv /\ [Next]_vars => [Channel!Next]_(Channel!vars)
  BY StepOfChannel
<1> QED BY <1>1, <1>2, PipelineInvariant, PTL DEF Spec
=============================================================================
