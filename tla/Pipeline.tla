------------------------------- MODULE Pipeline -------------------------------
(***************************************************************************)
(* From the solver's socket to the search tree: the threads of the profiler*)
(* and the event queues between them (conductor.cpp, receiver_thread.cpp,  *)
(* receiver_worker.cpp, tree_builder.cpp).                                 *)
(*                                                                         *)
(*   solver --wire--> receiver thread --mainQ--> main thread               *)
(*                                    --builderQ--> builder thread         *)
(*                                                                         *)
(* There is one receiver thread per connection and one builder thread per  *)
(* execution.  A ReceiverThread object lives in the main thread, so what   *)
(* its worker emits is queued to the main thread and emitted again there,  *)
(* to whichever builders the START message has connected it to.  START     *)
(* itself is a blocking connection: the receiver thread waits until the    *)
(* conductor has created the execution.                                    *)
(*                                                                         *)
(* The tree is abstracted to the log of the node messages applied to it:   *)
(* the one thing the builder asks it is whether the parent is there.       *)
(***************************************************************************)
EXTENDS Integers, Sequences, FiniteSets, SequencesExt, Subsequences

CONSTANTS
  Conns,       \* connections of solvers
  SearchOf,    \* the search each connection reports on
  Announced,   \* the execution id its START carries, see ExecOf
  MaxSent,     \* bound on the node messages of one connection
  Nil,         \* no node, no connection
  Saving       \* are save_search or save_execution given on the command line?

ASSUME ConnsAssumption == IsFiniteSet(Conns) /\ MaxSent \in Nat
ASSUME FunctionsAssumption == DOMAIN SearchOf = Conns /\ DOMAIN Announced = Conns
ASSUME NilAssumption == Nil \notin Conns /\ Nil \notin Conns \X (1 .. MaxSent)

VARIABLES
  phase,     \* what each solver has sent: "new", "started", "done", "closed"
  sent,      \* the node messages each solver has sent (history)
  wire,      \* what is sent and not yet read by the receiver thread
  receiver,  \* "reading", "blocked" in notifyStart, "finished" or "deleted"
  mainQ,     \* event queue of the main thread
  executions,\* Conductor::executions_ with their builders_
  links,     \* the executions whose builder each receiver is connected to
  builderQ,  \* event queue of each builder thread
  log,       \* the node messages applied to the tree of each execution
  done,      \* executions whose tree is_done_
  saved,     \* the log of an execution when it was written to disk
  process    \* "running", "quit" or "aborted"

solverVars == <<phase, sent>>
vars == <<phase, sent, wire, receiver, mainQ, executions, links, builderQ, log,
          done, saved, process>>

\* handleStart's exec_id is -1 when START has no info and 0 when its info has
\* no "execution_id"; every 0 is replaced by a random id, here the connection
\* itself: two random ids are assumed to differ.
NoInfo == -1
Unnumbered == 0
\* Faulty ExecOf: an id of 0 is not replaced by a random one.
ExecAsAnnounced(c) == Announced[c]

ExecOf(c) == IF Announced[c] = Unnumbered THEN c ELSE Announced[c]
Execs == {ExecOf(c) : c \in Conns}

NodeIds == Conns \X (1 .. MaxSent)
Node(id, par) == [type |-> "NODE", id |-> id, parent |-> par]
Start == [type |-> "START"]
Done == [type |-> "DONE"]

\* The node messages of connection c.
NodesOf(c) == [type : {"NODE"}, id : {c} \X (1 .. MaxSent), parent : NodeIds \cup {Nil}]

-----------------------------------------------------------------------------
(* The solvers.  The first node of a search is its root, the parent of any *)
(* other node has been sent before it, possibly over another connection.   *)

Team(c) == {d \in Conns : SearchOf[d] = SearchOf[c]}
SentBy(C) == UNION {{sent[c][i].id : i \in DOMAIN sent[c]} : c \in C}

Send(c, m) == wire' = [wire EXCEPT ![c] = Append(@, m)]

SendStart(c) ==
  /\ phase[c] = "new"
  /\ phase' = [phase EXCEPT ![c] = "started"]
  /\ Send(c, Start)
  /\ UNCHANGED sent

SendNode(c) ==
  /\ phase[c] = "started"
  /\ Len(sent[c]) < MaxSent
  /\ \E par \in IF SentBy(Team(c)) = {} THEN {Nil} ELSE SentBy(Team(c)) :
       LET m == Node(<<c, Len(sent[c]) + 1>>, par)
       IN  Send(c, m) /\ sent' = [sent EXCEPT ![c] = Append(@, m)]
  /\ UNCHANGED phase

SendDone(c) ==
  /\ phase[c] = "started"
  /\ phase' = [phase EXCEPT ![c] = "done"]
  /\ Send(c, Done)
  /\ UNCHANGED sent

\* A solver may also go away without DONE.
Disconnect(c) ==
  /\ phase[c] \in {"started", "done"}
  /\ phase' = [phase EXCEPT ![c] = "closed"]
  /\ UNCHANGED <<sent, wire>>

Solver(c) ==
  /\ SendStart(c) \/ SendNode(c) \/ SendDone(c) \/ Disconnect(c)
  /\ UNCHANGED <<receiver, mainQ, executions, links, builderQ, log, done, saved, process>>

-----------------------------------------------------------------------------
(* The receiver threads *)

\* Faulty Post: the last event posted is handled first.
PostFirst(e) == mainQ' = <<e>> \o mainQ

Post(e) == mainQ' = Append(mainQ, e)

\* handleMessage: newNode and doneReceiving are queued, notifyStart blocks.
HandleMessage(c) ==
  LET m == Head(wire[c]) IN
  /\ receiver[c] = "reading"
  /\ wire[c] # <<>>
  /\ wire' = [wire EXCEPT ![c] = Tail(@)]
  /\ Post([conn |-> c, msg |-> m])
  /\ receiver' = [receiver EXCEPT ![c] = IF m = Start THEN "blocked" ELSE @]

\* disconnected: the thread leaves its event loop, finished asks the main
\* thread to delete the ReceiverThread.
\* Faulty Finish: the thread ends before everything is read.
FinishUnread(c) ==
  /\ receiver[c] = "reading"
  /\ phase[c] = "closed"
  /\ receiver' = [receiver EXCEPT ![c] = "finished"]
  /\ Post([conn |-> c, msg |-> [type |-> "DELETE"]])
  /\ UNCHANGED wire

Finish(c) ==
  /\ receiver[c] = "reading"
  /\ phase[c] = "closed" /\ wire[c] = <<>>
  /\ receiver' = [receiver EXCEPT ![c] = "finished"]
  /\ Post([conn |-> c, msg |-> [type |-> "DELETE"]])
  /\ UNCHANGED wire

Receiver(c) ==
  /\ HandleMessage(c) \/ Finish(c)
  /\ UNCHANGED <<solverVars, executions, links, builderQ, log, done, saved, process>>

-----------------------------------------------------------------------------
(* The main thread: conductor *)

\* handleStart
HandleStart(c) ==
  /\ executions' = executions \cup {ExecOf(c)}
  /\ links' = [links EXCEPT ![c] = @ \cup {ExecOf(c)}]
  /\ receiver' = [receiver EXCEPT ![c] = "reading"]
  /\ UNCHANGED <<builderQ, done, saved, process>>

\* ReceiverThread::newNode and doneReceiving, emitted again to the builders
\* Faulty Forward: DONE takes effect without going through the builder.
ForwardDoneAtOnce(c, m) ==
  /\ builderQ' = [e \in Execs |-> IF e \in links[c] THEN Append(builderQ[e], m)
                                  ELSE builderQ[e]]
  /\ done' = IF m = Done THEN done \cup links[c] ELSE done
  /\ UNCHANGED <<executions, links, receiver, saved, process>>

Forward(c, m) ==
  /\ builderQ' = [e \in Execs |-> IF e \in links[c] THEN Append(builderQ[e], m)
                                  ELSE builderQ[e]]
  /\ UNCHANGED <<executions, links, receiver, done, saved, process>>

\* deleteLater: what is still queued for the deleted object is dropped
DeleteReceiver(c) ==
  /\ receiver' = [receiver EXCEPT ![c] = "deleted"]
  /\ links' = [links EXCEPT ![c] = {}]
  /\ UNCHANGED <<executions, builderQ, done, saved, process>>

\* onExecutionDone
ExecutionDone(e) ==
  /\ done' = done \cup {e}
  /\ saved' = IF Saving THEN [saved EXCEPT ![e] = log[e]] ELSE saved
  /\ process' = IF Saving THEN "quit" ELSE process
  /\ UNCHANGED <<executions, links, receiver, builderQ>>

Conductor ==
  LET ev == Head(mainQ) IN
  /\ mainQ # <<>>
  /\ mainQ' = IF ev.msg.type = "DELETE"
              THEN Those(Tail(mainQ), {x \in ToSet(mainQ) : x.conn # ev.conn})
              ELSE Tail(mainQ)
  /\ \/ ev.msg = Start /\ HandleStart(ev.conn)
     \/ ev.msg.type \in {"NODE", "DONE"} /\ Forward(ev.conn, ev.msg)
     \/ ev.msg.type = "DELETE" /\ DeleteReceiver(ev.conn)
     \/ ev.msg.type = "BUILT" /\ ExecutionDone(ev.msg.exec)
  /\ UNCHANGED <<solverVars, wire, log>>

-----------------------------------------------------------------------------
(* The builder threads *)

Known(e) == {log[e][i].id : i \in DOMAIN log[e]}

\* handleNode: a parent that is not known makes the node a root, and a second
\* root makes the tree throw.
HandleNode(e, m) ==
  LET root == m.parent \notin Known(e) IN
  /\ log' = [log EXCEPT ![e] = IF root /\ @ # <<>> THEN @ ELSE Append(@, m)]
  /\ process' = IF root /\ log[e] # <<>> THEN "aborted" ELSE process
  /\ UNCHANGED mainQ

\* Faulty FinishBuilding: buildingDone is not emitted.
FinishSilently(e) == UNCHANGED <<mainQ, log, process>>

\* finishBuilding emits buildingDone, which is queued to the main thread
FinishBuilding(e) ==
  /\ Post([conn |-> Nil, msg |-> [type |-> "BUILT", exec |-> e]])
  /\ UNCHANGED <<log, process>>

Builder(e) ==
  LET m == Head(builderQ[e]) IN
  /\ builderQ[e] # <<>>
  /\ builderQ' = [builderQ EXCEPT ![e] = Tail(@)]
  /\ \/ m.type = "NODE" /\ HandleNode(e, m)
     \/ m.type = "DONE" /\ FinishBuilding(e)
  /\ UNCHANGED <<solverVars, wire, receiver, executions, links, done, saved>>

-----------------------------------------------------------------------------
Init ==
  /\ phase = [c \in Conns |-> "new"]
  /\ sent = [c \in Conns |-> <<>>]
  /\ wire = [c \in Conns |-> <<>>]
  /\ receiver = [c \in Conns |-> "reading"]
  /\ mainQ = <<>>
  /\ executions = {}
  /\ links = [c \in Conns |-> {}]
  /\ builderQ = [e \in Execs |-> <<>>]
  /\ log = [e \in Execs |-> <<>>]
  /\ done = {}
  /\ saved = [e \in Execs |-> <<>>]
  /\ process = "running"

Next ==
  /\ process = "running"
  /\ \/ \E c \in Conns : Solver(c)
     \/ \E c \in Conns : Receiver(c)
     \/ Conductor
     \/ \E e \in Execs : Builder(e)

\* Every thread of the profiler runs its event loop until the process ends.
\* Nothing is assumed of the solvers.
Fairness ==
  /\ \A c \in Conns : WF_vars(process = "running" /\ Receiver(c))
  /\ WF_vars(process = "running" /\ Conductor)
  /\ \A e \in Execs : WF_vars(process = "running" /\ Builder(e))

Spec == Init /\ [][Next]_vars /\ Fairness

-----------------------------------------------------------------------------
(* Properties *)

TypeOK ==
  /\ phase \in [Conns -> {"new", "started", "done", "closed"}]
  /\ receiver \in [Conns -> {"reading", "blocked", "finished", "deleted"}]
  /\ executions \subseteq Execs /\ done \subseteq executions
  /\ \A c \in Conns : links[c] \subseteq executions
  /\ \A c \in Conns : \A i \in DOMAIN sent[c] : sent[c][i].id = <<c, i>>
  /\ \A e \in Execs : \A i \in DOMAIN log[e] : log[e][i].id \in NodeIds
  /\ process \in {"running", "quit", "aborted"}

From(c, s) == Those(s, NodesOf(c))

\* The node messages of c on their way to its execution, the oldest first.
InFlight(c) ==
  LET events == Those(mainQ, [conn : {c}, msg : NodesOf(c)])
  IN  From(c, builderQ[ExecOf(c)])
        \o [i \in DOMAIN events |-> events[i].msg]
        \o From(c, wire[c])

\* Across three threads and their queues no node message is lost, duplicated or
\* overtaken by another of its connection: what the builder has applied and what
\* is on its way is exactly what the solver sent, in its order.
NothingLost ==
  process # "aborted" =>
    \A c \in Conns : From(c, log[ExecOf(c)]) \o InFlight(c) = sent[c]

\* A node is only ever applied below its parent: the tree never gets a second
\* root.
NeverAborts == process # "aborted"

\* Two searches are never connected to the same execution: every START of a
\* search of its own creates its execution.
SearchesKeptApart ==
  \A c, d \in Conns : SearchOf[c] # SearchOf[d] => links[c] \cap links[d] = {}

\* The nodes the solvers of e's connections have sent are all in s.
Complete(e, s) ==
  \A c \in Conns : ExecOf(c) = e =>
    /\ phase[c] \in {"done", "closed"}
    /\ Len(From(c, s)) = Len(sent[c])

\* node_tree.hh, "Indicates whether the tree is fully built"; README.md, Done
\* "indicate[s] that no further nodes should be expected".
DoneMeansBuilt == \A e \in done : Complete(e, log[e])

\* What save_search or save_execution writes when a solver is done holds every
\* node that solver sent: the main thread, which writes and quits, does not
\* overtake the builder.
SavedComplete ==
  process = "quit" => \A e \in done : \E c \in Conns :
    ExecOf(c) = e /\ phase[c] \in {"done", "closed"} /\ From(c, saved[e]) = sent[c]

\* On their way through three threads, the messages of searches that know nothing
\* of each other stay apart, in order and complete, and none makes a tree throw.
SearchesSound == TypeOK /\ NeverAborts /\ SearchesKeptApart /\ NothingLost

\* The same of one search over several connections, up to the first node that
\* overtakes its parent, and of the file that is written before quitting.
NothingMissing == NothingLost /\ SavedComplete

\* No receiver thread is left over: after a solver has gone away, in whatever
\* phase, its ReceiverThread is deleted.
ClosedIsDeleted ==
  \A c \in Conns : phase[c] = "closed" ~> receiver[c] = "deleted"

\* The solver's DONE reaches the execution: it is eventually marked done.
DoneIsNoticed ==
  \A c \in Conns : phase[c] = "done" ~> ExecOf(c) \in done

\* What must happen at last: a finished search is shown as done, and a receiver
\* whose solver has gone away is deleted, whatever the other threads do.
ServedInTheEnd == DoneIsNoticed /\ ClosedIsDeleted

\* The threads and queues together are a reliable FIFO channel from each solver
\* to its tree: in order, exactly once, and eventually.
Channel == INSTANCE Delivery
             WITH got <- [c \in Conns |-> From(c, log[ExecOf(c)])]

ImplementsDelivery == Channel!Spec
=============================================================================
