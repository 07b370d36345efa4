------------------------------ MODULE Database ------------------------------
(***************************************************************************)
(* Saving an execution to a database file and loading it again             *)
(* (src/src/cpprofiler/db_handler.cpp, NodeTree::db_*, UserData), and the  *)
(* search log (Conductor::saveSearch).                                     *)
(*                                                                         *)
(* The tree is a Structure with a status per node.  Saving runs in the     *)
(* main thread without the tree mutex, so the builder thread may go on     *)
(* promoting nodes while rows are written.  Rows become durable when their *)
(* transaction is committed; the program or the machine may stop between   *)
(* any two rows, and an insert may fail, which is only printed.  Loading   *)
(* reads the rows in the order of their key, the NodeID, into a second     *)
(* tree, the copy.                                                         *)
(***************************************************************************)
EXTENDS Structure, SequencesExt, Subsequences

CONSTANTS
  TransactionSize,  \* rows per transaction (50000 in the code)
  Reported,         \* the statuses a solver reports in the instance
  NotedNodes        \* the nodes that may get a bookmark, and have a nogood and an info

Statuses == {"BRANCH", "SOLVED", "FAILED", "SKIPPED", "UNDETERMINED"}

ASSUME DatabaseBounds ==
  TransactionSize \in Nat \ {0} /\ NotedNodes \subseteq Nat /\ Reported \subseteq Statuses

ClosingStatuses == {"SOLVED", "FAILED", "SKIPPED"}

\* what is kept beside the tree, one table each, in the order they are saved
Tables == <<"Bookmarks", "Nogoods", "Info">>
TableNames == {"Bookmarks", "Nogoods", "Info"}

VARIABLES
  restarts, \* Execution::m_is_restarts: the root is a dummy that grows children
  status,   \* NodeInfo::m_flags
  notes,    \* the nodes that have an entry in bookmarks_, nogood_map_, info_map_
  building, \* the builder thread may still promote nodes
  app,      \* what the main thread does with the file
  save,     \* the save in progress: the order of the nodes, the next one, the
            \* rows of the open transaction, the next table, whether a row
            \* failed, whether the builder was still running at the start
  file,     \* the tables as committed
  copy      \* the tree being loaded: nodes_, NodeInfo, what is kept beside it,
            \* and the rows still to read

databaseVars == <<restarts, status, notes, building, app, save, file, copy>>

NoNotes == [t \in TableNames |-> {}]
EmptyFile == [rows |-> {}, notes |-> NoNotes]
NoSave == [order |-> <<>>, next |-> 1, batch |-> {}, table |-> 1, failed |-> FALSE, grows |-> FALSE]
NoCopy == [nodes |-> <<>>, status |-> <<>>, open |-> <<>>, solved |-> <<>>,
           notes |-> NoNotes, todo |-> {}]

DatabaseInit ==
  /\ StructureInit
  /\ restarts \in BOOLEAN /\ status = <<>> /\ notes = NoNotes /\ building = TRUE
  /\ app = "idle" /\ save = NoSave /\ file = EmptyFile /\ copy = NoCopy

StatusOf(n) == status[n + 1]
Children(n) == [a \in 1 .. KidsOf(n) |-> ChildAt(n, a - 1)]

-----------------------------------------------------------------------------
(* The tree while it is built *)

BuilderRuns == building /\ AtRest /\ app \in {"idle", "saving"}

Start(kids) ==
  /\ BuilderRuns /\ (restarts => kids = 0)
  /\ CreateRoot(kids)
  /\ status' = <<"BRANCH">>
  /\ UNCHANGED <<restarts, notes, building, app, save, file, copy>>

\* the solver reports node n; what it says of a noted node is a nogood and an info
Promote(n, kids, st) ==
  /\ BuilderRuns
  /\ n \in NodeIDs /\ StatusOf(n) = "UNDETERMINED"
  /\ IF kids > 0 THEN st = "BRANCH" /\ AddChildren(n, kids)
     ELSE UNCHANGED structureVars
  /\ status' = [status EXCEPT ![n + 1] = st]
  /\ notes' = [t \in TableNames |-> notes[t] \cup
                  IF t # "Bookmarks" THEN {n} \cap NotedNodes ELSE {}]
  /\ UNCHANGED <<restarts, building, app, save, file, copy>>

\* a restart of the search: one more child for the dummy root
NewRestart ==
  /\ BuilderRuns /\ restarts
  /\ AddExtraChild(Root)
  /\ UNCHANGED databaseVars

\* the rest of createRoot, addChildren and addExtraChild
CreateKid ==
  /\ CreateChild
  /\ status' = Append(status, "UNDETERMINED")
  /\ UNCHANGED <<restarts, notes, building, app, save, file, copy>>

FinishBuilding ==
  /\ BuilderRuns /\ nodes # <<>>
  /\ building' = FALSE
  /\ UNCHANGED <<structureVars, restarts, status, notes, app, save, file, copy>>

\* NodeTree::removeNode, meant for a tree that is done building
RemoveNode(n) ==
  /\ ~building /\ app = "idle"
  /\ n \in NodeIDs \ {Root}
  /\ \E alt \in 0 .. KidsOf(ParentOf(n)) - 1 :
       ChildAt(ParentOf(n), alt) = n /\ RemoveAlt(ParentOf(n), alt)
  /\ UNCHANGED databaseVars

\* a bookmark is set or cleared on the selected node
ToggleBookmark(n) ==
  /\ app = "idle" /\ n \in NodeIDs \cap NotedNodes
  /\ notes' = [notes EXCEPT !["Bookmarks"] = SymDiff(@, {n})]
  /\ UNCHANGED <<structureVars, restarts, status, building, app, save, file, copy>>

-----------------------------------------------------------------------------
(* Saving *)

\* utils::pre_order, as the nodes below each node, itself first
PreOrder ==
  LET Below[n \in NodeIDs] == <<n>> \o FlattenSeq([a \in 1 .. KidsOf(n) |-> Below[ChildAt(n, a - 1)]])
  IN Below[Root]

\* getAlternative: the first place that reads as n
Alternative(n) ==
  IF n = Root THEN -1
  ELSE CHOOSE a \in 0 .. KidsOf(ParentOf(n)) - 1 :
         /\ ChildAt(ParentOf(n), a) = n
         /\ \A b \in 0 .. a - 1 : ChildAt(ParentOf(n), b) # n

Row(n) == [nid |-> n, pid |-> ParentOf(n), alt |-> Alternative(n), status |-> StatusOf(n)]

\* The file is created or emptied and the tables are created; pre_order reads
\* the root, which a tree without nodes does not have, and without a lock also
\* a place that is not filled yet: neither is a node.
BeginSave ==
  /\ app = "idle"
  /\ file' = EmptyFile
  /\ IF nodes = <<>> \/ ~AtRest THEN app' = "aborted" /\ UNCHANGED save
     ELSE app' = "saving" /\ save' = [NoSave EXCEPT !.order = PreOrder, !.grows = building]
  /\ UNCHANGED <<structureVars, restarts, status, notes, building, copy>>

RowsDone == save.next > Len(save.order)

Commit(batch) == file' = [file EXCEPT !.rows = @ \cup batch]

\* Faulty SaveRow: a full transaction is dropped for a new one.
SaveRowUncommitted(ok) ==
  /\ app = "saving" /\ ~RowsDone
  /\ LET new == IF ok THEN {Row(save.order[save.next])} ELSE {}
         full == save.next % TransactionSize = 0
     IN save' = [save EXCEPT !.next = @ + 1, !.failed = @ \/ ~ok,
                             !.batch = IF full THEN {} ELSE @ \cup new]
  /\ UNCHANGED <<structureVars, restarts, status, notes, building, app, file, copy>>

SaveRow(ok) ==
  /\ app = "saving" /\ ~RowsDone
  /\ LET new == IF ok THEN {Row(save.order[save.next])} ELSE {}
         batch == save.batch \cup new
         full == save.next % TransactionSize = 0
     IN /\ IF full THEN Commit(batch) ELSE UNCHANGED file
        /\ save' = [save EXCEPT !.next = @ + 1, !.failed = @ \/ ~ok,
                                !.batch = IF full THEN {} ELSE batch]
  /\ UNCHANGED <<structureVars, restarts, status, notes, building, app, copy>>

\* the commit after the last row, then a transaction for each other table;
\* nogoods and infos are looked up for every index of nodes_
SaveTable ==
  /\ app = "saving" /\ RowsDone
  /\ LET t == Tables[save.table]
         last == save.table = Len(Tables)
     IN /\ file' = [rows |-> file.rows \cup save.batch,
                    notes |-> [file.notes EXCEPT ![t] = notes[t]]]
        /\ save' = [save EXCEPT !.table = @ + 1, !.batch = {}]
        /\ app' = IF last THEN "saved" ELSE "saving"
  /\ UNCHANGED <<structureVars, restarts, status, notes, building, copy>>

\* the open transaction is lost
Crash ==
  /\ app = "saving"
  /\ app' = "crashed"
  /\ save' = [save EXCEPT !.batch = {}]
  /\ UNCHANGED <<structureVars, restarts, status, notes, building, file, copy>>

-----------------------------------------------------------------------------
(* Loading *)

\* another run of the program opens the file
BeginLoad ==
  /\ app \in {"saved", "crashed"}
  /\ app' = "loading"
  /\ copy' = [NoCopy EXCEPT !.todo = file.rows,
                            !.nodes = [i \in 1 .. Cardinality(file.rows) |-> NewNode(NoNode, 0)]]
  /\ UNCHANGED <<structureVars, restarts, status, notes, building, save, file>>

CopyIDs == 0 .. Len(copy.status) - 1
CopyKids(c, n) == {GetChild(c.nodes[n + 1], alt) : alt \in 0 .. ChildrenCount(c.nodes[n + 1]) - 1}
CopyIsOpen(c, n) == c.status[n + 1] = "UNDETERMINED" \/ c.open[n + 1]

\* closeNode(n) and onChildClosed upwards: the nodes that are closed
ClosedBy(c, n) ==
  LET Up[m \in 0 .. Len(c.status) - 1] ==
        LET p == c.nodes[m + 1].parent
        IN {m} \cup (IF p # NoNode /\ \A k \in CopyKids(c, p) \ {m} : ~CopyIsOpen(c, k)
                    THEN Up[p] ELSE {})
  IN Up[n]

\* notifyAncestors
UpToRoot(c, n) ==
  LET Up[m \in 0 .. Len(c.status) - 1] ==
        {m} \cup (IF m = Root THEN {} ELSE Up[c.nodes[m + 1].parent])
  IN Up[n]

\* Faulty WithFlags: a solution is not reported to the ancestors.
WithFlagsNoNotify(c, n, st) ==
  [c EXCEPT !.open = [m \in DOMAIN @ |->
                        @[m] /\ ~(st \in ClosingStatuses /\ m - 1 \in ClosedBy(c, n))],
            !.solved = [m \in DOMAIN @ |-> @[m] \/ (st = "SOLVED" /\ m - 1 = n)]]

WithFlags(c, n, st) ==
  [c EXCEPT !.open = [m \in DOMAIN @ |->
                        @[m] /\ ~(st \in ClosingStatuses /\ m - 1 \in ClosedBy(c, n))],
            !.solved = [m \in DOMAIN @ |->
                          @[m] \/ (st = "SOLVED" /\ m - 1 \in UpToRoot(c, n))]]

\* db_createRoot and db_addChild; the root counts as a branch whatever its row
\* says.  addEntry accepts the next index only.
WithNode(c, r) ==
  LET entry == [c EXCEPT !.nodes[r.nid + 1] = NewNode(r.pid, 0),
                         !.status = Append(@, IF r.pid = NoNode THEN "BRANCH" ELSE r.status),
                         !.open = Append(@, TRUE), !.solved = Append(@, FALSE)]
  IN IF r.pid = NoNode THEN entry
     ELSE WithFlags([entry EXCEPT !.nodes[r.pid + 1] = SetChild(AddChild(@), r.nid, r.alt)],
                    r.nid, r.status)

\* select without an order returns the rows by their primary key
LoadRow ==
  /\ app = "loading"
  /\ \E r \in copy.todo :
       /\ \A q \in copy.todo : r.nid <= q.nid
       /\ IF r.nid = Len(copy.status)
          THEN copy' = WithNode([copy EXCEPT !.todo = @ \ {r}], r) /\ UNCHANGED app
          ELSE app' = "aborted" /\ UNCHANGED copy
  /\ UNCHANGED <<structureVars, restarts, status, notes, building, save, file>>

\* bookmarks, nogoods and infos are entered as they are read
LoadTables ==
  /\ app = "loading" /\ copy.todo = {}
  /\ copy' = [copy EXCEPT !.notes = file.notes]
  /\ app' = "loaded"
  /\ UNCHANGED <<structureVars, restarts, status, notes, building, save, file>>

DatabaseNext ==
  \/ \E k \in 0 .. MaxKids : k < MaxNodes /\ Start(k)
  \/ \E n \in NodeIDs, k \in 0 .. MaxKids, st \in Reported :
       NodeCount + k <= MaxNodes /\ Promote(n, k, st)
  \/ NodeCount < MaxNodes /\ NewRestart
  \/ CreateKid \/ FinishBuilding
  \/ \E n \in NodeIDs : RemoveNode(n) \/ ToggleBookmark(n)
  \/ BeginSave \/ SaveRow(TRUE) \/ SaveTable
  \* at most one fault in a save
  \/ ~save.failed /\ (SaveRow(FALSE) \/ Crash)
  \/ BeginLoad \/ LoadRow \/ LoadTables

vars == <<structureVars, databaseVars>>

Spec == DatabaseInit /\ [][DatabaseNext]_vars

-----------------------------------------------------------------------------
(* Properties *)

NodesSaved == {r.nid : r \in file.rows}
Numbered(ids) == ids = 0 .. Cardinality(ids) - 1

TypeOK ==
  /\ status \in Seq(Statuses) /\ Len(status) = NodeCount
  /\ \A t \in TableNames : notes[t] \subseteq NodeIDs
  /\ building \in BOOLEAN
  /\ app \in {"idle", "saving", "saved", "crashed", "loading", "loaded", "aborted"}
  /\ save.next \in 1 .. Len(save.order) + 1 /\ save.table \in 1 .. Len(Tables) + 1
  /\ Cardinality(NodesSaved) = Cardinality(file.rows)

\* What is loaded is what was saved.  Although the builder went on while the
\* rows were written, and although a file may hold only part of them, a load
\* that ends gives every saved node its parent, its place among the saved
\* children and the status it had when its row was written
\* (db_handler.cpp:57-95, structure.cpp:143-163).
LoadedAsSaved ==
  app = "loaded" =>
    /\ CopyIDs = NodesSaved
    /\ \A n \in CopyIDs :
         /\ copy.nodes[n + 1].parent = ParentOf(n)
         /\ [a \in 1 .. ChildrenCount(copy.nodes[n + 1]) |-> GetChild(copy.nodes[n + 1], a - 1)]
              = Those(Lists[n + 1], NodesSaved)
         /\ \/ copy.status[n + 1] = StatusOf(n)
            \/ copy.status[n + 1] = "UNDETERMINED" /\ save.grows

\* When a file cannot be loaded.  Loading stops the program exactly when the
\* saved ids are not 0, 1, 2, ... without a gap; and a save whose inserts all
\* succeed and which is not interrupted leaves a gap only when the user has
\* removed a node (db_handler.cpp:57-95, node_info.cpp:60-68).
GapsAreFatal ==
  /\ app = "loaded" => Numbered(NodesSaved)
  /\ app = "aborted" /\ save.order # <<>> => ~Numbered(NodesSaved)
  /\ app = "saved" /\ ~save.failed /\ ~Numbered(NodesSaved) =>
       \E n \in NodeIDs \ {Root} : n \notin ToSet(Children(ParentOf(n)))

CopyBelow(n) == {m \in CopyIDs : n \in UpToRoot(copy, m)}
CopyLeaf(n) == CopyKids(copy, n) = {}

\* Between any two steps, of saving and of loading too, the state is well formed
\* and the packed children can be read.
StructureSound == TypeOK /\ ChildrenFaithful

\* The flags of the copy after every row, although rows arrive in the order of
\* their ids and not in the order of the search.  A node has a solution below
\* it exactly when its flag says so; and a node all of whose leaves are closed
\* is closed (node_tree.cpp:106-127).
LoadedFlags ==
  app \in {"loading", "loaded"} =>
    \A n \in CopyIDs :
      /\ copy.solved[n + 1] <=> \E m \in CopyBelow(n) : copy.status[m + 1] = "SOLVED"
      /\ (\A m \in CopyBelow(n) : CopyLeaf(m) => copy.status[m + 1] \in ClosingStatuses)
           => ~copy.open[n + 1]

\* The tables are saved in one order: a file with a bookmark, a nogood or an
\* info in it has the row of every node that was there when the save began and
\* whose insert did not fail; and what the user marked is loaded with the tree
\* (db_handler.cpp:373-436).
NotesComeAfterNodes ==
  /\ (\E t \in TableNames : file.notes[t] # {}) =>
       RowsDone /\ (save.failed \/ NodesSaved = ToSet(save.order))
  /\ app = "loaded" /\ save.table > 1 => copy.notes["Bookmarks"] = notes["Bookmarks"]

\* A load gives back the tree, what its flags say of it and what the user noted.
LoadedFaithful == LoadedAsSaved /\ LoadedFlags /\ NotesComeAfterNodes

-----------------------------------------------------------------------------
(* The search log *)

Logged == {n \in NodeIDs : StatusOf(n) \notin {"SKIPPED", "UNDETERMINED"}}

\* Faulty SearchLog: a line names every child.
SearchLogAllKids ==
  LET Line(n) == [nid |-> n, kids |-> Children(n),
                  stop |-> KidsOf(n) = 0 /\ StatusOf(n) = "BRANCH"]
      order == Those(PreOrder, Logged)
  IN [i \in DOMAIN order |-> Line(order[i])]

\* Conductor::saveSearch: a line per logged node, in pre-order, with the logged
\* children and whether the search stopped there
SearchLog ==
  LET Line(n) == [nid |-> n, kids |-> Those(Children(n), Logged),
                  stop |-> KidsOf(n) = 0 /\ StatusOf(n) = "BRANCH"]
      order == Those(PreOrder, Logged)
  IN [i \in DOMAIN order |-> Line(order[i])]

\* Replaying the log rebuilds the explored tree: the first line is the root,
\* every other line is announced by exactly one line, and what a line announces
\* follows it in the order of the children, each with its whole subtree
\* before the next (conductor.cpp:397-459).
LogReplays ==
  app = "idle" /\ nodes # <<>> /\ AtRest =>
    LET log == SearchLog
        At(n) == CHOOSE i \in DOMAIN log : log[i].nid = n
        kidsOf == UNION {{i} \X DOMAIN log[i].kids : i \in DOMAIN log}
    IN /\ log[1].nid = Root
       /\ \A i \in DOMAIN log \ {1} :
            Cardinality({c \in kidsOf : log[c[1]].kids[c[2]] = log[i].nid}) = 1
       /\ \A c \in kidsOf :
            /\ \E i \in DOMAIN log : log[i].nid = log[c[1]].kids[c[2]]
            /\ At(log[c[1]].kids[c[2]]) > c[1]
            /\ c[2] > 1 => At(log[c[1]].kids[c[2] - 1]) < At(log[c[1]].kids[c[2]])
       /\ \A i \in DOMAIN log : log[i].stop => log[i].kids = <<>>
=============================================================================
