# Verification of cp-profiler

TLA+ specifications of [cp-profiler](../src/README.md), a program that receives
the search of a constraint solver over a socket while it runs and shows it as a
tree. The specifications are written from the C++ source; every definition is
mapped to its lines in `PROJECT.json`.

## The system

```
 solver --TCP--> receiver thread --queue--> main thread --queue--> builder thread
 (one per          ReceiverWorker           Conductor              TreeBuilder
  connection)      doRead, handleMessage    handleStart            handleNode
                                            onExecutionDone           |
                                                ^                     | tree mutex
                                                | views, layout       v
                                                +------------- Execution: NodeTree,
                                                               SolverData, UserData
```

| Part | State | Operations | Interacts with | What is hard | What makes it correct |
|---|---|---|---|---|---|
| Message reader (`receiver_worker`) | read buffer, offset, pending size | `doRead`, `handleMessage`, `handleStart` | socket, receiver thread | bytes in arbitrary pieces, a buffer cut now and then | every message handled once, whole, and as soon as it is complete |
| Receiver threads (`receiver_thread`) | socket, worker | `run`, signals passed on | Qt event queues of the main thread | three threads, blocking START, deletion after disconnect | in order, nothing lost, eventually deleted |
| Conductor | executions, builders, options | `handleStart`, `addNewExecution`, `onExecutionDone` | all threads | several connections of one execution, ids missing or shared, saving while building | searches kept apart, done means built, the file is complete |
| Tree builder | restart count | `handleNode`, `finishBuilding` | tree, solver data | the solver's identifiers, restarts in two calls, messages the tree rejects | the tree mirrors the solver's, identifiers map one to one |
| Search tree (`NodeTree`, `Structure`, `NodeInfo`, `NodeStats`) | links, statuses, two flags per node, counters | `createRoot`, `addExtraChild`, `promoteNode`, `db_*`, `removeNode` | views by signals | flags maintained one node at a time up to the root | flags, counters, depth and signals equal a scan of the tree |
| Solver data | id map, nogoods, infos | `addPair`, `get`, `getUID`, `setNogood`, `processInfo` | builder, windows, database | read by the main thread while written | the two maps are inverse |
| Node (`tree/node`) | tagged pointer, counter | `addChild`, `setChild`, `getChild`, `removeChild` | structure | representation switches at 1, 2, 3 children | behaves like a sequence |
| Database | SQLite tables, the tree being loaded | `save_execution`, `load_execution` | tree, user and solver data | rows of a tree that grows, interrupted saves, rows in the order of ids | what is loaded is what was saved |
| Layout | shapes, offsets, dirty and hidden flags | `compute`, `dirtyUpLater`, `computeForNode` | tree by signals and mutex | flags written by two threads, extents combined level by level | every change is drawn eventually, outlines are exact, neighbouring siblings keep their margin |
| Traditional view | hidden and labelled nodes, scroll position | `autoUpdate`, hiding, labels, lanterns, highlighting | all other views | the same, and arrays that lag behind the tree | what should be seen is |
| Tree merger | three stacks, pentagons | `TreeMerger::run` | two trees and their mutexes, builders | lock order, lockstep traversal | the merged tree overlays both |
| Merge window | origins of the merged nodes | `initOrigLocations`, `hideFailed`, `runNogoodAnalysis` | the two trees, now unlocked | they have grown since, and may be out of step | origins and credit are right where a window opens, pentagons stay in sight |
| Similar subtrees | settings, patterns, histogram selection | `analyse`, `displayPatterns`, `changeSelectedPattern` | tree, layout, traditional view | refinement in rounds, settings in any order | patterns are the equal subtrees, the selection is what is highlighted |
| Pixel and icicle views | sequence or widths, compression, scroll position | `redrawAll`, `selectNodes`, `findNode` | tree, traditional view, scroll bar | integer columns, a scroll bar that is clamped later | every node once, clicks hit what is drawn |
| Throttled calls (`MaybeCaller`) | timer, delayed function | `call`, `callViaTimer` | icicle view, lantern slider | an older call that runs after a newer one | the last value asked for is applied, unless it was applied at once while an older one waited |
| Name map, user data, windows and dialogs | maps, widgets | setters, drawing | tree | – | – |

`PROJECT.json` lists these components with their sources, what is modelled of
each, and the hazards: the places where the code is hard to test, each with its
line and the properties that cover it, or the reason why none does.

## Modules

| Module | Models |
|---|---|
| `NodeTree` | one search tree: nodes, statuses, flags, counters, signals |
| `SearchTree` | abstract: a tree, judged from scratch after every report |
| `TreeBuilder` | `handleNode` step by step on an instance of `NodeTree`, with the id map and the solver as environment |
| `Subsequences` | the part of a sequence that is in a set |
| `Pipeline` | the threads and event queues from the sockets to the builders |
| `Delivery` | abstract: a reliable FIFO channel per connection |
| `View` | the traditional view of a growing tree: flags, layout, drawing, commands |
| `Framing` | `doRead` on a stream of bytes |
| `Structure` | the nodes of a tree and the packing of children into a tagged pointer |
| `ChildLists` | abstract: a list of children per node |
| `Database` | on `Structure`: saving a tree that may still grow, a crash, loading, the search log |
| `TreeMerger` | merger threads, the tree mutexes, the builders between |
| `MergeWindow` | on `TreeMerger`: the window opened afterwards |
| `Outline` | the geometry of the layout, as a function of the tree |
| `Patterns` | on `Outline`: the window of similar subtrees and what it highlights |
| `PixelViews` | on `Patterns`: the pixel tree, the icicle tree, the throttle |
| `MC*` | instances for TLC |
| `Induction` | lemmas the proofs share: induction over numbers and sequences, lists put together from others |
| `NodeTreeProofs` | theorems about `NodeTree` |
| `ReceiverProofs` | theorems about `Framing` and `TreeBuilder` |
| `PipelineProofs` | theorems about `Pipeline` |
| `DatabaseProofs` | theorems about `Structure` and `Database`: the nodes, saving, loading |
| `ViewProofs` | theorems about `View` |
| `MergeProofs` | theorems about `TreeMerger` and `MergeWindow` |
| `WindowProofs` | theorems about `Patterns` and `PixelViews` |

`TreeBuilder` composes with `NodeTree` by instantiation and its steps are steps
of `NodeTree!Spec` (`ImplementsNodeTree`), which in turn implements `SearchTree`
(`ImplementsSearchTree`). `View` instantiates `NodeTree`, too, and lets a builder
thread drive it while the main thread looks at it. `Pipeline` abstracts the tree to the log of the node
messages applied to it and implements `Delivery` (`ImplementsDelivery`). The packed nodes of
`Structure` implement `ChildLists` (`ImplementsChildLists`), checked in the run of
`Database`, whose saving, loading and removing drive them. `PixelViews` runs beside
`Patterns` because both act on the same hidden nodes through `HideRest`.

### NodeTree

A node is its `NodeID`, the index of its entry. `parent`, `kids` stand for the
`Node` objects, `status`, `hasSolved`, `hasOpen` for `NodeInfo`, `stats` for
`NodeStats`, `collapsed` for the emissions of `failedSubtreeClosed`, on which
the window hides the subtree. Every action is a whole call: `Promote` sets the
status, creates the children, updates counters and depth, marks the ancestors
of a solution and runs the closing walk. The two walks to the root are least
fixed points (`Ancestors`, `ClosedBy`): the smallest set that contains the start
of the walk and is closed under its step. That is what the recursion computes,
and it is a form that can be reasoned about: to show a fact of all nodes on a
walk, show that the nodes with that fact are closed under the step.

`SearchTree` keeps neither flags nor walks: after every report it looks at whole
subtrees. That `NodeTree` implements it says that the incremental bookkeeping
emits `failedSubtreeClosed` for a node exactly in the step that completes its
failed subtree.

### TreeBuilder

A message names its node, its parent (or none), the alternative, the number of
children and the status. `handleNode` is split where another thread can look:
before the tree mutex is taken (looking up the parent), between `addExtraChild` and
`promoteNode` for a restart, where signals are emitted (`extended`), between the
release of the mutex and `addPair` (`placed`). A message the tree throws at ends
the process (`Abort`), because nothing catches in a slot. `MaySend` is the
solver: identifiers are unique, a parent is sent before its children, at most
one node per alternative, one root unless the search restarts.

### Pipeline

One solver and one receiver thread per connection, the main thread, one builder
thread per execution, and a FIFO queue between each pair, as Qt's queued
connections provide. A `ReceiverThread` object lives in the main thread, so what
its worker emits passes the main thread's queue before the builder's. START
blocks the receiver until `handleStart` has run. After a disconnect the thread
ends and its object is deleted together with the events still queued for it.
`ExecOf` is the id of the execution: -1 if START has no info, a random one if
the id is 0 or missing in the info, the given one otherwise. RESTART messages have
no effect in the code and are left out. A connection that is reset, so that bytes
already sent are lost, is not modelled; a solver that closes early is.

### Framing

A byte is a record of the message it belongs to, its place, and its value in a
size field. `StreamOf` puts a stream together from the sizes of its messages, any from one byte to
what an `int32_t` counts. The network hands over any number of bytes at a time; `doRead` then
runs, one action per round of its loop.

### View

`flags` stands for `VisualFlags`, `layout` for the arrays of `Layout` (the domain
of `layout.shape` is their common size), `du`, `stale` and `posted` for the three
ways in which a change waits for the next update: `du_node_set_`,
`layout_stale_` and a `setLayoutOutdated` queued to the main thread. The shape
of a node is the set of the looks of the nodes it encloses as they were when it
was laid out; what the geometry makes of them is `Outline`.

The builder takes the tree mutex (`LockTree`) and modifies the tree (`Modify`),
one call per lock, so that more interleavings are possible than in the code,
where the two calls of a restart share one. The slots connected without a context
object run in `Modify`, in the builder's thread. On the main thread `updateLayout`
is two steps, the computation under the mutexes and the reset of
`layout_stale_` after them; commands that hold the mutexes (`UpdateNow`) do both
at once, others (`LaterUpdate`) change the flags first and then wait for the
mutex. Their argument is the current node, any node of the tree, as other
views select nodes, too.

An access beyond the arrays of the layout, and the use of the tree or the flags without
the mutex while the builder holds it, are undefined behaviour: `fault` is set and the
model stops. `AtRestIsSafe` says when this can happen: only on an empty tree
(centering, or switching to lanterns, before the first node has arrived), while the builder
is at work or while an update is due.

Pentagons of merged trees, bookmarks and scrolling are left out; highlighting is in
`Patterns`.

### Structure and Database

A node of `Structure` has the fields of `tree::Node`: a tag, a first pointer, an integer,
an array. `Garbage` is memory nobody wrote. `createRoot` and `addChildren` create
their children one by one (`CreateChild`), so that the states between are checked as well.

In `Database` the tree has a status per node; flags are those of the loaded copy
only, since the ones of the original are the subject of `NodeTree`. Saving reads the order of
the nodes first (`BeginSave`) and then one row at a time, without the mutex, while the
builder goes on. A full transaction is committed; `Crash` loses the open one; one
insert may fail per save. Loading reads the rows in the order of their key and throws
at the first gap (`app = "aborted"`). A node without any child in nodes_ when saving
starts (`nodes = <<>>`), or a place not filled yet, is undefined behaviour and also
ends in `aborted`. `SearchLog` is what `saveSearch` writes. `RemoveNode` is offered
only when building is done, as it is meant.

### TreeMerger and MergeWindow

Here a tree is two functions on `NodeID`s: the place of a node (the path of
alternatives from the root) and its status; how children are stored is the subject of
`Structure`. A merger takes the left and then the right mutex (`LockLeft`, `LockRight`),
then each turn of its loop is one action (`MergeNode`). The two orders in which
`copy_tree_into` visits and creates are explicit (`CopyOrder`, `Promoted`), as they must
agree. Builders grow a tree when nobody holds its mutex (`Grow`). `OpenWindow` is the
handler of `finished`, run when the mutexes are free again.

The merger compares statuses (`compareNodes`) and takes two branches for the same node although one
of them was announced without children. The walk that opens the
window asks both for a child, and `Node::getChild` throws for the one without (`WalkThrows`). It runs in a
slot and nothing catches it, so the program ends: `fault` is set and the model stops. `OpensInStep` says that
this is the only way in which a window fails to open. `GetChild` is what the same function
does for an alternative the node does not have, which is not an exception.

`OriginalLocations` is `initOrigLocations` with what it does for a pentagon: the two
children get their link, what is further below keeps the default, because the loop in
`linkLocationsPentagon` stores the same link each time although the comment says
"Find original ids for nodes under a pentagon" (`merge_window.cpp:161`).
`LocationsExact` therefore is about the nodes above the pentagons and their children,
which are all the analysis reads.

### Outline, Patterns and PixelViews

A node is its place. `ShapesWith` computes what `LayoutCursor` computes, children first: an
extent per level, a box, the offsets of the children; the constants are those of
`config.hh`. Its argument are the `VisualFlags` the layout is computed with: those of the view
(`Flags`, giving `Shapes`), or new ones (`NoFlags`), as the window of similar subtrees has a layout and flags of
its own, so that its contours do not depend on what the view hides and labels.

Two limits of the layout are stated rather than hidden. Only neighbouring siblings are compared
(`compute_distances`), so `SiblingsApart` speaks of the levels that all siblings between the two reach: of three
siblings, where the first and the third have three leaves each and the second is a leaf, the outer two
overlap one level below it. And for three or more children the right extent follows the last child
that reaches a level, because `leftmost_x` is compared where `rightmost_x` is meant
(`layout_cursor.cpp:302`): `OutlineExact` states the right side, and `NodesApart` that nothing overlaps at all, for trees of at most
two children per node. (The loop that computes the offsets also reads one distance too many,
`layout_cursor.cpp:284`, and does not use it.)
 `Patterns` adds the window: `IdenticalSubtrees` is the refinement by height
of `similar_subtree_analysis.cpp`, `SimilarShapes` the runs of a multiset ordered by `CompareShapes`;
the settings, the histogram and its selection are variables, and `Announce` is what
choosing a pattern does to the traditional view. 

`PixelViews` adds one view on a finished tree; that it is finished is what the comments say
and the checks of `isDone` in `execution_window.cpp` are commented out. In the pixel tree a slice is `compression` consecutive items; a read outside the
sequence is undefined, `fault` is set and the model stops. The icicle tree has the widths
of `computeLayout` and redraws through the throttle: each call is carried out at once or left to
the timer, since the code decides by the clock.

### Faulty variants

Definitions whose comment starts with "Faulty" are not used by the
specifications. Each is a plausible mistake in the definition it precedes;
`PROJECT.json` ("mutants") names, for every property of every run, one
that makes TLC report that property violated.

## Runs

| Run | Question | Bounds |
|---|---|---|
| `tree` | are flags, counters, depth and signals exact? | 5 nodes, at most 3 children at once |
| `builder` | does the tree mirror the solver's search? | 6 nodes, 2 children, 5 identifiers |
| `pipeline` | is the way from socket to tree a reliable FIFO channel? | 2 connections, 2 nodes each, START with id 0 |
| `pipeline_shared` | is anything lost when two connections share an execution, and is the saved file complete? | 2 connections, 2 nodes each, one id |
| `view` | is every change laid out and drawn in the end, whichever threads interleave? | 4 nodes, 2 children, 2 commands, 5 nodes and commands in total, lanterns of size 2 |
| `framing` | is every message handled as sent and in time? | 3 messages of 1 or 3 bytes, buffer trimmed every 2nd |
| `database` | do packed nodes behave like lists, and is what is loaded what was saved, whenever the save was started or stopped? | 4 nodes, 3 children, 2 rows per transaction, one fault per save |
| `merger` | is the merged tree right, do mergers end, and does the window find its way back to trees that have grown, or fail only where it must? | 2 trees of 6 nodes together, 2 mergers in opposite order, 1 window |
| `windows` | are outlines exact and apart, patterns complete, selections and highlights in step, and columns drawn and clicked where they are? | 5 nodes, 10 if all branches have equally many children, 7 in the window of similar subtrees; 1 hidden or labelled node, 2 changes of settings or 2 operations on a view |

The first two cover searches with a root of their own and restart-based ones:
`restarts` is chosen in the initial state, as the execution is created.

Why these are enough: with 5 nodes a walk to the root passes up to three
inner nodes, a node has siblings that are inner nodes, and a closing walk stops
at each possible place;
two solvers on two executions, or on one, show all pairs of actors of the
pipeline, and two nodes give one pair of parent and child within and across
connections; sizes that differ from the size of a field, cut at every byte,
with a trim in the middle of the stream, reach every state of `doRead` relative
to the end of its buffer. Four nodes give the view a subtree with a sibling,
hidden nodes below hidden nodes and a tree that outgrows its layout; two commands
on three nodes hide and reveal in every order, also while the tree grows. Four nodes
take a node through every representation of its children, 0 to 3, and with two
rows per transaction a crash finds none, one or two of them committed. Two small trees
differ in status, in the number of children and in both, at the root and below; the third
node of a tree lets a builder change what a window reads. Uniform trees of seven nodes
have two equal subtrees with children below them, and ones that differ in one leaf; up to ten
nodes make five slices and ten units, a page holds one to seven columns, and with ten nodes a
ternary tree has two inner nodes on both sides of a leaf. Identifiers are interchangeable, so the builder runs
use symmetry; they check no liveness.

Deadlock checking is off: all the systems stop in the intended way, when the
bounds are exhausted, the solvers have closed or the process has ended.

### Properties

What a run checks is stated in named parts, each with a comment of its own, next to the
definitions it is about; a run lists a conjunction where the parts answer one question:

| Run | Property | Parts |
|---|---|---|
| `tree` | `ClosingExact` | `OpenFlagsExact`, `CollapsedExact` |
| | `NodeStatsExact` | `StatsExact`, `DepthExact` |
| `builder` | `BuildsWhatIsSent` | `MirrorsSolver`, `AbortsOnlyOnUnannounced` |
| | `IdMapSound` | `TypeOK`, `IdMapExact` |
| `pipeline` | `SearchesSound` | `TypeOK`, `NeverAborts`, `SearchesKeptApart`, `NothingLost` |
| | `ServedInTheEnd` | `DoneIsNoticed`, `ClosedIsDeleted` |
| `pipeline_shared` | `NothingMissing` | `NothingLost`, `SavedComplete` |
| `framing` | `HandledInTime` | `TypeOK`, `HandledAsSent`, `NoneLeftBehind`, `BufferTrimmed` |
| `view` | `DrawnSafely` | `TypeOK`, `DrawsWhatIsVisible`, `DrawnWithinShapes`, `AtRestIsSafe` |
| | `CommandsExact` | `HideFailedExact`, `LanternsExact`, `UnhideAllReveals` |
| `database` | `StructureSound` | `TypeOK`, `ChildrenFaithful` |
| | `LoadedFaithful` | `LoadedAsSaved`, `LoadedFlags`, `NotesComeAfterNodes` |
| `merger` | `MergeCounted` | `PentagonsCounted`, `OnlyRootMiscounted` |
| | `LocationsSound` | `TypeOK`, `OpensInStep`, `LocationsExact` |
| `windows` | `LayoutExact` | `OutlineExact`, `SiblingsApart`, `NodesApart`, `BoxExact` |
| | `PatternsExact` | `IdenticalExact`, `IdenticalWithinContour`, `ContoursAlike` |
| | `HistogramExact` | `TypeOK`, `SubsumedCovered`, `ShownAsSet` |
| | `SelectionExact` | `SelectionIsAnnounced`, `PathDiffExact` |
| | `PixelsExact` | `PixelsTypeOK`, `PixelTreeExact`, `SlicesCover`, `SavedButForEdges` |
| | `RestHidden` | `PatternVisible`, `SlicesVisible` |
| | `IcicleExact` | `WidthCountsUnits`, `ClickHitsDrawn`, `RectanglesDrawable` |
| | `ThrottleCatchesUp` | `IcicleCatchesUp`, `LanternAsAsked` |

### Disagreements between code and documentation

These runs each check one statement of the documentation, and TLC finds it violated
(details and quotations in `PROJECT.json`, "findings"):

| Run | Statement | What the code does |
|---|---|---|
| `unknown_kids` | an unknown number of children may be sent as 0 | the first child makes `getChild` throw |
| `collapsed_solution` | only subtrees without solutions collapse | the dummy root collapses before a later restart's solution |
| `select_out_of_bounds` | slices given to `selectNodes` may be out of bounds | only the upper end is checked; a press on the left padding reads before the sequence |

Others have no run, but follow from definitions of the models:

- `depth()` (`node_tree.hh:108`, "return the depth of the tree") stays at 1 when a restart
  fails at its root, because `addExtraChild` does not inform it: `DepthExact` excepts it.
- Done (`node_tree.hh:48`, "Indicates whether the tree is fully built") is set by the first DONE of
  several connections that share an execution: `Forward`, `FinishBuilding`.
- START (`receiver_worker.cpp:93`, "create new execution") without info gives the execution id -1,
  which all such searches share: `ExecOf`.
- Showing the label of the root (`traditional_view.hh:77`, "causing layout update") only
  redraws: `ShowLabelsUp`.
- Loading closes nodes while siblings are still missing, so a node that was open when
  saved may be loaded as closed: `LoadedFlags` states what holds.
- Nodes below a pentagon have no origin: `OriginalLocations`.
- "The tree above merged nodes must have the same structure" (`merge_window.cpp:230`) does not follow from
  what the merger compares: `OpensInStep` states the one case in which the walk throws.
- "Subtree's shape (outline)" (`shape.hh:39`) is too narrow on the right for some nodes of three or
  more children: `OutlineExact` is about the right side of binary trees.
- The pentagon list ("sorted (by right/left difference)", `pentagon_list_widget.hh:27`) is sorted with a
  comparator that tests one inequality twice and is no strict weak order.
- The statistics of a merged tree count its root twice: `OnlyRootMiscounted`.
- Groups of one height (`similar_subtree_analysis.cpp:62`) are mixed when branches have different
  numbers of children, as the TODO at line 243 admits: `IdenticalExact` is about uniform trees.

Two smaller ones are also visible in the definitions and have no run: `CreateRoot`
drops the status and label of a root message, so a search whose root is a
solution is shown as a branch (hence `n # Root` in `MirrorsSolver`), and
`ArrayToInt` reads sizes in the order of the host although the protocol section
of the repository's README says big-endian of all multi-byte integers.

The exceptions in `OpenFlagsExact` and `CollapsedExact` for the dummy root of a
restart-based search (`RestartRoot`) are there because nothing reopens it when
`addExtraChild` extends it, the cause of `collapsed_solution`.

## Fairness

Liveness is checked for the profiler's threads only. `Pipeline` assumes weak
fairness of each receiver, of the main thread and of each builder: all run Qt
event loops that handle the next event while there is one, and none of their
actions can be disabled by another thread once it is enabled, other than by the
end of the process. Nothing is assumed of solvers. `Framing` assumes weak
fairness of `doRead`, a loop that runs to its end once called, and none of the
network. `View` assumes that the builder lets go of the mutex it holds (it does so at the
end of every message), that `updateLayout`, which waits for that mutex, returns,
and that the event loop handles a queued call and the timer. Nothing is assumed
of the user. `MergeWindow` assumes that a merger thread that is not waiting for a mutex goes
on, and that one waiting for a mutex that is free again and again gets it in the end; it is
written without `ENABLED`, which would evaluate a whole merge. `Database` and
`PixelViews` state no liveness. `Delivery` promises eventual delivery, which `Pipeline` gives only
because the process does not end: the run with saving checks no liveness.

## Proofs

The theorems hold for every value of the constants: trees of every size and shape,
with and without restarts, any number of messages, connections, executions, mergers and
commands. They assume only what the modules state of their constants: that bounds are
numbers (`BoundsAssumption`, `StructureBounds`, `OutlineBounds`, `PatternBounds`, `PixelBounds`), that a solver
reports statuses (`DatabaseBounds`, `ReportedAssumption`) and a
transaction takes at least one row, that a message has from one byte up to as
many as an `int32_t` counts (`SizesAssumption`), that the buffer is trimmed after a positive
number of messages (`MsgPerBufferAssumption`), that there are finitely many
connections, each with a search and a START of its own (`ConnsAssumption`,
`FunctionsAssumption`), that a merger has two different executions (`MergersAssumption`) and a window belongs
to a merger (`WatchedAssumption`), and that the values that stand for "none" and for a free mutex are none of them
(`NilAssumption`, `FreeAssumption`).

| Theorem | Statement |
|---|---|
| `TypeCorrect`, `ShapeCorrect`, `SolvedFlagsCorrect`, `StatsCorrect` | `Spec => []TypeOK`, `[]TreeShape`, `[]SolvedFlagsExact`, `[]NodeStatsExact` of `NodeTree` |
| `ClosingCorrect` | `Spec => []ClosingExact` of `NodeTree` |
| `KeepsPromise` | `NodeTree` implements `SearchTree` |
| `BuildsTheSolversTree`, `IdMapCorrect` | `Spec => []BuildsWhatIsSent`, `[]IdMapSound` of `TreeBuilder` |
| `BuilderDrivesTree` | `TreeBuilder` implements `NodeTree` |
| `DoReadCuts` | `ReaderSpec => []HandledInTime` of `Framing` |
| `NoNodeIsMissing` | `Spec => []NothingMissing` of `Pipeline` |
| `DoneIsBuiltUp` | `Spec => []DoneMeansBuilt`, if no two connections share an execution (`ExecsApart`) |
| `SearchesAreSound` | `Spec => []SearchesSound`, if neither a search nor an execution is shared (`OneEach`) |
| `AppliedInOrder` | `Pipeline` implements the safety part of `Delivery` |
| `PackedNodesAreLists`, `DatabaseKeepsLists` | `Structure`, alone and driven by `Database`, implements `ChildLists` |
| `ChildrenAreFaithful` | `StructureSpec => []ChildrenFaithful` |
| `DatabaseIsSound`, `GapsStopALoad` | `Spec => []StructureSound`, `[]GapsAreFatal` of `Database` |
| `LoadsWhatWasSaved`, `LogsReplay` | `Spec => []LoadedFaithful`, `[]LogReplays` of `Database` |
| `QuietViewsAreUpToDate`, `DrawingIsSafe` | `Spec => []QuietIsUpToDate`, `[]DrawnSafely` of `View` |
| `CommandsAreExact` | `Spec => CommandsExact` of `View`, an action property |
| `MergeFaithful`, `MergeExact` | `Spec => []MergedFaithful`, `[]MergeCounted` of `MergeWindow` |
| `LocationsRight`, `PentagonsVisible` | `Spec => []LocationsSound`, `[]PentagonsStayVisible` of `MergeWindow` |
| `PixelsRight`, `IcicleRight` | `Spec => []PixelsExact`, `[]IcicleExact` of `PixelViews` |
| `ThrottleHolds` | `Spec => []ThrottleCatchesUp` of `PixelViews` |
| `OutsideRarely` | `Spec => DrawsOutsideRarely`, an action property |
| `HistogramRight`, `SelectionRight` | `Spec => []HistogramExact`, `[]SelectionExact` of `Patterns` |
| `RestIsHiddenAlways` | `Spec => RestHidden`, an action property |

`ExecsApart` and `OneEach` are what the run `pipeline` instantiates (two connections with random
ids); without them the two statements are false, as several DONEs of one execution
show. `pipeline_shared` checks, and `NoNodeIsMissing` proves, what holds when they do not.
Below is the inductive invariant of each component and why its parts are needed.

### The tree (`NodeTreeProofs`)

`TreeInv` is `TypeOK`, `TreeShape`, `SolvedFlagsExact` and `DummyRoot` (a restart-based
execution has a root from the start), which is needed because `AddExtraChild(Root)`
presupposes the root. The argument for the flags is about walks. `Up(par, N, n)` is
`Ancestors(n)` with the links as parameters, so it can be compared before and after a step.
`UpLeast` is its induction principle: a set that contains `n` and is closed under going up
contains the walk. With it, `OldWalks` shows that a step which adds nodes and
moves none (`Extends`) leaves the walks of old nodes alone and `NewWalks` that
a new node's walk is the node and its parent's walk. A promotion then changes
the set of ancestors of solutions by exactly the walk `notifyAncestors` takes.
`Hangs` states the common effect of `promoteNode` and `addExtraChild` on the
links, and `ShapeKept` shows once that it preserves the shape.

`ClosingInv` adds `ClosingExact`, `InnerAreBranches` and `OpenIsPending`. The closing walk
stops at the first ancestor with an open child left. `ClosingReach` shows that it closes exactly
those ancestors whose subtree the report has completed: the complete ones are closed under the
step of the walk, and if the walk stops below a node, the sibling that stopped it has something
pending below it, by `OpenFlagsExact` for that sibling. For this, inner nodes must not count
as pending themselves, hence `InnerAreBranches`. `OpenIsPending` is the half of `OpenFlagsExact`
that holds for the dummy root of a restart-based search, too; `HideFailedExact` of the view needs it.
From `ClosingInv` a step of `NodeTree` signals the same subtrees as the
judgement from scratch in `SearchTree` (`KeepsPromise`).

### The builder (`ReceiverProofs`)

`BuilderInv` holds the invariant of the tree, the two properties, `HandledKnown` and `StepKnown`.
Builder and tree rely on each other: a message is placed at a node nobody has
reported because the maps are exact, and the maps stay exact because the tree never
moves a node or takes a report back. `HandledKnown` says that the recorded identifiers are
those of the messages handled, whose parents were handled before; `StepKnown` what
holds between two steps of `handleNode`, e.g. that the node made by `addExtraChild` is still
unreported when `promoteNode` is called for it.

### The message reader (`ReceiverProofs`)

`FramingInv` says that there are places where the messages start in the stream (`Laid`) and that
`doRead` is at the place it should be (`Cut`): the buffer is the part of the stream
from the last trim to the last byte read, `bytesRead` points behind the messages handled
or, if `sizeRead`, behind the next size field, whose value is in `msgSize`; and the loop has only
given up if less has arrived than it needs. The stream is a `FlattenSeq`; `StreamLaid` computes its places by
induction over the number of messages.

### The pipeline (`PipelineProofs`)

A FIFO channel through three queues: for every connection, what is applied, followed by what
waits for the builder, for the main thread and on the wire, is what was sent. `NothingLost` says so
with `Those(S, q)`, the part of `q` in `S`, which is a recursive function; the lemmas about
what it makes of a queue that grows at its end or shrinks at its head are proved by induction over the length.
Around it `PipelineInv` needs: `Lives`, what may be on the wire and in the queues in each phase of
a connection (START first, DONE last, DELETE after the thread has ended), since the
deletion of a `ReceiverThread` drops the events queued for it and must find none that
matter; `MainInOrder`, the order of two events of one connection in the main queue; `DoneIsBehind`,
that a DONE in a builder's queue stands behind all nodes of some connection of that
execution; `DoneIsTrue`, that a done execution holds what one of its connections sent; `Executed` and `SavedOnce` for
the file written before quitting. `SoundInv` adds, if nothing is shared, that
a builder gets the nodes of its own search only and parents before children, so it never throws.

### The nodes (`DatabaseProofs`)

`StructureInv` says that every node is `Packed` (with an array the counter is its length, at least 3), and
that the lists of children read from the nodes (`KidSeq`) are a tree in which nodes come after their
parents, except for the places `createRoot` or `addChildren` has not filled yet (`Held`). First each
operation of `tree::Node` is shown to do to `KidSeq` what it should in each of the four
representations (`KidSeqAdd`, `KidSeqSet`, ...), then each operation of `tree::Structure` to all nodes.
`Grows` adds what every operation but `removeChild` keeps: every node is in a place of its parent (`AllPlaced`).

### Saving and loading (`DatabaseProofs`)

Every action of `Database` is an operation of `Structure` or leaves its variables alone. `pre_order` is a
recursive function over the tree. `WalkExists` constructs it from the last node to the first, since
children come after their parents; `WalkLists` shows backwards in the same way that the walk from a node lists a
set of nodes, each once, which is closed under children, and under parents up to that node. The sets of
two siblings are disjoint: the least node in both would have a parent in both.
`PreOrderLists` concludes that a save goes through every node once, if none was removed.
`SaveKept` and `RowsKept` say that the rows in the file and in the open transaction are those of nodes whose turn
has come, one each, and of all of them as long as nothing failed; `OrderKept` that without a removal the
order lists the first nodes of `nodes_` (`AllPlaced` holds while building, and a tree that is not building is at
rest); `CopyKept` that the rows already loaded are those of 0, 1, ... up to the size of the copy, from which follows
that the load stops at the first gap and only there.

The log is a pre-order from which `SelectSeq` keeps some nodes. `InOrder` says where in a sequence the children of a
node are: all of them after it, in the order of the alternatives. It survives leaving nodes out, and with
`BranchesKept` (a node with children is a branch, so its line is there) every announcement is followed by its line.

That what is loaded is what was saved needs the copy as a second tree. `LoadingKept` says that the copy is a tree of
the rows loaded so far (`CopySound`): a list of children per node, in the order of the rows' alternatives, with the
flags a tree has that grows by one leaf after the other (`Flagged`). `OneLeaf` is one
such step: the new leaf clears nothing but what it closes, and the walk to the root
stops where a sibling is open. The rows themselves are true to the tree at the time they were written (`RowTrue`): what
the builder changes later is the status of nodes that were undetermined then.

### The view (`ViewProofs`)

The difficulty is that three things change at different times: the tree in the builder's
thread, the flags at a command, the layout in an update. `Sound` says where a difference is noted, at
any time: a node without an entry in the layout is a child of a noted node or of one without entry; a dirty node
is below one that is dirty, noted or hidden, so that the cursor will find it or must not; a node that is neither
dirty nor noted has the shape it would be given now. `Rested` says in addition that nothing
is dirty on the way to what may be drawn and that shapes lie within those above them; it
fails only between a command and the update it waits for. `Settled` says that an update that was computed
and not overtaken leaves nothing noted but a label of the root. `ViewInv` combines the three with the
states of the main thread, with `AtRestIsSafe` and with the invariant of the tree, since failed subtrees and
lanterns are decided by its flags. An update computes shapes children first. That the shapes it ends with agree with what is
shown is proved from the leaves up (`UpInduction`), that what is drawn is visible and has a
shape above it from the root down (`DownInduction`).

### Merging (`MergeProofs`)

`MergeInv` has four parts: what the variables range over (`Fields`), who may hold a mutex in each phase of a
merger (`Locks`), that every source tree is one that grew node by node (`Source`), and how far a merger
has come (`Work`). For the last, let W be the places of the nodes on the merger's stack. The places where the
two trees agree, or part for the first time, are `Compare`; `Settled` are those that are not at or below a place of W.
`Overlays` says that the merged tree is right on the settled ones: the status of both trees where they agree, a pentagon
where they part, and below it copies of both subtrees (`SideKept`), while everything else is still
undetermined. A step takes one place from W and puts its compared children there (`PushedOf`), or replaces it by a
pentagon. At the end W is empty and everything is settled (`Finished`). `Founded` says that a place above
the pentagons is one of a source tree. The copy of a subtree goes through the two
orders of `copy_tree_into`: `Copying` carries along which nodes have been reached, and from where.
The list of pentagons and the counters follow with the set of settled pentagons (`Listed`, `RootCounted`).
Nothing of this changes when the mutexes are released: the trees a merger has seen are rigid in `Kept`,
and the trees of now are `Later`, i.e. they have their nodes in the same places, with the
same statuses where these were explored and no children where there were none to come.

`WindowInv` speaks of three pairs of trees: as the merger left them, as they were when the window opened,
and as they are. `InHand` says that the lockstep walk has the node of each source tree at the
place of the merged node in its hands, as long as both are there; it fails only below two branches of which one has no
children, and there the walk throws (`Branching`, `WalkThrowsIs`), which is `OpensInStep`. So where a window opens,
all places above pentagons agree, and stay so as trees grow. `HidesBelow` says that only nodes below pentagons
are ever hidden; pentagons do not nest, so that no pentagon is.

### The windows (`WindowProofs`)

`TreeInv` says that the children of a node are numbered without gaps and the tree is finite and closed under going
up. The traversal for the pixel tree and `post_order` of the icicle tree are both walks with a stack: `WalkedTo` is their
common invariant, for any order in which the children are pushed (`WalkOrder`), and gives a sequence that lists every node
once in that order. `PixelInv` says that the scroll position is within its range (`InRange`) as long as no
read has been outside; slices are intervals of the sequence, and the saved picture is a function of the sequence and the
compression (`Picture`), also when the view goes on. The widths of the icicle tree are sums; `Summed` turns
them into cardinalities of unions of disjoint sets, the units below a node (`Units`), from which the
rectangles of siblings are disjoint (`Left`, `Earlier`) and a click finds one of them. The throttle needs that the timer
is running whenever a call was put off (`IcicleInv`, `LanternInv`).

For the window of similar subtrees `PatternsInv` relates settings, result, histogram and selection; `result` is a
function of the tree, the statuses, the criterion and the contours (`AnalyseIn`), so that only the steps that
change one of these need an argument. That `ById` is a sequence rests on the ids being a
strict total order. A subsumed pattern lies below a larger one that is kept (`KeptAbove`, by
induction on depth, though patterns are compared with patterns that are left out). What hiding the rest leaves open is computed from the leaves up
(`FromLeaves`): `Leads` are exactly the nodes on a way to one that is highlighted.

### Induction

The provers cannot instantiate theorems with an operator parameter, hence none about
induction. The module `Induction` has some of its own. `SetInduction` states it for a set instead: a set with 0 and with the successor of
each of its numbers holds all numbers. It is proved from finite sets: if `n` is missing, the numbers up to `n`
that are in the set map one to one into a proper part of them. A recursive function is then handled
by showing that the numbers up to which it is defined are such a set. The module also holds what the components share:
what leaving elements out does to a sequence (`Those`), what is ahead of what in a queue, walks
up a tree, sequences sorted by a number, and the places of a tree with the order of their prefixes.

### Only model-checked

- Liveness (`ServedInTheEnd`, `DoReadReturns`, `CatchesUp`, `MergesEnd` and the fairness part of `ImplementsDelivery`),
  which is out of the provers' reach.
- `CreditWhereDue`: sums over functions of a fold whose terms change with every pentagon.
- `LayoutExact`: extents are sums, maxima and halves over recursive functions on a tree, each level of which depends on
  all levels of two subtrees.
- `PatternsExact`: the refinement has to be compared with the equality of unbounded subtrees, and the contours with
  such extents.

## Not modelled

- The names of constraints and variables (`name_map`): rewriting of strings, without state.
- The decoding of messages and the test clients: they belong to the `cpp-integration`
  submodule, which is not in the repository.
- Drawing (colours, fonts, node shapes), the list of executions, dialogs and the command line:
  widgets without a state of their own beyond what the models have.
- Texts: labels, nogoods and infos count as present or not; JSON is not parsed.
- The other commands of a merge window: a double click on a pentagon collapses it (`toggleCollapsePentagon`), a
  click in the list selects one, "unhide all" reveals everything. `PentagonsStayVisible` is about hiding failed subtrees.
- Windows opened on a tree that still grows (pixel, icicle, similar subtrees): the
  comments in the code rule it out, and what they would read there is undefined.
- Reads of maps and flags without a lock whose outcome is undefined and stops nothing
  observable (`getUID`, `getInfo`).

## Plan

1. Proofs: `SiblingsApart` and `BoxExact` of `Outline`, which speak of one node and its children; then the outline itself.
2. Proofs: `CreditWhereDue`, one pentagon at a time; that the contours are the nodes of equal extents.
3. `SolverData` where the main thread reads it, and user data, with the windows that show them.
4. Collapsing a pentagon, and the merge window's own list of pentagons, if its comparator is repaired.
