# A TLA+ model of mlir_viewer

mlir_viewer records what an MLIR compiler does to its IR, pass by pass, and
shows it in a browser. A compiler links `libMLIRTrace` (`capture/`), which
writes a SQLite file, the trace; `mlir-viewer` (`crates/cli`) serves a trace
over HTTP (`crates/server`, on top of `crates/trace-format` and
`crates/engine`) to a single-page application (`ui/`).

The modules here are translated from the source, handler by handler. TLC checks
them on small instances; TLAPS proves what matters most of them for every
instance. `PROJECT.json` maps each definition to the lines it models and lists
runs, mutants, hazards and theorems; this file explains them.

## 1. Inventory

| Component | Source | State | Operations | What is hard | What makes it correct |
|---|---|---|---|---|---|
| Recorder | `capture/lib/TraceRecorder.cpp` | root row, active executions by (thread, pass), per-thread stacks of pass ids, pipeline parents, patterns and actions, sequence counters, first error | attach, finish, callbacks before/after pipeline and pass, rewrite notifications, actions | callbacks from many threads that steal work from each other; passes that fail; statements that fail; a compiler that dies | the rows are the tree of executions, numbered among siblings; events belong to the running pass; errors are never lost; whatever is left in the file can be read |
| Container, C++ writer | `capture/lib/TraceStorage.cpp` | tables `meta`, `ir_blob`, `pass_execution`, `op_index`, `op_identity`, journal mode | one statement per operation, each its own transaction | a crash between two statements, a failing statement | references resolve, a sealed file has no sidecars |
| Reader | `crates/trace-format/src/reader.rs` | the open file | open, meta, passes, pass, blobs, op index, events | files cut short or malformed | every recorded file yields its forest, no row lost |
| Rust writer, fixtures | `crates/trace-format/src/{writer,fixture,identity}.rs` | the open file | record_pass, write_blob, write_op_index, write_identity_event | none, sequential | same container |
| IR parser | `crates/engine/src/parser.rs` | cursor over lines | parse_module | text that is not what the parser expects | every operation found once, nesting preserved |
| Text diff | `crates/engine/src/diff.rs` | none | match_ops, diff_function | ambiguous matches | a matching: each operation used once |
| Dataflow graph | `crates/engine/src/graph.rs` | none | extract_dataflow(_diff), collapse_to_budget | budget boundaries, sides of a diff | at most the budget, edges between nodes that exist |
| Provenance | `crates/engine/src/provenance.rs`, `crates/server/src/provenance.rs` | union-find over operation nodes | build_timeline, resolve_function | addresses reused by the allocator, missing events, order of relations | chains are disjoint, erased operations end theirs |
| Server | `crates/server/src/{api,cache}.rs` | parsed and diff maps, LRU of timelines and of resolved functions | handlers info, passes, ir, functions, ops, history, diff, graph | concurrent handlers that unlock between lookup and insertion; independent evictions | the answer is a function of the trace, not of what is cached |
| Encoding | `crates/server/src/{assets,msgpack}.rs` | none | serve files, encode | none | |
| Viewer store | `ui/src/store.ts` | selection, view mode, fetched data | load, selectPass, selectFunc, setViewMode, toggleDiff, refreshView, selectOp, viewHistoryStep | every action awaits requests while the user goes on | what is shown belongs to what is selected |
| Graph layout | `ui/src/components/GraphView.tsx`, `ui/src/graph/` | laid-out graph | layout effect | a layout that resolves after its graph was replaced | the layout shown is of the current graph |
| Components | `ui/src/components/`, `ui/src/App.tsx` | none of interest | rendering | none | |
| Command line | `crates/cli/src/main.rs` | none | serve, export, flags | none | |
| Examples | `examples/` | none | attach, run, finish | none | |

Interactions: MLIR's pass manager calls the recorder (callbacks under one
mutex); the recorder calls the container (statements); the trace file is the
only link between a compiler and a server, which may open it after a crash of
the compiler; handlers share the reader and the caches; the viewer talks to the
server by requests whose answers arrive in any order.

## 2. Modules

| Module | Models | How |
|---|---|---|
| `TraceStorage` | `TraceStorage.cpp` | tables as variables, one action per SQL statement; a statement may fail |
| `TraceRecorder` (extends `TraceStorage`) | `TraceRecorder::Impl` | the members as variables; one action per callback or, in callbacks of several statements, one per statement |
| `Capture` (extends `TraceRecorder`) | the recorder attached to a pass manager | the pass manager's call stacks and threads; each of its steps calls the callback of that moment |
| `PassTree` | what a trace promises | an abstract tree that grows below open executions and closes from the leaves |
| `TraceReader` | `TraceReader::passes` | one action per row visited |
| `EngineCache` | `crates/server/src/cache.rs` | the four maps as functions, one operator per method, one eviction per step |
| `Server` (extends `EngineCache`) | the handlers functions, ops, history, diff, graph and `resolved_function` | one action per access to a cache, per client |
| `ViewerStore` | `ui/src/store.ts`, the controls that call it, the effect of `GraphView.tsx` | one action per part of an action of the store between two awaits; the answers come in any order |
| `OpDiff` | `crates/engine/src/diff.rs` | operators on sequences of operations |
| `Dataflow` (extends `OpDiff`) | `crates/engine/src/graph.rs` | operators on graphs: extraction, clusters, truncation |
| `Parser` | `crates/engine/src/parser.rs` | operators on sequences of lines: statements, regions, scopes |
| `Engine` (extends `Parser`, `Dataflow`) | the three above, over texts that are printed line by line and then edited by a pass | actions for what MLIR prints and what passes do (external); `row_op_idx` of the server |
| `Provenance` (extends `OpDiff`) | `crates/engine/src/provenance.rs` | operators on timelines: relations of a stage, bridges, chains, histories |
| `Lineage` (extends `Provenance`) | the timelines it is given | passes that rewrite a function, the recorder's listener, an allocator that reuses addresses (external) |
| `MCCapture`, `MCTraceReader`, `MCServer`, `MCViewer`, `MCEngine`, `MCLineage` | instances for TLC | |
| `CaptureProofs`, `CaptureStacksProofs` | theorems about the recorder and its file | the second extends the first |
| `DataflowProofs`, `EngineProofs` | theorems about the diff and the graph of any operations, and about the parser, the diffs and the graphs of any texts | the second extends the first |
| `LineageProofs` | theorems about the relations of any timeline, and about those that passes make | extends `DataflowProofs`, for the matching |
| `TraceReaderProofs`, `ServerProofs`, `ViewerStoreProofs` | theorems about those modules; the first also about `PassTree` | |

**The mutex.** All callbacks hold `Impl::mutex` from start to end, so two of
them never interleave. They are still cut into statements, because a crash and
a failing statement happen between statements. `call` is the callback that
holds the mutex, with its program counter and locals; `LockFree` guards the
first action of each. The actions of one callback are, for `beforePass`:
`BeforePass`, `BeforeSnapshot`, `CreateRoot` (first pass only), `CreateRow`,
`BeforeIndex` (once per operation); for `afterPass`: `AfterPass`,
`AfterSnapshot`, `AfterIndex`, `CompleteRow`, `CompleteRoot` (top-level passes
only), `MarkFailed`, `ForgetPass`; for `attach`: `Attach`, `AttachCreate`,
`AttachVersion`, `AttachProducer`, `AttachFidelity`.

**Crashes.** There is no crash action. The connection is in autocommit mode, so
the tables of any state are what a crash in that state leaves; an invariant over
the tables is a statement about every crash. `TraceReader` then starts from any
table, and accepts those that satisfy what is proved of those states (`Forest`, there
called `Recorded`).

**The pass manager** (external, MLIR) is modelled from its use: a stack of
frames per thread. A pass in `Nesting` may have pipelines run by an idle worker
or by a thread that waits inside a nesting pass of its own (work stealing, which
puts unrelated passes on one stack). A pass in `MayFail` may fail; its pipeline
is then left without `runAfterPipeline`, and the nesting pass fails too unless
it is in `Tolerant`, the passes that call `runPipeline` and ignore its result.
`Rewrite` changes what the module prints as; nested operations print as any
text. With `Reruns` the pass manager runs again after a failure or `finish()`.

**The server.** Handlers contain no `await`, but run in parallel on the worker
threads of the runtime; what they share are the caches, each behind a mutex that
is released between the lookup of an entry and the insertion of what was
computed. So each access is an action: `LookupParsed`, `FillParsed` (for every
blob), `LookupDiff`, `FillDiff`, and for `resolved_function` `LookupResolved`,
`LookupTimeline`, `FinishBuild`, `PutTimeline`, `EvictTimelines`, `PutResolved`,
`EvictFromResolved`; `RespondHistory` and `RespondStage` end a request. The
eviction loops hold their mutex (`TimelinesFree`, `ResolvedFree`), one entry per
step. A parsed module, a stage and a resolved function are identified with the
texts they are computed from, so an answer tells which texts it was made of;
what the parser, the diff and `resolve_function` compute is not in this model.
`reader` is the file a handler has opened: `Recapture` may replace the one at
the served path, which an open connection survives.

**The viewer.** JavaScript runs an action of the store up to its first `await`
without interruption, and what follows when the promise is settled. `calls`
holds the actions at an await, with the locals they will use; `SelectPass`,
`SetViewMode`, `ToggleDiff`, `SelectFunc`, `SelectOp` and `ViewHistoryStep` are
what a user can do, each up to its first await, with the guards of the controls
(a disabled button, a list that is shown in one mode only); `AnswerLoad`,
`AnswerPass`, `LatePass`, `AnswerOps`, `AnswerGraph`, `AnswerDiff` and `AnswerOp`
continue them, and `Fail` is their `catch`. `refreshView` has two awaits, so its
call goes from `"ops"` to `"graph"` or `"diff"` with the mode and the switch it
has read at the start. An answer is represented by its request. `Refused` says
which requests the server refuses whatever happens (`OpsAnswered`,
`GraphAnswered`, `DiffAnswered`, translated from the handlers); any request may
fail in addition (`Unanswered`). `Render` is the effect of `GraphView`: its
cleanup cancels what the effect before it started.

**The engine.** A line is represented by what the parser extracts from it: does
it start a statement, its brace delta, its symbol, whether it has a pair of braces
and what is in them, the fields of its operation. A line that starts no statement
is joined to the one before (`Join`), and what the parser looks for in the text of
a statement is that of the joined text: the first symbol, the outermost braces, all
operands, the last types. `ParseModule` is a fold over the statements with the local
variables of `parse_module` as a record. `Engine` prints every text of up to
`MaxLines` lines: attribute aliases, modules, functions whose attributes continue
on a second line, bodies on one line, nested regions, further regions and labels,
and declarations and calls with and without an attribute dictionary. A call without
results that is directly in the body of a function is printed as `call @g()`, which
starts no statement (`PrintCall`: MLIR leaves the prefix `func.` out there, and
`KEYWORDS` has no `call`). After `StartPass` the text is kept as the one before and
edited. What is asserted of the parser holds of every prefix of a text, and what is
asserted of diffs and graphs of every pair. Edges are sets; names of values are
numbers.

**Provenance.** A timeline is the sequence of stages that `build_timeline`
returns. `RelateStage` applies the events in order (`ReplacedEvent`,
`ModifiedEvent`, `ErasedEvent`, `InsertedEvent`), then links equal addresses
(`LinkSameAddress`; the iteration order of the hash map does not matter, its
entries are disjoint), then matches what is left (`LinkMatches`); `Bridge` links
two stages; `Union` merges chains, as sets instead of a forest of parents.
`Lineage` produces timelines from passes whose operations have identities, which
`Provenance` does not see: the properties compare the two. Any change may go
without an event, as in passes that use no listening rewriter; then
addresses and fingerprints are all there is.

**Abstractions.** Blobs are their texts (no two texts share a hash); pass names
are the Pass objects; operation tokens, byte offsets, kinds of events and clock
values are left out, except whether `end_ns` was ever written (`open`);
`op_index` is a count per snapshot.

## 3. Properties and runs

| Run | Instance | Properties | States |
|---|---|---|---|
| `timeline` | 2 threads, 2 nesting passes (one tolerant), 2 leaves, depth 5, 6 rows, no disk faults | `UnmarkedParents`, `StacksDrain`, refinement `ImplementsPassTree`, `EveryPassCompletes` under `FairSpec` | 57 512 |
| `text` | 2 threads, 1 nesting pass, 2 failing leaves, 5 rows, 2 texts, disk faults, reruns | `TypeOK`, `Forest`, `SiblingOrder`, `RootSummarises`, `ErrorsSurface`, `FrozenAfterStop` | 656 088 |
| `full` | 2 threads, tolerant nesting pass, 5 rows, 2 operations per snapshot, 2 events, disk faults | `Readable`, `CompletedIsIndexed`, `InnermostPassTracked`, `EventsAttributed` | 312 347 |
| `parents` | 1 thread, a failing leaf below a tolerant pass | `ParentIsEnclosing` is violated | |
| `server` | 2 clients, 6 requests, 3 functions, room for 1 timeline and 2 chains, one function of 3 chains | `ServerTypeOK`, `AnswersUnlessEvicted`, `OrdersListKeys`, `CachesBounded`, `NewestSurvives`, `EveryRequestAnswered` under `FairSpec` | 133 520 |
| `evict` | 1 client, operations of 2 functions, room for 1 timeline | `AnswersFromTrace` is violated | |
| `recapture` | as `evict`, room for all, two traces | `AnswersFromTrace` is violated | |
| `viewer` | 3 passes (a pipeline, a leaf that adds a function, a leaf that failed), 2 functions, 3 clicks, 1 failure | `ViewerTypeOK`, `ShowsSelectedPass`, `HistoryOfSelection`, `SettledShowsSelection`, `DrawnWhenLaidOut`, `SelectedPassIsShown` under `FairSpec` | 51 936 |
| `engine` | texts of 5 lines besides closing braces, regions 3 deep, 2 functions, 3 operations, calls of one function and of values, 1 edit of texts of 4 lines, budgets 1 to 4 | `FunctionsAreScopes`, `PathsAreRegions`, `TokensNameOperations`, `DiffAccountsForAll`, `DiffMissesNoPair`, `GraphsKeepToBudget`, `GraphsLoseNothing`, `GraphsShowWhatFits` | 136 217 |
| `calls` | as `engine`, no edits | `StatementsAreSingle` is violated | |
| `lineage` | 2 passes with 3 changes, up to 3 operations of 2 names at 3 addresses (symmetric) | `ExactLinksAreLineage`, `LinksAreFunctional`, `UidsFollowLinks`, `SurvivorsAreTraced` | 343 738 |
| `reader` | every table of up to 4 rows with parents 0..5 and seq 0..1 | `RecordedIsReadable`, `NothingLost` | 97 256 |

- `UnmarkedParents`: until a pass is marked as failed, each running pass is
  recorded under the pass that nested its pipeline, on whatever thread.
- `StacksDrain`: when everything has returned, no bookkeeping entry is left.
- `ImplementsPassTree`: mapped to (parent, open), the rows refine `PassTree`.
- `Forest`, `SiblingOrder`: the rows are a tree, and `seq` numbers the children
  of each parent from 0 without gaps, for all interleavings and faults.
- `RootSummarises`: between two top-level passes the synthetic root row holds
  the module as it is now and whether it differs from the start.
- `ErrorsSurface`, `FrozenAfterStop`: a failed statement is latched, stops all
  later writing and is what `finish()` returns; success means a sealed file.
- `Readable`, `CompletedIsIndexed`: references resolve at every crash point; as
  long as no error is latched or returned, a row with its after snapshot has both op
  indexes complete. So a recorder that forgets a statement that failed cannot claim
  a file that lacks rows of an index.
- `InnermostPassTracked`, `EventsAttributed`: an operation event belongs to the
  pass its thread runs and to a pattern or action of that very pass.
- `EveryPassCompletes`: each recorded pass is completed or recording stopped.
- `RecordedIsReadable`, `NothingLost`: the reader accepts all that a recorder
  leaves, and a forest it returns has every row of any table exactly once.
- `AnswersFromTrace`: every answer is that of a server without caches. It fails,
  see below; `AnswersUnlessEvicted` is what remains of it: an answer differs at
  most as if the function had no stages when it had.
- `OrdersListKeys`, `CachesBounded`: queues and maps agree, bounds hold whenever
  the mutex is free, chains are counted exactly, even when two handlers insert
  the same function.
- `NewestSurvives`: evictions never remove what they were made for.
- `EveryRequestAnswered`: no eviction loop spins and no handlers wait for each
  other, once clients stop asking.
- `ShowsSelectedPass`: snapshots, diff, graph and selectable operations on the
  page are of the selected pass, whatever is answered late.
- `HistoryOfSelection`: the history shown is that of the selected operation.
- `SettledShowsSelection`: when nothing is awaited, the page shows the graph or
  the diff of the selected pass and function, or an error. It does not claim that
  the graph has the current setting of the diff: `refreshView` compares pass and
  function only, and of two quick toggles the first may be answered last. It
  excepts a diff after `viewHistoryStep` or `selectOp` has left the graph mode, or
  `selectOp` has cleared an error (`jumped`, a ghost): neither fetches a diff for the
  mode that the page ends in.
- `DrawnWhenLaidOut`: the graph on the page is drawn by its own layout.
- `SelectedPassIsShown`: the pass that is selected is shown in the end.
- `FunctionsAreScopes`, `PathsAreRegions`: if no statement is misread (`Misread`,
  see below), the functions of the module are those printed, the operations that the
  parser puts in one are those printed in it except calls that start no statement,
  and two of these have one path exactly if the same operation is around them.
- `TokensNameOperations`: the ordinal under which the recorder indexes an
  operation is its index in the parser, up to the first line at which the two walks
  part (`WalksDiffer`): an alias or a line like `} else {` is an (opaque) operation to
  the parser only; a call that starts no statement, or an implicit terminator, is one
  to the recorder only.
- `DiffAccountsForAll`: each operation of either side is in one change, in order,
  and equal operations have the diff that is answered for a shared blob without
  computing it. `DiffMissesNoPair`: nothing is removed and added at once.
- `GraphsKeepToBudget`: no more nodes than asked for, and no edge without its
  ends. `GraphsLoseNothing`: a graph that is not truncated is the quotient of the
  full one: counts add up and edges are those between what stands for the ends.
  `GraphsShowWhatFits`: opening the last cluster again would exceed the budget.
- `ExactLinksAreLineage`: a link shown as exact joins one operation with itself
  or with what replaced it, however addresses were reused.
- `LinksAreFunctional`: one successor per stage; inferred links join operations of
  one name about which no event and no address says anything.
- `UidsFollowLinks`: the ends of a link have one UID, others their own.
- `SurvivorsAreTraced`: an operation that a pass leaves where it is keeps its UID
  and has one step for that pass in its history.

**Bounds.** `MaxRows`, `MaxDepth` and `MaxEvents` bound rows, stack depth and
events. Two threads and depth 5 admit a pass stolen below another one's waiting
frame; 5 rows admit the root, a nesting pass, two children and a later top-level
pass, which the stale-parent and numbering cases need; two texts admit a module
that is changed and changed back. The server's caches are unbounded in time:
clients ask forever. Room for one timeline of three, and for two chains of five
with one function that has three alone, makes every eviction loop run zero, one
and several times; two clients let one evict or insert between any two steps of
the other. Three clicks select two passes and a mode, or an operation, a step of
its history and a pass meanwhile, so up to three actions await answers at once,
which is what a late answer, an overtaken refresh and a history step that returns
to another mode need; one failure is one more way for each of them to end. `load`
is called once in the run, twice (as React's StrictMode does) also in the proofs.
Five lines are a function with two nested regions and two operations, or two functions,
with every call, alias or dictionary in between; a text that is edited leaves room for
the line that an edit may insert; budgets 1 to 4 are below, at and above the
number of nodes. Three changes in two passes are what an erasure, a new operation
at the same address and a replacement take, within one pass or across two. Each
property is shown to be sensitive by a mutant of the code that violates it
(`PROJECT.json`).

**Deadlock** is not checked: a compiler may stop, and bounds end behaviours.

**Fairness** (`FairSpec`). Weak fairness of `Callback`: a callback has no loop
that waits and the mutex is released at its end. Weak fairness of ending a
pipeline, leaving a pattern and entering an action: code of finite length.
Strong fairness of leaving an action and returning from a pass: a nesting pass
is kept from returning while one of its pipelines runs, again and again, and
still returns in the end because it schedules finitely many pipelines. That
finiteness is the premise `<>[][PushesOnlyPasses]_vars`. Starting a pass is not fair.
For the server, weak fairness of each handler: threads are scheduled. Rust's
mutexes are not fair, so while requests keep coming a handler may starve;
`EveryRequestAnswered` therefore assumes that they stop (`ClientsStop`).
For the viewer, weak fairness of the answers, all of them together: `fetch`
settles and the event loop runs what awaits it. The user, failures, effects and
layouts are not fair.

**What the environments leave out.** MLIR itself is external, and two models
restrict it, so that what they show is what holds. `Engine` prints no named
modules: `parse_module` takes one for a function that contains everything (a symbol
and an opening brace). Its properties of the parser have a premise besides:
`Misread` is a text in which a declaration or a call with an attribute dictionary, or
an operation with one to which a call is joined, is taken for a function on one line.
It is an operator of the text, not a restriction of what is printed; without it a
call with a dictionary violates `FunctionsAreScopes`, for the callee gets a second
scope. `Lineage` (`Reusable`, `IsReuse`) does not reuse, in
the same pass, an address of which a replacement or a modification spoke, nor
that of an operation that vanished without an event for one of its name: there
the code gives an exact link between strangers, for it has nothing but the
address. Operations that are moved (`moved`) are excepted from
`SurvivorsAreTraced`: MLIR notifies of a move as of an insertion
(`TraceRecorder.cpp:56`), and `resolve_function` lets an insertion begin a chain.

**The violations.** The capture plan (`docs/superpowers/plans/2026-07-04-m1-mlir-capture.md:19`)
says that the synthetic root owns top-level executions. After a pass failed in a
nested pipeline whose failure is ignored, `pipelineParents` keeps the entry of
that pipeline, and later top-level passes of the thread become children of a
completed pass. The trace stays a tree (`Forest` is proved), but the wrong one.

The provenance design (`docs/superpowers/specs/2026-07-05-m4b-op-history-provenance-design.md:170`)
answers 404 to an unknown function and serves later requests from the caches.
A hit in `resolved` does not keep the timeline of its function alive, and the
handlers look that up again: after enough other functions, `ops` answers 404 for
a function that exists and graphs lose their UIDs (`evict`). The same document
(234) keys timelines by trace and function; the code keys them by function, so
a new capture to the served path is answered from the old one (`recapture`).

The parser's comment (`crates/engine/src/parser.rs:3`) calls a statement "one or more
physical lines forming a single op", but `call @g()` in the body of a function starts no
statement: it is joined to the operation before, which gets its symbol and operands, and
is lost (`calls`). Two consequences are the premises above: the joined text may be taken
for a function (`Misread`), and the numbers of the operations after it are not those of
the recorder (`WalksDiffer`, which aliases, `} else {` and implicit terminators bring
about as well).

## 4. Proofs

Proved with TLAPS, for all values of the constants: any number of threads, passes,
rows, clients, functions, clicks, lines or addresses, any depth, with and without
faults. Every invariant and action property that a passing run checks is also a theorem.

**How to read them.** A proof module has one invariant per idea, a predicate for each
of its parts, one lemma per step and part, and then the theorems. An invariant that
seldom concerns a step is kept over it by a frame lemma (`SameRows`, `RowsKeep`,
`ElsewhereFrames`).

**The recorder** (`CaptureProofs`, `CaptureStacksProofs`): lemmas about each handler,
then the theorems.

- `TypeCorrect` (`Spec => []TypeOK`). The type is not inductive by itself:
  `CompleteRow` updates the row of the id found in `activePasses`, which must be
  the id of a row, and `CreateRow` needs the callback's locals to be what
  `BeforePass` put there. `CaptureInv` adds `IdsOK` (each id kept in a map or
  stack is that of a row, the root's is 1), `CallOK` (what each program counter
  value may rely on) and `IdleUntilAttached` (nothing runs before attach).
- `RowsFormATree` and `SiblingsAreNumbered` (`[]Forest`, `[]SiblingOrder`).
  `RowsInv` strengthens them by `Numbered`: the counter of a parent is above
  the `seq` of all its children, every smaller number is taken while recording
  goes on, and rows that do not exist have no count. The clause about recording
  is needed because `nextSequence` is incremented before an insert that may
  fail; the failure latches the error, so the gap is never used.
- `ManagerInvariant`: what the recorder may expect of MLIR. A pass is on one stack,
  once (`RunOnce`); frames nest (`FramesOK`); the callback that holds the mutex is
  that of the pass just entered or left (`CallFollows`). These are facts of
  `Capture`'s pass manager, and what everything below rests on.
- `EntriesInvariant`: `activePasses` has an entry exactly for the passes between the
  insert of their row and the end of their `afterPass` (`EntriesFollow`), no two have
  one row (`EntriesDescribe`), and the open rows are theirs (`OpenFollows`). So the
  look-ups of `afterPass` find their entry and `emplace` never finds one.
- `ErrorsAreReported`, `StoppedIsFrozen` (`[]ErrorsSurface`, `FrozenAfterStop`).
  `ErrorsSurface` speaks of states between callbacks; `ErrorsInv` says that the latched
  error is that of the disk within them as well.
- `CrashLeavesReadable` (`[]Readable`), in every state and thus after a crash in any.
  `FileInv` adds that a text is in `ir_blob` before a row may refer to it (`BlobsInv`)
  and that no stack or event refers to a row that was never inserted (`ReferencesInv`).
- `StacksInvariant`, `OperationsAreCharged` (`[]InnermostPassTracked`): each stack of
  the recorder lists, depth by depth, the frames of its kind (`IdsFollow`,
  `NamesFollow`, with `Lists` relating a sequence to a set of depths).
- `ParentsAreEnclosing` (`[]UnmarkedParents`). `OwnersInv`: until a failed pass is
  marked, the parent of an entry is the row of the pass below its pipeline
  (`PassParents`), `pipelineParents` lists the pipelines of the stack
  (`PipelineParents`), and only the frame below the pass that is about to be marked
  knows of a failure (`BadFrames`). The run `parents` shows that the premise cannot go.
- `NothingIsLeftBehind` (`[]StacksDrain`) and `EventsAreAttributed`
  (`[]EventsAttributed`). The latter needs `PatternsOnTop`, since a pattern's frame must
  be within the pass to which its event is charged, and `CountsInv`, by which the next
  number of an event is the count of those before.
- `SnapshotsAreIndexed` (`[]CompletedIsIndexed`). `IndexInv` says how far each side's
  index is, per entry and program counter (`EntriesIndexed`), until the row gets its
  after snapshot (`RowsIndexed`), as long as no statement failed; that none did when
  no error is latched or returned is `ErrorsInv`.
- `RootIsSummary` (`[]RootSummarises`). Only `Main` runs top-level passes; for the root
  to be current when it has returned, nobody else may still be at work. `WorkIsRooted`
  is what makes that inductive: among busy threads other than `Main`, one works for a
  thread outside of them, so there is no circle of threads that steal for each other.
  `RootStart`, `MainText` and `RootSettled` follow the text from the snapshot to the row.
- `RowsImplementPassTree` (`Spec => ImplementsPassTree`). `CreateRoot` is `BeginRoot`;
  `CreateRow` is `Begin`, whose guard, that the parent is open, is `ParentIsOpen`;
  `CompleteRow` and `CompleteRoot` are `End`, whose guard, that all children are
  closed, is `ChildrenClosed`, and for the root `RootEndOwn`; `MarkFailed` is `Fail`;
  all other steps stutter. With `TreeTheorem` (in `TraceReaderProofs`: `PassTree` keeps
  `IsTree` and `ClosedBelow`) the trace is a tree that closes from its leaves.

**The reader** (`TraceReaderProofs`), for tables of any size.

- `ReadableTheorem` (`[]RecordedIsReadable`): rows whose parents have
  smaller ids never make the backward walk meet a missing parent. The
  invariant `Walk` says that the map holds exactly the rows not yet visited.
- `NothingIsLost` (`[]NothingLost`): for any table, recorded or not. `Placed` says that
  each list has the children that were visited, by ascending `seq`, and that the parent
  of each visited row comes before it in the order of the query; so of rows that are
  closed under parents the first one has none (`NoCycle`).

**The server** (`ServerProofs`), for any number of clients, functions and capacities.

- `TypeCorrect` (`[]ServerTypeOK`), with `HandlersOK`: what a handler's program counter
  says of its locals (a handler at `"resolve"` has a timeline).
- `OrdersAreKeys`, `CachesStayBounded`, `EvictionSparesNewest` (`[]OrdersListKeys`,
  `[]CachesBounded`, `NewestSurvives`) from `CachesInvariant`. The bounds hold when the
  mutexes are free and are exceeded within an insertion, so `TimelineInv` and
  `ResolvedInv` say who is in one: one handler at most, and its own entry is the last of
  the queue. That is why no eviction reaches it before the cache fits. `chainCount` is
  the number of `CachedHistories` (the pairs of a function and one of its chains),
  which `Retain` and an insertion over an entry change by what they remove and add.
- `AnswersAreRight` (`Spec /\ NotReplaced => []AnswersUnlessEvicted`). `RightInv`:
  every entry of every cache, and everything a handler has gathered, is what a server
  without caches would have computed from the file. The hypothesis `NotReplaced`, that
  the served file stays the same, cannot go: the run `recapture` is the counterexample.

**The viewer** (`ViewerStoreProofs`), for any number of passes, functions, clicks,
failures and calls in flight.

- `ViewerTypeCorrect` (`[]ViewerTypeOK`). An answer stores what its call has carried
  since it was made, so `CallsInv` types the calls; it also bounds them by the clicks,
  which is why calls that await the same can be told apart.
- `PageIsOfSelectedPass`, `HistoryIsOfSelection` (`[]ShowsSelectedPass`,
  `[]HistoryOfSelection`). Both are inductive as they stand: the data of a
  pass are cleared in the step that selects another (`ShowPassShows`), and each
  answer is applied under the comparison with the selection of that moment
  (`AnswerShows`); `UserKeepsHistory` and `AnswerKeepsHistory` likewise.
- `SettledPageIsOfSelection` (`[]SettledShowsSelection`). The property speaks of a store
  that awaits nothing. `SelectionInv` says for the states between that whatever is
  missing has a call at its await that will bring it (`PassFollows`, `GraphFollows`,
  `DiffFollows`): for the pass, or for the selected function in the mode and with the
  switch of now. An answer that is dropped is not that call (`OtherCallsFollow`), and a
  call that fails leaves an error.
- `GraphIsDrawnAsLaidOut` (`[]DrawnWhenLaidOut`). `DrawingInv` strengthens
  it: what is being laid out is the graph the effect last ran for, and if nothing is
  and no layout failed, the layout kept is of that graph. The cleanup of the
  effect (`Cancel`) is what preserves it.

**Folds.** The operators of the engine are folds over sequences: what `FoldLeft`
computes is defined by `MapThenFoldSet`, a recursive function with an operator as a
parameter, and the library has no theorem about it that the provers can instantiate. So
each fold is unfolded once, for itself: `FirstPassSteps`, `CollapseSteps`,
`AssembleSteps`, `EndSteps` and their like say that there is a run, a function `g` from
0 .. n whose first value is the base, whose i-th value is a step from the one before
and whose last value is that of the fold. They use the definition of the recursive
function as it stands, and no operator but the one that is folded. An invariant of the
run is then proved by induction over the numbers in first-order form (`InductionUpTo`:
a set that has 0 and the successors of its members has all).

**The diff** (`DataflowProofs`), for any two sequences of operations.

- `DiffIsTotal`, `DiffIsTight`, `DiffIsReflexive`. A matching takes an operation after
  at most once (`Matchings`), in both passes. The changes are accounted for by what is
  pushed up to each operation after (`done` and the removed ones up to it); two
  operations of one name that are left over would have scored at the threshold, so the
  second pass would have paired them; and of two equal sequences the first pass matches
  each operation with itself.

**The graph** (`DataflowProofs`), for any operations, matchings and budgets.

- `DataflowIsFull`, `DataflowDiffIsFull`: what is extracted has one node for every
  operation and edges between them only (`IsFull`).
- `CollapseIsRight`: what is asserted of the collapsed graph. `Collapsed` is the
  invariant of the loop over clusters: nodes are the operations that no cluster stands
  for and the clusters, a cluster counts what it stands for, and edges are those of the
  full graph between what stands for their ends. The loop stops at the first graph
  within the budget, so the one before it was not, and truncation comes last.

**The texts** (`EngineProofs`), for any functions, operations, symbols, budgets and any
number of lines, nesting and edits.

- `TextsAreLines` (`TextsInv`), `EveryDiffAccountsForAll`, `EveryDiffIsTight`,
  `EveryGraphKeepsToBudget`, `EveryGraphLosesNothing`, `EveryGraphShowsWhatFits`
  (`[]DiffAccountsForAll`, `[]DiffMissesNoPair`, `[]GraphsKeepToBudget`,
  `[]GraphsLoseNothing`, `[]GraphsShowWhatFits`). Any text of lines parses to functions
  of operations with the fields the diff and the graph need (`ParserStates`,
  `ScopeOpsTyped`), whatever was edited; the rest are the theorems above.
- `WhatIsPrintedIsRead` (`[](LinedInv /\ ParserInv)`), the invariant of the parser. What
  is read of a text with a line more that starts a statement is one more step from what
  is read of the text (`ReadStarts`), so the state of the parser (`Read`) can be followed
  line by line as if it were a variable. A line that continues the last statement makes
  the parser read that one again (`JoinsOne`). `LinedInv` says which statement that can
  be (`Ending`: that of an operation, a function, a call or an alias, `Continuable`), and
  unless the joined statement is misread it takes the same step as before but for
  the fields of its operation (`Alike`, `StepAlike`), of which the invariant reads
  only the place (`ReadingAlike`). A text that is misread stays so with more lines, so
  the premise of `ParserInv` may be used of the text before. Five parts say what the
  state is: `Scoped` (the path is as deep as what is open; the function that
  is open starts at the depth of its braces), `Functioned` (functions in order of
  definition, each with the operations of its lines, `Listed`), `Shorts` (a body on one
  line has one operation and its function is never open), `Pathed` (one path for one
  region, the prefixes of the current path for what is open, and the children of each
  of them below its counter: so a region that is entered has a path that no operation
  has, `PlacementEnter`) and `Numbered` (as long as no line shifts the numbers, `NoShift`, they
  are those of the walk). `Lined` says that lines are in regions opened before them. There
  is one lemma per kind of statement that says what a step does (`OpStep`,
  `RegionStep`, `FunctionStep`, `ShortStep`, `LabelStep`, `CloseStep`), one per part and
  effect, and one per kind of line (`StepsOver` .. `StepsOut`).
- `EveryFunctionIsAScope`, `EveryPathIsARegion`, `EveryTokenNamesItsOperation`
  (`[]FunctionsAreScopes`, `[]PathsAreRegions`, `[]TokensNameOperations`) follow from
  it. A function is found by its symbol because no two have the same (`ScopeIs`).

**The histories** (`LineageProofs`), for any operations, names, addresses, and any number
of passes, changes and events. First what `Resolve` makes of any timeline, whatever its
events say:

- `ChainsAre`: the chains are a partition in which the ends of each relation are
  together, and an occurrence without relations alone (`ResolvedFollows`).
- `RelationsAre`: where a relation comes from. The core of a relation (what it is
  without its evidence, which is what `push_relation` compares) is that of an event, and
  the first one to replace its operation (`EventCore`), of an address of which no event
  speaks (`AddressCore`), of a match that shares its ends with nothing else in the stage
  (`MatchCore`), or of a bridge (`IsBridge`). One lemma per fold: `EventsAre`,
  `PairsAre`, `RelateStageIs`, `StagesAre`, `BridgeKeeps`.

Then what the addresses mean, in the timelines that passes make:

- `LineageInvariant` (`IInv`). `StageTrue` says of a stage that an address without events
  that has one name before and after is of one operation (`SilentTrue`), as is one that
  was modified and is still there (`ModifiedTrue`), and that of a replaced operation the
  successor is known and it is gone itself (`ReplacedTrue`). None of this is inductive;
  `PassTrue` says it of a pass that runs, with what may not be reused (`spoken`) in place
  of the snapshot that is not there yet, and that an operation that was there before has
  not moved to another address (`BeforeKept`). An operation that is there before and
  after and was not moved keeps its address, and what events say of that address is only
  that it was modified (`SurvivorsTrue`, for a pass that runs `SurvivorsKept`). A change keeps it because the operations
  stay (`PassStays`), one goes (`PassRemoves`) or one comes (`PassCreates`); `PassEnds`
  turns it into `StageTrue`. `Continues`: a stage begins with the operations the one
  before ended with.
- `LineageTheorem`, `FunctionalTheorem`, `UidsTheorem` (`[]ExactLinksAreLineage`,
  `[]LinksAreFunctional`, `[]UidsFollowLinks`) put the two together (`CoresTrue`,
  `CoresFunctional`, `ResolveFollows`). That of two events at one address only the first
  replacement counts is what the second theorem needs: an operation that was replaced is
  gone, so that no later event at its address can be about it.
- `SurvivorsTheorem` (`[]SurvivorsAreTraced`): every operation of a snapshot has an
  address (`Indexed`), and the address of a survivor has its step in the relations, from an event or from `relate_addresses` (`StagesSay`). It has no
  second one: two steps of a stage from an operation to itself have the same core
  (`CoresAgree`), and `push_relation` keeps a core once, so they are one (`OneStep`). Both ends have
  one UID by `ResolveFollows`, and the sort of `History` loses no step of that UID and
  doubles none (`HistoryHas`, by `Ranked`).

**What the proofs found.** `SettledShowsSelection` was false as first stated, although
TLC passed it with three clicks: it takes five. Two steps of a history are
chosen, the second one's diff fails, an operation is selected, which clears the error
(`store.ts:179`), and the late answer for the first step sets the text mode without a
diff; the same from a graph, which `selectOp` leaves without a refresh. `DiffFollows` is
not preserved by `SelectOp`, and the property now excepts both, with the ghost `jumped`.

**Assumptions.** Only `StorageAssumption`, `RecorderAssumption`,
`CaptureAssumption`, `ReaderAssumption`, `CacheAssumption`, `ServerAssumption`,
`ViewerAssumption`, `EngineAssumption` and `LineageAssumption`, all about constants, are used; the runs
evaluate them. They say what the code takes for granted of its environment (identifiers
are numbers, `null` is none of them, a leaf is a pass; MLIR rejects a module with two
functions of one symbol) and that bounds are numbers. `EngineAssumption` also keeps the
names that the model gives to lines which are no operation apart from real ones.

**Model-checked only.** `EveryPassCompletes`, `EveryRequestAnswered` and
`SelectedPassIsShown`: liveness under fairness is beyond the prover.
`ParentIsEnclosing`, `AnswersFromTrace` and `StatementsAreSingle` are violated, see above.

## 5. Plan

1. An abstract specification of the server's answers, with `AnswersAreRight` as the
   refinement for traces that are not replaced.
2. The paging of `ir` and the character boundary its pages end on.

## 6. Not modelled

Hash collisions of blobs, compression, wall-clock values; the body of MLIR's
pass manager beyond the order of callbacks; a second `finish()`, which reports success
because the first has consumed the error (no caller uses its result); named modules
and their symbols; single-query readers; how the parser
gets names, types, attributes and strings out of a line; the paging of `ir`; rows
of the op index with byte ranges (the recorder writes ordinals) and tokens that
occur twice; `reset` of the store (nothing calls it); positions in a laid-out
graph; the components marked `not_modelled` in `PROJECT.json`, each with its reason.
