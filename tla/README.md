# A TLA+ model of the openLooKeng engine

openLooKeng (`hetu-core`) is a distributed SQL engine. A coordinator plans a
query, cuts the plan into stages and the stages into tasks; workers run the
tasks; the tasks stream pages to one another over HTTP until the result reaches
the client. This directory holds TLA+ models of the protocols inside the
engine and of the web UI that shows its state, the TLC configurations that check
them on small instances and TLAPS proofs of their most important properties.

## 1. The system and its parts

The engine is `presto-main` (about 107 000 lines of planner, 105 000 lines of
operators, 48 000 lines of execution and 60 000 lines of everything else);
around it are the SPI, the connectors, the clients and the stores that openLooKeng
adds to Presto. What is stateful and concurrent, and so worth a model, is small
in comparison:

| part | main classes | what is hard about it |
|---|---|---|
| page transport | `ClientBuffer`, `HttpPageBufferClient`, `TaskResource`, `Backoff` | lost, late and repeated requests; reads that wait; a client that closes while an answer is under way |
| output buffers | `BroadcastOutputBuffer`, `PartitionedOutputBuffer`, `ArbitraryOutputBuffer`, `LazyOutputBuffer`, `OutputBufferStateMachine`, `SerializedPageReference` | drivers, consumers and the coordinator work on one buffer under two kinds of lock; pages are shared and counted |
| back pressure | `OutputBufferMemoryManager` | a blocked future that must be completed exactly when there is room |
| exchange client | `ExchangeClient` | queues of clients and pages, a size limit, failure and close |
| task | `SqlTask`, `TaskStateMachine`, `SqlTaskManager`, `StateMachine` | creation racing cancellation; update, suspend and resume |
| task execution | `SqlTaskExecution`, `TaskExecutor`, `MultilevelSplitQueue`, `Driver` | driver life cycle, fair scheduling |
| stage and query | `StageStateMachine`, `SqlStageExecution`, `SqlQueryScheduler`, `QueryStateMachine`, `HttpRemoteTask` | distributed state machines fed by polling |
| snapshot and recovery | `MarkerAnnouncer`, `MarkerSplitSource`, `MultiInputSnapshotState`, `SingleInputSnapshotState`, `TaskSnapshotManager`, `QuerySnapshotManager`, `QueryRecoveryManager` | a consistent cut by markers, restart from it |
| memory | `MemoryPool`, `QueryContext`, `ClusterMemoryManager` | reservation, promotion, the query killer |
| resource groups | `InternalResourceGroup`, `DistributedResourceGroup`, `BaseResourceGroup` | admission under hierarchical limits, with state shared between coordinators |
| transactions | `InMemoryTransactionManager` | commit, abort and idle timeout of several connectors |
| failure detection | `HeartbeatFailureDetector`, `NodeStateChangeHandler` | a node that is slow is not a node that is gone |
| dynamic filters | `DynamicFilterService` | filters collected from many tasks through a store |
| fault tolerant execution | `FaultTolerantStageScheduler`, `BinPackingNodeAllocatorService`, the exchange package | retry of a task without duplicating its output |
| state store, seed store | `hetu-state-store`, `hetu-seed-store`, `hetu-hazelcast` | locks and maps shared by coordinators |
| heuristic index, cube, metastore cache, VDM | `hetu-heuristic-index`, `hetu-cube`, `hetu-metastore`, `hetu-vdm` | mostly file I/O and metadata |
| parser, analyzer, planner, operators | `presto-parser`, `sql`, `operator` | sequential algorithms on data; not a subject for a model checker |
| web UI | `webapp/src/components`, `overview`, `queryeditor`, `dateRangePicker`, `utils.js` | timers, clicks and answers in any order; views and stores that share objects |
| connectors, file formats, CLI, JDBC, docs | `presto-hive`, `presto-orc`, ... | I/O with external systems |

`PROJECT.json` lists every part with its sources and its status.

## 2. Page transport

A task owns one `ClientBuffer` per consumer. The consumer's
`HttpPageBufferClient` asks `GET /v1/task/<task>/results/<buffer>/<token>`; the
token says how many pages the consumer has, so it is at the same time an
acknowledgement of everything below it. The answer carries some pages and the
next token. When the answer says `complete`, the client sends `DELETE` until it
is confirmed, and the buffer is destroyed.

### Modules

* `ClientBuffer` is the Java class as a record. Each operator is one
  `synchronized` block. Sizes of pages are abstracted: a response carries at
  least one page if there is one, and then any number (`ResponseSizes`).
* `PageTransport` composes one buffer, the HTTP exchanges and one
  `HttpPageBufferClient` with the `ExchangeClient` callbacks it makes. `req[r]`
  is an exchange: which stage it is in, what was asked and what was answered.
  A client that gives up on a request does not stop it. The server may serve an
  abandoned request at any later time, interleaved with its successors; this is
  where duplicated and reordered requests come from. An answer to an abandoned
  request is dropped (`Discard`), an acknowledgement may get lost
  (`LoseAcknowledge`).
* `PageStream` is the abstract specification: a stream whose pages come out
  once each and in order and whose end comes after the last page; a stream may
  break.
* `MCPageTransport` instantiates `PageTransport` for TLC.
* `PageTransportProofs` states the inductive invariant, proves facts about the
  operators and that each step preserves it, and has the theorems.

| variable | code |
|---|---|
| `buf` | the `ClientBuffer` |
| `req[r].stage` | position of an HTTP exchange; `"acked"` is the gap between the two critical sections of `getPages`, `"taken"` the gap between taking a pending read under the lock and `processRead` |
| `acks` | `GET .../acknowledge` requests under way |
| `token`, `future`, `scheduled`, `completed`, `closed` | fields of `HttpPageBufferClient` |
| `errors` | `Backoff.failureCount` |
| `queued`, `finished`, `failed`, `exClosed` | membership in `ExchangeClient.queuedClients` and `completedClients`, `failure != null`, `closed` |
| `added`, `received`, `cancelled` | histories: pages accepted by the buffer, pages accepted by `addPages`, the producer destroyed the buffer |

An action stands for one critical section or one callback. `onSuccess` of
`sendGetResults` is three steps (`OnSuccess`, `AddPages`, `RequestComplete`),
because it leaves its lock twice. Two PendingRead details are folded into the
record: a pending read whose future is done behaves like none, and the timeout
of `TaskResource` cancels the read wherever it is (`ReadTimeout`).

### Runs

* `page_transport` checks, with two pages, three exchanges, up to two
  consecutive failures and recovery enabled, that pages are delivered in order
  and once (`DeliveredInOrder`), that a client believes in completeness only
  when it has everything (`CompleteMeansAll`), that nothing leaves the buffer
  before the client has it (`NothingDropped`), that no request fails the
  "Invalid sequence id" checks (`NoInvalidSequenceId`), and that the transport
  implements `PageStream` (`ImplementsStream`). Three exchanges are needed for
  the current request to race with two stale ones; two pages let a response
  carry a part of the buffer.
* `page_transport_live` checks liveness with two exchanges, without recovery
  and with `exchange.acknowledge-pages` off, so that nothing but the token of the
  next read frees the buffer: the pages arrive and the client finishes unless something gave up
  (`EventuallyDelivered`), and the transport implements the fair stream.
* `page_transport_add_pages` violates `NoPagesAfterCompleted`, the assertion of
  `ExchangeClient.addPages`. A response is received and its callback is queued;
  `close()` sends a DELETE; its answer runs `clientFinished` first; the queued
  callback then fails `checkState(!completedClients.contains(client))`. The
  exchange is closed, so no page is lost; the exception ends the callback, and
  `requestComplete` is not called.

Fairness: weak fairness of the scheduler, of the callbacks and of each
exchange. The executors are thread pools that run what is queued, the server
answers a waiting read within its wait time and the HTTP client has an idle
timeout, so that an exchange ends. Nothing is assumed of the producer, of an
early close, or of an acknowledgement. With recovery enabled the property is
not claimed: an error status then produces an empty success, which resets the
backoff, and a client may retry for as long as the recovery takes.

### Proofs

`PageTransportProofs` proves, for any set of pages and of exchanges, any bound
on the failures and both settings of the flags:

* `TypeCorrect`, `InOrderDelivery`, `CompleteDelivery`, `NoPageLost`,
  `ValidSequenceIds`: the five invariants of the run `page_transport`.

None of them is inductive. The invariant `IInv` adds what ties the two ends
together: the buffer holds exactly the pages of `added` from
`currentSequenceId` on, and the client's token lies between the two ends of it
(`BufferInv`); no request or acknowledgement is ahead of the client
(`TokenInv`); an answer holds the pages its tokens name (`ResultInv`); what is
in the callback is exactly what `received` still lacks with respect to the
token (`CallbackInv`); a DELETE is sent only by a client that saw the end or is
closing (`DeleteInv`); the pending read is a request that waits (`PendingInv`).
There is one lemma per action, and the theorem `Invariance` combines them.

`PageTransportProofs` also proves `TransportImplementsStream`: the transport
implements `PageStream` under the mapping of `PageTransport!Stream`. The initial
states map to initial states; `AddPages` of a response with pages is the
stream's `Read`, `RequestComplete` of a complete response is its `Complete`, and
every other step is the producer's `Write` or `EndOfStream`, a `Break` or a stutter
(`StreamStep`, which uses `IInv`).

The proofs assume that `None` is not an exchange, that `MaxErrors` is positive
and that the flags are Booleans. Liveness is only model-checked.

## 3. Broadcast output buffer

`BroadcastOutputBuffer` sends every page of a task to every consumer. Drivers
enqueue; the coordinator declares consumers in updates of growing version, the
last of which says that there will be no more; consumers read, acknowledge and
abort their own `ClientBuffer`, and may come before their declaration; the task
ends the output, fails it or destroys it. Two mechanisms protect the state: the
object's lock guards `buffers`, `initialPagesForNewBuffers` and `outputBuffers`;
the state machine has its own lock, so that it changes under a thread that holds
the object's lock. Pages are shared and counted.

### Modules

* `BroadcastOutputBuffer` extends `ClientBuffer`. Each thread has a program
  counter, and a step is one access to the state machine, one critical section
  of the object or one of a client buffer. `setOutputBuffers` reads and sets the
  state several times under the lock, so it holds `lock` over several steps.
* `MCBroadcastOutputBuffer` instantiates it for TLC, with symmetry in consumers,
  pages and drivers for the safety runs.
* `BroadcastProofs` has the theorems.

| variable | code |
|---|---|
| `state` | `stateMachine` |
| `declared`, `noMoreIds` | `outputBuffers` |
| `buffers`, `initialPages` | `buffers`, `initialPagesForNewBuffers` |
| `refs` | `SerializedPageReference.referenceCount` of each page |
| `lock`, `pc`, `todo`, `page`, `seen` | the object's lock and the locals of each thread; `seen` is `bufferState` of `setOutputBuffers` |
| `enqueued`, `delivered`, `outputDone`, `cancelled` | histories |

| operation | actions |
|---|---|
| `enqueue`, `doEnqueue` | `Enqueue`, `Remember`, `EnqueuePages` per buffer, `EnqueueReturns` |
| `setOutputBuffers` | `SetOutputBuffers`, `AddBuffer` per new id or `AddBufferThrows`, `BuffersAdded`, `BuffersFlushing`, `BuffersUnlocked`, `NoMoreBuffers`, then `checkFlushComplete` |
| `get`, `acknowledge` | `GetBuffer`, `Acknowledge` |
| `abort(id)` | `GetBuffer`, `Abort`, then `checkFlushComplete` |
| `setNoMorePages` | `CheckTaskCompletion` (the caller's checks), `SetNoMorePages`, `PagesFlushing`, `PagesSnapshot`, `SetNoMorePagesOn` per buffer, then `checkFlushComplete` |
| `checkFlushComplete` | `CheckFlushComplete` (twice), `FlushSnapshot`, `FlushDecide`, then `destroy` |
| `destroy`, `fail` | `Destroy`, `DestroyNoMore`, `DestroySnapshot`, `DestroyBuffer` per buffer; `Fail` |

What is abstracted: one page per call of `enqueue`; versions of the declaration
(only newer ones change anything); reads that wait, which are the subject of
`PageTransport`; the final declaration names all consumers there are, as the
scheduler guarantees and `noMoreBuffers` asserts. The references dropped after a
critical section are dropped with it, since no other step reads the counter.

### Runs

* `broadcast`: two consumers, two pages, one driver, everything else at any
  time. A consumer's buffer gets each page once, and all of them before its
  reader may be told "complete" (`EveryBufferGetsEveryPage`); reference counts
  are exact (`ReferencesCounted`) and all pages are released at the end
  (`NoPageLeaks`); the four compareAndSets meet in `FLUSHING`
  (`BothEndsMeanFlushing`); the buffer finishes by itself only when all consumers
  were declared and have aborted (`FinishedMeansConsumed`). Two consumers let one
  be created, declared and aborted while the other is at another point, two pages
  let one be an initial page while the other is being enqueued.
* `broadcast_drivers`: one consumer, three pages, two drivers. Drivers only share
  the critical section of `doEnqueue`, and the third page lets one enter it
  again while the other is between its steps.
* `broadcast_live`: two consumers and no pages (pages do not influence the
  states of the threads). `EventuallyFinished`: when all consumers are declared
  and have aborted, the buffer reaches a terminal state.
* `broadcast_failed` violates `NoCompleteBufferLacksPages`, the rule in a comment
  of `getBuffer`, "set no more pages only if not FAILED, because this allows
  clients to FINISH". The trace: a page is enqueued, the output ends
  (`NO_MORE_PAGES`), an update reads that state, the task fails, `getBuffer`
  creates an empty buffer because the state is `FAILED`, and the update, with the
  state it read before, sets `noMorePages` on it. `setNoMorePages` has the same
  window between its second compareAndSet and its loop. The effect is limited to
  a query that is failing anyway, since the coordinator learns of the failure
  from the task's status.

Deadlock is not checked: a task that has ended has nothing left to do.

Fairness: a call that was made goes on, because threads are scheduled and a
critical section ends. No call is assumed to be made; in particular the consumers
need not abort and the coordinator need not declare.

### Proofs

For any consumers, pages and drivers, from the assumption that a driver is none of the
other threads and that null is no thread (`ThreadsAssumption`), and for the counted
references that null is no page (`PagesAssumption`):

* `BroadcastProofs` proves `BothEndsMeet` (`BothEndsMeanFlushing`) and
  `FinishesWhenConsumed` (`FinishedMeansConsumed`). The invariant `StateInv` says
  what the states mean: in `NO_MORE_BUFFERS` and `FLUSHING` the final declaration
  was made and all its buffers exist (`Declaring`, which counts the buffers the
  update still has to create); a thread that examines the buffers of a snapshot has
  all of them, unless the buffer has ended meanwhile (`Flushing`); how far the two
  pairs of compareAndSets have come is read off the threads that make them
  (`BuffersEnd`, `PagesEnd`).
* It also proves `EveryPageToEveryBuffer` (`EveryBufferGetsEveryPage`). `LabelsInv` adds that the drivers are idle once the
  output is done and that `initialPagesForNewBuffers` is cleared only when no buffer
  can come. `StoreInv` accounts for every page: a page that was enqueued is in a
  buffer, or a driver carries it and that buffer is still before it (`Arrived`); the
  same holds of `initialPagesForNewBuffers` for as long as buffers can come
  (`Initial`), which is what a new buffer starts with. A buffer is told that there
  are no more pages only when the output is done, so that no driver carries anything
  and the buffer has all.

* Its last part proves `CountersCountHolders` (`ReferencesCounted`),
  `FinishedReleasesAll` (`NoPageLeaks`) and `TypesAndCounters` (`TypeOK`). The
  counter of a page is the sum of three terms: whether a driver carries it, whether
  `initialPagesForNewBuffers` has it, and the number of buffers that hold it
  (`Counted`). Every step changes one buffer, or none, and the lemma `OneBuffer`
  says by how much the last term moves; it needs that a buffer holds a page once and
  a destroyed buffer none (`Holding`). `Released` follows the one thread that
  destroys a finished buffer: it has yet to clear the initial pages, or to take its
  snapshot, or it still has to visit every buffer that is not destroyed. A buffer
  created behind its back is destroyed at once, which is why `getBuffer` looks at the
  state under the lock. The lemmas assume the few facts about finite sets that counting
  needs (`FiniteSetFacts`); `FiniteSetsCount` derives them from the library before the
  theorems, so that no theorem assumes them and the steps are proved without the library
  in sight.

All safety invariants of the run `broadcast` are thus proved. `EventuallyFinished` is
a liveness property and only model-checked.

## 4. Web UI: pages that poll

The coordinator serves a web UI (`presto-main/src/main/resources/webapp/src`,
React components and the Flux stores of a query editor). It is concurrent in the
browser's way: callbacks do not interrupt one another, but clicks, timers,
deferred and debounced calls and the answers to requests come in any order, an
answer may overtake another or fail, and React objects are shared by reference.

Conventions of all page modules: `ui` is the component with its timers and the
requests on their way, `server` is what the coordinator knows, as far as the
page shows it. A function of the code is an operator from component to
component under its own name; an action is one callback of the event loop, with
everything it calls, including the `componentDidUpdate` that a `setState`
outside an event handler runs at once. A value that may be missing is a set of at
most one element. Data are abstracted to what a property tells apart: a list to
the request it answers and its length, a chart to its number of samples, the boxes
and the edge labels of a plan to the answers they came from.

| module | code | what the model keeps |
|---|---|---|
| `QueryMonitorPage` | `QueryMonitor.jsx`, `QueryResource` | filters, order, search, page; timer, `_.defer`, debounce; requests in a bag |
| `QueryHistoryPage` | `QueryList.jsx` | the same on two requests: the number of queries, then the list if it changed |
| `QueryDetailPage` | `QueryDetail.jsx` | polling until final, frozen snapshots, sparkline samples, drawing once a second |
| `StageDetailPage` | `StageDetail.jsx` | polling; the selection a request takes along |
| `LivePlanPage` | `LivePlan.jsx` | polling; drawing in `componentDidUpdate`, and its exception; boxes that are set again, labels that stay |
| `StatusPanels` | `ClusterHUD`, `StatusFooter`, `WorkerStatus`, `PageTitle`, `Header` | one component with a kind: timer, histories, connection light, dialog |
| `WorkerThreads` | `WorkerThreadList.jsx` | snapshots, grouping, the menus |
| `AuditLogPage` | `AuditLog.jsx` | search fields, the debounced search, the note of the last search |
| `OverviewPage` | `overview/` | two requests a second, the counting store, chart windows, the table of nodes |
| `RunPolling` | `RunStore`, `RunActions`, `CnxnMonitorStore`, `QueryEditor.jsx` | back-off, offline and online, submissions, the error dialog |
| `Collections` | `Array` methods, lodash | lists without an element, bags of requests |
| `RefreshSeries` | comments of the pages | the abstract specification: one series of requests that ends with the final answer |
| `WebClient` | | the constants, the variables and the assumptions on the menus and bounds |
| `WebDisplays`, `WebLists`, `WebHistories` | | the pages in three groups: displays of a query, a worker or the cluster; the monitor and the list of runs; the history and the audit log |
| `WebPages` | | all of them, one open at a time; the properties they share |
| `WebDisplayProofs`, `WebListProofs`, `WebHistoryProofs` | | what the pages of each group keep |
| `WebPagesProofs` | | the theorems about `WebPages` |

Each page is a document of its own, so `WebPages` is a sum: `open` is the page
and never changes, and a property states, page by page, one idea. The three groups
exist for the proofs: the prover's time grows with the definitions in sight.

### Runs

* `web_pages` checks, with up to two clicks per page (one for the history),
  failing and overtaking answers:
  `PollingDoesNotMultiply` (what is on its way or may lead to a request is at
  most one more than what the user did) and `PollingAlive` (a timer is armed or
  an answer that arms it is due); `ImplementsSeries` (the pages of a query and the
  panels implement `RefreshSeries`: one request at a time, and polling ends with
  the final answer and no other); `QuietMeansFresh` (a page at rest shows the
  answer to what its fields say); `SelectAllMeansAll`; `SelectionKept`;
  `ScreenFollowsAnswers` (the stages of the live plan, the threads and the table of
  nodes are those of the last answer); `ChartsInStep` (the charts of a page cover the same time
  and are drawn when a sample comes); `FrozenMeansFrozen` (with auto-refresh off
  nothing changes under the reader's eyes); `BackoffBounded`; `HonestDialogs` (a
  dialog is open only with something to tell and keeps its text).
* `web_live` checks under fairness that the monitor comes to show what the user
  chose (`ShowsChosen`) and the query's pages its final state (`FinalShown`).
* `web_plan_appears` violates `PlanWillAppear`. For a query that is not planned
  yet the live plan page renders "Live plan graph will appear automatically when
  query starts running", and then draws: `getStages` dereferences the missing
  output stage, the exception unmounts the page.

Where the code is weaker than one would wish, the property says what does hold,
and the weakness is part of it. A failed request for the number of queries ends
the polling of the history (`numsFailed` in `PollingAlive`). A list stays stale
when the user changed the request while the number was being asked for
(`crossed`), since nothing repairs it. A stage selected during a request is
forgotten when the answer arrives, so `SelectionKept` speaks of selections made
with none on its way. The CPU chart of the overview is shorter by one sample for
every pair of answers that came before any line data. A live plan whose first
request failed is drawn into nothing for ever (`failedFirst`). The sizes on the edges
between its stages are those of the first answer and are never brought up to date
(`first`): a plan node that is in the graph is not drawn again, and its edges are drawn
with it. Histories keep one
sample more than `MAX_HISTORY`. The count of polling failures is not reset by a
success, so the fifth failure raises the dialog however far apart the five were.

Deadlock is not checked: a page that shows the final state stops, and the bounds
on clicks, changes and requests stop the rest.

Fairness (`web_live`): callbacks that are due run (weak fairness), because the
event loop takes them in turn and a request is answered or fails; a request that is
sent over and over is answered now and then (strong fairness), without which a
coordinator that never answers would refute everything. Nothing is assumed of the
user or of the progress of the query.

### Proofs

The theorems are about `WebPages!Spec`, for any menus, stages, delays and bounds that
satisfy the assumptions of `WebClient`: the menus are finite and hold the values the
pages start with, stages are numbers and 0 is one, 1 <= `Fast` <= `Slow` <= `Limit`,
a chart's window is not empty. The menu of error types must not be empty: the code
compares the number of marked types with the number offered, and with none offered
it would take none marked for all. Every safety and action property of the run
`web_pages` is proved:

| theorem | property | the argument |
|---|---|---|
| `PagesKeepOneSeries` | `ImplementsSeries` | each page is seen through three values: its requests on their way, whether its timer is armed, whether it was told the end. Exactly one of "waiting", "armed" and "ended" holds (`One`), and every step keeps them, answers or fires (`Moves`); the refinement follows from these two alone |
| `PollingStaysSingle` | `PollingDoesNotMultiply` | requests, deferred and debounced calls and armed timers, added up, are at most one more than the clicks (`MonitorPaced`, `Paced`). The monitor's requests are a pool of which only the size matters; lemmas about adding to and taking from a pool give the size |
| `PollingNeverDies` | `PollingAlive` | a timer is armed or something is on its way that arms it, or, in the history, a request for the number of queries has failed (`MonitorAlive`, `Alive`, `HistoryAlive`) |
| `PollDelayBounded` | `BackoffBounded` | every delay stays in its range, because a delay that doubles is taken from the last one and cut at the limit (`Delays`) |
| `QuietShowsTheChosen` | `QuietMeansFresh` | `HistoryFresh`: as long as nothing failed, overtook or was changed between the two requests, either a call is pending that will ask again, or every request for the number on its way asks for the present choice and the last list that is shown or on its way answers it (`Fetched`, an invariant of the queue of requests). `AuditInv`: the note of the last search is the fields', or a search is due |
| `SelectAllStaysRight` | `SelectAllMeansAll` | the marked filters are a list of distinct entries of the menu (`Listed`), so that its length tells whether it covers the menu, which is what the code looks at |
| `ChartsStayInStep` | `ChartsInStep` | `SparkInv`, `PanelsDrawn` and `Covers` count the samples of each chart, relative to what came before the first answer |
| `AnswersAreFollowed` | `ScreenFollowsAnswers` | `GraphInv` (the answers that the boxes and the labels come from), `SnapshotInv` (the groups are those of the last snapshot), `Tabled` (the table and its sums) |
| `DialogsAreHonest` | `HonestDialogs` | `LightInv` and `Told`: the dialog's text is fixed when it opens and an error is kept while it is open |
| `SelectionStays` | `SelectionKept` | a request carries the selection made before it (`Carried`) |
| `FrozenStaysFrozen` | `FrozenMeansFrozen` | by cases of the page's steps |

Each group of pages has one lemma for the initial states, one for the steps and one
for the rest (`DisplaysStart`, `DisplaysStep`, `DisplaysRest` and so on); the
conjunction of what the groups keep is `PageKeeps`, the invariant from which
`WebPagesProofs` derives everything. `ShowsChosen` and `FinalShown` are liveness
properties and only model-checked.

## 5. Web UI: query editor and date range picker

| module | code | what the model keeps |
|---|---|---|
| `SchemaTree` | `SchemaTree.jsx`, `SchemaActions`, `SchemaStore` | trees on a heap, shared by reference; blank-and-redraw timers; favourites |
| `TablePreview` | `TableStore`, `TabStore`, `TableActions`, the previews | tables by name, answers by version, the tabs |
| `AddCatalogForm` | `AddCatalog.jsx`, `addcatalog.jsx`, `ConnectorStore` | rows shared with the store's templates, errors, uploads, submission |
| `QueryText` | `QueryEditor.jsx`, `QueryStore`, `MySavedQueries.jsx`, `FluxCollection.js` | the text in two places, catalog and schema, samples |
| `ResultsPreview` | `ResultsTable.jsx`, `ResultsPreviewStore` | pages of one file of results, the tab |
| `CollectionPage` | `CollectionTable.jsx`, `CollectionActions` | the collection, its pages, the star in the list of runs |
| `DatePicker` | `daterangepicker.js` and the handlers bound to it | every handler, the constructor and the two pages that make a new picker at every focus (`QueryList.jsx`, `AuditLog.jsx`), on a calendar of months of equal length; its own `SpecPicker` |
| `EditorClient` | | the names, the bounds and the variables |
| `WebEditor` | | the six parts of the editor, one followed at a time; their properties |
| `MCWebEditor` | | the instance for TLC: a behaviour of the editor or one of the picker |
| `WebEditorProofs`, `DatePickerProofs` | | the theorems |

The editor and the picker are separate programs that share only the conventions, so
each has its specification; TLC follows both in one run.

`web_editor` checks that a list holds an item once (`ListedOnce`); that a component
agrees with its store (`ViewAgreesWithStore`: the tree comes back after it was
blanked and is the store's tree once its timers ran, Run sends the text on the screen,
the context is never the catalog of one choice with the schema of another); that
what is shown was asked for last (`ShowsWhatWasAsked`); that a catalog form is sent
only when complete, and a refusal is explained (`FormSound`); and that the picker
holds an ordered range within its limits, complete when it is closed and then what
the page filters by, with linked calendars in a row (`PickerSound`). The picker is
checked with the options of the two pages that use it and with two more that switch on
everything else.

The pages call `$.fn.daterangepicker` whenever their field gets the focus: the old
picker is removed and the constructor takes the range from today, from the page's
options (audit log) or from the text of the field (history), where it does not ask
whether the text is a date. `focused` models this, with any text in the field and,
for the audit log, with the format of the coordinator known or not yet known. A date
that is not valid is the value `Invalid`, which no comparison holds of, as in moment.js.
A picker that is replaced while it shows leaves its listener on the document: the next
press of the mouse in the new one, outside of the calendars, makes the old one hide
(`orphanHides`), which reports its own range to the page and removes the listeners of
both; from then on the new picker does not close on a click outside.

As above, the exceptions are in the properties: answers that overtook another
(`overtaken`, `disturbed`) in the tree, the results and the collection, which
nothing puts right; a range of a preset, which is taken without the limits; a
text typed into the page's own field, which the page filters by as it stands. The
picker's range has an invalid date only if the user typed a range with one into the
field of the history, or came to the field of the audit log before its format was known
(`soiled`): then the constructor makes a picker of no date, and neither its limits nor
its order are checked.

### Proofs

All five properties are proved, `PickerSound` of `SpecPicker` and the others of
`WebEditor!Spec`, for any names, texts, files, sample queries, page sizes, calendar and
bounds that satisfy the assumptions: the empty text and the one that is shown first are
texts, the empty name is none, a page has at least one row, there are two lists of
files, there are enough names of schemas to give each catalog one of its own; for the
picker, that a day has a slot, a month a day, and the calendar a month, that the whole
of the one day on which the pickers are made is within the limits, and that the
predefined range is one that the limits do not empty (it starts before the last time
and, if it ends on the first day, not before the first time). The last two are needed:
the constructor compares the predefined range with the limits by days only, and cuts
today's range at each limit by itself, so that limits or presets outside of the
assumption would give a range with its end before its start. The pages of the web UI
use neither. A page that stays open over midnight is not modelled.

| theorem | property | the argument |
|---|---|---|
| `ListsRepeatNothing` | `ListedOnce` | a favourite is appended only where the list has none like it, and what `RemoveAt` leaves of a list without repetition has none (`FavouritesOnce`). The samples go through `Collection.add`, which is recursive: `AddingExists` and `AddIsAdding` show by induction that the recursion defines a function, and `AddedOnce` that it keeps the uuids distinct (`EachOnce`) |
| `ViewsFollowTheirStores` | `ViewAgreesWithStore` | `TreeInv`: all references are to trees of the heap, a blank tree has a timer, and the last timer brings the tree of the store unless an answer overtook it (`BringsStore`). `TextInv`: the two copies of the text are equal; every context, that of the session and of the runs too, is whole (`Whole`), which needs that an aliased session context equals the editor's and that the menu of a catalog holds only its schemas |
| `ShownIsWhatWasAsked` | `ShowsWhatWasAsked` | `TableInv`: the active table is the first, is the chosen one, and its data are its own (`Shows`). `ResultInv`: the last request asks for the chosen page, or there is none and the rows are its answer (`InSight`). `CollectionInv`: the rows that the table counts are at most those that came, because the answer remembers the request it is for |
| `FormsAreSound` | `FormSound` | `FormInv`: the lists of rows and of messages have the same length (`Paired`) through every edit, upload and change of connector, a posted form is complete, and a refused one has a message or a file that the connector does not ask for (`Explained`) |
| `PickersAreSound` | `PickerSound` | `PickerInv`: besides the promise, the range to which `cancel` and `hide` return is whole and sound, the texts and the range of an abandoned picker that the page may still be told are times or invalid ones that soiled it, the predefined ranges are in order, and an open picker has its months linked and, with hours, an hour to show. The constructor has this for any text in the field and any options of `Options`, so every new picker does. `PickerBase` is what holds halfway through a handler, where the start has moved and the end has not yet; each function of the picker has a lemma that says what it keeps, and the handlers are compositions of them |

`EditorKeeps` is the conjunction of the invariants of the parts and gives the four
theorems of `WebEditorProofs`.

## 6. Web UI: computations

Pure functions are checked on all inputs of a small set. In `WebAlgorithms` an
initial state chooses a topic and an input; the one step of the topic computes the
output; an invariant compares it with a definition that does not use the
algorithm.

| module | code |
|---|---|
| `Moment` | `moment.js`: comparison, difference, addition, week numbers, parsed dates, durations, spans in words; the month sheet of the picker |
| `PlanGraphs` | `getStages`, `findStage`, the operator graph of `StageDetail.jsx`, the stage graph of `LivePlan.jsx`, `getChildren` |
| `QueryLook` | colours, titles, progress, buttons and task filters (`utils.js`, `newUtils.js`, `QueryHeader.jsx`, `RunsTable.jsx`) |
| `WebFormats` | printed and parsed sizes, durations and counts, histograms, sorting, stack traces, query texts, table names |

* `CalendarConsistent`: two moments are ordered in one way in each unit; a
  difference in months and rest, added, gives the other moment back and is maximal;
  weeks belong to one week year and setting a week again changes nothing;
  a longer span never reads shorter; the sheet of a month holds the month.
* `ParsedOrRefused`: a date text that is accepted yields a moment with the parts it
  names. Two kinds of parts are accepted without being named by the moment, and the
  property says so: day 0 of the year, which the code takes for no day at all, and a
  month or a day of the month beside a day of the year, which overwrites them. A text
  with a year is refused only if no day of that year, or no hour, is what it names.
* `LookHonest`: buttons, colours, titles and progress of a query agree with its state; a
  failed run shows its error and nothing else, wherever its output went, and only its
  owner may kill it, before it is over. Runs are taken in all states of `JobState`: one
  that waits for resources, is dispatched, planned, started or finishing has neither a
  progress bar nor a button to kill it, as `RunsTable.jsx` knows four states of those
  that are not over. A task is under exactly one filter besides ALL, except for the
  three states FLUSHING, CANCELED_TO_RESUME and RESUMABLE_FAILURE, which are under none.
* `PrintedFaithfully`: printed numbers are right to half a percent. Sizes and durations
  read back as they were printed, except for sizes in KB (`parseDataSize` reads the
  coordinator's kB) and durations in weeks, which `parseDuration` does not know; no page
  reads what a page has printed. Histograms, sorting, query texts, task ids, names and
  stack traces lose nothing.
* `PlanDrawnWhole`: all stages and tasks, and all operators but those below a plan node
  of a type that `getChildren` does not know; when two sources of a node share a
  pipeline, some operators below them are missing, and only the chains that are drawn
  are claimed to be in order.

What the definitions show besides: a title may say RUNNING in the colour of BLOCKED
(a query without drivers), and a label of the live plan keeps the statistics that the
edge was drawn with.

The inputs are the turn of two years (a leap year and one that is not) with the ends
of short months; all combinations of the fields that are read of a query, a run and
a task; the numbers around each unit's limit; all lists of at most five of four
values; all trees of four plan nodes and of five stages.

## 7. Bounds

| run | constants | why they are enough for the question |
|---|---|---|
| `page_transport` | 2 pages, 3 exchanges, `MaxErrors` 2 | the current request overlaps two stale ones; a retry after a retry |
| `page_transport_live` | 2 pages, 2 exchanges, `MaxErrors` 2, no recovery, `AcknowledgePages` off | a lost request and its successor; pages leave the buffer only by the token of the next read |
| `broadcast` | 2 consumers, 2 pages, 1 driver | see above |
| `broadcast_drivers` | 1 consumer, 3 pages, 2 drivers | drivers race one another |
| `broadcast_live` | 2 consumers, no pages, 1 driver | the last abort races updates and the end of the output |
| `web_pages` | 2 clicks (history 1), 2 values per menu or field, 3 changes of a query, 4 failures, 6 answers | a click meets a request on its way and a second click the effects of the first; `Attempts` 3 lets the dialog open and failures follow; `MaxHistory` 2 and `Window` 2 are passed |
| `web_live` | the same with 1 click in the monitor | an answer to the old choice comes last |
| `web_editor` | 3 to 6 clicks per part (4 in the picker, after the first focus), 2 requests, 2 trees, 2 rows, 2 sample queries; in the picker 3 months of 2 days of 2 slots, limits within the calendar, the first of them within a day, a preset that it cuts | a second click or answer while a timer or a request of the first is under way; a full range, its change and a close in the picker |
| `web_algorithms` | see section 6 | each branch and each limit of a unit is passed |

`MaxErrors` stands for the time after which `Backoff` or the retry policy gives
up. Pages are distinct values that the producer enqueues once, so a duplicate or
a loss shows in the histories. In the web modules every bound is a constant whose
declaration says so.

## 8. What is not modelled, and the plan

Not modelled in the parts above: the snapshot path of `enqueue` and the markers;
`OutputBufferMemoryManager`; the state `ABORTED` of a buffer (`SqlTask` only fails
or destroys it); task instance ids; sizes of pages and responses. Of the web UI:
markup, entry points and thin wrappers of `fetch` and of the Flux library; drawing
by d3, dagre and ECharts; the completion lists of the editor's text field (whose
`render` also starts another interval timer each time it runs,
`QueryEditor.jsx:344`); of `moment.js` the token parser and formatter, locales and
time zones; of the picker the single-date mode, minutes and the 12 hour clock.

The plan, in this order:

1. *Output buffers.* `OutputBufferMemoryManager` (a driver that waits is woken;
   liveness). `PartitionedOutputBuffer`, `ArbitraryOutputBuffer` with its master
   buffer (each page goes to exactly one consumer) and `LazyOutputBuffer` (calls
   before the first update are replayed), the last one as a refinement of an
   abstract output buffer that all of them implement.
2. *Exchange client.* Several clients, the queue, the size limit, `pollPage` and
   the end-of-stream marker; each page of each client is polled once, and the
   exchange finishes exactly when all its clients have. It uses `PageStream` for
   each client, which composes it with the transport.
3. *Task.* `SqlTask` and `TaskStateMachine`: creation, update, cancellation and
   the final task info, composed with the output buffer.
4. *Recovery.* `QueryRecoveryManager` and its restore timer; the marker protocol
   of `MultiInputSnapshotState` with a consistent-cut property;
   `QuerySnapshotManager`.
5. *Resources.* `MemoryPool`, `InternalResourceGroup`,
   `InMemoryTransactionManager`.
6. *Proofs.* The main safety property of each new module.

Every invariant and action property of a passing run is proved, but those of
`web_algorithms`. Left to TLC are: those, since their modules declare `RECURSIVE`
operators (trees, numbers and texts are read to any depth), which the prover cannot
reason about; the liveness properties
(`ImplementsFairStream`, `EventuallyDelivered`, `EventuallyFinished`, `ShowsChosen`,
`FinalShown`), because the prover has no rules for fairness; and the three properties
that the code violates. A recursive *function* is not out of reach: that of
`Collection.add` is shown to exist and to keep its promise by taking the least number of
models for which it would not. Out of reach of both: the planner
and the operators (sequential algorithms on unbounded data), connectors and file
formats (I/O), and time itself (rates, decaying counters of the failure
detectors).
