# geolake in TLA+

geolake serves gridded environmental data: a client posts a query, the API
writes a request into a database and a message into a queue, an executor turns
the message into a file with the help of a Dask cluster, and the client fetches
the file. This directory specifies that machinery, checks it with TLC and proves
its main invariants with TLAPS.

Contents: 1 inventory, 2 modules and how they correspond to the code, 3 runs,
4 proofs, 5 findings, 6 what is not modelled, 7 plan.

## 1. Inventory

| part (source) | state | operations | interacts with |
|---|---|---|---|
| API, requests and downloads (`api/app/main.py`, `endpoint_handlers/{dataset,request,file}.py`) | one endpoint at a time: coroutines that never await | execute, workflow, synchronous query, status, size, uri, download | commits rows, publishes messages, reads rows and files |
| Request tables (`datastore/dbmanager/dbmanager.py`) | `Request.status`, `Request.fail_reason`, `Download` rows | `create_request`, `update_request` (a query, then one commit, or two when DONE), getters (one transaction each) | written by API and executor, read by the API |
| Broker (RabbitMQ, external) | `query_queue`, per consumer what it has not acknowledged | declare, publish, deliver (prefetch 1), ack, requeue, consumer timeout | between API and executor |
| Executor (`executor/app/main.py`, `messaging.py`) | main thread in pika's loop, one thread per message, a Dask cluster, acknowledgements handed from thread to thread | `on_message`, `handle_message`, `retry_until_timeout`, `maybe_restart_cluster`, `ack_message`, `process` | all of the above and the downloads volume |
| Datastore (`datastore/datastore/datastore.py`) | cache of cubes in memory, filled at the API's start | `_load_cache`, `get_cached_product_or_read`, `estimate`, `product_details`, `query` | catalog, drivers |
| Intake drivers (`drivers/intake_geokube`) | a cache file per product (`netcdf_with_ancillary`) | `read`, `read_chunked`, `_open_dataset` | data files; used by API and workers at once |
| Workflow (`datastore/workflow/workflow.py`, `geoquery/task.py`) | a graph of tasks, the `is_verified` flag, the result so far | `from_tasklist`, `add_task`, ..., `verify`, `traverse`, `compute` | networkx, Datastore |
| Authentication and access (`api/app/auth`, `validation.py`, `datastore.py` eligibility) | none; reads users, roles and the catalog, several times per call | key and role checks, listing, details, metadata | request tables, catalog |
| GeoQuery (`datastore/geoquery/geoquery.py`) | none | validators, two renderings, `parse` | API (body, row, message), executor |
| Result files (`persist_datacube`, `persist_dataset` of the executor) | the directory of a request | write, archive, remove | Datastore, downloads volume |
| Decorators, encoders, metrics, exceptions | none | | |

What makes these hard, and what each part must get right:

* **Executor.** A request is settled by three effects in three systems: the
  status commit, the Download commit, the acknowledgement. A crash, a lost
  connection or an exception may fall between any two. The acknowledgement is
  executed by another thread than the one that works; the main thread may die
  while handler threads live on; the cluster is closed after a timeout when the
  next message may already be running on it. It must not forget a request, must
  not settle one without its result, and must work on one request at a time.
* **Request tables.** Status and Download are committed apart, so a reader can
  see one and not the other; a redelivery overwrites the status of a request
  that was finished. The row is loaded first and only the columns that have changed
  are written. `fail_reason` must belong to the status beside it.
* **API.** Row first, message second, with no transaction around the two; each
  answer is put together from several reads; the synchronous query blocks the
  only event loop of the process.
* **Broker.** The queue exists only once the executor has declared it, and is
  not kept when the broker's pod is replaced.
* **Datastore and drivers.** Three copies of a product: the data, the cache
  file, the cube in memory. None is refreshed by another. The cache file is
  written without lock or rename by whichever process comes first, and a process that
  is killed or fails while it writes leaves part of it.
* **GeoQuery.** A query is rendered once for the row and once for the message and
  parsed again, by validators that move names about: all renderings must mean one
  query. The message is cut at a separator that JSON text may contain.
* **Result files.** The names are made of the request, so a second attempt writes
  over what a killed or failed one has left; the result must be whole and nothing else
  must stay.
* **Access.** An answer is made of several reads of a catalog that may be edited,
  and eligibility is decided by two functions that must agree. The details of a product
  embed a description of its whole dataset, read after the role was checked.
* **Workflow.** The flag `is_verified` must never be stale; the computation must
  visit every task once, after what it uses; `compute` threads one result
  through the whole order.

The list of hazards, each at its line and with the properties that would show it
going wrong, is in `PROJECT.json`.

## 2. Modules

```
Environment              requests, executors, faults, the downloads volume
  DBManager   Broker     tables / queue, one operator per transaction or call
     Api      Executor   the two programs
        Geolake          composition, properties, fairness, refinement
          |-- RequestLifecycle   (abstract: what geolake promises)
          |-- DocumentedClaims   (what its texts claim and it does not do)
          |-- MCGeolake          (instances for TLC)
          `-- GeolakeProofs <- GeolakeSettlement
                            `- GeolakeTables <- GeolakeFaults   (proofs)
Datastore <- DatastoreProofs            catalog, data, cache file, cache in memory
Workflow  <- MCWorkflow, WorkflowProofs
Access    <- MCAccess, AccessProofs     who is shown what of the catalog
GeoQuery  <- Processing <- ProcessingProofs   a query on its way; the files made of it
```

### Environment, DBManager, Broker

A request is its primary key, a number: the database numbers requests in the order of
creation and the API publishes in that order, so the queue can be a set whose head is
its least element (a requeued message returns to its place). `DBManager` has one
operator per database transaction another process can see. `update_request` is three:
`RowOf`, the query that loads the row, `CommitStatus`, the first commit, and
`CommitDownload`, the second; its caller takes a step for each. SQLAlchemy's UPDATE sets
the columns whose values differ from the loaded ones, so `CommitStatus` is given the row
as it was loaded and leaves alone what it does not change: assigning None to a
`fail_reason` that was None when it was loaded writes nothing, whatever another executor
has put there since. (Two errors may have the same text or not, so a new error over an
old one is either.) A Download row is reduced to its `location_path`: a path or None.
`DownloadOf` returns any of several rows, because `uselist=False` fixes no order.
`Broker` is external: it does what the calls in the repository ask for (`queue_declare`,
`basic_publish` without mandatory flag, `basic_consume` with `prefetch_count=1`,
`basic_ack`). `accepted` is a history variable: the messages that were routed and not
lost with the broker's pod.

### Api

`api.pc` is the place of the one running endpoint. Its steps are split at every
database or broker call, since another process can act there and nowhere else:
`Register`/`Publish`, `SyncPoll`/`SyncFetch`, `GetUri`/`GetUriStatus`,
`Download`/`DownloadFetch`. `reply` is the last answer. `ApiFails` kills the
process, or lets a call raise, between two steps.

### Executor

`main` is the main thread, `pc[e][r]` the place of the thread that handles `r` (its
labels are listed at the head of the module), `session[e][r]` the row its
`update_request` has loaded, `timedOut[e]` the threads whose local `status` is TIMEOUT,
`job[e][r]` its Dask task (with the outcome of `process`), `ackPending[e]` the
callbacks handed to pika's loop, `cluster[e]` the state of the Dask cluster.

| code | actions |
|---|---|
| `__main__`, `listen`, `subscribe` | `StartExecutor`, `MainThreadDies` (nothing catches a lost connection), `ProcessExit` (Python waits for the handler threads) |
| `on_message` | `OnMessage` |
| `handle_message` | `Begin` (parsing), `SelectRequest` and `ReportRunning` (the first `update_request`), `Submit`, `ScheduleAck` |
| `retry_until_timeout` | `GetResult` (the future is done: a result, an exception, a cancelled task), `GiveUp` |
| the second `update_request` | `SelectRequest`, then `ReportDone` and `InsertDownload`, or `ReportFailure`, or `ReportTimeout` |
| `ack_message` | `AckMessage` |
| `maybe_restart_cluster` | `CloseCluster`, `CheckCluster`, `CreateCluster` |
| `process` and `persist_*` on a worker | `WorkerStep`: `OpenResult`, which truncates an old file under the same path, then `ProcessReturns` |
| environment | `Crash`, `ConnectionLost`, `BrokerRestart`, `ClusterFails`, `ThreadDies`, `ConsumerTimeout` |

Columns that do not fit their value (`size_bytes`, `location_path`,
`String(1000)` of an error text) are outcomes of their own (`huge`, `longerror`):
the commit raises, the thread ends, the message stays unacknowledged. `Poison`
are requests whose message does not parse.

### Geolake and RequestLifecycle

`Geolake` interleaves API and executors over the shared tables, queue and files.
`RequestLifecycle` is what geolake promises: create, attempt, finish, deliver,
settle, and nothing after settling. The refinement maps `state` to the status
column, `results` to the requests with a Download row and `settled` to the
requests that were routed and have left the broker.

### Datastore

API and workers read products through the driver: `TestCache`, `LoadPickle`,
`BuildCube`, `OpenCacheFile`, `DumpPickle` are separate steps, because other processes
act in between. A cube is reduced to what admission looks at: empty, within the limit,
too large. `DriverFails` is any of these calls raising; a `pickle.dump` that raises
leaves part of the file, which the `with` statement closes. The start of the API is
`StartApi` (`dataset_list`), `ListDataset` (the `product_list` of each dataset, when its
turn comes) and `LoadProduct`. `entry`, `data` and the cache files are changed by an
operator, a bounded number of times; to give an entry another `path` is to change its
data. `causes` is history: which unusual event has happened, so that the properties can
say what a disagreement is due to.

### Access

`call` is the running endpoint, split at each read of the catalog: `dataset_list`,
`dataset_info`, `product_list` and every `self.catalog(...)` of the details are
actions of their own, and an operator changes a dataset, a product's role or a
user's roles in between. The metadata and description of a product are abstracted to
the role they name; the details of a product carry what its own entry says (`entry`)
and what `dataset_info` says of all products of the dataset, whatever their roles
(`info`). Authentication is one step, `Call`: the middleware reads
the user once and the call goes by what it found. `IsRoleEligible` and
`IsProductValid` are the two rules of eligibility. `moments` is history: the
catalogs and roles that were in force at some time of the call. No state survives a
call and every catalog is an initial state, so a behaviour is one call.

### GeoQuery and Processing

`GeoQuery` is pure: an object is a function from names to values with its `filters`
apart, and `Parse`, `Json` and `OriginalJson` are what the constructor,
`query.json()` and `original_query_json()` do to it. `Processing` takes every body
and every map request through them, and then through `process()`: `persist_datacube`
(`OpenCube`, `CloseCube`) and `persist_dataset`, one action per file that is opened,
closed, archived or removed, because the executor may be killed between any two, and any
of the calls may raise (`PersistFails`: no space, data that cannot be read), which
leaves on the disk what is there. A value "split" stands for a name or a value whose JSON
contains `MESSAGE_SEPARATOR`: `Message()` then finds too many parts, and the request stays
`"unread"` (one of `Poison` in `Executor`). A
file holds the data that went into it: pairs of a datacube and the version of the
product's data it was read from. `Executor` has the same code as one outcome
(`OpenResult`, `ProcessReturns`); `Processing` is that outcome taken apart, without
the machinery of deliveries around it.

### Workflow

Building, verification and computation as calls in any order; the executor makes a fresh
workflow per request, but its methods are chained by hand in the tests and may be called
in any order. A cube is its history, the sequence of tasks that made it, so that "which
result was handed to whom" can be stated. networkx is external.

### Conventions

Definitions marked "Mutant" are faulty variants of the definition that follows
them, used only to see that a property notices the fault; no specification uses
them. `map` in `PROJECT.json` gives the lines each definition stands for.

## 3. Runs

Sizes are distinct states; two workers need 2 to 150 seconds per run.

| run | instance | shows | states |
|---|---|---|---|
| `one_executor` | 2 requests, 1 executor, any 2 faults of all six kinds, every outcome | no routed request is lost, a settled DONE is complete, why (`SettlementInv`), what a torn task and a closed cluster are due to; reasons fit statuses; implements `RequestLifecycle` | 205,466 |
| `two_executors` | 2 requests, 2 executors, 1 fault, results that fit their columns or not | messages, threads and acknowledgements never meet (`DeliveryInv` and its corollaries), duplicate Download rows need faults, only a thread that has outlived its connection writes a settled request | 1,060,176 |
| `clients` | 2 requests (the second does not parse), 1 executor, any 1 fault, all endpoints | which inconsistent answers need a fault; routed messages are settled; a synchronous query returns | 283,053 |
| `workflow` | 4 tasks, 3 kinds, at most 2 uses each | flag, traversal, order, chains | 132,736 |
| `datastore` | 1 product, 1 worker and the API, 3 edits, 2 faults (a killed process, a read or dump that raises) | why copies of a product disagree, what an estimate is worth, that the API comes up | 1,297,164 |
| `access` | 2 datasets of 2 products and 1, 1 user and 4 kinds of strangers, 1 change | what is decided is decided as at one moment; the rules of eligibility agree; nobody is listed, or given the details of, what was never for him | 1,104,568 |
| `processing` | bodies of up to 5 names, with and without the separator, 3 datacubes, 3 deliveries, any failing calls, 1 change of the data | renderings keep the query; results are whole, attempts agree, nothing is left behind | 309,846 |
| `claim_*` (5) | smallest instance | section 5 | |

**Bounds, and why they are enough.** `MaxRequest = 2`: the interesting meetings are of
two requests (a thread past its acknowledgement and the next message; a cluster closed
under the next task; a requeued head before a waiting message). `MaxFaults = 2` in the
one-executor run allows a fault during the recovery from another. With two executors one
fault is enough to move a message from one to the other while the first still works on
it; its kinds are those that move messages or end threads (a failing cluster, and
tasks that raise, stay in the runs with one executor); the proofs of section 4 remove the bounds for the
invariants of the request path. One product is enough for `datastore`: products share
nothing but the order in which `_load_cache` reads them, and the proofs are for any
number. `access` makes one change because its property says what one change can do (two
can tear a decision: a listing may show a product of before the first beside one of
after the second); two products in a dataset let the search for the first eligible one
go on after a miss. Three datacubes give all of `persist_dataset`'s endings and an
archive whose removal can be interrupted in its middle; three deliveries let a second
attempt be killed over the remains of the first. Four tasks allow a branch and a chain
at once, and every cycle up to length four. `MaxEdits`, `MaxFaults`, `MaxUse` bound
counters or sets in the guards only.

**Symmetry** is used for executors and task ids, which no definition names, and
only in runs without liveness properties.

**Deadlock** is not checked: clients may stop calling, requests, faults and edits
are bounded, and a system at rest is a legal end. Progress is what the liveness
runs are for.

**Fairness** (`Geolake!Fairness`): weak fairness of every endpoint step (the event loop
runs), of `StartExecutor` (Kubernetes restarts the pod), `OnMessage` and
`ConsumerTimeout` (the broker delivers, and closes channels that never acknowledge),
`AckMessage` (pika's loop runs its callbacks), `ProcessExit` and each `ThreadStep`
(threads are scheduled). Nothing is assumed of clients, faults and Dask workers: a task
may hang for ever, and `retry_until_timeout` gives up on it. `Datastore!Fairness`: the
API process is restarted and runs, driver calls return, a worker that has read reports.
Faults are finitely many, as everywhere: data that can never be read are `"broken"`
data, not a driver that raises for ever. The instance of `clients` has everything that
can hold a message up: one that does not parse, results and error texts over their
columns, a broker that loses its queue. `AcceptedIsSettled` says exactly when that
excuses a message: `HeldUp`, that is, the message or one before it is held by a live
consumer whose thread is gone, or will be, for a reason that the next delivery meets
again; nothing else may hold it up, and never a message behind it. `ApiComesUp` has a
condition, that no product stays unreadable, which is the exact weakness of
`_load_cache`.

**What the less obvious properties say**

* `LostJobHasCause`: a task is torn from under a waiting thread only by a failed
  cluster or by the close that follows another request's TIMEOUT. The latter
  needs no fault: the acknowledgement is handed over before
  `maybe_restart_cluster` runs, so the next request may be on that cluster.
* `DuplicateDownloadsNeedFaults`: at most one more row per fault.
* `PartialFileNeedsFault`, `UriMeansDone`: the separate reads of an endpoint give a
  consistent answer as long as no redelivery reprocesses a finished request.
* `LateWriterIsStale`: a settled request may still be written, by a handler thread
  that has outlived the connection of its executor while somebody else processed the
  message; an executor that is connected never does. It is an action property, and
  prefetch, the place of the hand-over and the end of `listen` on a lost connection all
  enter into it.
* `ReasonMatchesStatus` holds with one executor only. With two, one may load the row
  (RUNNING, no reason), the other report FAILED with its reason, and the first one's
  DONE then sets the status alone, since its `fail_reason` has not changed. The
  deployment runs one executor; the property is checked and proved for one.
* `CacheAgreesWithFile`, `CacheFileIsWrittenOnce`, `DamageHasCause`: in memory and
  on disk a product stays what it was when first read; the exceptions are two
  processes that made the file at once, a writer that was killed or failed, and the
  operator.
* `ClosedHasCreator`: closing and creating a cluster are two steps without a lock, and
  only an exception between them leaves an executor that consumes without a cluster.
* `DecisionIsOfOneMoment`: although it is made of several reads, what an endpoint
  decides (a listing, a refusal, whose details) is what one reading at one moment would
  have given, or a `KeyError` for a name that has gone. What the details then say is read
  after the decision, in two parts, and a single edit does tear that: the product may
  have been public when its role was asked for and internal in both parts, or in that of
  the dataset only. `PartsFit` says which combinations are possible: never a description
  of the dataset that is older than the product's own entry.
* `ListedHasDetails`: whoever is refused every product of a dataset does not find it
  in the listing, except for a `role` key without a value, which the listing takes
  for public and the details for a role nobody has.
* `ShownWasAllowed`: what remains of the two when the catalog is edited any number of
  times during a call. Two edits are enough to tear a decision (a dataset of before the
  first beside one of after the second) or to answer `AuthorizationFailed` for a dataset
  of which at every moment some product was open: one edit closes the product not yet
  read, when another has opened the one just refused. A product that is listed, or whose
  details are given, was nevertheless open to the caller, at one moment of the call,
  under the roles he was authenticated with. This is not said of the description of the
  dataset that comes with the details: `dataset_info` has no filter and shows the
  metadata of all products of the dataset to whoever may see one of them
  (`datastore.py:262, 315`); of that the property says that it is of one moment. The run
  checks it for one edit, the theorem for any number.
* `RowKeepsQuery`: submitting the query column of a row again asks for the same data;
  the exceptions are filters that are null, a filter that is itself named `filters`, and
  names beside a `filters` member.
* `MessageKeepsQuery`: the executor works on the query the API accepted, unless its JSON
  holds the separator; then, and only then, the parsing of the message raises.
* `AttemptsAgree`: while the data stay the same all attempts that are neither killed nor
  met by a failing call end alike, so the rows of a redelivered request all name one
  complete file. An attempt in which a call fails ends the request as FAILED, also when
  another had been DONE.
* `ResultIsAsEstimated`: an admitted request comes to an empty or too large result
  only after the data changed, and for a product with a cache file only if file
  or entry was touched too.

## 4. Proofs

All proofs are for any number of requests, executors, faults, products, tasks and edits.
`tlapm` checks them to the last leaf; nothing is assumed beyond the named assumptions on
the constants (and `OneExecutor`, where stated).

* `GeolakeProofs`: `Spec => []TypeInv`. `TypeInv` is `TypeOK` and
  `EndpointHasRow`: an endpoint's request must be known to exist before the types
  of its answers follow. Then `Spec => []DeliveryInv`. That a message is in one place
  (`MessageInOnePlace`) and that an executor has one thread before hand-over
  (`OneJobPerExecutor`) are not inductive. They need: a consumer holds at most one
  message (`Prefetched`), what was handed over is still held
  (`HandedOverIsHeld`), a thread before its hand-over works on what its consumer
  holds while it is connected (`WorkingHolds`), only connected consumers hold
  anything (`OnlyConsumersHold`), a dead process has nothing (`DownIsQuiet`), a
  queued message is not in the hands of a connected consumer's thread
  (`NoLateDelivery`), an unpublished request is nowhere (`UnpublishedIsNowhere`).
  `NoSecondThread` follows: `on_message` never starts a second thread for the
  same request in one process. So does `LateWriterIsStale`, an action property: a step
  that changes a row is one of a working thread (`ThreadStepWriter`), which by
  `WorkingHolds` still has its message unless its main thread is gone.
* `GeolakeSettlement`: `OneExecutor => (Spec => []SettlementInv)`, and from it
  `NoLostRequest` and `SettledDoneHasResult`. The strengthening follows the
  handler: what each `pc` has left in the tables (`ThreadKeepsTables`), what was
  handed over is complete (`HandedOverIsComplete`), a finished task has its file and
  a task that is still to open it is not reported (`TaskKeepsFile`), a working
  thread's message is in the broker or lost with it (`WorkedOnIsHeld`), and the row a
  thread has loaded is the one in the table (`LoadedIsCurrent`), so that an UPDATE of
  the changed columns leaves the row as if both had been written. From the last,
  `OneExecutor => (Spec => []ReasonMatchesStatus)`.
  One executor is needed: with two, a thread of a disconnected executor commits
  RUNNING for a request the other has just settled, or truncates its file. The
  repository deploys one (`replicas: 1`, strategy `Recreate`).
  From `SettlementInv` also `OneExecutor => (Spec => RefinesLifecycle)`. Every action is
  shown to be one step of `RequestLifecycle` or none: a commit of RUNNING is an
  attempt, a final commit finishes, `InsertDownload` delivers, `AckMessage` settles.
  The invariant gives what the guards of the lifecycle ask for: who writes a status
  works on a message that is not settled, and what is acknowledged is complete.
* `GeolakeTables`, for any number of executors: a closed cluster has a creator
  (`ClosedHasCreator`); and, from an invariant of the system without faults (a request
  is handled once, by one thread, so a row is inserted once, after DONE),
  `PartialFileNeedsFault` and `UriMeansDone`.
* `GeolakeFaults`, for any number of executors: `DuplicateDownloadsNeedFaults` and
  `LostJobHasCause`. For the first, the Download rows of a request, the threads about
  to insert one and the message that may start such a thread are at most one more
  than the faults (`RowsAreCounted`): a delivery, a commit and the end of a thread
  move one unit from one to the other, a fault adds one. For the second, a thread that
  remembers a TIMEOUT is about to commit it or has (`MarkIsTimeout`), and a request
  with TIMEOUT is over as long as nothing fails (`TimeoutIsOver`), so the TIMEOUT
  that closed a cluster is still there to explain it (`ClusterHasCause`).
* `DatastoreProofs`: `Spec => []TypeOK`, `DamageHasCause`, `CacheAgreesWithFile`,
  `ResultIsAsEstimated` and the action property `CacheFileIsWrittenOnce`. The types need
  to know that a reader has a product and a writer a cube before it opens the file. A
  call that raises at any place of a read keeps all of them (`FailureKeepsInv`); a dump
  that raises has its name among the causes. The next two follow from two facts: while
  nobody has raced, a cache file has at most one maker from the test to the end of the
  dump (`OneMaker`), and the cube the API has kept, the one in the file and the one a
  reader holds are the same (`OneCube`). `ResultIsAsEstimated` needs that the estimate
  is made on the product of the call (`EstimateIsOfCall`), that a worker reads for an
  admitted request and alone (`OneWorker`), and that, as long as nobody has touched
  entry or cache file, an admitted request of a cached product has a file that fits
  (`FileFits`): that file is what the worker will load, whatever has become of the data.
* `WorkflowProofs`: type correctness with every edge inside the graph; a verified
  graph has no cycle and a task at each node; `compute` always has a next task and
  never meets an undefined one; None reaches an operator only in a workflow with an
  operator that uses nothing. `Acyclic` is stated as "every non-empty set of nodes
  has a member that uses none of them", which is the form the traversal needs: the
  unvisited nodes are such a set. `EachTaskOnceInOrder` is kept by calls that extend
  the graph in mid-computation because a task that has returned gets no new
  dependency. `ChainIsComputed` follows from what `compute` does in every graph, to
  hand a task the result of the one before it (`Handed`), and from the order, which in
  a chain is that of the chain (`ChainOrder`): since a task has one user, the only task
  that may follow is the user of the last one. The hypothesis must be one that later
  additions do not disturb, so the invariant is about the visited tasks
  (`VisitedIsChain`), not the whole graph. Counting needs finitely many task ids
  (`IdsAssumption`).
* `AccessProofs`: `Spec => []TypeOK`, `DecisionIsOfOneMoment`, `ListedHasDetails` and
  `ShownWasAllowed`. For the first two properties, `Sees(m)` says of each place of an
  endpoint that what the call has read is what it would have read at the moment `m`
  and what it will read is still so, or gone. Every step of an endpoint carries `m`
  along (`EndpointSees`). An edit replaces the one moment of the call by two, and the
  call sees the first of them or the second, according to whether the edited entry had
  been read (`EditSees`): this is the step a second edit breaks. The parts of the details
  are carried along as the two values they may have (`SeesEntry`, `SeesParts`).
  `ListedHasDetails`
  then needs only that the two rules agree at a moment (`TheRulesAgree`).
  `ShownWasAllowed` has an invariant of its own, for any number of edits: every product
  collected so far was open at a remembered moment, and the description of the dataset
  was that of one (`Remembered`).
* `ProcessingProofs`: `Spec => []TypeOK`, `MessageKeepsQuery`, `RowKeepsQuery`,
  `ResultIsComplete`, `AttemptsAgree` and `NothingLeftBehind`, for any bodies, number of
  datacubes, deliveries and changes of the data. The first two come from lemmas on the
  renderings alone: `Parse` of `Json` gives the query back (`ParseOfJson`) and raises no
  more than it did for the body (`ParsedRaises`, `JsonRaises`), and `Parse` of
  `OriginalJson` does unless a name stood beside the filters or a filter was null or
  named `filters` (`ParseOfOriginal`). `ResultIsComplete` needs, at each label of
  `persist_dataset`, which parts have been written, from what was read, and that they
  are still whole when the archive is made (`Written`). The last two need an invariant
  over attempts: while the data have not changed, what an attempt comes to, unless one
  of its calls fails, is a function of the message and the datacubes (`Outcome`), every
  file left by a killed or failed attempt is one the next attempt makes as well
  (`MayExist`, so the archive and the removal go over it), and a running attempt is on
  its way to that outcome (`OnTheWay`).

A step lemma per action keeps each leaf small; steps that neither finish nor
acknowledge anything are handled together (`QuietStepSettles`).

Every safety property of the passing runs has its theorem. The strengthened
invariants were checked on the instances of the runs before they were proved.

**Model-checked only.** Liveness and everything that needs ENABLED
(`AcceptedIsSettled`, `SyncQueryAnswered`, `ApiComesUp`), which the prover cannot
handle. Induction over data is out of its reach too, and recursive operators disable
its SMT backend: no module uses them.

## 5. Findings

Each is a run that ends in a counterexample to a statement of the repository.

1. `claim_download`: between the two commits of `update_request` the download
   endpoint finds DONE and no Download and raises `AttributeError`; its docstring
   names two other exceptions.
2. `claim_reason`: a TIMEOUT has a reason; the docstring says None for everything
   but a failure.
3. `claim_sync`: a synchronous query published before the executor has declared the
   queue is dropped silently and blocks the API for ever.
4. `claim_precedents`: `compute` hands a task the result of the task before it in
   the order, not of the task it uses; with a branch these differ.
5. `claim_workflow`: `persist_dataset` reads `format_args`, which it assigns for
   queries only: a workflow that evaluates to a Dataset is computed and then fails.

## 6. Not modelled

Sentinel driver (imports a module that is not in the repository), generated
`_version.py`, transformations of arrays, what the filters of a query select (geokube),
the wording of metadata, the list of a user's requests (no state), pydantic's checks of
the types of fields and of the `vertical` dict, sizes in readable units, logging and
metrics, geokube's own caching used by the netcdf, wrf and afm drivers, `add_user`
(called by nothing) and the workers table, `RequestStatus.QUEUED` (no code sets it), an
operator who gives an entry another `metadata_cache_path` (the cache file of a product
has one place here), and the branch of the estimate that is disabled for one dataset. In
`Processing` a file name is a number: names are made of the request and of fixed parts
of the product, so they are the same in every attempt, but for the dates in the names of
one dataset, which follow its data. Wall-clock time: retries and timeouts are choices
that may happen at any time, which includes every timing.

## 7. Plan

Done, in this order: the request path (most important, most concurrent), its
delivery and settlement proofs, Workflow with proofs, Datastore with drivers and
proofs, the refinement proof, the tables, Access, GeoQuery and Processing, the
proofs of what needs a fault, the proofs of Access, Processing and of what Workflow
and Datastore compute.

Next:

1. An abstract specification of what an attempt of `process()` does to the files of a
   request (nothing, or one whole result), implemented by `Processing`, and the
   outcome of `Executor!ProcessReturns` compared with it.
2. `make_bytes_readable_dict` as bounded arithmetic.

The number of separate runs is deliberately small: a new question joins an existing
run when the instance fits it.
