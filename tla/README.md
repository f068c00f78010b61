# Formal model of HFRD

HFRD (Hyperledger Fabric Rapid Deployment) provisions Fabric networks and runs
load tests against them.  An API server in Go accepts requests, has Jenkins do
the work and keeps its books in CouchDB; a Go test module (`gosdk`), started by
Jenkins in Kubernetes jobs, drives the network under test; users work with
pages whose scripts poll the server.  This directory
holds TLA+ models of the parts of HFRD in which concurrency, failures and
ordering decide whether it is correct, TLC configurations that check them, and
proofs that the TLA+ proof system checks.  Paths below are relative to the
repository.

## Inventory

| Component | State | Operations | Interacts with | What is hard |
|---|---|---|---|---|
| Job tracking: `api/resource/routine.go`, `service.go`, `helper.go`, `network.go` and `api/utils/couch/couch.go` | job and network documents in CouchDB; one goroutine per open job with its own copies | trigger (POST, DELETE, ibpcerts), `saveJob`, `waitJob`, `ForceSaveJob`, `ForceSaveNetwork`, `CertsJobDelete`, `init` | Jenkins (trigger, poll, fetch package), CouchDB (documents, views) | concurrent goroutines overwrite whole documents from old copies; requests fail one by one; a restart resumes jobs from the pending view only; builds that stay queued |
| Jenkins client: `api/utils/jenkins/jenkins.go` | crumb and its header field | trigger, poll, fetch; retry after a 403 with a new crumb | all handlers and goroutines | shared crumb written without a lock |
| Request directories: `moduletest.go`, `network.go`, `icpnetwork.go`, `ibpnetwork.go`, `uiutils.go` | a directory per request, its `queueid` file | create, trigger, list | Jenkins, file system | a directory outlives a failed trigger |
| Authentication: `api/resource/auth/jwt` | the key set, an RWMutex, a ticker goroutine | `Init`, `Stop`, `VerifySig`, `updateJWKS` | every request | copied manager, leaked read lock, shared `sync.Once` |
| Goroutine pool: `modules/gosdk/common/utility.go`, `base.go` | iteration index, `throttle`, `errChan`, WaitGroup, counts | `IterateFunc`, `SetRoutineLimit` | every gosdk operation | closing channels under running goroutines, dropped errors, the limit |
| Chaincode invocation: `modules/gosdk/chaincode/invoke.go`, `chaincode/utils` | one `Chaincode` value per thread, the package's `peers` | threads of `IterateFunc`, `InvokeChaincode`, the handler chain with timeout and retry | Fabric peers and orderers | arguments shared by concurrent iterations; a timed-out transaction may still commit |
| Channel operations: `modules/gosdk/channel` | the shared `ChannelConfig.sdk` | create, join, update, query, add organization | Fabric | early returns, dropped errors |
| Config updates: `channel/utilities/configtxlator/update.go` | none (pure) | `Compute` | channel update | version arithmetic over a recursive structure |
| Metrics: `base.go`, `prompush.go` | registry, `stopFlag`, `metricsStopChan` | push, stop | push gateway | global stop flag, one channel closed twice |
| Sample chaincodes: `chaincode/` | ledger keys and a colour index | marbles, fabcar, ... | Fabric | two keys that must agree |
| Pages that list jobs: `api/static/content/js/ibp/network.js`, `existednetwork.js` | two tables, one timer, the form's selections | `updateIbpList`, `submit`, `deleteService`, the change handler of plan and environment | the server's lists, a location service | overlapping calls of one polling function; answers that come late or never; requests that are aborted |
| Pages that show requests: `hfrd.js`, `icp.js`, `ibpv2.js`, `ibp.js` | rows, labels, the submit button | `updateTest`, `updateNet`, `senddelete`, `multipartformpost`, `modalpartformpost` | item lists, uploads | polls that overtake each other; a reload that cuts off other uploads |
| Widget library: `bluemix-components.js` | CSS classes of the page, a cache of symbol files, listeners on the document | dialogs, svgxuse, file uploaders, tabs, menus | the document, transitions, mutation observers | state shared by all widgets of a page; events that may not come |
| Scripts for an on-premises network: `helios_api/manage-apis.js`, `grpc_lib.js` | an undeclared variable, a cached document | `joinNetwork`, `getIBMIdDoc`, `populatePeersOrderers` | a server and database that are not in the repository | callbacks that share a global; stale documents; requests nobody answers |
| Node test module: `joinChannel.js` | files | one chain of promises | orderer, peer | swallowed errors, lost answers |
| Router, filters, pipelines, setup, docker, tests | configuration, files | | | sequential glue |

`PROJECT.json` lists every component with its status and every hazard with the
line where it bites and the property that would catch it.

### What makes each component correct

* **Job tracking.**  The outcome on record is the outcome of the build; every
  pending job is resolved; a network never carries contradictory flags, is
  recorded as deleted only if it was deleted, and never returns to its user's
  list; a deleted document is not written back.
* **Jenkins client.**  A request queues at most one build, retry included, and
  what it returns tells whether it did; once Jenkins keeps its crumb, requests
  are refused only finitely often.
* **Request directories.**  An item in the list has been triggered; a trigger
  that failed leaves nothing that is shown as pending for ever.
* **Authentication.**  Every token gets a verdict: refreshing and verifying
  never block each other for good.  (Keys in use should be those last fetched;
  they are not, see the observations.)
* **Goroutine pool.**  At most `routineLimit` goroutines; all iterations run
  unless an error stops the loop; counts and errors are complete; channels are
  closed after their last send; the call returns and leaves nothing behind.
* **Chaincode invocation.**  An iteration sends the parameters generated for
  it; a request reported as executed is committed; an error of one thread is
  the command's error; timeouts leave no goroutine or registration behind.
* **Channel operations.**  Every channel of a list is handled; a failure is
  reported; concurrent updates do not use each other's SDK.
* **Config updates.**  Applying the computed write set to the original, under
  the version rules of its read set, gives the updated configuration.
* **Metrics.**  What is counted is reported once; stopping one pusher stops
  that pusher and nothing panics.
* **Pages.**  Polling neither multiplies nor ends; what is shown catches up with
  the server and never contradicts itself; what is chosen is what is sent, once;
  every change of a dialog is announced once and in order,
  as far as the stylesheet allows; the panels shown are
  those of the active button.
* **On-premises scripts.**  A route works on what its own request asked for,
  which `joinNetwork` does not always do, and answers it.
* **Node test module.**  The log tells truly whether the peer has joined.
* **Sample chaincodes.**  A marble and its colour index entry agree in every
  state that Fabric's validation can commit.

## Modules

| Module | What it is |
|---|---|
| `Couch` | CouchDB's document protocol as far as the server relies on it (external): revisions, conflicts, tombstones |
| `JobTracker` | the server's handlers, goroutines, restarts; Jenkins as the goroutines see it |
| `ServiceCatalog` | abstract specification: what users may rely on about jobs and services |
| `JobTrackerProofs`, `JobTrackerCatalogProofs` | proofs about `JobTracker`: types and safety; that it implements `ServiceCatalog` |
| `MCJobTracker` | environments for TLC |
| `IterateFunc` | the goroutine pool: caller, goroutines, `throttle`, `errChan`, WaitGroup |
| `WorkerPool` | abstract specification: the contract `IterateFunc` keeps with its callers |
| `IterateFuncProofs` | proofs about `IterateFunc`, with the history variable of `MCIterateFunc`; that it implements `WorkerPool` |
| `MCIterateFunc` | a history variable and values for TLC |
| `InvokeChaincode` | the invoke command: threads that each use the pool by its contract, and the value they share |
| `InvokeChaincodeProofs`, `MCInvokeChaincode` | proofs; which iterations overlap in the largest run |
| `InvokeHandler` | one request of the channel client: caller, handler goroutine, timeout, events |
| `HeliosRoutes` | the routes and the function added to an on-premises network server |
| `JoinChannel` | the Node script that joins a peer to a channel, run any number of times |
| `JwksManager` | the two copies of the key manager, their locks, requests and updates |
| `JenkinsCrumb` | goroutines that trigger builds with a crumb they share; Jenkins as they see it |
| `MCServices` | composes the last four and `InvokeHandler` for TLC; a behavior is one of them at work |
| `ServicesProofs` | proofs about those five and the whole of `MCServices` |
| `ListPage`, `ListPageProofs` | the two pages that list jobs, on top of `ServiceCatalog`; and proofs |
| `StatusPage` | the pages that show the progress of requests, with `GetItems` |
| `UploadPage` | the upload forms and what labels them |
| `LocationSelect` | plan, environment, location and the request between them |
| `Modal` | the dialogs |
| `SvgUse`, `Tabs`, `Menus` | svgxuse; content switchers and tabs; overflow menus and dropdowns |
| `MCPages` | composes the modules of the pages for TLC, like `MCServices` |
| `WidgetsProofs`, `PagesProofs` | proofs about the widgets; about `StatusPage`, `UploadPage`, `LocationSelect` and the whole of `MCPages` |

In every module the operators introduced as "a fault of X" are deliberate
errors in X, each the way a plausible change of the code would go wrong.  No
specification uses them; they exist to show that a property notices.

### JobTracker and the code

A step is one request to CouchDB or Jenkins, together with the local code up to
the next request.  Requests of different goroutines interleave freely and
`Restart` may fall between any two.

| State | Code |
|---|---|
| `jenkins[j]` | what Jenkins would answer about the build of job `j` |
| `jobDoc[j]`, `netDoc[p]` | the documents of `couch.Job` and `couch.Network`: revision, live or not, and the fields that control depends on |
| `pc[j]`, `op[j]` | where the goroutine of `j` is in `saveJob` / `waitJob`, and which call of `ForceSaveJob` / `ForceSaveNetwork` it is in |
| `job[j]`, `net[j]` | its copies, with the revision it believes in |
| `target[d]` | the `ServiceId` of a delete job |

| Action | Code |
|---|---|
| `ServicePost`, `DeleteService`, `IbpCertsPost` | the handlers: `TriggerJob`, then `go saveJob` |
| `PutJob`, `GetJob`, `ReputJob` (and `...Net`) | the up to three requests of a forced save; `SaveReturns` is the return into `saveJob` / `waitJob`, with the revision that is kept or not kept |
| `FindMark`, `FindDone` | looking the network up and setting its flags, before and after the delete build |
| `PollInProgress`, `PollEnded`, `PollError` | one round of `waitJob`'s loop |
| `ServeTar` | fetching the result package of a successful creation or certificate job |
| `CertsJobDelete` | the user deletes the document of a certificate job, which may still be pending |
| `Restart` | the process dies; `init()` reads the view `pending_jobs` |
| `Schedule`, `Build` | Jenkins |

A CouchDB request may also be carried out and fail all the same, when its reply is
lost.  A deletion names its service by id, and nothing asks how far the creation
is; any creation whose build has begun may have made the service.
`FAIL` stands for every result of Jenkins other than SUCCESS.  The names, URLs
and timestamps in the documents are left out; whether the build number and the
network id have been filled in is kept, because the restart reads it back.

### IterateFunc and the code

Each step is one operation on a channel, the WaitGroup or a counter.  `pc` is
the caller's place (`acquire` before `throttle <-`, `check` at the non-blocking
read of `errChan`, `wait` and `drain` in the deferred function); `g[i]` is the
place of the goroutine of iteration `i` (`failed` before its send, `ending`
before `wg.Done()`, `releasing` before `<-throttle`).  Both kinds of run, over a
count and over a time, and a count that does not parse are choices of `run`.
A run with `prefixOffset` (as in channel creation) is a run whose `N` is the
count minus the offset.

### InvokeChaincode and the code

Each thread makes one `IterateFunc` call.  That call is not modelled a second
time: it is an instance of `WorkerPool`, the contract, and `StartIteration`,
`Leave` and `IterateFuncReturns` are steps of it (`Pool(t)!Start`, `Finish`,
`Return`); that `IterateFunc` keeps the contract is what run `iterate` and
`IterateFuncImplementsPool` show.  `invokeFunc` is cut at each access to the
shared `cc` and to the package variable `peers`: `InvokeChaincode` copies the
arguments element by element (`ReadArgument`), sets `peers` (`ChooseTargets`)
and reads function, map and peers (`ReadRest`).  The Go memory model leaves a racing
read undefined; the argument lists of a command all have the same length and a
map is a single pointer, so that the values a racing read can return are those
that were stored.

### InvokeHandler and the code

`caller` is the goroutine that called `Execute`, `handler` the one
`InvokeHandler` starts.  The chain of handlers is cut where it talks to the
network.  An orderer may take a transaction and still answer with an error, a
transaction may be lost, and the event service tells only who is registered
when the block arrives.  `Execute` passes no retry options, and the SDK's retry
handler then never retries, so `BeforeRetry` is not modelled.

### The pages and the code

The browser runs one callback at a time, so an action is one callback: a user's
event, a timer, or the answer to a request.  What interleaves is requests.

| Module | State | Code |
|---|---|---|
| `ListPage` | `call[u]`, `timers`, `tick` | the `await`s of a call of `updateIbpList`; the timers that are set; whether `updateIbpListTick` names one of them |
| | `record`, `listing` | `ServiceCatalog`'s state, which the views of `couch.go` select from (`Done`, `Pending`) |
| `StatusPage` | `truth`, `chart`, `poll`, `cell` | how far a request is; whether its file `chartpath` exists; polls and their answers; a row of the page |
| `UploadPage` | `post`, `disabled`, `label` | uploads in flight, the submit button, `.file-label` |
| `LocationSelect` | `get`, `locReq`, `net`, `options` | requests for locations, the one that `abort()` reaches, the submit button, `select#loc` |
| `Modal` | `animated`, `pending`, `noScroll` | the stylesheet's transitions, listeners for `transitionend`, the class of the body |
| | `last`, `balance` | history: the last event dispatched, the shown less the hidden ones |
| `SvgUse` | `cache`, `inProgress`, `observers` | `cache`, `inProgressCount`, the `MutationObserver` |
| `Tabs` | `active`, `panels`, `activated` | the classes of the buttons, `hidden` of their targets; the button the script activated last |
| `Menus` | `open`, `picked` | the open menus and selected items |

svgxuse looks at the `<use>` elements of a page in a loop; `SvgUse` says in closed
form what the loop leaves behind (`Unneeded`, `Empties`, `Asked`), because
the provers cannot reason about a recursion over the elements.

`ListPage` takes the server to be `ServiceCatalog`.  `JobTracker` implements that
as long as CouchDB only conflicts, so what `ListPage` shows of the server's data
is subject to the same restriction.  No page of the repository uses the tabs and
menus of the library; the library instantiates them on any page that has their
markup, and that is what is modelled.

### The small programs and the code

* `HeliosRoutes`: an action is a request or the callback of a database call.
  `during` is history: the requests that came while one waited for its document,
  itself included.  An error thrown in a callback ends the server unless the
  database's library catches it; both are possible (`NetworkNotFound`).
* `JoinChannel`: an action is a statement that can end the script, or one
  request.  `given` is what the script finds in files; a run may be repeated
  with other files while the peer keeps what it has done.
* `JwksManager`: `keys`, `leaked` and `writer` exist once for each copy of the
  manager; `Updated` and `Read` name the copy that `NewJwtAuth` starts and the
  one it stores.  A waiting writer keeps new readers out, as in Go's `RWMutex`.
* `JenkinsCrumb`: `call[c].at` is where `TriggerJob` stands: between the test of
  the two strings and reading them again (`add`), before the answer (`sent`), and
  in `updateJenkinsCrumb` before the request and before each of the two stores
  (`refresh`, `field`, `crumb`).  Field and crumb are numbered by Jenkins's
  `epoch`.  A Go string is two words; `Torn` is a length without its bytes, which
  only a string that was or becomes empty can leave, since two names, like two
  crumbs, have the same length.  Empty strings come from the start and from a
  failed request for a crumb; an answer without the two fields ends the call in a
  panic.

## Runs

| Run | Question | Bounds |
|---|---|---|
| `tracker_safety` | do a network's flags stay consistent, and is `ServiceCatalog` implemented, under every fault but CouchDB's? | 1 creation, 2 deletions of it, 1 restart |
| `tracker_dbfaults` | is what is recorded true despite CouchDB requests that fail or lose their reply at any step, and is a deleted certificate job forced back? | 1 creation, 1 deletion, 1 certificate job, 1 restart |
| `tracker_live` | is every pending job resolved across a restart, do competing deletions both finish, does a recorded creation get stored? | 1 creation, 2 deletions, 1 restart, no faults |
| `tracker_faildelete`, `tracker_queued`, `tracker_late` | the findings below | 1 creation, 1 deletion |
| `iterate` | bound, counts, errors, contract; does a run end? | 3 iterations; limits 1 to 3 and two rejected flags |
| `invoke_threads` | does a request carry its own iteration's arguments with a limit of 1, is it complete with any, is an error of any thread reported, does the command return? | 2 threads, 2 iterations, limits 1 and 2 |
| `invoke_arguments` | the finding below | 1 thread, 2 iterations, limit 2 |
| `services` | is what a request, a script reports true, is every event awaited, whom does a shared variable mislead, does everything that starts end? | 2 invoke requests; 2 joins; 2 keys, one of them unusable, 2 tokens; 2 goroutines, 2 crumbs, 1 failed request for a crumb |
| `helios_overlap` | the finding below | 2 joins |
| `pages` | does what is shown follow the server, is what is chosen sent once, does polling go on, how are the changes of a dialog announced? | 2 jobs, 2 overlapping calls, 1 request of the user, 1 failed GET; 1 item, 2 polls, 1 failure; 2 files, 2 uploads; 2 known environments and an unknown one, 2 requests; 2 dialogs, every stylesheet; 2 icons in 2 files; 3 tabs, 2 panels; 2 menus of each kind |

Why these bounds are enough.  Goroutines of different services share no
document, so one creation and its deletions show all interference between
creations and deletions; two deletions are the least number that compete (a
forced save retries once, see the observations), and one restart can fall at
every point.  With CouchDB's failures a second deletion is left out, because a
failed request may come anywhere and the theorems below cover any number.  In
`IterateFunc` three iterations exceed the limits 1 and 2, so the channel fills,
drops errors and refills, and the limit 3 never does.  What holds for every size is proved
where the next section says so.  When iterations overlap in `invoke_threads`
(limit 2), they store parameters in one thread only, and the other's generation of
parameters fails (`MCNext`): threads have only the package's `peers` in common, and
all write the same to it.

Two overlapping calls, polls, uploads or requests are what it takes for one to
overtake another; a third adds no new pair.  The parts of `pages` and of
`services` share no state, so that a behavior of one of them at a time misses
nothing, and an item's row depends on no other's.

`pages` checks deadlock: a page can always go on.  The other runs do not, since
their systems come to rest when all jobs, iterations or requests are done.

### Fairness

* `JobTracker`: each goroutine goes on (Go schedules it and requests are
  answered or fail; the polling loop has no exit but the ones modelled), and
  Jenkins schedules and ends each build.  Users and crashes owe nothing.
* `IterateFunc`: the caller and each goroutine go on, iteration functions
  return (every SDK call has a timeout), and the timer of a timed run fires.
* `InvokeChaincode`: the same; that `IterateFunc` returns is what
  `RunEnds` says in run `iterate`.
* `InvokeHandler`: both goroutines go on and the timeout expires.  Peers and
  orderers owe nothing.
* `JwksManager`: a goroutine that can run does; the ticker owes nothing.
* `JenkinsCrumb`: goroutines go on, and a request is answered or its connection
  fails.  How often Jenkins changes its crumb and fails to give one is bounded,
  which is the premise of `CrumbSettles`; nobody has to trigger anything.
* `ListPage`, `StatusPage`, `UploadPage`, `LocationSelect`: timers fire, and the
  browser ends every request with an answer or an error.  Nothing is assumed of
  users, and of the server only that it answers.

## Findings

Each is a run that expects a violation of what the repository says of itself.

* `tracker_faildelete`: after a delete job fails, the network stays marked as
  deleting for ever, against the comment on `couch.Network`.
* `tracker_queued`: a build that is still queued when it is first polled ends
  its goroutine; the job stays pending until a restart.
* `tracker_late`: a deletion that ends before the goroutine of the creation has
  stored the network leaves the network listed as active.  A deletion by service
  id asks nothing about the creation.
* `invoke_arguments`: overlapping iterations of one thread send each other's
  arguments, so that sequential strings repeat and others are never sent.
* `helios_overlap`: a `joinNetwork` that another request comes after, while it
  waits for its document, adds the other's organisation and reports success.
  `OnlyOverlapsHarm`, which passes, bounds the damage: such an organisation is
  always that of a request that came meanwhile.

### Observations

* `concurrencyLimit: 0` is accepted by `SetRoutineLimit` and blocks the first
  iteration for ever: with 0 among `Flags`, `RunEnds` is violated.  The flags of
  run `iterate` therefore leave 0 out.
* A crash between the save of a successful status and the save of the network
  loses the network: the job is no longer pending, so `init()` does not take it
  up.  `RecordedCreationIsStored` holds only while the server stays up.
* With CouchDB failures `ServiceCatalog` is not implemented: when the save of a
  creation's status fails, its goroutine goes on and stores the network of a job
  that is still on record as pending; after a restart the job's new goroutine
  forces an unmarked network over one that has been deleted meanwhile.
* A forced save retries once.  Two deletions never need more
  (`FoundNetworkBecomesDeleted`); three can make one of them give up.
* Both transient maps are always non-nil, so the dynamic one always replaces
  the static one, even when it is empty.
* A request that timed out may still be committed later, and the two cases are
  reported alike.
* `concurrencyLimit` bounds one call of `IterateFunc`, and each thread of the
  invoke command makes its own (`invoke.go:223`), so that two threads of limit 1
  send from two goroutines; `docs/hfrd-operations.md:55` says that test modules
  "will start AT MOST 10 goroutines" with a limit of 10.
* The keys of `JwksManager` are never refreshed where they are read:
  `NewJwtAuth` starts the updates of one copy and stores another.  The leaked
  read lock of `VerifySig` harms nobody for that reason only: repairing one
  without the other makes `VerdictReached` fail, which is its mutant.  `Stop`
  shares its `sync.Once` with `Init` and does nothing.
* The crumb of the Jenkins client settles, but on the way one goroutine can hurt
  another: a crumb stored late refuses a request that has already refreshed its
  own, a store between the test and the use sends a header without a name, which
  `net/http` rejects, and reading half a string crashes the handler.  A request
  whose answer is lost may have queued a build nobody follows.
* `joinNetwork` answers nobody when the network document does not have the
  service id; when there is no document, its log line names an undeclared
  variable and the error comes before the answer; where nothing catches it, it
  ends the server with all requests on their way.
* `grpc_lib.js:5` speaks of running nodes; the filter is commented out (line 57).
* `joinChannel.js` compares two characters with one to find a path under `~/`,
  and exits with 0 after an error of its promises.
* `ListPage`: pending networks and pending certificate jobs are the same view, so
  that each page lists both (`couch.go:270-280`).  `getUid` takes only `\w+`.
* `ibp.js` polls a route the router does not have, and no template loads it.
* When the locations of an environment cannot be had, the button "Create Network"
  stays disabled until plan or environment is changed, and so it does for an
  environment the script does not know (`ButtonReturns` says `failed`).
* Several dialogs can be open; closing one lets the page scroll again.
* A dialog's events come late and out of order in the pages of the repository:
  the base rule of `index.css` (lines 1032-1033) has an invalid transition, the
  rule for a visible dialog (line 1041) a valid one.  The event after hiding
  waits until the dialog is shown again; `modal-shown` is then dispatched at once
  and `modal-hidden` after it.  `LastEventIsState` says of every stylesheet when
  this can happen, and of the pages' own that a hidden dialog is never announced
  wrongly; no change is announced twice or forgotten under any.  No script of the
  repository listens to these events.
* A content switcher whose buttons are no inputs, or of which none is checked, is
  left by its constructor as the markup has it; `TabsConsistent` speaks of the
  time after the script has activated a button.
* svgxuse does not count a request it aborts, so that the page is no longer
  watched after that (`WatchResumes` says `abandoned`).
* A key opens a dropdown without closing the others, and Enter on an item is a
  key press and then a click: the item is selected and the menu open again.  A
  click on a tab in a wide window flips the menu of the narrow one.

## Proofs

All theorems hold for every value of the constants, under the named assumption
of each module, which the runs evaluate:

* `JobTrackerAssumption`: the kinds of jobs are disjoint.
* `IterateFuncAssumption`, `InvokeAssumption`: types of the constants.
* `MCServicesAssumption`: the bounds on what Jenkins does are numbers.
* `MCPagesAssumption`: tabs have at least one button; a page refers to finitely
  many files; the bound on failed polls is a number; a request is not `null`; no
  element has both `data-overflow-menu` and `data-dropdown`, as none in the
  repository has.

Each theorem about a safety property follows from an inductive invariant: what
`Init` makes true and every step keeps.  What the invariants add to the
properties says why the code is right:

* **`JobTrackerProofs`**: `TypeCorrect`.  `TypeInv` adds `ControlOK`: which `op`
  goes with which `pc`, and that only delete jobs with a target are at the steps
  of deletions; without it a network save could be about no network.
  `NeverBothMarks`, `DeletedByBuild`, `RecordedOutcome`, `NoResurrection`: the
  properties are about documents, but documents are overwritten from
  goroutines' copies, so `SafetyInv` says the same of every copy: `OutcomeOK` (a
  status in a copy is the outcome; a copy about to be saved with `deleted`
  belongs to a delete job that succeeded) and `RevisionOK` (a goroutine that has
  saved its job holds a revision above 0 that the document has had, and an older
  one than the tombstone's once the document is removed: its next save conflicts
  and does not recreate the document).
* **`JobTrackerCatalogProofs`**: `TrackerImplementsCatalog`, for
  `"db" \notin Faults`.  `CatalogInv` adds `RecordOK` (a goroutine that
  follows its build holds the document's own revision and the recorded status is
  still open, afterwards it is SUCCESS, unless the user has removed the document) and `ListingOK` (a network document
  exists only once the goroutine of its creation job has stored it, and the copy
  that would list a service is about to do so).  With
  `"db"` in `Faults` the theorem is false, as observed above.
* **`IterateFuncProofs`**: `IterateFuncTypes`, `LimitKept`, `ClosedChannelUnused`,
  `CountsComplete`, `ErrorNotLost`, `NothingSkipped`.  `Inv` has three parts
  besides types: `CountersOK` (each counter is the cardinality of the set it
  counts), `ProgressOK` (which iterations have been started, given the caller's
  place) and `ErrorsOK` (an error that must be returned is with its goroutine,
  in the channel, or already the result; a full channel holds another error,
  which is why dropping one is harmless).  `LaunchingStops` is about the
  specification with the history variable `late`: between its look at `errChan`
  and the next one the caller launches at most one goroutine, and an error in
  the channel stays there until it looks (`LateOK`).
  `IterateFuncImplementsPool` adds that a count which does not parse starts
  nothing.
* **`InvokeChaincodeProofs`**: `InvokeTypes`.  `SequentialRequestsAreOwn`: with a
  limit of 1 at most one iteration of a thread is at work (`Alone`), and what it
  has stored and read so far is its own (`Own`).  `ErrorsReported`: `BooksInv`
  follows each error from the iteration to its thread's result and from there
  through the channel to the command, in whatever order the threads finish.
  `RequestsAreComplete`: `FilledInv` says that once an iteration has stored its
  arguments the shared value is never empty again, and that the peers stay
  discovered once they are, so that whoever reads later reads something
  complete, be it another's.
* **`ServicesProofs`**: `ReportedIsCommitted`, `EventsAwaited`,
  `RegistrationsEnd`, from what the handler knows at each point (`HandlerOK`);
  `JoinsGoAstrayOnlyInOverlaps` (`JoinOK`: while a request waits, the global
  variable names its own organisation or that of a request that came meanwhile); `ScriptTellsTheTruth`
  (`ScriptInv`: before it joins, a run has contacted nobody and said nothing);
  `CallsTriggerOnce` (`CallOK`: a call that goes on has not yet been accepted),
  the half of `CrumbIsShared` that is not about the end.  `PartTypes` and
  `PartsKeepTheirPromises` carry them over to `PartSpec`, which the run checks.
* **`ListPageProofs`**: `ListPageTypes`, `PollingStaysOneChain`, `NeverShownTwice`.
  `PollInv`: `tick` is true exactly while a timer is set, and without one a call is
  under way.  `ListInv`: what a call has read as completed stays settled on the
  server, so that the pending list it reads later has nothing in common with it.
* **`WidgetsProofs`**: `DialogsStayConsistent`, for any stylesheet: a change adds
  its event to those dispatched or to those that listeners owe, and a
  `transitionend` moves what is owed to what is dispatched, so that their sum
  stays the state of the dialog (`CountAppended` counts in a sequence); and the
  newest event, waiting or dispatched, tells the state unless the dialog's own
  style is the only animated one (`NewestOK`).
  `TabsStayConsistent`, for any markup: activating a button settles all panels
  that any button selects, also where buttons share panels (`ActivatingKeeps`).  `MenusStayConsistent`: `MenusInv`.  `PageStaysWatched`:
  `IconsInv` relates `inProgress` to the requests under way: it is never less
  than their number, equal to it unless a request has been abandoned, and above
  0 while nobody else is there to start the next check.
* **`PagesProofs`**: `RowsKeepLinks`: answers on their way already have the link
  a row will need (`LogWithEntry`), so that it does not matter which comes last.
  `FormsSendOnlyOnce`: only forms in dialogs are sent while another upload is
  under way (`UploadInv`).  `NetworksAtOwnLocation`: there is one request for
  locations, the one `abort()` reaches, it is for the environment that is
  chosen, and the options are that environment's (`LocationInv`).  These are the
  halves of `RowsFollowRequests`, `FormsSendOnce` and `LocationsFollowChoice`
  that are not about the end.  `PagesTypes`, `WidgetsStayConsistent` and
  `PagesKeepTheirPromises` carry the results over to `PagesSpec`, which the run
  checks.

Two of the proofs were at first impossible and showed what to correct: a
definition of `StatusPage` had overlapping `CASE` arms, which mean an arbitrary
one of them, and the loop of svgxuse was a fold.

Where the finding `helios_overlap` refutes what the code means to do,
`OnlyOverlapsHarm`, which holds instead, is proved.

So every invariant that a passing run checks, the refinements and the action
properties of the tracker are proved.  Only model-checked is liveness, which is
beyond the proof system, as is `ENABLED`: `PendingJobsResolve`,
`FoundNetworkBecomesDeleted`, `RecordedCreationIsStored`, `RunEnds`,
`CommandReturns`, `NobodyStuck`, `VerdictReached`, `PageCatchesUp`, and what
`CrumbIsShared`, `RowsFollowRequests`, `FormsSendOnce` and
`LocationsFollowChoice` say of the end (`CrumbSettles`, `FinalStatusShown`,
`ButtonComesBack`, `ButtonReturns`).  Induction over data and RECURSIVE
operators are beyond it too; no module uses either.

## Plan

Done: job tracking and its catalog; the goroutine pool and its contract; the
invoke command and the request handler; the pages and their widgets; the key
manager, the crumb, the on-premises routes and the Node script.  Next, in this order:

1. `RequestDir`: directories, `queueid` files and the item list, with failures
   between the steps.  Abstract specification: an item is pending, running or
   ended, and was triggered.
2. `ChannelOps`: create, join, update over lists of channels on top of
   `WorkerPool`; the shared SDK; early returns.  Theorem: a single iteration
   handles every channel or reports an error, where that is so.
3. `MetricsPush`: pushers, the global stop flag, the channel they share, reading
   and clearing counters under concurrent increments.
4. `ConfigUpdate`: `Compute` as recursive functions over small configuration
   trees, checked against a reference definition of applying an update.
5. `ParamGenerator` and the composition of `InvokeChaincode` with it; ranges and
   counts of parameters at their limits.
6. `Marbles`: the sample chaincode's two keys under concurrent transactions and
   Fabric's read-set validation (external).
7. Proofs: the abstract specifications of 1 and 2; a theorem about `RevisionOK`
   with CouchDB failures that says which promises of `ServiceCatalog` remain.

Small components join `services` or `pages` as one more part.

## Not modelled, and why

* The widgets of `bluemix-components.js` that no page uses and that keep no state
  worth following: cards, tables, toolbars, spinners, number inputs, headers; and
  its polyfills.
* The claims of a token (`decodeJWT`): a pure check.
* Router, filters, the remaining queries, templates: they keep no state of their own
  between requests, or only relay it.
* Connection profile conversion, packagers: formats.
* Pipelines, scripts, Docker and Kubernetes files: external tools called one
  after the other; of a pipeline only its result matters here.
* The protolator under `modules/gosdk/channel/utilities`: copied from
  Hyperledger Fabric.
* The interrupt handler of the invoke command, which ends the process at any
  point and leaves nothing to check.
* How endorsers are chosen (`getAdditionalEndorsers` and below): part of
  `Endorse` only as success or failure.
