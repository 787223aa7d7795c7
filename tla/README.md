# GNSS-Go: a verification development

TLA+ models, model-checking runs and proofs for GNSS-Go (`src/src/gnssgo`), a
program that plans, downloads, post-processes and archives GNSS data. Paths
below are relative to `src/src/gnssgo`.

## 1. The system

The pipeline is CLI or GUI page → request → resolution of logical files →
providers → `DownloadPlan` → `DownloadManager` → post-processor → archive and
manifest. The download manager knows nothing of the provider that made a remote.

| part | state it keeps | operations | interacts with |
| --- | --- | --- | --- |
| Download manager (`download/manager.py`, `events.py`, `retry.py`) | two levels of semaphores, attempt and candidate loops, results; a thread-safe cancellation token | `run`, `download_one`, `_download_one_candidate` | awaits the downloader, calls the post-processor, moves files in the archive, emits events to a callback |
| HTTP transfer (`download/http.py`, `validator.py`, `resume.py`) | the `.part` file beside the destination | `download`, `validate_download_content`, `validate_file` | servers and the network; called per attempt by the manager |
| GUI tasks (`gui/services/task_service.py`, `gui/pages/base.py`, `pages/tasks.py`, `workers/base.py`) | `GuiTask` rows: state, counts, keys; a `QRunnable` per download | run a plan, fold events, complete, fail, cancel, retry | signals from worker threads, queued to the GUI thread |
| Client (`client.py`) | none across calls | plan (routes, searches under semaphores, deduplication, existing files), execute, post-process, summarise | providers, resolver, manager, manifest |
| Post-processing (`rinex/`) | files next to the archive file | gunzip, unlzw, unzip, Hatanaka, validation | called by the manager inside an attempt |
| Archive and manifest (`archive/`) | directory tree, `manifest.jsonl` | destination of a remote; append after a run | the planner looks at the tree again |
| Station catalogue (`stations/catalog.py`) | SQLite: stations, providers, aliases, conflicts, metadata status | `upsert_many` (prune, merge, upsert), `get` | written by start-up and by the threads of the Observations page |
| Core service (`gui/services/core_service.py`) | what the catalogue records of each provider | seed at start-up, refresh a network or a provider | worker threads of the pages, providers, catalogue |
| Health and discovery caches (`providers/cache.py`) | per provider state with cooldown; results with an age | record success, failure | providers; nobody asks the health cache |
| Product resolver (`products/`) | none | choose a bundle by tier, centre, campaign | planner |
| Providers (`providers/`, about 10 000 lines) | none that lasts | build URLs, scrape listings | planner |
| Browser transports (`download/geonet.py`, `chromedriver.py`, `chromium.py`) | a driven browser, files growing in a folder | start, wait, import | called per attempt in a thread |
| Map view (`gui/widgets/map_view.py`, `gui/resources/map/map.js`) | a canvas, a web page in another process, what was set last | stations, selection, clicks, diagnostics, fallback | Observations page; scripts, replies, signals, timers |
| Other pages, CLI, proxy settings | form state | – | – |

### What is hard about it

* **Interleaving.** Coroutines of one run share two semaphores and the archive;
  a coroutine changes hands only where it awaits. The token is set from another
  thread at any time.
* **Failure, retry, fallback.** Each file has a list of candidates, each with
  several attempts; a candidate may fail in the transfer, in validation or in
  post-processing after its file was moved into the archive.
* **What a crash or an earlier run left.** `.part` files and archive files decide
  what the next run does.
* **Queued signals.** The GUI hears of the worker later than it happens; Cancel
  and Retry come in between.
* **Merging.** The catalogue is the result of a sequence of refreshes in two
  threads; SQLite's write lock is taken only at the first write.
* **Planning.** A plan is put together from what many providers answer, side by
  side, in any order, in part or with errors.
* **Two processes for one map.** The page loads late or never, is reloaded, and
  its clicks cross the scripts of the widget.

`PROJECT.json` lists the hazards one by one, at the line where each bites.

### What makes each part correct

| part | correct when |
| --- | --- |
| Manager | semaphores neither leak nor overflow; the quiet period of an archive is exclusive; events, results and verdict agree; every run ends; what was delivered stays |
| HTTP transfer | only whole files are delivered; a broken transfer can be continued or started again; bounded faults of the network do not lose the file |
| GUI tasks | a row comes to rest, says how its batch ended or what the user pressed, with the counts of the results |
| Planner | the first provider of a route that has files decides; every station and day asked for is covered or reported; a region's stations are asked of their owners; no file twice; planning ends |
| Product resolver | a complete bundle of one tier and centre wins, the earliest one; what has no file is reported |
| Post-processing, archive | a good download is never lost; a restored file stays; what an interrupted session left can be repaired |
| Catalogue | its tables agree; a list of one provider touches no other; a stored station is found again; no refresh blocks the next |
| Map view | the canvas that is shown is current; the page follows; the start of the page is decided |

## 2. Modules

| module | what it is | size of its world |
| --- | --- | --- |
| `DownloadBatch` | the contract of `DownloadManager.run`: one final outcome per file, one verdict that is a function of the outcomes, an end | a set of tasks |
| `DownloadManager` | `manager.py` in full: coroutines, semaphores, candidates, attempts, quiet periods, cancellation, crash, repeated execution | any plan, limits and settings |
| `DownloadManagerProofs` | theorems about it, for every plan | – |
| `HttpTransfer` | the HTTP route and the `.part` file over attempts, servers, new versions and restarts | one file |
| `HttpTransferProofs` | theorems about it, for every number of servers, versions, sizes, faults | – |
| `GuiTask` | one download row, its worker (composed from `DownloadBatch`) and the signals between them | one row, any files |
| `GuiTaskProofs` | theorems about it | – |
| `ArchiveFile` | what is in the archive of one file over several sessions: plan, download, tools that restore it in place | one file of any kind |
| `ArchiveFileProofs` | theorems about it, for every chain of tools | – |
| `StationCatalog` | the tables of the catalogue and what `upsert_many` does to them, as operators | any stations, names, providers |
| `CatalogRefresh` | the catalogue in use: start-up, the Observations page, its threads, SQLite's lock | any jobs and lists |
| `CatalogRefreshProofs` | theorems about it, for every number of stations, lists, jobs | – |
| `Sublists` | what the planner does to lists: keep some elements, the first of each kind | any list |
| `SublistProofs` | what these operators and the flattening of lists return, for every list | – |
| `ObservationRoutes` | which providers are asked for a station, in which order | any regions and catalogue rows |
| `ProductBundle` | which product files answer a request | any files, tiers, centres |
| `Planner` | `_build_plan`: searches, semaphores, answers, deduplication, plan; extends the two above | any requests and offers |
| `PlannerProofs` | theorems about it, for every request, offer and limit | – |
| `MapView` | the map widget, its page and what passes between them | any stations |
| `MapViewProofs` | theorems about it | – |
| `MCDownloadManager`, `MCHttpTransfer`, `MCGuiTask`, `MCArchiveFile`, `MCCatalogRefresh`, `MCPlanner`, `MCMapView` | instances for TLC | – |

### DownloadManager

*State.* `pc[t]` is where the coroutine of task `t` stands: `new`, `queued` (at
the global semaphore), `gated` (holds a worker, at the provider's semaphore),
`candidate` (at the head of `_download_one_candidate`), `transfer` (awaits the
downloader), `process` (post-processor about to run), `backoff`, `quiet`, `done`,
`raised`, `torn` (cancelled by `asyncio.run` when `run` raised, or killed).
`slots`, `cap`, `free` are the semaphores; `cand`, `attempt`, `result` the loops;
`disk` what is at the destinations; `landed`, `failedAt` count the events;
`loop` is the coroutine in the middle of a stretch without an await.

*Actions.* One per stretch: `Enter`, `AcquireGlobal`, `AcquireProvider`,
`CandidateRaises`, `SkipExisting`, `StartTransfer`, `TransferSucceeds`,
`TransferFails`, `ProcessSucceeds`, `ProcessFails`, `BackoffEnds`, `QuietEnds`,
and for the run `Finish`, `Abort`, `Crash`, `Cancel`, `RunAgain`. A stretch is
cut in two where the token is read, because the GUI thread may set it there.

*Abstractions.* A transfer, its validation and the length of a wait are a choice
of outcome; the content of a file is one of absent, raw, kept (post-processed, at
its path), restored (post-processed, output under another name). Whether the
Python `Semaphore` hands a released slot over at once or the waiter takes it a
step later cannot be told apart under FIFO order. A message of a server that
contains the word "cancelled" (line 247 tells cancellation by that word) is left
out. The tasks of a plan have distinct destinations in the instance; the proved
theorems do not need that.

### HttpTransfer

*State.* `part` and `dest` are sequences of blocks, each with its version and its
place; `served[m]` is the version server `m` has; `st`, `server`, `attempt` are
the loops of the manager reduced to one file; `start` is the offset asked for and
`body` the response being read.

*Actions.* `Request` (removes a page left in the `.part` file, takes its length),
the answers `Whole` (200), `Rest` (206), `NothingThere` (416), `Missing` (404),
`Refused` (all other errors and timeouts), `PageServed` (200 with HTML); `Chunk`,
`Broken` (at any moment of the body, also behind its last block), `EndOfBody`
(validation of the content), `Deliver` (`validate_file` and rename), `DiskFails` (a
write or the rename raises an `OSError`, which gives up the server at once); `Publish`,
`Stop` (cancelled, or killed with unflushed bytes lost),
`RunAgain`.

A page is recognised by its first bytes or by its Content-Type; the second kind
(`Plain`) is rejected when it arrives, but `partial_file_is_invalid` cannot tell it in
the `.part` file later.

*Assumptions about servers*, in the module's header: a body says where it ends (by its
length, or chunked), a range is answered with that range. What happens without them is
listed under the hazards.

### GuiTask

The worker thread is `DownloadBatch`, instantiated: its `Settle`, `Close` and
`BreakOff` steps, conjoined with the events `run` emits (`Start`, `Process`,
`GiveUp`, `Land`, `FailLast`, `DropOut`). That `DownloadManager` implements
`DownloadBatch` is what the runs and the theorem below show, and that the events
fit is `EventsMatchResult`. `queue` holds the Qt signals in order of emission;
`OnStarted` … `OnError` are the branches of `handle_download_event`,
`complete_from_results` and `fail`; `Cancel` and `Retry` are the buttons with the
conditions under which they are enabled. `pressed` is history: whether a button was pressed;
`worker` tells a batch that returned its results (`over`) from one that raised an error
(`raised`).

### ArchiveFile

*State.* `disk[f]` is what is under the name of form `f` of the file: 0 the archive
as it was downloaded, then what each tool of its chain makes of it (`X.crx.gz`,
`X.crx`, `X.rnx`). `st` and `step` say where the session stands, `cand` and
`attempt` are the loops of the manager, `result` and `path` what the session
reports of the file. `latest` is what was downloaded last; only properties read it.
`settings` (extract, keep, overwrite, the optional tools installed) may change from
session to session.

*Actions.* `Plan` (`_build_plan`, one file), `Execute` (the manager's look at the
destination), `LandGood`, `LandBad`, `NotArrived` (an attempt of the manager),
`Hook` (`_postprocess_download` before the post-processor), `NoBackend`, `Refuse`,
`Open`, `Written`, `Unlink`, `Unpackable`, `WriteError` (a tool, step by step: it
opens its target for writing, completes it, removes its source), `Check` (the two
validations), `Stop` (killed anywhere, or cancelled where the code looks).

*Abstractions.* The content of a name is absent, the beginning of a file (`cut`),
`good`, `corrupt` (cannot be unpacked) or `wrong` (something else). A tool never
reads a `cut` source, for it starts from what was just downloaded (`SourceIsLatest`).
Bad content is found by the step that reads it; the validations look at the header
only, as the code does. A ZIP has one member, and the
candidates have the same file name, so that they share the forms; candidates of other
names are other files. Hatanaka is a library: from the call
`decompress_on_disk(path, delete=...)` it is taken to write its target and then
to delete its source. `NotArrived` may end a candidate at once (404, an unexpected
exception) or an attempt.

### StationCatalog and CatalogRefresh

*State.* `tables` is what is committed: `rows` (the payload of each station),
`owner` (`station_aliases`), `member` (`station_providers`). `lock` and `draft` are
the writer in a transaction and its working copy, `record` is `metadata_cache` as
far as the refresh policy asks. Every writer (the GUI thread at start-up, a job of
the page) has its `pc`, the steps `todo`, the `answer`s to be stored, the step `at`
which it is, what the SELECTs before its first write have `seen` (the first) and found `again` (the
next), and the stations `left` in the
transaction. `refreshing` and `shown` are the page's `_catalog_refreshing` and the
stations it shows. `stale` and `aborted` are history variables.

*Actions.* `BuildPage`, `Start`, `RefreshFinished`, `RefreshFailed`, `Redraw` (the
page); `Take`, `Fetched`, `RecordStatus`, `Ends` (a job in its thread); `Look`,
`LookAgain`, `LookByDomes`, `BeginPrune` or `BeginStore`, `StoreNext`, `Commit` (`upsert_many`), `LockTimeout`;
`SkipSeed` (start-up leaves the built-in stations out); `Ages` (thirty days after a success, ten
minutes after a failure), `Crash`.

Start-up stores the lists in `Seeds`: the snapshot of no provider, the bundled lists of
providers, and, unless a network has stations on the map, the built-in stations (`core_service.py`,
111-134, and again in `observations.py`, 205-210). These are listed under the provider
`Builtin`, which their payloads do not name (`seed_stations` names the archives that carry their
data). `Signed` says so, and `PayloadsAgree` and `OthersUntouched` speak of payloads for the other
providers only. The seeding in the constructor of the catalogue (`catalog.py`, 52-53) depends on a
setting that is off by default.

`upsert_many` is cut where SQLite cuts it. Python's `sqlite3` opens a transaction at
the first INSERT, UPDATE or DELETE, so the SELECTs before it are steps of their own, in
autocommit: the rows under the provider (`Look`), the other providers of the first outdated one or
the row of the first station's id (`LookAgain`), the row of its DOMES number (`LookByDomes`).
`Begin...` is the first write, with the lock. What another connection commits in between is
in `tables` and not in what was seen. From then on only the
writer that holds the lock can change anything.

*Abstractions.* Marker names, four-letter codes and aliases are names; equipment,
country and free metadata are left out, and so is the record of alias conflicts, which
nothing reads. Coordinates and DOMES stay, because they decide merging and repair. A
provider's answer is one of the lists its site may publish, the empty list, an error, or
the list bundled with the program where the provider falls back to it. All lists of a
job are fetched before the first is stored, as in the code. What is shown is every
row: filters of the page are left out.

### ObservationRoutes, ProductBundle and Planner

*State.* `search` is the list of searches a request is turned into: batches of
passthrough providers and of EPN, one search per station and day, one per day of
navigation, the discovery of a whole directory, a product search over tiers and
providers, or the one provider the user named. `at[j]` is where search `j` stands
(`wait`, `worker`, `call`, `done`), `said[j]` the answers so far; `slots` and `free`
are the two levels of semaphores; `plan` is the result.

*Actions.* `TakeWorker`, `TakeProvider`, `Answered` (a provider answers with some of the
files it may have, with none, or with an error that the search catches or not), `Build`, which ends in a
plan or, when the name of a file is refused (`safe_filename`), in an error.
Batches run one after the other before the rest. `Route`, `Owners`, `Bundle`, `Partial`,
`Deduplicated`, `Missing`, `Preferred` are operators, one for each function of the code.

*Abstractions.* A file is what a `RemoteFile` says of itself: station or type, day, name,
what it covers, centre and tier. URLs are not told apart from files. What a provider
has is the constant `Offer`; what it answers is any part of it. `OfferAssumption` says what the code makes
true of them: the logical id of a product names its tier and centre, files of one name at two providers
are of the same station and day, EPN has no bundles. A list is cut by the positions it keeps (`Sublists`), since
the prover knows nothing of a filter that is given as an operator. A product type that is named twice keeps a
product search from ending before its last tier (`TierDone`), as in the code.

### MapView

*State.* `pending`, `selected` (set last), `ready`, `validated`, `error`, `current` (the
widget on top), `native` (what the canvas has), `page` (what the page has), and all that
is on its way: `scripts` to the page, `replies` to diagnostics, load `events`, `clicks`,
`timers` and `retries`. `told` is history: what the page was given since it was loaded.

*Actions.* of the user: `SetStations`, `SetSelected`, `ClearSelection`, `NativeClick`,
`Click`, `SelectArea`, `Reload`; of the system: `Toggled`, `Signalled`,
`DiagnosticsChecked`, `Retry`, `Timeout`, `RunScript`, `Loaded`. The handler of the page
that owns the map (`_map_station_toggled`) is part of `Toggled` and `NativeClick`.

*Abstractions.* Only what concerns stations, selection and readiness is a script; theme,
basemap, language and marker mode are left out. Scripts run in order in the other process. A
page that is loaded works, is broken, or was not found; whether a load that a
reload cuts off is reported is a choice.

## 3. Runs

| run | instance | states | shows |
| --- | --- | --- | --- |
| `manager` | 3 tasks, 2 providers, 2 workers, 1 retry, one task with overwrite, executed twice | 319 000 | types, slot accounting, exclusive quiet period, events = results, completed = present, delivered files are kept, the abstract batch with its fairness, every run ends |
| `manager_accepts_raw` | executed once | violation | a leftover of failed post-processing counts as success |
| `http_resume` | 3 servers (without the file, without ranges, with ranges), 2 versions of 2 and 3 blocks, 2 kinds of pages, 2 attempts, 3 faults, executed twice | 74 400 | `.part` file in order, delivered file complete, faults survived |
| `http_mixes` | 1 server, executed once | violation | two versions in one file |
| `gui_row` | 2 files, one with a fallback of another name | 182 400 | the row comes to rest and tells its ending, its state and counts are true |
| `archive_restore` | 8 kinds of files, 2 candidates, 2 attempts, 2 sessions, 2 faults | 85 600 | nothing good is lost, restored files stay, an untroubled session repairs |
| `catalog` | 2 stations, 4 providers, 2 networks, 4 lists of start-up (2 built-in) and 2 jobs in 2 threads, 1 crash | 145 600 | no dangling rows, payloads and tables agree, the page is current, lists are stored exactly, can be found, and touch nobody else, every refresh ends |
| `catalog_lost_update` | the same | violation | a membership committed by another thread is overwritten |
| `planner` | 13 requests, 6 stations, 5 providers, 2 workers, 1 per provider | 1 217 000 | first answer wins, misses reported, best bundle, no file twice, owners asked, planning ends |
| `planner_days` | a product request over 2 days | violation | one day is planned, nothing is reported |
| `map` | 2 stations, 2 changes, 1 click or area, 2 reloads | 1 808 000 | the canvas is current, the page follows, its start is decided |
| `map_populated` | the same | violation | a page shown after the stations were set has none of them |

**Why the bounds are enough.** *Manager.* The plan has what the code
distinguishes: two tasks of a provider limited to one slot with a quiet period
and one of another provider; a fallback with the same file name, one with another
name, none; a transport with retries and one without; fewer workers than tasks; a task
that may overwrite and two that may not. Two executions are enough for anything an
earlier run can leave on disk (`disk` is the only state that survives). One retry
distinguishes first, last and exhausted attempt; retries are not correlated across tasks.
*Transfer.* A server for each way to answer a Range request; with three faults
and two attempts on each of two servers a transfer can break on both, return to a shorter or
longer version and still have an attempt left; one page is told by its first bytes, one by
its Content-Type only. *Row.* Its queue is bounded by what its worker
emits. *Archive.* Every chain of tools the names can ask for, with the name
the planner looks for equal to the last form, to an intermediate one and to the archive. Only
`disk` survives a session: two sessions are one that leaves something behind and one that
meets it; two faults allow a bad file and a kill, or a kill in each.

*Catalogue.* One station is published under its id with a DOMES number by one provider and without
by another, one under another id with that number, all with one four-letter code: merging by
id, merging by DOMES, a contested name, a prune of a shared and of an own station all happen.
One provider falls back to its bundled list, two report an error. Two writers are enough for a
stale read, since only one commit has to come in between; one job has two lists, so that it can
fail after the first. The crash may come anywhere, start-up then meets what was committed.
The built-in stations are stored or not, as the snapshot and the refreshes put the network on the map or
not; their list replaces and is pruned like any other.
*Planner.* The region has a station owned by source, one by provenance, an IGS one and one unknown
to the catalogue; the providers include EPN, one with batches and a directory, and two
mirrors that share files. The offers contain duplicates, variants, a bundle over two
stations and days, two bundles of one name for two stations, a name that is refused, a station with the
same four letters, and product types split over centres and
tiers so that a complete, a mixed and a partial bundle each occur. Two workers and one slot per
provider make searches wait at both levels. *Map.* Two reloads are needed for a
reply to a page that a second reload has replaced; two changes and a click or area of two
stations make scripts and clicks cross in both orders.

**Deadlock** is checked except in the runs of the map, which may come to rest
with nothing on its way; elsewhere a finished system has an explicit
stuttering action (`Rest`, `Idle`, `Done`) or can always go on.

**Fairness.** The manager assumes weak fairness of each coroutine's step: the
event loop serves ready coroutines, sleeps end, and transfers end because httpx
has connect and read timeouts and attempts are bounded. Semaphores are FIFO, so
strong fairness is not needed. `HttpTransfer` assumes weak fairness of the
protocol steps and that faults stop within the bound; a server that is silent is
a fault (timeout). `GuiTask` assumes that the batch ends (which the manager's run
shows) and that Qt delivers queued signals. `ArchiveFile`
assumes that a session that runs goes on (downloads time out, tools end) and that
faults stop within the bound. `CatalogRefresh` assumes that start-up goes on (stores or skips the next list), that a thread of the
pool runs, and that the results of workers are delivered; waiting for the lock ends by
the lock or by the busy timeout. `Planner` assumes that the event loop runs what is ready and
that a provider's call ends; the fairness of `Build` is that of `Finish`, its change of phase, which is the
only step of `Next` that changes it when every search is done. `MapView` assumes that Qt delivers signals and timers and that
the browser runs its scripts and ends its loads, not that a retry helps. Nothing makes the user
press anything, publish, crash, reload or run again.

## 4. What does not hold

Five runs show disagreements between the code and what it says of itself; each is
a finding in `PROJECT.json` with the quoted line.

1. *A raw file counts as success* (`manager_accepts_raw`): the file is moved to
   its destination before post-processing; when that fails, the fallback of the
   same name (or the next run) skips it as already there.
2. *Mixed versions* (`http_mixes`): ranges are resumed without a validator.
3. *A lost update* (`catalog_lost_update`): the row a station is merged into is read before
   the connection has the write lock. A second thread commits in between, and its provider,
   source and network are overwritten. `OthersUntouched` and `PayloadsAgree` hold as long
   as that has not happened (`stale`).
4. *One day of several* (`planner_days`): `_best_remote` takes the first file of a type, and
   the other days of a product request are dropped without a word.
5. *An empty map* (`map_populated`): what was set before the page was ready is handed to
   `set_stations`, which returns because nothing changed. This is why `PageFollows` speaks of
   what the page has been told (`told`).

Observations that need no run, or restate a line of the code:

* Manager: a task waits for its provider with a worker in its hands, so that a slow provider
  slows the others (`manager.py`, 83). A cancellation between two candidates makes `run` raise
  (156), and then no result is reported and no manifest written.
* Transfer: a complete `.part` file is never finished. It is left by a read that times out behind the last block of a
  chunked body, by a rename that fails, by a program killed between the last byte and the rename. In `HttpTransfer`:
  `Chunk` (the last block), `Broken`, `Request`, `NothingThere`, and so on to `failed`: the request asks behind the
  end, 416 is an error like any other (`http.py`, 367), and the file stays in the way of every later attempt and
  execution, unless a mirror ignores ranges. One fault is enough, so `FaultsSurvived` excepts the transfers that come to
  ask behind the end (`AsksBehindEnd`) and those the disk has refused; it holds for all other breaks of the body.
  A page that only its Content-Type gives away (`validator.py`, 99) is rejected but stays in the `.part` file, where
  `partial_file_is_invalid` (109) does not see it: a server with ranges then appends the rest of the file to it, which is
  delivered when the lengths fit. `DeliveredComplete` says that nothing but the first block can be of such a page.
* Post-processing: a missing second tool is reported with the path of the archive the first has
  removed (`client.py`, 358). A file that a tool left truncated counts as existing (455).
  `_existing_processed_path` looks for `X.24d` where processing makes `X.24o` of `X.24d.Z`, and for the
  ZIP where a ZIP was unpacked: such files are downloaded again by every plan, which is why
  `RestoredStays` speaks of the kinds for which the two names agree.
* GUI: *Retry Failed* resets a row that nothing downloads again (`gui/pages/base.py`, 110). A batch of which every file
  failed rests as PARTIAL although `TASK_FAILED` was sent: `complete_from_results` has no third case
  (`task_service.py`, 157-172). Cancel after the end of the batch rests as CANCELLED. `RowTellsEnding` spells both out.
* Catalogue: start-up stores bundled lists as complete and prunes the stations a live refresh had
  added (`core_service.py`, 191), while the snapshot brings back stations that were pruned. EPN
  returns its bundled list as a success when its site fails (`regional_live.py`, 788), with the
  same effect. A lock timeout breaks off a whole job, and a job that failed does not
  redraw the page although a part of it may be stored. A name whose owner was pruned stays free until
  a station that carries it is stored again. The built-in stations are in `station_providers` under a provider that no
  payload names (`catalog.py`, 194).
* Planner: a station without a file is not reported when another with the same four letters
  has one (`client.py`, 1265); two such stations may even have one destination. With the provider `auto`,
  GEONET is asked once per station and day and answers each time with a bundle that is called `GEONET`, of that
  day, `..._b01_01.zip`, without a logical id (`providers/japan.py`, 124-147). To `_deduplicate_logical_files`
  (1185) these are one file: of several stations of a day the first is planned and the others are reported
  unavailable. `tests/unit/test_japan_geonet_download.py`, 40, asks for five stations by the provider's name,
  where there is one bundle. `MissesReported` says it: what is reported nobody had, or it counts as another
  file of the plan; the run reaches such a plan. One file whose name `safe_filename` refuses ends the planning of all.
  `allow_mixed_center = False` does not keep a partial bundle from mixing centres. An unexpected exception of
  one provider ends the planning of all (819). `workers = 0` is accepted by the settings and blocks every search.
  The health cache is written and never read.
* Map: `_web_validated` set by a page that was shown before an aborted reload keeps a later page that works from
  being shown; `BackendSettles` excepts that case. `_verify_leaflet_render` has no caller.
* Browser: the ChromeDriver route removes its target before it downloads (`chromedriver.py`, 415-427).

## 5. What is proved

All theorems hold for every value of the constants that satisfies the named
`ASSUME`s of the modules.

**DownloadManagerProofs** (any number of tasks, any candidate lists, limits,
settings, executions):

* `TypeCorrect`: `TypeOK` is inductive; `RemoteType` derives that the current
  candidate is one of the plan's.
* `SlotsAddUp`: `SlotAccounting` is inductive together with `TypeOK` and two facts
  it rests on (a provider that somebody works for has its semaphore; the task that
  holds the event loop is between its two awaits). Each action moves one task into
  or out of the sets that are counted; the cardinality lemmas say what that does.
* `QuietAlone`: a consequence: with one slot, a task in its quiet period is the
  only element of its provider's set.
* `EventsAgree`: by the invariant `StageOK`, a task that still works has no
  result; each step then changes the events of one task the way it changes its
  result and candidate.
* `CompletedIsPresent` and `DeliveredIsKept`: `CompletedMeansPresent` and `DeliveredKept`, under
  the assumption that tasks have distinct destinations. A file is touched only by the task
  it belongs to, and only in front of a result that says so; a task that may not
  overwrite does not start a transfer while its file is there.
* `ManagerImplementsBatch`: every step of `Next` is a step of the abstract batch or
  leaves its variables alone, again by `StageOK` (verdict open exactly while the
  run lives, results only of tasks that are through).

**HttpTransferProofs** (any number of servers, versions of any sizes, any number
of faults and executions):

* `TransferTypeCorrect`: `TypeOK`.
* `PartStaysInOrder`: `PartInOrder` (`InOrder`, with pages of both kinds). Not inductive alone: while a body is read the
  next block must follow the last one of the `.part` file, and between request and
  answer the offset asked for must be its length (`BodyFollows`, `AskedForEnd`).
* `DeliveredIsComplete`: `DeliveredComplete`, from the same invariant and the fact
  that a transfer that landed has the length of the version of its last block.

**GuiTaskProofs** (any files, any fallback names, any interleaving of signals and
buttons):

* `RowTypeCorrect`: `TypeOK`, with the fact that the row's sets are finite, so that
  their cardinalities are numbers.
* `RestIsFinal`, `CompletedNeverLies`, `CountsAreOfResults`:
  `NothingInProgressAtRest`, `CompletedIsTrue` and `CountsOfResults`. They are
  inductive together with three facts about what is on its way to the GUI thread:
  the worker runs exactly as long as the batch is open (`WorkerAndBatch`), a `TASK_*`
  or result signal in the queue says what the results are (`SignalsTrue`), and once
  the worker is over its result or error is the last signal in the queue
  (`LastAtEnd`). So only that signal can bring a row to rest (`DeliveryKeeps`), and
  it sets the state and the numbers.
* `RestTellsEnding`: whenever a row is at rest it says `RowTellsEnding`, the invariant part of `ComesToRest`. Needs
  that a cancelled row was pressed or its batch cancelled (`CancelledTrue`), and that the verdict is the summary
  of the outcomes (`VerdictTrue`).

**ArchiveFileProofs** (any kinds and chains, candidates, attempts, sessions, faults):

* `ArchiveTypeCorrect`: `TypeOK`.
* `DownloadIsKept`: `NothingLost`. Inductive with the fact that the form
  which the tools have come to (the last complete one) has the content of the
  latest download while a session works on it: a source is removed only behind a
  complete target, and a target is opened only in front of such a source.
* `RestoredIsKept`: `RestoredStays`. A session that may not overwrite and meets a
  good file under the name it looked for has just made it, and only has to remove the
  source and to check it (`OnlyOwnResult`); that the tools are at work in extraction
  mode only (`ToolsExtract`) makes this inductive.

**CatalogRefreshProofs** (any stations, names, providers, lists, jobs; any sequence of
stale reads, timeouts and crashes):

* `TypeCorrect`: `TypeOK`, from lemmas that each operator of `StationCatalog` maps tables to tables.
* `NothingDangles`: `NoDangling`, for the committed tables and the draft. Prune removes a row
  together with its names and providers, Store adds names and providers only to a row it writes; neither
  depends on what was seen being current.
* `PayloadsAlwaysAgree`: `PayloadsAgree`. Inductive (`Sound`) with the facts that a draft, begun on current
  tables, agrees with itself as well (`DraftAgrees`), and that what a writer has seen is well-formed
  and, unless `stale`, is the tables its transaction began on; every published station names its provider, but for the
  built-in ones, which name other providers and never `Builtin` (an assumption on lists, named `Signed`; stations of the
  snapshot may name any others), so that Store lists the providers of the payload and the one it stores for.
* `OthersAlwaysUntouched`: `OthersUntouched`, from the invariant that the draft of a transaction still has every
  membership of the other providers that the tables have (`DraftKeeps`).
* `PageIsCurrent`: `QuietPageCurrent`, inductive by itself once the control of the jobs is known: a commit after
  start-up is one of a job whose key is still in `refreshing`, and the slot that drops the key reads the tables again
  or adds the job to `aborted`.
* `ListsAreExact` and `PublishedAlwaysResolves`: `ListExact` and `PublishedResolves`, about a commit. They need to know how far
  the transaction has come (`Progress`): the rows of the draft that list the provider belong to stations of the list
  by id or DOMES number, and every station of the list is still `left` or is `Stored`, a name of a row of the
  provider. `PrunedOnly` and `NothingToPrune` establish this, `StoreProgress` keeps it: what is stored later may be merged into
  the same row, which unites names and providers and keeps a DOMES number that was used to find it. Two
  earlier forms were true of the instance only. That the provider's rows are exactly the
  ids of the list fails when two stations of the list have one DOMES number; that a stored station is found on a row of
  its provider fails when another row carries its id as an alias. The properties now say what the code
  promises in these cases as well.

**SublistProofs** (any lists): `FlattenSeq` puts the elements of the lists one behind the other and nothing else
(`FlattenPlaces`, `FlattenToSet`), the elements chosen by position are those and in order (`ChosenPicks`,
`ChosenIs`, `ThoseIs`), a list without repetitions has the same elements, each once (`DistinctIs`). Induction is over a
set of numbers (`LeastNumber`, `SetInduction`), which needs no theorem with an operator as parameter.

**PlannerProofs** (any requests, offers, routes, semaphores):

* `TypeCorrect`: `TypeOK`. The bounds of the semaphores are the invariant `Counted`: free slots and
  the searches that hold one add up to the limit, for the workers and for each provider.
* `Invariance`: the invariant `IInv` of the others. The searches are those of the request and every answer is of
  a provider's offer and matches (`Offered`); no answer but the last of a search ended it (`Needed`); once
  planned, the plan is `PlanFor(PlanFiles)` (`PlanBuilt`). `SearchOK` says of every search of every request whom it
  may ask for what; no two searches want one subject and day.
* `OwnersAreAsked`: `OwnersAsked`, from the lemma that a route of a station with claimants has no one else (`RouteIs`).
* `FirstAnswerDecides`: `FirstAnswerWins`. By `Needed` only the last answer has files, and deduplication keeps every key.
* `FilesHaveOneTask`: `OneTaskPerFile`. Two files of one destination and station in a plan have different
  keys, so they are of two providers and cover a common subject and day (`OfferAssumption`); then they are of one search, which
  is ended by its first provider with files. For products the bundle has one file of a type.
* `MissesAreReported`: `MissesReported`. What a search was answered for a station and day, its result has a file for
  (`ResultCovers`), and deduplication keeps its key; so the station and day is covered or a file of that key stands in for it.
* `BundleIsBest`: `BundleBest`. `FullTierIsLast`: by `Needed` a tier that has all types is the last that is asked, so what is
  left out of a result is of tiers that fill no pair, and `FilledIs`: the pairs filled by the answers are those
  filled by what the bundle is selected from.

**MapViewProofs** (any stations, any number of changes, clicks and reloads):

* `TypeCorrect`: `TypeOK`.
* `NativeAlwaysCurrent`: `NativeIsCurrent`: each action either updates the canvas with what is pending, or the page is on top.
* `PageAlwaysFollows`: `PageFollows`. The inductive invariant `Claims` (with `ScriptsCurrent`, `StationsCurrent`, `SelectionCurrent`) says for every station what the last word
  about it is: the last script with a selection in the queue, or, if none is left, the last click on its way, or, if
  neither is, the page and the widget agree (`Agreed`); likewise for stations. It rests on the facts that the page that was
  told anything is up and validated (`ToldIsUp`, `ToldIsValidated`).

**Model-checked only.** Liveness (`RunEnds`, `ImplementsBatch` with its fairness, `FaultsSurvived`,
`ComesToRest`, `Repairs`, `RefreshEnds`, `PlanEnds`, `BackendSettles`): the prover has no rules for
fairness and `ENABLED`. Every invariant and every safety property of a step that a passing run checks is
also a theorem. The properties of the runs that expect a violation are false of the code.

## 6. What is left

* The manifest: appended after the run and read by nobody in this code. Worth modelling when something reads it.
* ZIPs of several members in `ArchiveFile`, and bodies without a length or with a wrong range in `HttpTransfer`.
* curl and FTP with the same `.part` file; completion detection of the browser transports.
* Search filters and inferred networks of the catalogue over `StationCatalog`.
* Theorems on when the properties of section 4 do hold: `DeliveredOneVersion` of servers that keep a file,
  `SuccessMeansProcessed` of fallbacks with other names, `EveryDayPlanned` of one day.

## 7. Not modelled

Providers (parsing of listings, URL templates: more than half of the lines of the program, and the reason
why the models stand for a small share of it): sequential input and output, no state that survives a call
but caches of text. They are the constants and choices of the models: files and errors, lists, limits.
Product name parsing, proxy resolution and persistence of settings, page
layout and translation, the CLI: the same. WebDriver scripting and browser
discovery: I/O against a browser whose behaviour the code does not define. Progress bytes and messages of a row, drawing of the
map: presentation. `mark_no_data`, `can_attempt` and `_verify_leaflet_render` have no caller, and `pause` only sets a message.
