# TLA+ verification of codewikitap

codewikitap is an MCP server: it renders wiki pages of repositories with a
headless Chromium, caches them in SQLite, cuts them into chunks, embeds the
chunks, and answers an agent's questions by vector and full-text search. This
directory holds TLA+ modules translated from the code under `src/src/`, TLC
instances of them, and TLAPS proofs.

Run from this directory:

    tlc -config PlaywrightDriver_close.cfg MCPlaywrightDriver   # one run
    tlapm Indexer_proofs.tla                                    # one proof module

`PROJECT.json` lists the components, the runs with what each shows, a mutant for
every property (a plausible bug that breaks it), the source lines of every
definition, the hazards, the deviations that a run shows, and the theorems.

## 1. The system

| Component | State it keeps | Operations | Talks to |
|---|---|---|---|
| PlaywrightDriver (`adapters/playwright_driver.ts`) | browser, context, launchPromise, slots, waiters | withPage, close | Chromium, the install promise |
| CodeWikiClient (`services/codewiki_client.ts`) | inflight map, nextAllowedAt; rows of `pages`, `wiki_status` | probe, getPage | driver, Cache, extraction |
| Indexer (`services/indexer.ts`) | inflight map; rows of `chunks`, `kg_edges`, `wiki_index_status`, the fingerprint | indexRepo | client, embedder, VectorStore, GraphStore |
| Startup hook (`index.ts`) | the fingerprint | applyEmbedderAutoReindex | VectorStore |
| Server (`index.ts`, `server.ts`, `heap_cap.ts`) | driver singleton, watcher, cache handle, instance record | boot, closer | everything; its parent process |
| Cache, SqliteStore, VectorStore, GraphStore | the tables, the schema version | reads, writes, migrations v1 to v7 | several processes on one `cache.db` |
| Retriever, fusion (`services/retriever.ts`, `fusion.ts`) | none but a stamp flag | findChunks | indexer, embedder, reranker, VectorStore |
| Embedder, Reranker (`adapters/`) | load promise, circuit breaker | encode, score | model download |
| ManifestWatcher (`services/manifest_watcher.ts`) | previous scan per root, watch set | handleChange, stop | scanner, Cache |
| BOM and parent resolvers | inflight map; rows of the BOM tables | resolve | Maven Central, Cache |
| RepoResolver, ProjectScanner, manifest parsers | repos rows | resolve, scan | registries, files |
| Extraction (`extraction/`) | none | DOM to tree, chunks, markdown | client, indexer |
| Instance lock, heartbeat, logger, stdout guard | a file per process, a log file | register, release, write | other processes |
| Tools (`tools/`) | an in-flight counter | one handler per MCP tool | all of the above |
| Installer (`installer/`) | a client's configuration file | wizard | its own program |

What is hard in it:

- **One event loop, many calls.** Everything runs to its next `await`; what was
  read before it may be stale after it. The driver, the client and the indexer
  share promises between callers by single-flight maps that must be cleaned up
  on every path.
- **Several processes, one database.** Each MCP client starts a server of its
  own on the same `cache.db`. Transactions, autocommitted statements and reads
  before an `await` interleave across processes.
- **Crashes.** Clients kill servers, and the heap cap ends them. What a crash
  leaves between two statements must be repaired by the next start or build.
- **Failure of the environment.** Chromium may not be installed yet, may fail
  to launch or die; a navigation times out, and other calls of the browser have no
  timeout and may hang; upstream answers an empty application shell, a page that
  links to no commit, or no wiki; the model hub, a package registry or Maven Central
  is down.
- **Files that change under the server.** A manifest is renamed, broken and
  repaired by an editor while the watcher rescans, and its dependencies are
  resolved by tool calls at the same time.
- **Tables that refer to each other by rowid only**, written by processes that
  may lack one of the extensions, through two migrations, of which one may skip rows.
- **Rows of older releases**: an index whose model was never recorded, graphs that
  were never built, Maven rows in a former shape.
- **Shutdown.** Signals reach a wrapper process, which passes them on as signals
  or as messages, at any moment of the boot or of another shutdown; and a server may
  end without any, when its client leaves and nothing holds the event loop.

The properties each component needs are in section 3; `PROJECT.json` lists the
hazards at their lines, with the properties that cover them or why none does.

## 2. The modules

| Module | What it is |
|---|---|
| `PlaywrightDriver`, `MCPlaywrightDriver` | the Chromium driver |
| `CodeWikiClient`, `MCCodeWikiClient` | fetches, the page and status rows, pacing; key sets |
| `Indexer` | builds, startup hook and tables of several processes |
| `AtomicIndex` | what readers of the index are promised |
| `MCIndexer` | chunk counts, symmetry, and the refinement mapping Indexer to AtomicIndex |
| `ServerLifecycle` | boot, shutdown, wrapper |
| `Search` | the tool calls that wait for builds and models: retriever, embedder, reranker |
| `VectorTables`, `MCVectorTables` | chunks, vec_chunks and fts_chunks by rowid, migrations, swaps |
| `AtomicTables` | what the two queries of a search are promised |
| `ProjectScan` | the project scanner, as functions of a file system |
| `RepoResolver` | the registries, as functions of their answers |
| `ManifestWatcher`, `MCManifestWatcher` | the watcher, composed of the two and the cache; four projects |
| `Ranking` | what one search computes from the tables |
| `Lists` | sums and the stable sort, for `Ranking`, `WikiText` and `WikiGraph` |
| `WikiText`, `WikiGraph` | subtrees and chunks of a page; edges and neighbors |
| `MavenVersions` | BOMs and parent POMs with their cache |
| `MCAlgorithms` | bounded inputs for the modules of functions |
| `Algorithms_proofs` | the theorems about the modules of functions and the inputs of `MCAlgorithms` |
| the other `*_proofs` | the theorems about the component they are named after |

### PlaywrightDriver

A caller is a client that calls `withPage()` again and again; `pc[c]` names the
`await` its call is suspended at. An action is the code between two awaits.
Awaits that have settled are microtasks: they run before the event loop takes
the next event (`Quiet` guards every event), and without this the model would
show races that JavaScript does not have. `Enter(S)` lets one event start
several calls, as one `list_project_dependencies` starts many probes.

| Code | Module |
|---|---|
| `ensureLaunched()` 144-167 | `Enter`, `GateRejects`, `JoinLaunch`, `StartLaunch`, `LaunchAwaited` |
| `doLaunch()` 169-179 | `BrowserLaunched`, `ContextCreated`, `ScriptInstalled`, `LaunchRejects` |
| `acquireSlot()`, `releaseSlot()` 181-198 | `AcquireSlot`, `ReleaseSlot` |
| `withPage()` body 119-129 | `NewPage`, `NullContext`, `PageOpens`, `PageFails`, `PageDone` |
| `close()` 132-142 | `Close`, `ContextClosed`, `BrowserClosed` |

A launch and the browser it starts share an identity of `Launches`, which is
reused once nothing refers to it.

### CodeWikiClient

A call is one execution of a single-flight function; callers that join one, or
that a fresh row answers, change nothing. `call[c]` holds what the closure
holds over its awaits: the row read before (`cached`), the sleep, the answer.
Versions of a wiki are numbers and a version's SHA is its number; 0 is the empty
shell as content, and as SHA the empty string of a row or the null of an answer. The
text of a version in `Bare` links to no commit, so that its answer has no SHA. A load
ends, fails, or waits for the browser for ever (`Hangs`). Time is a `cooldown` counted
down by `Tick`, bounded by `Interval`. `storer` is history: the key whose execution
wrote a row last.

| Code | Module |
|---|---|
| `singleFlight()` 277-284 | `Joins`, `Request`, `Forgotten`, `Ends` |
| `respectRateLimit()` 342-348 | `Request`, `Wake`, `Tick` |
| `defaultFetchPage()`, `errorToStatus()` 290-366 | `Shown`, `Extract`, `LoadFails`, `Hangs` |
| `probe()` 109-143 | `Answered`, `ProbeReturns` |
| `getPage()` 156-216 | `CachedPage`, `Unchanged`, `StoredSha`, `RowAfter`, `PageReturns` |

### Indexer

Processes share the committed tables `db`; `txn[p]` is the private view of an
open transaction. While `at[p]` names a SQL statement, nothing else of `p` runs
(better-sqlite3 is synchronous), but other processes do, and `Crash(p)` may hit
any statement. `call[p][r]` is the single-flight build of `r`, with the status
row it read before its first `await` (`seen`). `strays` is history: the repositories
whose chunks were committed before there was a fingerprint, by a build whose stamp did
not follow.

| Code | Module |
|---|---|
| `applyEmbedderAutoReindex()` index.ts 209-260 | `EffectiveOld`, `BootStatement`, `ListRepos`, `DropAll`, `Restamp` |
| opening the cache, cache.ts 303-318 | `Start`, `GraphsUnbuilt` |
| `indexRepo()`, freshness check 116-169 | `UpToDate`, `IndexRepo` |
| `getPage()` as the indexer and the get_page tool use it | `FetchCached`, `FetchUpstream`, `FetchShell`, `FetchFails`, `GetPage`, `Fetched` |
| decision 206-259 | `ReadSha`, `UsableSha`, `RefreshSuffices`, `Embedded`, `EmbedFails` |
| refresh 231 | `Refresh` |
| transaction 268-299 | `Begin` ... `Commit`, `Stamp` |
| empty tree 244-255 | `ClearRows`, `ClearEdges`, `ClearStatus` |
| rollback 284-293 | `Throws` |

`AtomicIndex` has one entry per repository: none, or a version, the content of its
chunks and of its graph, and the model. A build publishes a whole entry, of a later
version or to build the graph (`Publish`); a wiki that became empty loses its chunks,
then its graph, and then gets the new version (`DropChunks`, `DropGraph`, `Empty`); the
model is recorded (`Stamp`), and an index without a record is taken for the legacy
model's (`Adopt`); a model swap forgets everything; a new extractor unbuilds the
graphs. `MCIndexer!Entry` maps the three tables to such an entry; tables that
contradict their status row (`Agrees`) map to `Torn`, which is none of `AtomicIndex`'s
entries.

### ServerLifecycle

`main` is the pending await of `main()`, `closers` counts the executions of
`closer()` by the await they are in, `pending` and `ipc` are the signals and
messages on their way, `wrapper` is the exit code of the parent process.
`windows` is chosen at the start: there the wrapper sends a message and starts a
timer that kills, elsewhere it passes the signal on. `stdin` ends when the client
leaves (`ClientLeaves`); the process then ends by itself once nothing holds its event
loop (`Busy`, `LoopDrains`), without `closer()`. What `closer()` awaits may throw, and
its `finally` exits all the same (`CloserThrows`). The signal handler that the driver
singleton installs closes the browser.

### Search

A call of `find_chunks`, `get_page(prepareOnly)` or `find_neighbors` is suspended
at one await: `racing` a build, `encoding` the query, `loading` or `scoring` with
the reranker. The promises that calls share are variables of their own; they
settle in one event, and the calls that await them run on in the same action,
because their microtasks do. A build is here only what its callers see of it
(module Indexer has the rest): it may succeed, fail in each way `IndexerResult`
has, or never end. `breaker` is what is left of the window of `lastFailureAt`;
`sinceFailure` is a clock of the environment that the code does not have. A repository
may have an index of an old release, without a SHA ("unstamped") or without a graph
("ungraphed"), which some tools accept and others build anew (`Ready`).

| Code | Module |
|---|---|
| `resolveTargetRepos()` retriever.ts 523-609, `ensureIndexed()` graph_query.ts 376-442, get_page.ts 153-235 | `Ask`, `AskAll`, `Ready`, `RaceTimesOut`, `AnswerFor`, `Served` |
| `findChunks()` 135-497 | `Encoded`, `Ranked`, and module `Ranking` |
| `Embedder.resolveEncoder()`, `encode()` | `EncoderUsed`, `EncoderSettles`, `EncodeFails` |
| `Reranker.score()`, `resolveScorer()`, `loadScorerWithTimeout()` | `Tripped`, `AfterRejection`, `ScorerLoads`, `ScorerFails`, `Scored` |

### VectorTables

`db` holds the three tables as functions of the rowid; an embedding is a function
of a chunk's text and model, so that a row that belongs to another chunk shows.
SQLite hands out the rowid after the highest one in use, which is how rowids of
deleted chunks come back. A process is configured with or without the extensions
and the operator's overrides (`Kinds`); a build is one action here, since it is
one transaction, and the drop for an empty page is the three statements it is, with the
status row behind them. The backfill of fts_chunks may skip rows (`Skippable`): less
than one in `Tolerated`, which is 100 in the code. Two variables are history: `torn`,
the repositories that a virtual table may miss chunks of, and `db.adopted`, set when the
fingerprint was stamped as the legacy model's on an index without chunks.

| Code | Module |
|---|---|
| `Cache` constructor 225-330, `runV6Migration()`, `runV7Migration()` | `Opened`, `MigratesVec`, `WithVec`, `MigratesFts`, `WithFts`, `Skippable` |
| `applyEmbedderAutoReindex()`, `dropAllChunks()` | `Boot`, `Swapped`, `AllDropped`, `Recreated` |
| `upsertChunks()`, `dropRepo()` | `Build`, `Upserted`, `Dropped`, `BeginDrop` ... `DropChunks`, `WriteStatus` |
| the joins of the two queries | `NativeRows`, `Bm25Rows`, `Near`, `Words` |

`AtomicTables` has no rowids and no processes: for each repository it has the page
that is stored, and what the vector query and the full-text query find of it. A
build replaces all three by one page; the statements of a drop take what one query
finds, the other, and the page; the migrations fill both queries from the pages, that
of the words maybe in part; a swap forgets everything. `VectorTables!Atomic` maps the three tables to it: a
repository's page is its chunks (`Stored`), and a query finds a chunk by the embedding
or the words that the join on rowid gives it (`Near`, `Words`), whosever they are.

### ProjectScan, RepoResolver and ManifestWatcher

A directory is a sequence of names, a file system maps files to what a parser
finds in them: whether they are bad, their dependencies, their members. On that
`ProjectScan` defines the scanner function by function, under the names the code
has (`scanAtDir`, `handleCsprojMatch`, `scanProjectRecursive`, ...), and
`RepoResolver` does so for the registries. `ManifestWatcher` extends both: its
actions are an edit of the project, one `handleChange()` (`Unclaimed`, `Keeps` or
`Applies`), and the awaits of a tool call that resolves and probes a dependency
(`Ask`, `RegistryAnswers`, `ProbeEnds`). chokidar reports every change of a
watched path, several changes maybe as one. Three variables record history that
the code does not have, for the properties to name their exceptions: `strayed`,
the roots whose manifest became another, or was given up as a member; `shared`,
the files that one root gave up while another knows them; `skipped`, the roots whose event
was consumed by a scan that threw.

### Ranking, WikiText, WikiGraph, MavenVersions

Functions, each with what it promises stated apart from how it computes it: a
score summed over lists against a merge in two loops, a prefix of slugs against a
walk over inferred parents, the text of a page against the edges of both ends,
a distance in the graph of BOMs against a walk with a visited set and a cache.
A Maven row is an envelope, or flat as releases before v2.5 wrote it (`Stored`, `Flat`),
and is read by `ParseEnvelope`. The chunker adds up what paragraphs are estimated at
while it fills a window, and looks at the joined text when it decides whether to split a
section (`SectionChunks`). JavaScript's stable sort is `StablySorted` of `Lists`: at each place the element
that has as many elements ahead of it, by its key or, among equals, its position.

## 3. What the runs show

| Run | Instance | Shows |
|---|---|---|
| `driver_close` | 2 callers, 1 slot, 1 closer, 3 launches | slots are neither lost nor doubled, no barging, a dead launch is never joined, one Chromium until a close() interferes; every call settles while the browser answers |
| `client_rows` | 2 calls, probe and 2 keys that share a row, 2 versions of which one links to no commit, empty shells | body and SHA of a row are of one version, or the body has no SHA of its own; a load rolls a row back only if another key wrote the row meanwhile; the inflight map is exact and every key is freed unless its own load hangs |
| `indexer_single` | 1 process, 2 repositories, 2 versions, 2 models of which one is the legacy default, graph on or off | refinement of AtomicIndex; no re-embedding for an unchanged SHA; no request is served from another model's chunks, but for strays that the legacy model adopts |
| `indexer_shared` | 2 processes, 1 repository, the same 2 models, shells, graph on or off | no chunks without a status row; chunks appear together with it |
| `indexer_live` | 1 process, 1 repository, 2 versions | the index catches up with upstream infinitely often, crashes notwithstanding |
| `server_shutdown` | 3 signals, both platforms, a client that may leave | the cache is closed after the watcher; exit code 0 means an orderly shutdown, a closer that threw after it removed the instance record, or an idle server that its client left; on Windows a signal ends the server even if its closer hangs |
| `search_calls` | 2 calls, 2 repositories of which one may have rows of an old release, window of 2 ticks, 1 outage | every call returns, even if its build hangs; nobody is left at an await that nothing settles; the breaker holds back downloads; the reranker recovers once the network does |
| `tables` | 2 processes, 2 repositories, 3 rowids, 2 sections, 2 texts, 2 models, any backfill that keeps one row | refinement of AtomicTables: whichever rowids a build gets and wherever a drop, swap or migration is interrupted, either query finds one build's whole page of a repository, or nothing of it, and no step changes what is found of another; only of a page from before the backfill the words may stay incomplete, until its next build; behind the migrations no chunk is hidden but of a repository whose drop was interrupted or of which the backfill skipped a row; a swap rebuilds vec_chunks |
| `watcher` | 4 projects, 3 edits, 5 watched paths | once the events are handled a root shows what its manifests say, if it knows and watches what its scans read and no other root does; what the last scan named is watched; what leaves the project is forgotten, and a wiki goes only if the root that loses a dependency has no other that leads to it |
| `algorithms` | 170,786 inputs of seven families | see the properties of `MCAlgorithms`, one per family |
| `driver_context` | 2 callers, 2 slots | deviation 1 |
| `tables_dim` | as `tables`, 1 section | deviation 14 |

**Why the bounds are enough.** A slot that is released goes to a waiter or to a
newcomer: two callers on one slot, each of which calls again, are all three, and
the proofs have any number. A stale close needs a launch that ends after it and a
browser it forgot: three launch identities let one be referred to beside two.
Two keys share a page row, its own and a subsection's, and one execution of each is
what it takes for one to be overtaken by the other; the probe shares their rate limit.
Two repositories are the least for which a
model swap can be partial; two versions the least with an old and a new one; two
models the least with a swap. Two processes are all that can interfere in one
SQLite transaction. Three signals give a second closer while the first waits
and a third signal before the listener is installed.

In `search_calls` a build or a load is shared by at most all calls, so two are
the least that share; a window of two ticks has an inside and an end; one outage
makes the one failure that recovery has to survive; what an old release left of one
repository is beside one that has nothing. In `tables` three rowids
hold two repositories and one more row, which is what it takes to delete a row
below the highest one and have a rowid return; two sections make pages of two
chunks, the least of which a query could find half, or a page that has one
heading twice, and two texts let a row be an old one. `Tolerated = 1` lets a backfill
skip any rows but not all, of at most two; the proofs have any `Tolerated`. In `watcher` three edits are
a change, a break and a repair, or a removal and its return, the Gradle project
has one file more than are watched, and the fourth project is a Rust workspace
that lists its own directory, whose manifest is a member at once; both
dependencies may lead to one repository, whose wiki must then survive that a root
loses one of them and keeps the other. In `algorithms`
the retrieval has two repositories of up to three chunks on both sides of a
limit of two, the pages four paragraphs, the graph three nodes below a heading
and a page that links back, the projects any five of eighteen .NET and
twenty-five workspace manifests, good and bad, and the POMs every graph of
imports of three BOMs, cycles included, with rows of both shapes.

**Symmetry** is used in `indexer_single` and `indexer_shared` (processes and
repositories; the models differ, one is the legacy model) and in `tables` (processes,
repositories, sections, texts), which check invariants, step properties and
refinement only. Runs with liveness have no symmetry.

**Deadlock** is checked except in `server_shutdown`, where the server ends, in
`watcher`, where the edits do and every dependency may have its rows, and in
`client_rows`, where all calls may hang. In
`driver_close` three launches keep an identity free for the next one; elsewhere
rows expire, clients ask and processes restart for ever.

**Fairness.**

- Driver: the installer has `PLAYWRIGHT_INSTALL_TIMEOUT_MS`, and microtasks run.
  Strong fairness for the installer, because microtasks disable an event for a while
  without cancelling it. That launches and pages settle is no fairness of the
  specification but a premise of `EveryCallReturns` (`NothingHangs`): only `launch()`
  and `goto()` have a timeout (deviation 30). `close()` has no fairness, and the
  death of the browser has none.
- Client: timers fire, a settled promise resumes, and a load succeeds, fails, or is one
  that hangs; that it does not hang is not assumed. Weak fairness is enough: no other
  call disables these steps.
- Indexer: clients keep asking, rows expire, the process is restarted, and no
  statement, fetch or embedding fails every time. Strong fairness, because a crash or a
  throw takes the turn away; no fairness for crashes or failures. An encoder whose load
  was rejected, which fails until a restart (deviation 15), is left out here.
- Search: timers fire, a model load and an inference end, and a call that can run on
  does. The code has no timeout for loading or encoding, so that these ends are an
  assumption about the libraries. Nothing is assumed of builds, of the network or of
  clients, except in the premise of `RerankerRecovers`.
- Server: only the force-kill timer and the exit event of the child. The boot,
  `watcher.stop()` and `driver.close()` may hang.

## 4. Deviations met while modelling

Two have a run that shows them (1 and 14). The others are read off the
same actions; no run shows them, and none of the passing runs contradicts them.

1. A `withPage()` that enters between `chromium.launch()` and `newContext()`
   takes the early return of `ensureLaunched()` and dereferences a null context.
   If `newContext()` rejects, every later call does, until `close()`.
2. One that enters between `newContext()` and `addInitScript()` opens a page
   without the stealth script the header of the file promises.
3. `close()` during a launch forgets its promise; the next call starts a second
   browser and the reference to the first is overwritten.
4. `getPage()` stores an empty application shell as the page, although a comment
   says callers map it to rate_limited.
5. `respectRateLimit()` sleeps once and reserves its slot after the sleep: calls
   that arrive within one interval wake together and load together.
6. The empty-tree branch of `runIndex()` writes three statements outside a
   transaction; a crash after the first leaves a status row that counts chunks
   which are gone.
7. The same-SHA refresh writes back the whole status row as read before the
   fetch, and undoes what another process did to it meanwhile.
8. A crash between COMMIT and the first fingerprint stamp of a new cache makes
   the next start take the chunks for those of the legacy model: an operator who has
   gone back to that model, which is the default, keeps another model's chunks under
   its name. `CleanAfterSwap` names the case (`strays`).
9. A rebuild with `CODEWIKI_DISABLE_KG=1` keeps the old edge count under the new
   SHA, so the old graph passes for built once the switch is lifted.
10. `buildServer()` creates the driver singleton without the install promise, and
    the later call that passes it is ignored: no launch waits for the install.
11. For the same reason nobody observes that promise, and a failed install ends
    the process with an unhandled rejection.
12. On POSIX a signal that arrives between the creation of the driver singleton
    and the end of `main()` only closes the browser; the server stays.
13. Two subsections of one page have single-flight keys of their own: the older
    of their loads may store last and roll the page's row back until it expires.
    `OnlyOvertakenRegresses` says that there is no other way.
14. A fresh install that is restarted with a model of another dimension before
    anything is indexed keeps the vec_chunks of the first one, and every build
    fails on its first insert: the guard looks at a fingerprint that only a build
    stamps. `getEmbedModelDim()` would tell; nothing calls it. A start with the legacy
    model on an index of status rows without chunks stamps that model's dimension, on
    a vec_chunks of whichever (`db.adopted`).

Search and models:

15. `Embedder.encoderPromise` keeps a rejected load: after one failure every
    embedding fails until the process is restarted (the reranker clears its own).
    Neither loading nor encoding has a timeout.
16. A download that has timed out goes on, and after the breaker's window a
    second one starts beside it.
17. `find_neighbors` passes the `EmbedderError` of a build on as an exception,
    where the other tools answer `retry`.
18. `findChunks()` reads the two lists of a repository in statements of their own
    and its sections after another await: a build of another process may fall
    between them. `total` counts chunks that have no row in vec_chunks.
19. A chunk may exceed `maxTokens`, which a comment (chunker.ts:78-81) calls the most:
    by a single paragraph behind the overlap; and because `splitWithOverlap()` adds up
    what paragraphs are estimated at, where the chunk joins them with blank lines
    (line 96) and a section is split by the estimate of the joined text (line 147): by a
    token for every two paragraphs.

Tables:

20. Processes with and without sqlite-vec or FTS5 on one `cache.db`: what the one
    writes is invisible to the other's queries for ever, and what the one deletes
    leaves rows behind that a later rowid inherits. A comment (cache.ts:281-282)
    says that a later open will run both migrations; the fast path at schema 6
    and 7 does not. With `MixedWriters = TRUE`, TLC finds `PagesAreAtomic` violated.
21. Two headings of one slug collide on the key of a chunk: the second replaces
    the first, the rows of the first stay in the virtual tables, and the count of
    the status row includes it.
22. The drop for an empty page is three statements (see 6): interleaved with
    another process it leaves rows whose chunk is gone.
    `runV7Migration()` skips rows that fail to insert and, if they are less than one in
    a hundred, stamps schema 7: the full-text query misses those chunks until their
    repository is built again.

Projects:

23. `list_project_dependencies` serves a `wiki_status` row of any age, although
    `WIKI_STATUS_TTL_MS` bounds it everywhere else. `repos` rows never expire, so
    that a guess made while a registry was down is kept.
24. `pnpm-workspace.yaml` without `packages` ends the workspace traversal, where
    a comment says that it falls through to the `workspaces` of package.json.
25. A solution above hides a project that it does not list, and the matched
    project is not watched, although a comment says so. A recursive scan reads a
    project twice below nested solutions, and where a repository nested in
    another, or a solution of no use, parts it from the solution that lists it
    (`Parted`). What lies below a scanned directory and is no member, nested
    aggregator modules included, is not scanned.
26. The watcher keeps the `manifestPath` of the start: when another manifest
    takes over (a directory's first project is deleted, a manifest of a higher
    priority appears), the new one is not watched, and members are derived by the
    type of the scan before. When a solution drops its first project, the next
    one becomes the manifest, leaves the extra files for that, and is unwatched. A
    workspace that lists its own directory as a member unwatches its manifest
    when it no longer does. Directories are not watched: a `.git` that appears
    above a project ends the walk to its solution or version catalog, and a member
    directory that goes lets the next pattern in under the cap, both unnoticed
    until a file of the root changes.
27. An event goes to the first root that knows the file: of two roots below one
    `Directory.Packages.props` the second is not rescanned, and the first that
    drops the file unwatches it for both.
28. A scan that throws consumes its event; a member that it would have added
    stays unwatched until another file of the root changes, so that its repair
    is not noticed. A manifest that is really deleted is
    never invalidated. Additions do not look at the cap. `start()` does not wait
    for chokidar to be ready. A lookup in flight stores its row after the removal.
    The wiki row of a repository that only another root still needs goes with the
    last dependency of the root that lost it, where a comment (cache.ts:626-628) says
    that no dependency has survived.
29. Comments at bom_resolver.ts:67-72 and in cache.ts still say that nested BOMs
    are not cached; they are. A row from before v2.5 is flat: its POM is taken to import
    nothing, which cuts the walk there, and it never expires. (Such rows of the parent's
    table are more than a release left; the model has them for both tables.)

The browser, and the end of the process:

30. `setDefaultTimeout()` bounds what a page does, the navigation above all; a launch
    has Playwright's own timeout. `newContext()`, `addInitScript()`, `newPage()`,
    `page.content()` and `page.close()` have none: a page that hangs keeps its slot,
    and the single-flight key of its load, until the process ends.
31. A page that links to no commit is stored under the SHA of the row it replaces
    (`firstCommitSha ?? cached.commitSha`, codewiki_client.ts:197), or under the empty
    string: its citations name an older commit.
32. Exit code 0 has two more causes than an orderly shutdown. When stdin ends and nothing
    else holds the event loop, the process ends without `closer()`, with the cache open
    and the instance record in place. When `watcher.stop()`, `driver.close()` or
    `cache.close()` throws, the `finally` of `closer()` (index.ts:442-455) exits all the
    same and skips the rest.

## 5. What is proved

For every value of the constants, under the named assumptions of each module
(finite callers and at least one slot; `None` is not a member of the sets it is
added to; at least one version; the shapes of the chunk and edge counts; the
shapes of the file versions and registry answers; bounds of inputs that are
numbers):

| Module | Theorems | Inductive invariant |
|---|---|---|
| `PlaywrightDriver_proofs` | `DriverTypeOK`, `DriverSlotAccounting`, `DriverQueueIsWaiting`, `DriverNoBarging`, `DriverPromiseHasLeader`, `DriverOneBrowser` | the accounting is inductive only with the exact queue: a release that shifts a caller who does not wait would wake nobody. One browser, until a `close()`: the launch that runs is the one the promise names, and none runs beside a browser that is kept (`OneLaunch`) |
| `CodeWikiClient_proofs` | `ClientTypeOK`, `ClientSingleFlight`, `ClientRowIsOneVersion`, `ClientOnlyOvertakenRegresses` | typing needs single flight (the key of a running call is its own) and that a returning call has an answer; for the rows, that each row and each snapshot of one is of a version that upstream has served, and that the snapshot a load started from is still the row unless another key has written it |
| `Indexer_proofs`, several processes | `IndexerTypeOK`, `IndexerRowsHaveStatus`, `IndexerRowsArriveWithStatus` | one writer at a time, and for each process what its view must hold at each statement: chunks without a status row exist only in the private view between `putRows` and `putStatus` |
| `Indexer_proofs`, one process | `IndexerCleanAfterSwap`, `IndexerNoReembed`, `IndexerImplementsAtomicIndex` | `SwapInv`: a serving process and every chunk it sees are of one model, the stamped one if there is one. or a stray's, of a process that runs the legacy model. `SeenInv`: what a build holds of the status row over its awaits is still the row. `Flow`: SHAs of rows, calls and pages only grow. `AgreeInv`: the tables agree with their status row, and at each statement of a build which parts it has replaced |
| `ServerLifecycle_proofs` | `LifecycleTypeOK`, `LifecycleQuiescentClose`, `LifecycleZeroMeansEnded` | closers, messages and pending signals together never exceed the signals sent; a closer past the watcher's await has found it stopped; what each end with exit code 0 leaves behind |
| `Search_proofs` | `SearchTypeOK`, `SearchNobodyStranded`, `SearchNoHerd` | the breaker runs down no faster than the clock that counts from the last failure, and a rejected load is not kept; who awaits a promise is told by what the promise is |
| `VectorTables_proofs`, any processes | `TablesTypeOK`, `TablesNothingHidden` | behind its migration a virtual table has a row for every chunk, but of the repositories of `torn` (`Covered`), and what a process found when it opened the database still holds (`SharedInv`) |
| `VectorTables_proofs` | `TablesRowsMatch`, `TablesSwapRebuildsTable` | the database is sound (`Sound`: one model, a virtual row under a chunk's rowid is the chunk's, no virtual rows before their migration, `Covered` behind it), all running processes have one model, and what each found when it opened the database still holds (`Opener`) |
| `VectorTables_proofs` | `TablesImplementAtomicTables` | `PagesInv`: the same, and besides a repository has one chunk for a section, and no drop has begun before the migrations |
| `ManifestWatcher_proofs` | `WatcherTypeOK`, `WatcherWatchesWhatItKnows`, `WatcherForgetsRemoved` | every file is one that a parser can return, the scan that a root keeps is one that `scanProjectRecursive` can return, and a root that has not strayed has its manifest as the match of that scan; a probe in flight is for a repository |
| `ManifestWatcher_proofs` | `WatcherViewIsCurrent` | `CInv`: the files are a project on a disk (`OnDisk`), a root's scans start where its manifest lies (`Rooted`), and a root that is not skipped has the scan of files as they once were (`old`), since when every change of a file that it watches and it alone knows has its event still pending (`Current`) |
| `Algorithms_proofs` | `ScanIsComplete`, `ScanReadsOnce`, `AlgorithmsScansAreComplete` | along the recursive scan: what was walked so far is scanned, below a scan or below its members (`Walked`), and what was read is among the directories handled (`Handled`); for the run, that every input is one that `InputInit` or a step of `AskOne` makes (`InputInv`) |
| `Algorithms_proofs` | `ResolutionIsSourced`, `AlgorithmsReposAreSourced` | none but `InputInv` |
| `Algorithms_proofs` | `RowsAreReplayed`, `VersionsOfNearest`, `AlgorithmsVersionsAreNearest` | after k rounds of the walk the frontier is what lies at distance k, the seen BOMs are what lies nearer or there, and the merged versions are decided by the levels before (`Decided`) |
| `Algorithms_proofs` | `ChunksCoverText`, `SubtreeIsExact`, `AlgorithmsPagesAreCutCleanly` | the windows so far are runs of paragraphs, each fits or ends with the paragraph that made it too long, and each reaches to where the next begins (`Covers`), and the estimate of a joined text against the sum of its paragraphs'; for subtrees, on the length of a slug, that walking up inferred parents reaches every heading that is above |
| `Algorithms_proofs` | `LinksFoundFromBothEnds`, `CrossLinksFoundFromBothEnds`, `DiagramsStayClosed`, `AlgorithmsNeighborsAreSound` | every edge under a page's name comes from one of its nodes; the neighbors of one section share one key, so the sort keeps the members of a diagram before its arrows; `InputInv` for the run |
| `Algorithms_proofs` | `FusionIsExact`, `PagesReturnCandidates`, `FlagTellsTruth`, `AlgorithmsPagesAreComplete` | the merged list is the union without repetition; per repository the counted total and the fused list are equal or both at the limit; after p pages the walk has the first p * k candidates; `InputInv` for the run |

The hypotheses, and what each excludes:

- `TablesRowsMatch`, `TablesSwapRebuildsTable` and the refinement assume
  `~MixedWriters`: every process has both extensions and writes both virtual tables,
  and processes that run at one time have one model. Deviation 20 is what TLC finds
  otherwise. `TablesNothingHidden` holds of any processes, and names the repositories
  that it excepts.
- The theorems about one process assume `OneProcess`: between processes
  the code does not promise them (deviation 7).
- `IndexerImplementsAtomicIndex` assumes nothing else: not of shells, pages without a
  SHA, disabled graphs or models. It is proved as two facts, `Init` implies the abstract
  `Init` and a step of the invariant maps to an abstract step or none; `Commit` maps to a
  publication, the statements for an empty tree to theirs, the stamps to a record of the
  model or an adoption, the drop of all chunks to a swap, opening with a new extractor to
  unbuilt graphs, and everything else to none.
- `WatcherViewIsCurrent` assumes `Uncut`, no workspace lists more patterns than
  `MAX_WORKSPACE_MEMBERS` (and the cap leaves room for two), and
  `SteadyRepositories`, no edit makes or removes a `.git`: the last sentence of
  deviation 26 is what they exclude. `MCManifestWatcher` has both as an
  assumption that TLC evaluates, so that the run is an instance of the theorem.

- The theorems about the graph assume `IsGraph`: the stored edges are finite, and those
  under the page's repository are exactly what the extraction of the page gives, since
  `GraphStore` replaces a repository's edges in the transaction of its chunks. It
  excludes the stale edges of deviation 9. No section has the empty slug.
- The theorems about ranking assume `AreTables`: a repository's full-text matches are
  its chunks, each once, as the join on rowid returns them when `RowsMatch` holds.

No assumption is made about the number of processes, repositories, versions,
calls, roots, edits or signals. `IndexerRowsHaveStatus` is what `dropAllChunks()`
rests on, which lists repositories by status row. `SearchNobodyStranded` is the
part of `CallReturns` that is safety: fairness has to supply only that promises
settle. `ResolutionIsSourced` is the lemma that makes
the watcher's table of repositories a table of what registries said: `resolve()`
returns no repository that no answer names.

`TablesImplementAtomicTables` is what the joins on rowid amount to for a reader; that
every joined row is the chunk's own (`TablesRowsMatch`) is the part of it that the
proof starts from. A build is followed chunk by chunk (`UpsertedAllPages`, an induction along the run of
`upsertChunks()`): each INSERT takes a rowid beyond all that chunks have
(`NextRowIsFree`), so that it disturbs no row of another repository (`SameRows`) and
overwrites what a virtual table may have kept under that rowid; a section that comes twice
replaces its first chunk. The statements of a drop, `Opened` and `Swapped` have a lemma each
(`DropPages`, `OpeningMigrates`, `SwappedPages`) for the abstract step they are.

The theorems about the scanner and the watcher hold of the scanner itself and not of
an abstraction of it. `WatcherViewIsCurrent` rests on one lemma for each function
of `ProjectScan`: two file systems that agree on the files which the one scan
reads, or looks for, have one value. From it follows that an edit leaves every
scan as it was that does not read the file, and an edit that changes a scan
leaves an event which `handleChange()` claims for that root, since no other root
knows the file. `ScanIsComplete` is about the walk of `scanProjectRecursive`: the
sequence in which the directories are visited exists and has each directory once
(an induction over a number, which is done for the set of the numbers that have
the property, `NaturalsByStep`, from the least number of a set); a directory is
skipped only if it lies below a member or below the match of an earlier scan.
`ScanReadsOnce` takes, for two scans that read one manifest, the directory from
which each got it, and shows that the later of the two was below the earlier or
is one of the exceptions of `IsReadOnce`; the proof is how `Parted` was found.

`VersionsOfNearest` is about the breadth-first walk of `enrichWithBomImports()` over
any graph of imports, cycles included. A BOM's distance is stated apart from the walk
(`ReachedIn`, which forgets nothing and visits again), and the induction over the
rounds shows that the walk with its visited set sees the same levels. `RowsAreReplayed`
is an induction of its own: with any rows, old ones and new, the walk goes through the same
states as on the POMs as the rows show them, without any row (`RowsAreRead`): an envelope
keeps the imports beside the versions, and a flat row loses them. Both need
only that imports name POMs of the graph (`ArePoms`); a POM that cannot be fetched
is one of `down`. That recursive functions over `0..n` exist and are typed is
`RecursionExists`, for any function that maps a number and a value to a value.

`ChunksCoverText` is about `splitWithOverlap()` with any text, limit and overlap: the
loop that flushes a window and carries its tail over is followed paragraph by
paragraph (`AddCovers`), with the state that it keeps between two of them. The tail
that is carried over has no more than `overlap` tokens (`CarryFits`), so that a window
whose sum goes beyond the limit holds one new paragraph and nothing else that is new;
and the text of a window with its blank lines is estimated at no more than that sum
and half a token for each paragraph. A section that is not split is within the limit. `SubtreeIsExact` compares two relations on the headings of a page: to
be found below the target by parents, each the nearest heading above, and to have the
target as prefix of the slug. A slug's parent is shorter than it, and there is no
heading between the two.

`SortIsStable` is the lemma that ranking and the graph rest on: the positions
before which n others are sorted are different for different n, by pigeonhole there is
one for each n, and the list so enumerated is sorted and keeps the order of equal
keys. `FusionIsExact` takes from it that no chunk which
`reciprocalRankFusion()` leaves out or places behind has a higher sum of reciprocal
ranks, for any `RRF_K` and `RERANK_TOP_N`. `PagesReturnCandidates` is about two numbers
that the code computes apart, the total of a response from counts of the tables and the
length of the list that is paged: they agree because a repository with at most
`RERANK_TOP_N` chunks has all its matches among its vector rows, and one with more
fills the list (`FusedCount`, `SumsAgree`). `FlagTellsTruth` shows that `truncated` is
set whenever a chunk was cut, by any of the three cuts.

`LinksFoundFromBothEnds` and `CrossLinksFoundFromBothEnds` compare what the two
directions of a query on `kg_edges` return with the text of the page, case by case
over the types of its nodes. `DiagramsStayClosed` needs the sort: an answer is cut
after it is ranked, and the members come before the arrows only if ranking does not
part them.

Model-checked only: every liveness property, which is beyond the prover. All
invariants of the passing runs are stated by a theorem.

## 6. What is not modelled, and the plan

Not modelled, and why:

- **Text**: HTML and the DOM, manifest formats, regular expressions that find
  links, diagram rendering, the layout of answers and the serializer that cuts them to
  a budget. Modules start from what a
  parser finds. Glob patterns stand for the directories they match.
- **Arithmetic of scores**: cosine and BM25 are an order of the chunks; the fusion
  of the two is exact.
- **Logger, heartbeat, metrics, the scan for sibling processes**: output that no
  component reads.
- **Configuration and runtime checks**: read once, constants of the modules.
- **The in-memory fallback** of the cache: one process, no second table.
- **The in-flight map of the BOM resolver**: concurrent lookups share one answer,
  the functions of `MavenVersions` would not tell them apart.
- **Installer**: a program of its own.

The model of a build takes embedding as one step: batches change nothing that is
stored before COMMIT. A write to a stdout that the client has
closed (EPIPE), which nothing in the code handles, is not among the ends of
`ServerLifecycle`. `Search` knows a build by its outcome, `VectorTables` as one
transaction; `Indexer` has its statements.

What is left to prove: that the build which `Search` and `VectorTables` take as one
step is the one that `Indexer` makes in many. `IndexerImplementsAtomicIndex` shows that
it may be taken so, for readers of the status rows; there is no composed module of
statements and rowids.
