# rss-fulltext in TLA+

rss-fulltext turns RSS and Atom feeds into full-text feeds. One process reads a
list of feeds, runs one goroutine per feed that periodically fetches it,
extracts every linked article and publishes the result as `<name>.xml`,
`<name>.atom` and `<name>.json`, and serves that directory over HTTP. The list
is reloaded while the process runs.

This directory models that program: modules checked with TLC on small
instances, and theorems about them proved with TLAPS for all instances. File
and line numbers refer to the repository's source; `PROJECT.json` maps every
definition to the lines it models.

## 1. Inventory

| Part (source) | State it keeps | Operations | Talks to |
|---|---|---|---|
| Refresh worker (`generator.go`) | its position in `Run`/`Refresh`, temporary files | stagger, first refresh, tick, exit; fetch, enrich, empty-feed policy, stage, rename, publish | output directory, Tracker, metrics, extractor |
| Tracker (`generator.go`) | status per feed name, behind a lock | Init, Remove, update, Snapshot | written by workers and manager, read by the server |
| Manager (`manager.go`) | map name -> running worker, `started`, behind `m.mu` | Apply, Shutdown (with startLocked, stopLocked, removeOutputs) | starts, cancels and awaits workers; deletes outputs |
| Process (`main.go`) | one context, one wait group | boot, signal or server failure, shutdown | calls Load, Apply, Watch, Purge, Shutdown |
| Watcher (`watch.go`) | last modification time and size | poll, load, onChange | the configuration file, Apply |
| Configuration (`config.go`) | none | Load, normalize | |
| File cache (`filecache.go`) | a directory, no lock | Get, Set, Purge | extractor goroutines, janitor goroutine |
| Extractor (`extractor.go`) | none but the cache | Extract, with negative caching | cache, outbound HTTP, metrics |
| Enrichment (`generator.go`, `enrich`) | an errgroup per refresh | one task per item, at most CONCURRENCY at once | extractor |
| Clean-up (`postprocess.go`, `policy.go`) | none | simplifyDOM, sanitizer policy | |
| Metrics (`metrics.go`) | counters and gauges, a lock per family | Inc, Set, WriteText | workers, extractor, scrapers |
| Outbound guard (`safehttp.go`) | idle connections of the Transport | redirect, port and address decisions | extractor, feed fetches |
| HTTP server (`server.go`) | none | health, status list, static files | Tracker, output directory, metrics |
| Command line (`main.go`) | none | environment, health check | |

What is hard here, and what makes each part correct:

* *Workers and manager.* A worker never checks that it is alone: it is the
  manager's wait in `stopLocked`, held under `m.mu`, that keeps two workers of a
  name, or a worker and the deletion of its files, apart. Reloads, ticks, random
  selects and a signal interleave with every step of every worker. Correct
  means: one worker per name, the list of the last reload and nothing else is
  running, no file comes back, everybody ends.
* *Publishing.* Three files, a status entry and metrics are written one after
  the other and each step can fail, or be the last one of the process. Correct
  means: the status never claims a success the disk does not show, `.xml` is
  never behind its alternates, a crash leaves little behind, each refresh is
  counted once, a feed with items is blanked only when it is too old, and who
  polls never goes back in time.
* *Live reload.* The watcher races an editor that may save in place. Correct
  means: what was saved last is applied in the end, broken files are read once,
  and what nobody saved is never applied.
* *File cache.* Lock-free; only atomic renames protect it. Correct means: it
  looks like a map from keys to entries that may lose some, a hit is fresh, a
  purge is complete, and what a killed process leaves goes away.
* *Extraction.* Overlapping calls for one article under two URLs, a dozen return
  paths, a deadline at any moment. Correct means: what is cached was earned, a
  failure never hides a good article, the whole feed is published in order or
  not at all, and repeated refreshes get there.
* *Metrics.* A family's lock is held while its rows go to the client. Correct
  means: scrapes fit together, and a slow client does not stop the workers.
* *Outbound guard.* Names resolve anew at each hop, connections are reused.
  Correct means: each request goes to an address and a port that are allowed.

`PROJECT.json` lists the hazards one by one, with the property that covers each
or the reason why none does.

## 2. Modules

| Module | Models | Builds on |
|---|---|---|
| `Worker` | `generator.go`: Run, Refresh, Tracker, refresh metrics | its `WorkerSpec` is also the abstract specification of the manager |
| `Manager` | `manager.go`, `runServer` of `main.go` | EXTENDS `Worker`: workers, manager and main together |
| `System` | the process over several lives, with crashes | EXTENDS `Manager` |
| `Server` | `server.go` and its readers | EXTENDS `Worker` |
| `Service` | the whole of `runServer` as its clients see it | EXTENDS `System` and `Server` |
| `Watch` | `watch.go`, `config.Load`, the start of `main.go` | with the editor as environment |
| `Cache` | what the extractor may expect of its cache | abstract specification |
| `FileCache` | `filecache.go`, the janitor of `main.go` | implements `Cache` |
| `Extractor` | `Extract` of `extractor.go` | EXTENDS `Cache` |
| `Enrich` | `enrich` of `generator.go` over repeated refreshes | EXTENDS `Extractor`, refines one step of `Worker` |
| `SimplifyDOM` | `simplifyDOM` of `postprocess.go` | |
| `Metrics` | the registry of `metrics.go` and its scrapers | |
| `Guard` | the client of `safehttp.go` | |
| `MC...` | | instances of the above for TLC |
| `...Proofs` | | theorems about the module they are named after; `ServiceProofs` also those about `System` and `Server`; `ArticleProofs` those about `Extractor`, `Enrich` and `SimplifyDOM` |

Operators called `Faulty...` are plausible mistakes. Nothing uses them; each
replaces the operator of its name in turn, to see that TLC finds a property
violated (the mutants of `PROJECT.json`).

### Worker

A goroutine is identified by the number of the handle it was started with, so
that two workers of one name can be expressed, even though they should not
exist. `pc[h]` is where it stands; the stages of `Refresh` are the steps between
which another goroutine, a signal or a failure is visible: the fetch, the
enrichment, the empty-feed decision, each staged file, each rename, the Tracker
update, `RecordRefreshSuccess`, and the deferred `RecordRefresh`. Every error
path goes through `FailRefresh`, as in the code.
The one error that is left out is that of `os.Remove` on a temporary file in the
clean-up of `writeOutputs`, which the code drops: it is assumed to succeed.

Data are abstracted to what the properties tell apart. A published file is the
start time of its refresh and its number of items. Time is a count of refreshes
per feed name (`clock`); the age of a file is one bit, `stale`, which `Age` may
set at any time, and which a new `.xml` resets. Items are counted, not
modelled. `MAX_STALENESS`, `FEED_TIMEOUT` and the like are the nondeterminism of
`Age` and of `FetchOrEnrichFails`. (A `MAX_STALENESS` of zero, which `validate`
accepts, becomes 24 hours in `NewWorker`, generator.go:124, so that there always
is a budget.)

`WorkerNext` puts the workers in the most general environment that keeps a
contract: a worker is launched, its files are removed and its status is deleted
only while no worker of that name is alive (`NoLiveWorker`); cancellation may
come at any time.

### Manager

`Manager` has all of `Worker` but that environment. In its place are the steps
of `Apply` and `Shutdown`, none of which checks the contract: the range over
`m.workers` in any order (`VisitKeep`, `VisitStop`), the wait of `stopLocked`
(`StopDone`), `ForgetGone`, one `RemoveNext` per file, the loop over the feeds
(`SkipRunning`, `StartNew`), and the end of `runServer`: `Signal`,
`WatchReturns`, `ShutdownBegin`, `ShutdownEnd`. `mpc` is the position of the one
goroutine that holds `m.mu`. That it implements `WorkerSpec` is a property of a
run and a theorem.

### System

`Restart` ends a life of the process at any point, orderly or in a crash, and
begins the next with fresh goroutines, map, Tracker and metrics on the directory
as it is. `leaked` collects the dotfiles of cut-off writes, which no code ever
looks for; `lost` is a ghost: names with files that this life knows nothing of.
A feed taken off the list while the process is down stays in it, with files that
are served for ever: `Apply` removes only the files of what it was running.

### Server

Handlers hold no state and take no lock but the Tracker's. A reader takes the
list (a snapshot) or opens a file and gets its content later, while workers
rename. `known` is what it may conclude from all its answers so far: a success
in the list, or a file, fixes how new every format published before has to be.
The route of the list wins over a feed called `feeds`, whose JSON file cannot be
had (server.go:45); `Route` says so. Conditional requests are left out: they
compare modification times to the second, so that two refreshes within one
second can look the same to a client.

### Service

`Service` runs `System` and the readers of `Server` on one directory and one
Tracker: the server listens once main's `Apply` has returned and goes on after
`Shutdown`. A restart breaks every connection, but clients keep what they know,
and so a reader may meet files of an earlier life next to the empty status list
of the new one. Nothing that readers do changes the process
(`ServiceKeepsSystem`).

### Watch

The file has a content (a list, or `Broken` for what `Load` rejects) and a
stamp (modification time and size). An editor saves at once, or truncates,
writes parts and then the rest. The process loads and applies the file (main),
takes the baseline, polls, loads and applies again. `Apply` is one step here.
`EarlyEdits` lets the file change before the baseline is taken, `ReadErrors`
lets a read of a good file fail; `missed` remembers that one of the two has
hidden a list. Two saves with equal time and size are one.

### FileCache and Cache

`Cache` is the promise: a map from keys to entries, which may lose any of them at
any time, and a hit that brings an entry the map had for that key at one moment
during the call - all of it, or its beginning (`Part`) if it is one of those that
are too large to be looked up (`Large`). In `FileCache` files are numbered as they
are created, and Get, Set and Purge are split at their system calls (`GetStat`,
`Open`, `Read`, `Evict`; `CreateTemp`, `WriteClose`, `Rename`; `ReadDir`, `Info`,
`InfoTemp`, `PurgeRemove`); an operation on a path affects whatever file has it by
then. `Crash` kills every call and leaves the disk. A hit takes effect when its
file is opened, a Set when it is renamed: with that mapping `FileCache`
implements `Cache`.

Every system call can fail. What the code drops without a word is a choice of the
action: `Remove` may leave the file (in Get, in Purge, and in `Cleanup`, the
deferred removal of Set), `InfoFails` and the second half of `InfoTemp` pass over
an entry of Purge. An `os.ReadDir` that fails ends Purge before it has done
anything, which is a step that changes nothing. `PurgeIsComplete` speaks of a Purge
that could list the directory, and excepts the entries whose own Info or Remove
failed (`kept`); the next Purge tries them again. Two more variables are there only
for stating properties: `stale[p]`, what was expired when the call of `p` began, and
`orphans`, temporary files whose Set is over. A time to live of zero (every call is then a no-op) is left
out.

Purge, and Get when it evicts, judge one file and remove its *path*. An entry
stored in between is lost although it is fresh. `LossNeedsRace` says that this is
the only way to lose one; filecache_test.go:96 ("fresh entry should survive
purge") holds when there is no such race. All that is lost is a refetch.

### Extractor and Enrich

`Extractor` runs any number of calls of `Extract` on the abstract `Cache`. What
the Web may answer is given by two relations: `Leads` (where an article may be
found, after redirects) and `Fails` (lasting failures), and is open at each
request; transient failures are always possible. An article is the URL it was
found at. `Spoil` is an entry past its `ExpiresAt` or damaged. What the cache brings
of an entry that is too large is the beginning of a JSON object; `cacheGet` cannot
decode that and goes on as if there were none, and so `Usable` excludes it.

`Enrich` has the loop of `enrich`, the errgroup whose `g.Go` blocks while all
goroutines are busy, the deadline, `itemFor` and the collection of the items,
refresh after refresh on one cache; it is the detail behind `EnrichOK` and
`FetchOrEnrichFails` of `Worker`. `EnrichSpec => ExtractorSpec` is proved.

### SimplifyDOM, Metrics, Guard

`SimplifyDOM` is a function on trees, applied until a pass changes nothing. As in
the code it calls itself for the children; here it is a recursive function of the
number of levels (`Tree`, `Pass`), so that it can be proved about. Which tags
there are and which articles readability returns are constants. The root is readability's div, as the code assumes: `unwrapNode` leaves a node
without a parent alone, so that a `p` as root with a block child would be
reported as changed in every pass.

`Metrics` has three families that stand for all, in the order in which
`WriteText` goes through their names; `LockFamily` to `FamilyDone` is one family
of a scrape, during which its lock is held. Counters and gauges of a feed that
was removed are never deleted; there is no code that could be modelled.

`Guard` follows a request through its redirects: each hop over a new connection,
whose address `Control` has seen, or over an idle one. The name of a host may
resolve to any address each time.

## 3. Runs

| Run | Instance | Shows |
|---|---|---|
| `manager_edits` | two names, three definitions, lists `<a1>`, `<b1, a2>`, `<b1>`, three handles, files of one name may resist removal | contract kept, one worker per name, reconciliation, neighbours undisturbed, nothing comes back, quiet shutdown |
| `manager_live` | lists `<a1>` and `<b1, a1>`, two handles, one file may age, no refresh by the ticker | a signal ends the process, an added feed is refreshed |
| `worker` | one name, three handles, two ticker refreshes, a file that may age | status, files, temporary files and counters agree; nothing older or needlessly empty is published |
| `service` | lists `<a1>`, `<a2>`, `<b>`, two handles, two lives, one reader; symmetric in the two definitions of `a` | publishing order, reconciliation, leaks and what a reader sees, across a crash |
| `watch_reload` | two saved lists, one partial list, six writes, early edits, read errors | changes are picked up, broken files are read once, an idle watcher is up to date |
| `watch_boot` | violation | an edit during startup is never applied |
| `watch_half` | violation | a half-written but valid file is applied |
| `filecache` | two keys, two fetchers, the janitor, two stored files, any call may fail, one crash | fresh hits, no stray files, complete purges, the one way to lose an entry, the refinement of `Cache` |
| `enrich` | four items (one without a link, one with a bad one, one that redirects to the last), two goroutines, one article too large for the cache | what is cached, counted and published, and that it is published in the end |
| `metrics` | two workers with two refreshes each, one scraper | scrapes fit together, no client stops a worker |
| `simplify` | some 5000 articles of up to four levels below the root | contents kept, fixed point reached, no quirk left |
| `guard` | two hosts, two addresses, three ports, three redirects, two idle connections | every hop is checked |

### Bounds

* `MaxHandles`: how many workers are ever launched. Two workers of one name are
  what a restart needs; three handles let a feed be changed, or removed and
  added again, next to another one. With two, `service` still changes a feed within
  a life or starts one in each of two lives; what it leaves out, a third worker,
  is covered by `manager_edits` within a life and by the theorems. `Apply` is called in the model only when
  enough unused handles are left, so that it is never cut short half-way.
* `MaxRefreshes`: a *ticker* starts a refresh only below it; first refreshes
  always happen. With a first refresh each, two workers and two refreshes of the
  ticker give a success, a failure over it and a recovery, also across a change
  of worker. The manager's runs have only the first refreshes (0): a signal or an
  Apply already meets a worker at any point of one. What they leave out is a tick
  that is ready together with the context, again and again; see the fairness.
* `MaxItems`: 1 tells an empty refresh from one with items; more is needed only
  where counts are compared, and there the start of the refresh tells two files
  apart.
* `Aging`: the names whose files may pass the staleness budget. Staleness matters
  to the manager only through the contract of the workers.
* `MaxLives`: two, a crash and what the next life makes of it; what it finds is
  any state a life can leave. Its run checks no liveness, `b` has a definition of
  its own, and nothing chooses between those of `a`, so the symmetry is sound.
* `MaxDepth`: the levels of an article. Five are the root and all that `MCArticles`
  has below it: enough for a quirk that only appears when another one two levels
  down is gone.
* `MaxStamp`: writes to the configuration file. Six allow two in-place saves
  (truncate, part, rest) or an in-place save amid atomic ones. An in-place save
  begins only if the bound leaves it the write that ends it.
* `MaxSets`: files the cache ever creates. Two for one key let one replace the
  other in the middle of a Get or Purge. `MaxCrashes`: one.
* `MaxRounds`: refreshes a worker records. Two, as the property compares a refresh
  with the one before.
* `MaxRedirects` and `MaxIdle`: three and two, so that a second hop may reuse what
  the first left, next to one of another request.

`Extractor` and `Enrich` have no bound but their constants: refreshes repeat for
ever. Deadlock is not checked where an instance stops when its bounds are used
up or the process has shut down; it is checked in `enrich`.

### Fairness

* `WorkerFairness`. Goroutines are scheduled and every request is bounded:
  `validate` rejects a REQUEST_TIMEOUT or FEED_TIMEOUT of zero, and file
  operations are assumed to return. So a refresh proceeds (WF). Leaving the loop
  is *strongly* fair: Go's `select` picks at random among the ready cases, so a
  worker that comes back to it again and again with its context done does not
  take the tick for ever. Weak fairness would not do, as the worker is away
  between two selects. No run depends on the difference, since ticks end at
  `MaxRefreshes`: that a refresh which always outlasts its interval cannot keep the
  process from ending is assumed here, and not shown by `SignalEnds`.
* `ManagerFairness`. The holder of `m.mu` keeps running (WF), the watcher leaves
  its select in the end (SF, for the same reason), main goes on. Reloads and
  signals are never required.
* `Watch!Fairness`. The ticker ticks, loads return, and a save that was begun is
  finished. That the editor stops is not an assumption: `MaxStamp` makes it, and
  `ChangesPickedUp` speaks of what stays on disk.
* `FileCache!Fairness`. Files grow old, and the janitor's ticker keeps calling
  Purge. It assumes a JANITOR_INTERVAL that is not zero, and that a temporary file
  which Purge tries to remove again and again is removed in the end (SF): one that
  the file system never gives up does stay.
* `EnrichFairness`. Goroutines are scheduled, and REQUEST_TIMEOUT ends a request.
  That upstream ever answers is not assumed: `PublishedInTheEnd` counts failures
  as progress, because items then fall back to their descriptions. It excludes
  refreshes whose deadline left no time to store one article that the cache can
  keep, and a cache that loses some. By default there is time: 50 articles, 4 at a time, that all hang
  until REQUEST_TIMEOUT take 13 times 20 seconds, less than FEED_TIMEOUT's 5
  minutes.
* `Metrics!Fairness`. A mutex is not taken for ever by others (SF), and a response
  ends because WRITE_TIMEOUT is not zero. `validate` lets it be zero; then nothing
  ends a scrape whose client stops reading, and `RecordReturns` fails.

### Where the code and its words disagree

1. `watch_boot`. `Watch` takes the file it finds when it starts for the one main
   loaded before (`watch.go:34`). In between main applied the list and started
   the workers. A save in that window is never applied, against README.md:116,
   "changes are picked up automatically". The next save repairs it.
2. `watch_half`. Load rejects an empty list, and the comment there explains why
   (the truncation of an in-place save). But a later moment of the same save can
   leave a shorter, valid list; it is applied, which deletes the outputs of the
   feeds that are not written yet. watch.go:21 promises that a half-written file
   is skipped. The next poll brings the feeds back, with a fresh status.
3. No run of its own: `FileCache!ReadAll`. filecache_test.go:107 wants an oversized
   entry to be rejected, and Get does reject the one it looks at. One that is stored
   between `os.Stat` and `os.Open` is read through an `io.LimitReader`
   (filecache.go:69) and returned cut off, as a hit. `ImplementsCache` names this
   exception. It does no harm in this program, because the extractor cannot decode
   the beginning of an entry and asks upstream.

## 4. Proofs

Each proof is of a specification without fairness, for any values of the
constants, from the assumptions the modules state about them and no others.

| Module | Theorems | Property |
|---|---|---|
| `WorkerProofs` | `WorkerTypeCorrect`, `XmlFirst`, `TempsCleaned`, `OlderNeverWins`, `EmptyNeedsStale`, `RefreshesCounted`, `HonestStatus` | `TypeOK`, `PublishOrder`, `NoLeftoverTemp`, `NoOverwriteByOlder`, `EmptyOnlyWhenStale`, `EveryRefreshCounted`, `StatusMatchesDisk` |
| `ManagerProofs` | `ManagerTypeCorrect`, `OneWorkerPerName`, `ManagerKeepsContract`, `QuietWhenDown`, `NothingResurrected`, `OthersUndisturbed`, `ApplyReconciles` | `ManagerTypeOK`, `EveryWorkerOwned`, `WorkerSpec`, `DownIsQuiet`, `NoResurrection`, `UnchangedKeptRunning`, `Reconciled` |
| `ServiceProofs` | `XmlFirstAcrossCrashes`, `HonestAcrossCrashes`, `OnlyLostFilesStay`, `LeaksAreFew` | `PublishOrder`, `StatusMatchesDisk`, `ReconciledButLost`, `CrashLeaksLittle` |
| | `FilesAcrossLives`, `WorkersAcrossLives` | what workers and manager promise within a life (seven properties), over all lives |
| | `ReadersNeverGoBack`, `ServiceKeepsSystem`, `NeverBackAcrossLives` | `NeverBack` of `Server`; `SystemSpec`; `NeverBack` of the whole |
| `MetricsProofs` | `ScrapesFit`, `NoUpdateLost` | `ReportFits`; each increment finds the value that was read |
| `WatchProofs` | `WatchTypeCorrect`, `IdleIsUpToDate`, `ReadsAreBounded` | `TypeOK`, `UpToDate`, `OneReadPerWrite` |
| `FileCacheProofs` | `FileCacheTypeCorrect`, `HitsAreFresh`, `TempsAreOwned`, `PurgeCompletes`, `LossIsARace`, `FileCacheImplementsCache` | `TypeOK`, `HitWasFresh`, `NoStrayTemp`, `PurgeIsComplete`, `LossNeedsRace`, `ImplementsCache` |
| `ArticleProofs` | `OnlyEarnedEntries`, `LabelsAreHonest`, `ArticlesOutliveFailures`, `EnrichKeepsExtractor` | `EntriesEarned`, `OutcomeHonest`, `LiveBodyKept`, all three |
| | `ItemsMatchLinks`, `WholeFeedsOnly` | `RightArticle`, `PublishedWhole` |
| | `ArticleSurvives`, `NoQuirkLeft`, `PassesMakeProgress` | `ContentsKept`, `TidyInTheEnd`, `PassesShrink` |
| `GuardProofs` | `HopsAreChecked` | `EveryHopChecked` |

*Workers* rest on one inductive invariant, `WorkerInv`. None of the properties
is inductive alone. `PublishOrder` needs to know that a worker in its rename loop
is the only one of its name (`SingleWriter`), that what it is renaming is newer
than anything published (`FilesBounded` bounds files by `clock`, `Progress` says
which of its formats it has already replaced); `NoLeftoverTemp` needs
`TempInv`, which ties the temporary files to the position in the two loops; the
staleness policy needs `EmptyOverdue`: between the decision of `handleEmpty` and
the rename of the empty `.xml`, the published one remains past its budget.
`HonestStatus` adds `StatusInv`: from the last rename to the Tracker update all
three files are this refresh's, and a live worker's name is tracked.
`RefreshesCounted` counts the workers inside a refresh with the cardinality
theorems of the library.

*The manager.* `ManagerInv` adds to type and `EveryWorkerOwned` that a map entry
points to a worker of that name that was started (`MapConsistent`), what the
loops know at each position of `mpc` - the worker awaited is still in the map,
the name being forgotten or removed has no entry any more (`LoopInv`) - and that
from `drain` on the entries still to be visited are all there are (`DrainInv`).
The heart of `ManagerKeepsContract` is that in the three steps that touch what a
worker writes (`StartNew`, `ForgetGone`, `RemoveNext`) the name has no map entry,
hence by `EveryWorkerOwned` no live worker. By it, every theorem about workers
holds of the whole program. `ApplyReconciles` needs `RecInv`, which says how far
Apply has got: workers it has visited run what is wanted (`RunInv`), a status
entry without a worker is about to be removed or to get one (`TrackInv`), and so
is a file without a status entry (`FilesInv`).

*The system.* `SystemInv` puts these together. A restart clears what they say of
goroutines and keeps what they say of files; `RecInv` has the names it makes no
claim on as a parameter, which a restart sets to all that have files and which
shrinks as feeds run again. `LeaksAreFew` maps the dotfiles of a crash to the
live workers, those to distinct tracked names, and counts. `FilesAcrossLives` and
`WorkersAcrossLives` carry the promises of `Worker` and `Manager` over: within a
life every step is one of theirs, and a restart changes no file.

*The server.* `Above` says that a bound a reader knows is met by every file that
is there or can still appear; it holds of the status list and of opened files
before a reader learns of them. `AtomFirst` is `PublishOrder` for the second
and third format. In `Service` the same invariant holds next to `SystemInv`: a
restart leaves the files and what readers know of them, and it clears the status
list, which then claims nothing.

*Metrics.* `CountInv`: a refresh is counted last, so that `refresh_total` is behind
by the refresh being recorded and no success is of a later one; and who holds a
lock knows the value under it. `ScrapeInv`: what a scraper has shown of the
successes was at most one refresh ahead of the counter, which only grows, so that
the counter, shown later, cannot be further behind.

*The watcher.* `SeenInv`: the watcher has seen no newer stamp than the file has,
and if it has seen this one, the list on its way to Apply is the one on disk.
`ReadInv` counts loads by stamps.

*The file cache.* `OwnInv`: a Set in progress has a temporary file of its own,
under no key and not expired. `AgeInv`: what was expired when a call began can
only be under names the call has still to look at, or could not look at or remove
(`kept`). The refinement maps every step to one of `Cache` or a stutter, including
`Crash` and the calls that fail; it needs `OldInv`, by which a new file is none of
those that are stored or being read, so that what is known of their size stays.

*Extraction.* `PendingEarned`: what a call is about to store is what its own
request ended in. `Labelled` follows the label through the return paths.
`Overtaken`: a call that asks upstream although there is a good entry looked it
up before that entry came. `EnrichUsesExtractor` shows that `enrich` makes its
calls as the interface wants them.

*Enrichment.* `EnrichInv` follows the article from the request of a goroutine
(`InHand`) over the result in its own slot (`RightItem`) to the items collected.
`DeadlineInv` is why only whole feeds are published: the context of the errgroup
is done only when that of the refresh is, because no goroutine returns an error, so
a feed whose loop was left early is one whose refresh fails. What the loop over
the results collects (`Gathered`, a recursive function) is shown step by step, see
below.

*Recursion.* Operators that take operators are out of reach, but a statement about
the numbers up to a bound can be proved by hand: the set of those for which it
fails would have a least element (`IntervalInduction`). With it `TreeDef`,
`PassDef` and the like show that the recursive functions satisfy their equations,
and that `FlattenSeq`, a fold, appends one sequence after the other (`FlattenIs`).

*The clean-up.* `Keeps`, `Tidies` and `Shrinks` say what one pass does to a tree of
`d` levels; each is shown for the children of a node first (`ForestKept`,
`ForestTidied`, `ForestShrinks`), where the point is that a pass maps a list of
nodes to the concatenation of what it makes of each (`AllOfFlattened`), and then
for the node by the cases of `Simplified`. `Tidies`: where a pass over a
tree reports no change it has left one node without a quirk, at any depth (it may
have stripped `data-*`, which it does not report). `PassesMakeProgress` is the
safety half of `LoopEnds`: a pass that reports a change has left fewer nodes.

*The guard.* `ConnInv`: an idle connection passed `Control` when it was made.

Every invariant and every action property that a passing run checks is a theorem.
Only model-checked is liveness, which is out of the prover's reach: `SignalEnds`,
`AddedIsRefreshed`, `ChangesPickedUp`, `OrphansAreSwept`, `PublishedInTheEnd`,
`RecordReturns` and `LoopEnds`. `EveryChangePickedUp` and `OnlySavedApplied` are
refuted.

## 5. Not modelled

* What `normalize` rejects and fills in: a pure check with tests of its own.
  `ManagerAssumption` states what the manager needs of it.
* The table of address ranges of `IsPublicIP` (`Public` is a constant), and
  `ValidateURLHost`, which the program does not call.
* The sanitizer's policy and the transformation of attributes and titles: tables
  for third-party libraries.
* The 15 seconds in which the HTTP server may drain after `Shutdown`: by then
  nothing of the modelled state changes.
* Registration of metrics, once before any goroutine starts, and the escaping of
  the text format.
* Third-party code: feed parser, readability, sanitizer, YAML. They show up as
  outcomes (a number of items, a failure, a list).
* Command line, environment, health check, logging, wording of texts.

## 6. What is left

* `Watch` in place of `ReloadApply` in `System`, so that the list a crash
  interrupts is the one on disk; each half is checked on its own now.
* A poller with conditional requests, which sees modification times to the
  second.
