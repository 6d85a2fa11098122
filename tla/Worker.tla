------------------------------- MODULE Worker -------------------------------
(***************************************************************************)
(* The refresh worker of internal/generator/generator.go: one goroutine    *)
(* per running feed that fetches its source feed, enriches it and          *)
(* publishes it as three files, together with the three places it writes   *)
(* to: the output directory, the status Tracker and the refresh metrics.   *)
(*                                                                         *)
(* A worker is identified by the handle of manager.go that owns it, so two *)
(* workers of one feed name are expressible.  WorkerSpec runs the workers  *)
(* in the most general environment that keeps the contract the worker code *)
(* silently relies on: a worker is launched, and the traces of a feed are  *)
(* removed, only while no other worker of that name is alive.  Module      *)
(* Manager replaces that environment by the code that must honour it.      *)
(*                                                                         *)
(* An operator called Faulty... is the one that follows it with a mistake  *)
(* in it; nothing uses it, it is there to see which property notices.      *)
(***************************************************************************)
EXTENDS Naturals, Sequences, FiniteSets

CONSTANTS
  Names,         \* feed names: the <name> of <name>.xml
  Feeds,         \* feed definitions: records with (at least) a field name
  NoFeed,        \* the feed of a handle that does not exist yet
  MaxItems,      \* items a refresh can publish (MAX_ITEMS_PER_FEED)
  MaxHandles,    \* bound: workers ever launched
  MaxRefreshes,  \* bound: a ticker starts a refresh only below this many
  Aging          \* bound: the names whose .xml may outlive MaxStaleness

ASSUME WorkerAssumption ==
  /\ \A f \in Feeds : f.name \in Names
  /\ NoFeed \notin Feeds
  /\ MaxItems \in Nat \ {0}
  /\ MaxHandles \in Nat
  /\ MaxRefreshes \in Nat
  /\ Aging \subseteq Names

VARIABLES
  feed,      \* feed[h]: the definition worker h was built with
  pc,        \* pc[h]: where goroutine h stands
  cancelled, \* cancelled[h]: the context of h is done
  start,     \* start[h]: when the current refresh of h began
  items,     \* items[h]: number of items the current refresh publishes
  pos,       \* pos[h]: formats already staged, or already renamed
  tmp,       \* tmp[h]: formats whose temporary dotfile of h is on disk
  out,       \* out[n][e]: the published file <n>.<e>
  stale,     \* stale[n]: <n>.xml is older than MaxStaleness
  tracked,   \* the names the Tracker has an entry for
  status,    \* status[n]: the Tracker's entry
  metrics,   \* metrics[n]: the refresh counters and gauges of the feed
  clock      \* clock[n]: refreshes of n begun so far

wvars == <<feed, pc, cancelled, start, items, pos, tmp, out, stale, tracked,
           status, metrics, clock>>

Handle == 1..MaxHandles

\* The formats in the order in which they are staged and renamed.
FaultyFormatOrder == <<"json", "atom", "xml">>
outputFormats == <<"xml", "atom", "json">>
Ext == {"xml", "atom", "json"}

(* A published file is known by the start of the refresh that produced it,
   and the number of items in it.  Start times are compared only within one
   feed, where the n-th refresh starts at n; 0 is Go's zero time.  NoFile
   stands for a path that does not exist. *)
Time == Nat
File == [start : Time, items : 0..MaxItems]
NoFile == [start |-> 0, items |-> 0]

Status == [lastRefreshAt : Time, lastSuccessAt : Time,
           lastRefreshOK : BOOLEAN, itemCount : 0..MaxItems]
FreshStatus == [lastRefreshAt |-> 0, lastSuccessAt |-> 0,
                lastRefreshOK |-> FALSE, itemCount |-> 0]

RefreshMetrics == [ok : Nat, fail : Nat, items : 0..MaxItems, lastOK : Time]

(* "delay": startLocked's stagger; "begin": about to run the first refresh;
   "idle": in Run's select; the others are the stages of one Refresh, of
   which "succeeded", "ok" and "failed" come after the Tracker update. *)
Refreshing == {"fetch", "enrich", "empty", "stage", "rename", "publish",
               "succeeded", "ok", "failed"}
PC == {"unborn", "delay", "begin", "idle", "exited"} \cup Refreshing

Live(h) == pc[h] \notin {"unborn", "exited"}
Name(h) == feed[h].name
FaultyNoWait(n) == TRUE
NoLiveWorker(n) == \A h \in Handle : Live(h) => Name(h) # n

\* What a refresh of h publishes: the same feed in every format.
Version(h) == [start |-> start[h], items |-> items[h]]

Goto(h, l) == pc' = [pc EXCEPT ![h] = l]

TypeOK ==
  /\ feed \in [Handle -> Feeds \cup {NoFeed}]
  /\ pc \in [Handle -> PC]
  /\ \A h \in Handle : pc[h] = "unborn" <=> feed[h] = NoFeed
  /\ cancelled \in [Handle -> BOOLEAN]
  /\ start \in [Handle -> Time]
  /\ items \in [Handle -> 0..MaxItems]
  /\ pos \in [Handle -> 0..(Len(outputFormats) - 1)]
  /\ tmp \in [Handle -> SUBSET Ext]
  /\ out \in [Names -> [Ext -> File]]
  /\ stale \in [Names -> BOOLEAN]
  /\ tracked \in SUBSET Names
  /\ status \in [Names -> Status]
  /\ metrics \in [Names -> RefreshMetrics]
  /\ clock \in [Names -> Time]

WorkerInit ==
  /\ feed = [h \in Handle |-> NoFeed]
  /\ pc = [h \in Handle |-> "unborn"]
  /\ cancelled = [h \in Handle |-> FALSE]
  /\ start = [h \in Handle |-> 0]
  /\ items = [h \in Handle |-> 0]
  /\ pos = [h \in Handle |-> 0]
  /\ tmp = [h \in Handle |-> {}]
  /\ out = [n \in Names |-> [e \in Ext |-> NoFile]]
  /\ stale = [n \in Names |-> FALSE]
  /\ tracked = {}
  /\ status = [n \in Names |-> FreshStatus]
  /\ metrics = [n \in Names |-> [ok |-> 0, fail |-> 0, items |-> 0, lastOK |-> 0]]
  /\ clock = [n \in Names |-> 0]

-----------------------------------------------------------------------------
(* The Tracker. *)

\* Tracker.update: an unknown name is ignored.
TrackerUpdate(n, s) ==
  status' = IF n \in tracked THEN [status EXCEPT ![n] = s] ELSE status

FaultyFailRefreshKeepsOK(h) ==
  /\ TrackerUpdate(Name(h), [status[Name(h)] EXCEPT !.lastRefreshAt = start[h]])
  /\ Goto(h, "failed")

FaultyFailRefreshUncounted(h) ==
  /\ TrackerUpdate(Name(h), [status[Name(h)] EXCEPT
                               !.lastRefreshAt = start[h],
                               !.lastRefreshOK = FALSE])
  /\ Goto(h, "idle")

(* failRefresh: only the outcome of the last refresh changes; when the feed
   last succeeded and how many items it had is kept. *)
FailRefresh(h) ==
  /\ TrackerUpdate(Name(h), [status[Name(h)] EXCEPT
                               !.lastRefreshAt = start[h],
                               !.lastRefreshOK = FALSE])
  /\ Goto(h, "failed")

-----------------------------------------------------------------------------
(* What the rest of the program does to a worker (manager.go). *)

(* startLocked: (re)initialise the Tracker entry and start the goroutine.
   The worker's context is a child of ctx, done from birth if ctx is. *)
Launch(h, f, delayed, ctxDone) ==
  /\ pc[h] = "unborn"
  /\ feed' = [feed EXCEPT ![h] = f]
  /\ Goto(h, IF delayed THEN "delay" ELSE "begin")
  /\ cancelled' = [cancelled EXCEPT ![h] = ctxDone]
  /\ tracked' = tracked \cup {f.name}
  /\ status' = [status EXCEPT ![f.name] = FreshStatus]
  /\ UNCHANGED <<start, items, pos, tmp, out, stale, metrics, clock>>

\* The contexts of the workers in H are cancelled.
Cancel(H) ==
  /\ cancelled' = [h \in Handle |-> cancelled[h] \/ h \in H]
  /\ UNCHANGED <<feed, pc, start, items, pos, tmp, out, stale, tracked,
                 status, metrics, clock>>

\* Tracker.Remove.
Forget(n) ==
  /\ tracked' = tracked \ {n}
  /\ status' = [status EXCEPT ![n] = FreshStatus]
  /\ UNCHANGED <<feed, pc, cancelled, start, items, pos, tmp, out, stale,
                 metrics, clock>>

\* One os.Remove of removeOutputs.
RemoveOutput(n, e) ==
  /\ out' = [out EXCEPT ![n][e] = NoFile]
  /\ stale' = IF e = "xml" THEN [stale EXCEPT ![n] = FALSE] ELSE stale
  /\ UNCHANGED <<feed, pc, cancelled, start, items, pos, tmp, tracked,
                 status, metrics, clock>>

\* Time passes: the published .xml outlives the staleness budget.
Age(n) ==
  /\ n \in Aging
  /\ out[n]["xml"] # NoFile
  /\ stale' = [stale EXCEPT ![n] = TRUE]
  /\ UNCHANGED <<feed, pc, cancelled, start, items, pos, tmp, out, tracked,
                 status, metrics, clock>>

-----------------------------------------------------------------------------
(* Run: the stagger, the first refresh, the ticker loop. *)

\* The select of startLocked's goroutine: either case when both are ready.
DelayOver(h) ==
  /\ pc[h] = "delay"
  /\ Goto(h, "begin")
  /\ UNCHANGED <<feed, cancelled, start, items, pos, tmp, out, stale, tracked,
                 status, metrics, clock>>

DelayCancelled(h) ==
  /\ pc[h] = "delay"
  /\ cancelled[h]
  /\ Goto(h, "exited")
  /\ UNCHANGED <<feed, cancelled, start, items, pos, tmp, out, stale, tracked,
                 status, metrics, clock>>

BeginRefresh(h) ==
  /\ clock' = [clock EXCEPT ![Name(h)] = @ + 1]
  /\ start' = [start EXCEPT ![h] = clock[Name(h)] + 1]
  /\ Goto(h, "fetch")
  /\ UNCHANGED <<feed, cancelled, items, pos, tmp, out, stale, tracked,
                 status, metrics>>

FirstRefresh(h) ==
  /\ pc[h] = "begin"
  /\ BeginRefresh(h)

\* Run's select: a pending tick may win over a context that is done.
Tick(h) ==
  /\ pc[h] = "idle"
  /\ clock[Name(h)] < MaxRefreshes
  /\ BeginRefresh(h)

\* Run's select finds the context done.
Exit(h) ==
  /\ pc[h] = "idle"
  /\ cancelled[h]
  /\ Goto(h, "exited")
  /\ UNCHANGED <<feed, cancelled, start, items, pos, tmp, out, stale, tracked,
                 status, metrics, clock>>

-----------------------------------------------------------------------------
(* Refresh: fetchFeed and Parse, enrich, handleEmpty. *)

(* The feed is read to its end and parses.  A context that is done fails the
   request, unless it gets done when the answer is already there. *)
FetchOK(h) ==
  /\ pc[h] = "fetch"
  /\ Goto(h, "enrich")
  /\ UNCHANGED <<feed, cancelled, start, items, pos, tmp, out, stale, tracked,
                 status, metrics, clock>>

(* Request, status, read, size or parse error, FEED_TIMEOUT or cancellation
   while fetching; enrich returns ctx.Err() once all its items are done. *)
FetchOrEnrichFails(h) ==
  /\ pc[h] \in {"fetch", "enrich"}
  /\ FailRefresh(h)
  /\ UNCHANGED <<feed, cancelled, start, items, pos, tmp, out, stale, tracked,
                 metrics, clock>>

(* How many items a refresh can end up with: those of the feed that have a
   link, cut to MAX_ITEMS_PER_FEED. *)
FaultyItemCounts == 0..(MaxItems + 1)
ItemCounts == 0..MaxItems

(* All items are done and the context is still live: out.Items holds those
   that had a link. *)
EnrichOK(h) ==
  /\ pc[h] = "enrich"
  /\ ~cancelled[h]
  /\ \E m \in ItemCounts :
       /\ items' = [items EXCEPT ![h] = m]
       /\ Goto(h, IF m = 0 THEN "empty" ELSE "stage")
  /\ pos' = [pos EXCEPT ![h] = 0]
  /\ UNCHANGED <<feed, cancelled, start, tmp, out, stale, tracked, status,
                 metrics, clock>>

\* There is a published .xml, and it is older than MaxStaleness.
FaultyPastBudget(n) == out[n]["xml"] # NoFile
PastBudget(n) == out[n]["xml"] # NoFile /\ stale[n]

(* handleEmpty: only a .xml past its budget is overwritten with an empty
   feed; no .xml, or a recent one, fails the refresh and writes nothing. *)
HandleEmpty(h) ==
  /\ pc[h] = "empty"
  /\ IF PastBudget(Name(h))
     THEN Goto(h, "stage") /\ UNCHANGED status
     ELSE FailRefresh(h)
  /\ UNCHANGED <<feed, cancelled, start, items, pos, tmp, out, stale, tracked,
                 metrics, clock>>

-----------------------------------------------------------------------------
(* writeOutputs: stage every format, then rename every format. *)

\* The temporary files of h that are left are removed; that os.Remove of a file
\* which has just been written in the same directory succeeds is assumed.
FaultyCleanup(h) == UNCHANGED tmp
Cleanup(h) == tmp' = [tmp EXCEPT ![h] = {}]

StageFile(h) ==
  /\ pc[h] = "stage"
  /\ tmp' = [tmp EXCEPT ![h] = @ \cup {outputFormats[pos[h] + 1]}]
  /\ IF pos[h] + 1 = Len(outputFormats)
     THEN pos' = [pos EXCEPT ![h] = 0] /\ Goto(h, "rename")
     ELSE pos' = [pos EXCEPT ![h] = @ + 1] /\ UNCHANGED pc
  /\ UNCHANGED <<feed, cancelled, start, items, out, stale, tracked, status,
                 metrics, clock>>

\* MkdirAll or a step of stageFile fails: the deferred cleanup runs.
StageFails(h) ==
  /\ pc[h] = "stage"
  /\ Cleanup(h)
  /\ FailRefresh(h)
  /\ UNCHANGED <<feed, cancelled, start, items, pos, out, stale, tracked,
                 metrics, clock>>

(* The file that appears was staged a moment ago, so a .xml is fresh. *)
RenameFile(h) ==
  LET n == Name(h)
      e == outputFormats[pos[h] + 1]
  IN /\ pc[h] = "rename"
     /\ out' = [out EXCEPT ![n][e] = Version(h)]
     /\ stale' = IF e = "xml" THEN [stale EXCEPT ![n] = FALSE] ELSE stale
     /\ tmp' = [tmp EXCEPT ![h] = @ \ {e}]
     /\ IF pos[h] + 1 = Len(outputFormats)
        THEN pos' = [pos EXCEPT ![h] = 0] /\ Goto(h, "publish")
        ELSE pos' = [pos EXCEPT ![h] = @ + 1] /\ UNCHANGED pc
     /\ UNCHANGED <<feed, cancelled, start, items, tracked, status, metrics,
                    clock>>

\* The temporary files not yet renamed are removed; those renamed stay.
RenameFails(h) ==
  /\ pc[h] = "rename"
  /\ Cleanup(h)
  /\ FailRefresh(h)
  /\ UNCHANGED <<feed, cancelled, start, items, pos, out, stale, tracked,
                 metrics, clock>>

-----------------------------------------------------------------------------
(* The end of Refresh: Tracker, then metrics. *)

(* Everything is renamed.  Overwriting with an empty feed is recorded as a
   failed refresh that leaves the feed with no items. *)
Publish(h) ==
  LET n == Name(h)
  IN /\ pc[h] = "publish"
     /\ TrackerUpdate(n, IF items[h] = 0
                         THEN [status[n] EXCEPT !.lastRefreshAt = start[h],
                                                !.lastRefreshOK = FALSE,
                                                !.itemCount = 0]
                         ELSE [lastRefreshAt |-> start[h],
                               lastSuccessAt |-> start[h],
                               lastRefreshOK |-> TRUE,
                               itemCount |-> items[h]])
     /\ Goto(h, IF items[h] = 0 THEN "failed" ELSE "succeeded")
     /\ UNCHANGED <<feed, cancelled, start, items, pos, tmp, out, stale,
                    tracked, metrics, clock>>

RecordRefreshSuccess(h) ==
  /\ pc[h] = "succeeded"
  /\ metrics' = [metrics EXCEPT ![Name(h)].items = items[h],
                                ![Name(h)].lastOK = start[h]]
  /\ Goto(h, "ok")
  /\ UNCHANGED <<feed, cancelled, start, items, pos, tmp, out, stale, tracked,
                 status, clock>>

\* The deferred call of Refresh, whatever path it returned by.
RecordRefresh(h) ==
  /\ \/ /\ pc[h] = "ok"
        /\ metrics' = [metrics EXCEPT ![Name(h)].ok = @ + 1]
     \/ /\ pc[h] = "failed"
        /\ metrics' = [metrics EXCEPT ![Name(h)].fail = @ + 1]
  /\ Goto(h, "idle")
  /\ UNCHANGED <<feed, cancelled, start, items, pos, tmp, out, stale, tracked,
                 status, clock>>

-----------------------------------------------------------------------------
\* One step of Refresh after its beginning.
RefreshStep(h) ==
  \/ FetchOK(h)    \/ FetchOrEnrichFails(h)
  \/ EnrichOK(h)   \/ HandleEmpty(h)
  \/ StageFile(h)  \/ StageFails(h)
  \/ RenameFile(h) \/ RenameFails(h)
  \/ Publish(h)    \/ RecordRefreshSuccess(h) \/ RecordRefresh(h)

\* One step of goroutine h.
WorkerStep(h) ==
  \/ DelayOver(h) \/ DelayCancelled(h)
  \/ FirstRefresh(h) \/ Tick(h) \/ Exit(h)
  \/ RefreshStep(h)

\* The environment, with the contract it has to keep.
ContractStep ==
  \/ \E h \in Handle, f \in Feeds, d, c \in BOOLEAN :
       NoLiveWorker(f.name) /\ Launch(h, f, d, c)
  \/ \E H \in SUBSET {h \in Handle : pc[h] # "unborn"} : Cancel(H)
  \/ \E n \in Names : NoLiveWorker(n) /\ Forget(n)
  \/ \E n \in Names \ tracked, e \in Ext : NoLiveWorker(n) /\ RemoveOutput(n, e)

WorkerNext ==
  \/ ContractStep
  \/ \E n \in Names : Age(n)
  \/ \E h \in Handle : WorkerStep(h)

(* The workers, and what they may be subjected to: nothing is launched under a
   name, and no trace of a name is removed, while a worker of it is alive
   ("a draining worker writing output files after a removal, or two workers
   for the same name racing during a restart", stopLocked).  This is the
   abstract specification that the manager has to implement. *)
WorkerSpec == WorkerInit /\ [][WorkerNext]_wvars

(* The goroutines are scheduled, every outbound request is bounded by
   REQUEST_TIMEOUT and FEED_TIMEOUT (validate rejects a zero), and a file
   operation returns.  Go's select chooses at random among the ready cases,
   so a worker that keeps coming back to its select with its context done
   does not take the tick for ever: strong fairness of Exit. *)
WorkerFairness ==
  \A h \in Handle :
    /\ WF_wvars(DelayOver(h) \/ FirstRefresh(h) \/ RefreshStep(h))
    /\ SF_wvars(Exit(h))

-----------------------------------------------------------------------------
(* What a worker promises. *)

(* The status the HTTP server lists under /feeds.json is honest: while it
   says the last refresh succeeded, and that refresh's successor is not
   renaming files, all three formats on disk are that refresh's, with that
   many items, at least one (Refresh, writeOutputs, the Tracker updates). *)
StatusMatchesDisk ==
  \A h \in Handle :
    (Live(h) /\ status[Name(h)].lastRefreshOK
             /\ pc[h] \notin {"rename", "publish"})
      => \A e \in Ext :
           /\ out[Name(h)][e].start = status[Name(h)].lastSuccessAt
           /\ out[Name(h)][e].items = status[Name(h)].itemCount
           /\ out[Name(h)][e].items > 0

(* ".xml is published before its alternates" (the comment on outputFormats):
   a .xml that is on disk is never older than the .atom or the .json beside
   it, through failed renames, restarts and overwrites, and also while the
   files of a removed feed disappear one by one or only in part. *)
PublishOrder ==
  \A n \in Names, e \in Ext :
    out[n]["xml"] # NoFile => out[n]["xml"].start >= out[n][e].start

(* No temporary file outlives the write it was staged for, whichever step
   of writeOutputs fails, its removals apart, and whatever stops the worker. *)
NoLeftoverTemp ==
  \A h \in Handle : tmp[h] # {} => pc[h] \in {"stage", "rename"}

(* Every refresh that begins is counted once, as ok or as fail, when it
   ends, on each of the return paths of Refresh. *)
EveryRefreshCounted ==
  \A n \in Names :
    metrics[n].ok + metrics[n].fail
      + Cardinality({h \in Handle : pc[h] \in Refreshing /\ Name(h) = n})
    = clock[n]

(* The staleness policy (handleEmpty): a published feed with items gives way
   to an empty one only once it is past the budget - also when the worker
   that finds upstream empty is not the one that wrote the file. *)
EmptyOnlyWhenStale ==
  [][\A n \in Names :
       (/\ out[n]["xml"].items > 0
        /\ out'[n]["xml"] # NoFile
        /\ out'[n]["xml"].items = 0) => stale[n]]_wvars

(* A published file is replaced only by the output of a later refresh: a
   worker that was told to stop never puts its files over those of its
   successor (the reason stopLocked waits). *)
NoOverwriteByOlder ==
  [][\A n \in Names, e \in Ext :
       out'[n][e] # out[n][e] =>
         \/ out'[n][e].start > out[n][e].start
         \/ out'[n][e] = NoFile /\ n \notin tracked]_wvars

=============================================================================
