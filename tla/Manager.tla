------------------------------ MODULE Manager -------------------------------
(***************************************************************************)
(* Manager of internal/generator/manager.go, with the goroutines of        *)
(* runServer in main.go that call it.  Apply reconciles the running        *)
(* workers with a feed list, Shutdown stops them all; m.mu is held from    *)
(* the first to the last step of either.  The workers and everything they  *)
(* write to are those of module Worker, but the environment of that module *)
(* is replaced by the steps of the code, none of which checks that it      *)
(* keeps the contract.                                                     *)
(*                                                                         *)
(* main calls Apply once with the list it loaded, starts the config        *)
(* watcher (which calls Apply again for every list it loads), waits for a  *)
(* signal or for the HTTP server to fail, waits for the watcher to return  *)
(* and calls Shutdown.                                                     *)
(*                                                                         *)
(* Operators called Faulty... are mistaken variants, as in module Worker.  *)
(***************************************************************************)
EXTENDS Worker

CONSTANTS
  Configs,      \* the feed lists the configuration file may hold
  RemoveFails   \* the names whose output files os.Remove may fail on

FeedNames(list) == {list[i].name : i \in DOMAIN list}

\* config.normalize rejects an empty list and a duplicate name.
ASSUME ManagerAssumption ==
  /\ Names # {}
  /\ RemoveFails \subseteq Names
  /\ Configs \subseteq Seq(Feeds)
  /\ \A list \in Configs :
       /\ list # <<>>
       /\ \A i, j \in DOMAIN list : list[i].name = list[j].name => i = j

VARIABLES
  workers,   \* workers[n]: the handle m.workers has for n, or NoHandle
  want,      \* the feed list of the latest call of Apply
  mpc,       \* where the goroutine that holds m.mu stands; "free": nobody
  todo,      \* names the range over m.workers has not come to yet
  cur,       \* the name being stopped
  next,      \* position in want, or in outputFormats, of the running loop
  newCount,  \* workers started by this Apply
  started,   \* m.started
  phase,     \* where main stands
  watching,  \* the config watcher runs
  ctxDone    \* the context of main is done

mvars == <<workers, want, mpc, todo, cur, next, newCount, started, phase,
           watching, ctxDone>>
vars == <<wvars, mvars>>

NoHandle == 0
Running == {n \in Names : workers[n] # NoHandle}
FaultyDesired(n) == n \in FeedNames(want) \cup Running
Desired(n) == n \in FeedNames(want)

\* feedChanged: URL, interval or title; the names are equal.
FaultyFeedChangedName(a, b) == a.name # b.name
FaultyFeedChangedAlways(a, b) == TRUE
feedChanged(a, b) == a # b

\* Apply leaves the worker of n alone.
Keep(n) == \E i \in DOMAIN want :
             want[i].name = n /\ ~feedChanged(feed[workers[n]], want[i])

MPC == {"free", "visit", "wait", "forget", "remove", "start"}

ManagerTypeOK ==
  /\ TypeOK
  /\ workers \in [Names -> Handle \cup {NoHandle}]
  /\ want \in Configs \cup {<<>>}
  /\ mpc \in MPC
  /\ todo \subseteq Names
  /\ cur \in Names
  /\ next \in Nat \ {0}
  /\ newCount \in Nat
  /\ started \in BOOLEAN
  /\ phase \in {"boot", "serve", "drain", "down"}
  /\ watching \in BOOLEAN
  /\ ctxDone \in BOOLEAN

ManagerInit ==
  /\ WorkerInit
  /\ workers = [n \in Names |-> NoHandle]
  /\ want = <<>>
  /\ mpc = "free"
  /\ todo = {}
  /\ cur = CHOOSE n \in Names : TRUE
  /\ next = 1
  /\ newCount = 0
  /\ started = FALSE
  /\ phase = "boot"
  /\ watching \in BOOLEAN      \* CONFIG_RELOAD_INTERVAL > 0
  /\ ctxDone = FALSE

-----------------------------------------------------------------------------
(* Apply. *)

(* Handles that were never used.  The program has no such limit: Apply is
   called in the model only if there are enough for the workers it starts. *)
Unborn == {h \in Handle : pc[h] = "unborn"}
ToStart(list) ==
  {i \in DOMAIN list : \/ workers[list[i].name] = NoHandle
                       \/ feedChanged(feed[workers[list[i].name]], list[i])}

\* m.mu is taken for a new list.
ApplyBegin(list) ==
  /\ mpc = "free"
  /\ Cardinality(Unborn) >= Cardinality(ToStart(list))
  /\ want' = list
  /\ mpc' = "visit"
  /\ todo' = Running
  /\ UNCHANGED <<workers, cur, next, newCount, started, phase, watching, ctxDone>>
  /\ UNCHANGED wvars

\* main's call, with the list loaded at startup.
BootApply ==
  /\ phase = "boot"
  /\ ~started
  /\ \E list \in Configs : ApplyBegin(list)

(* The watcher's call.  Its select may prefer a tick to a context that is
   already done, and it may have been loading the file when that happened. *)
ReloadApply ==
  /\ phase = "serve"
  /\ watching
  /\ \E list \in Configs : ApplyBegin(list)

\* The loop over m.workers, in any order: a worker that stays as it is.
VisitKeep(n) ==
  /\ mpc = "visit" /\ phase # "drain"
  /\ n \in todo
  /\ Keep(n)
  /\ todo' = todo \ {n}
  /\ UNCHANGED <<workers, want, mpc, cur, next, newCount, started, phase,
                 watching, ctxDone>>
  /\ UNCHANGED wvars

\* h.cancel(), and h.done being closed.
CancelWorker(h) == Cancel({h})
FaultyWorkerDone(h) == TRUE
WorkerDone(h) == pc[h] = "exited"

\* stopLocked, up to its wait: the feed is gone or changed, or all must stop.
VisitStop(n) ==
  /\ mpc = "visit"
  /\ n \in todo
  /\ phase = "drain" \/ ~Keep(n)
  /\ CancelWorker(workers[n])
  /\ cur' = n
  /\ mpc' = "wait"
  /\ UNCHANGED <<workers, want, todo, next, newCount, started, phase,
                 watching, ctxDone>>

\* The rest of stopLocked: the worker is gone, and then its map entry.
StopDone ==
  /\ mpc = "wait"
  /\ WorkerDone(workers[cur])
  /\ workers' = [workers EXCEPT ![cur] = NoHandle]
  /\ todo' = todo \ {cur}
  /\ mpc' = IF phase # "drain" /\ ~Desired(cur) THEN "forget" ELSE "visit"
  /\ UNCHANGED <<want, cur, next, newCount, started, phase, watching, ctxDone>>
  /\ UNCHANGED wvars

ForgetGone ==
  /\ mpc = "forget"
  /\ Forget(cur)
  /\ mpc' = "remove"
  /\ next' = 1
  /\ UNCHANGED <<workers, want, todo, cur, newCount, started, phase, watching,
                 ctxDone>>

(* removeOutputs: one file after the other; an error that is not "does not
   exist" is logged and forgotten. *)
RemoveNext ==
  /\ mpc = "remove"
  /\ \/ RemoveOutput(cur, outputFormats[next])
     \/ /\ cur \in RemoveFails
        /\ out[cur][outputFormats[next]] # NoFile
        /\ UNCHANGED wvars
  /\ mpc' = IF next = Len(outputFormats) THEN "visit" ELSE "remove"
  /\ next' = IF next = Len(outputFormats) THEN 1 ELSE next + 1
  /\ UNCHANGED <<workers, want, todo, cur, newCount, started, phase, watching,
                 ctxDone>>

\* The loop over m.workers is over, that over feeds begins.
StartFeeds ==
  /\ mpc = "visit" /\ phase # "drain"
  /\ todo = {}
  /\ mpc' = "start"
  /\ next' = 1
  /\ newCount' = 0
  /\ UNCHANGED <<workers, want, todo, cur, started, phase, watching, ctxDone>>
  /\ UNCHANGED wvars

\* The loop over feeds is not over.
FaultyMoreFeeds == next < Len(want)
MoreFeeds == next <= Len(want)

SkipRunning ==
  /\ mpc = "start"
  /\ MoreFeeds
  /\ workers[want[next].name] # NoHandle
  /\ next' = next + 1
  /\ UNCHANGED <<workers, want, mpc, todo, cur, newCount, started, phase,
                 watching, ctxDone>>
  /\ UNCHANGED wvars

\* startLocked; only the first Apply staggers its workers after the first.
StartNew ==
  /\ mpc = "start"
  /\ MoreFeeds
  /\ workers[want[next].name] = NoHandle
  /\ \E h \in Unborn :
       /\ \A g \in Unborn : h <= g
       /\ Launch(h, want[next], ~started /\ newCount > 0, ctxDone)
       /\ workers' = [workers EXCEPT ![want[next].name] = h]
  /\ newCount' = newCount + 1
  /\ next' = next + 1
  /\ UNCHANGED <<want, mpc, todo, cur, started, phase, watching, ctxDone>>

ApplyEnd ==
  /\ mpc = "start"
  /\ ~MoreFeeds
  /\ started' = TRUE
  /\ mpc' = "free"
  /\ next' = 1
  /\ newCount' = 0
  /\ phase' = IF phase = "boot" THEN "serve" ELSE phase
  /\ UNCHANGED <<workers, want, todo, cur, watching, ctxDone>>
  /\ UNCHANGED wvars

-----------------------------------------------------------------------------
(* The end of runServer. *)

(* A signal, at any time, or the failure of the HTTP server: the context of
   main is done, and with it that of every worker. *)
Signal ==
  /\ ~ctxDone
  /\ ctxDone' = TRUE
  /\ Cancel({h \in Handle : pc[h] # "unborn"})
  /\ UNCHANGED <<workers, want, mpc, todo, cur, next, newCount, started,
                 phase, watching>>

FaultyWatchReturns == FALSE /\ UNCHANGED vars

\* Watch finds the context done.
WatchReturns ==
  /\ phase = "serve" /\ watching /\ ctxDone
  /\ mpc = "free"
  /\ watching' = FALSE
  /\ UNCHANGED <<workers, want, mpc, todo, cur, next, newCount, started,
                 phase, ctxDone>>
  /\ UNCHANGED wvars

\* wg.Wait is over: the watcher cannot call Apply any more.
ShutdownBegin ==
  /\ phase = "serve" /\ ctxDone /\ ~watching
  /\ mpc = "free"
  /\ phase' = "drain"
  /\ mpc' = "visit"
  /\ todo' = Running
  /\ UNCHANGED <<workers, want, cur, next, newCount, started, watching, ctxDone>>
  /\ UNCHANGED wvars

ShutdownEnd ==
  /\ mpc = "visit" /\ phase = "drain"
  /\ todo = {}
  /\ mpc' = "free"
  /\ phase' = "down"
  /\ UNCHANGED <<workers, want, todo, cur, next, newCount, started, watching,
                 ctxDone>>
  /\ UNCHANGED wvars

-----------------------------------------------------------------------------
ManagerStep ==
  \/ BootApply \/ ReloadApply
  \/ \E n \in Names : VisitKeep(n) \/ VisitStop(n)
  \/ StopDone \/ ForgetGone \/ RemoveNext
  \/ StartFeeds \/ SkipRunning \/ StartNew \/ ApplyEnd
  \/ Signal \/ WatchReturns \/ ShutdownBegin \/ ShutdownEnd

ManagerNext ==
  \/ ManagerStep
  \/ (\E h \in Handle : WorkerStep(h)) /\ UNCHANGED mvars
  \/ (\E n \in Names : Age(n)) /\ UNCHANGED mvars

ManagerSpec == ManagerInit /\ [][ManagerNext]_vars

(* Whoever holds m.mu keeps running, and so do main and, once its context is
   done, the watcher.  Nothing makes a reload or a signal happen. *)
ManagerFairness ==
  /\ WorkerFairness
  /\ WF_vars(BootApply)
  /\ WF_vars(\/ \E n \in Names : VisitKeep(n) \/ VisitStop(n)
             \/ StopDone \/ ForgetGone \/ RemoveNext
             \/ StartFeeds \/ SkipRunning \/ StartNew \/ ApplyEnd)
  /\ SF_vars(WatchReturns)
  /\ WF_vars(ShutdownBegin)
  /\ WF_vars(ShutdownEnd)

-----------------------------------------------------------------------------
(* What the manager promises.  That it keeps the contract of the workers is
   the refinement ManagerSpec => WorkerSpec. *)

(* Every worker that is alive is the one m.workers has for its name: no
   worker is lost, and there are never two for one name ("two workers for the
   same name racing during a restart", stopLocked). *)
EveryWorkerOwned ==
  \A h \in Handle : Live(h) => workers[Name(h)] = h

(* Between calls the running workers and the status list are exactly those of
   the latest feed list, each with its current definition, and a name that is
   not in it has no published file, unless a removal failed (Apply). *)
Reconciled ==
  (mpc = "free" /\ phase = "serve") =>
    /\ Running = FeedNames(want)
    /\ tracked = FeedNames(want)
    /\ \A i \in DOMAIN want : feed[workers[want[i].name]] = want[i]
    /\ \A n \in Names \ (FeedNames(want) \cup RemoveFails), e \in Ext :
         out[n][e] = NoFile

(* "it prevents a draining worker from writing output files after a removal"
   (stopLocked): no file appears for a name that m.workers does not have. *)
NoResurrection ==
  [][\A n \in Names \ Running, e \in Ext :
       out[n][e] = NoFile => out'[n][e] = NoFile]_vars

(* Apply disturbs nobody else: while the process is not stopping, a running
   worker is cancelled only if its feed is gone or changed. *)
UnchangedKeptRunning ==
  \A h \in Handle :
    (Live(h) /\ cancelled[h] /\ ~ctxDone) =>
      ~ \E i \in DOMAIN want : want[i] = feed[h]

(* Nothing is left running, or half-written, when Shutdown returns, also if
   the signal arrived while Apply was still starting workers. *)
DownIsQuiet ==
  phase = "down" => \A h \in Handle : ~Live(h) /\ tmp[h] = {}

\* A signal at any time leads to an orderly end of the process.
SignalEnds == ctxDone ~> phase = "down"

(* A feed added by a reload is refreshed, whatever the other feeds do, unless
   another reload or a signal comes first. *)
AddedIsRefreshed ==
  \A f \in Feeds :
    (\E i \in DOMAIN want : want[i] = f)
      ~> \/ ctxDone
         \/ ~ \E i \in DOMAIN want : want[i] = f
         \/ \E h \in Handle : feed[h] = f /\ start[h] > 0 /\ pc[h] = "idle"

=============================================================================
