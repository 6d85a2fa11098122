---------------------------- MODULE ManagerProofs ---------------------------
(* Theorems about module Manager, for every value of its constants. *)
EXTENDS Manager, WorkerProofs

(***************************************************************************)
(* The inductive invariant.                                                *)
(***************************************************************************)
\* The map entries are workers of their name.
MapConsistent ==
  \A n \in Names : workers[n] # NoHandle =>
    pc[workers[n]] # "unborn" /\ Name(workers[n]) = n

\* Where the holder of m.mu stands, the map and the Tracker agree with it.
LoopInv ==
  /\ todo \subseteq Running
  /\ mpc = "wait" => cur \in todo
  /\ mpc \in {"forget", "remove"} => workers[cur] = NoHandle
  /\ mpc = "remove" => cur \notin tracked /\ next \in 1..3

\* Shutdown visits every worker there is, and nobody starts one after it.
DrainInv ==
  /\ phase = "drain" => mpc \in {"visit", "wait"} /\ Running \subseteq todo
  /\ phase = "down" => mpc = "free" /\ Running = {}

ManagerInv ==
  /\ ManagerTypeOK
  /\ EveryWorkerOwned
  /\ MapConsistent
  /\ LoopInv
  /\ DrainInv

LEMMA HandleNotNone == NoHandle \notin Handle
BY WorkerAssumption DEF NoHandle, Handle

\* While a name has no entry in m.workers nobody works on it.
LEMMA UnownedIsQuiet ==
  ASSUME EveryWorkerOwned, NEW n, workers[n] = NoHandle
  PROVE  NoLiveWorker(n)
BY HandleNotNone DEF EveryWorkerOwned, NoLiveWorker

LEMMA ListElement ==
  ASSUME ManagerTypeOK, mpc = "start", MoreFeeds
  PROVE  want[next] \in Feeds /\ want[next].name \in Names
<1>1. want \in Seq(Feeds)
  <2>1. << >> \in Seq(Feeds) /\ Configs \subseteq Seq(Feeds)
    BY ManagerAssumption
  <2> QED
    BY <2>1 DEF ManagerTypeOK
<1>2. next \in 1..Len(want)
  BY <1>1 DEF ManagerTypeOK, MoreFeeds
<1> QED
  BY <1>1, <1>2, WorkerAssumption

LEMMA ManagerInvInit == ManagerInit => ManagerInv
<1> SUFFICES ASSUME ManagerInit PROVE ManagerInv
  OBVIOUS
<1>1. TypeOK /\ \A h \in Handle : ~Live(h)
  BY TypeInit DEF ManagerInit, WorkerInit, Live
<1>2. ManagerTypeOK
  <2>1. (CHOOSE n \in Names : TRUE) \in Names
    BY ManagerAssumption
  <2>2. workers \in [Names -> Handle \cup {NoHandle}]
    BY DEF ManagerInit
  <2>3. want \in Configs \cup {<< >>} /\ todo \subseteq Names /\ cur \in Names
    BY <2>1 DEF ManagerInit
  <2>4. mpc \in MPC /\ phase \in {"boot", "serve", "drain", "down"}
    BY DEF ManagerInit, MPC
  <2>5. next \in Nat \ {0} /\ newCount \in Nat
    BY DEF ManagerInit
  <2>6. started \in BOOLEAN /\ watching \in BOOLEAN /\ ctxDone \in BOOLEAN
    BY DEF ManagerInit
  <2> QED
    BY <1>1, <2>2, <2>3, <2>4, <2>5, <2>6 DEF ManagerTypeOK
<1>3. EveryWorkerOwned /\ MapConsistent
  BY <1>1 DEF ManagerInit, EveryWorkerOwned, MapConsistent
<1>4. LoopInv /\ DrainInv
  BY DEF ManagerInit, LoopInv, DrainInv, Running
<1> QED
  BY <1>2, <1>3, <1>4 DEF ManagerInv

(***************************************************************************)
(* The manager keeps the contract of the workers.                          *)
(***************************************************************************)
LEMMA ContractKept ==
  ASSUME ManagerInv, [ManagerNext]_vars
  PROVE  [WorkerNext]_wvars
<1>a. ManagerTypeOK /\ TypeOK /\ EveryWorkerOwned /\ MapConsistent /\ LoopInv
  BY DEF ManagerInv, ManagerTypeOK
<1>b. cur \in Names
  BY <1>a DEF ManagerTypeOK
<1>1. CASE UNCHANGED wvars
  BY <1>1
<1>2. ASSUME NEW h \in Handle, WorkerStep(h) PROVE WorkerNext
  BY <1>2 DEF WorkerNext
<1>3. ASSUME NEW n \in Names, Age(n) PROVE WorkerNext
  BY <1>3 DEF WorkerNext
<1>4. ASSUME NEW n \in Names, VisitStop(n) PROVE WorkerNext
  <2>1. Cancel({workers[n]}) /\ n \in todo
    BY <1>4 DEF VisitStop, CancelWorker
  <2>2. workers[n] \in Handle /\ pc[workers[n]] # "unborn"
    BY <2>1, <1>a DEF LoopInv, Running, MapConsistent, ManagerTypeOK
  <2> QED
    BY <2>1, <2>2 DEF WorkerNext, ContractStep
<1>5. CASE ForgetGone
  BY <1>5, <1>a, <1>b, UnownedIsQuiet
  DEF ForgetGone, LoopInv, WorkerNext, ContractStep
<1>6. ASSUME RemoveNext, ~ UNCHANGED wvars PROVE WorkerNext
  <2>1. RemoveOutput(cur, outputFormats[next])
    BY <1>6 DEF RemoveNext
  <2>2. outputFormats[next] \in Ext /\ cur \in Names \ tracked /\ NoLiveWorker(cur)
    BY <1>6, <1>a, <1>b, Formats, UnownedIsQuiet DEF RemoveNext, LoopInv
  <2> QED
    BY <2>1, <2>2 DEF WorkerNext, ContractStep
<1>7. CASE StartNew
  <2>1. PICK h \in Unborn : Launch(h, want[next], ~started /\ newCount > 0, ctxDone)
    BY <1>7 DEF StartNew
  <2>2. /\ want[next] \in Feeds /\ NoLiveWorker(want[next].name)
        /\ (~started /\ newCount > 0) \in BOOLEAN /\ ctxDone \in BOOLEAN
    BY <1>7, <1>a, ListElement, UnownedIsQuiet DEF StartNew, ManagerTypeOK
  <2> QED
    BY <2>1, <2>2 DEF WorkerNext, ContractStep, Unborn
<1>8. CASE Signal
  BY <1>8 DEF Signal, WorkerNext, ContractStep
<1>9. ASSUME \/ BootApply \/ ReloadApply
             \/ \E n \in Names : VisitKeep(n)
             \/ StopDone \/ StartFeeds \/ SkipRunning \/ ApplyEnd
             \/ WatchReturns \/ ShutdownBegin \/ ShutdownEnd
      PROVE  UNCHANGED wvars
  BY <1>9 DEF BootApply, ReloadApply, ApplyBegin, VisitKeep, StopDone, StartFeeds,
              SkipRunning, ApplyEnd, WatchReturns, ShutdownBegin, ShutdownEnd
<1>10. CASE UNCHANGED vars
  BY <1>10 DEF vars
<1> QED
  BY <1>1, <1>2, <1>3, <1>4, <1>5, <1>6, <1>7, <1>8, <1>9, <1>10
  DEF ManagerNext, ManagerStep

(***************************************************************************)
(* The invariant is kept.                                                  *)
(***************************************************************************)
\* A goroutine does not change its feed, is not reborn, and stays dead.
LEMMA WorkerFrame ==
  ASSUME TypeOK, NEW h \in Handle, WorkerStep(h)
  PROVE  /\ feed' = feed /\ tracked' = tracked
         /\ \A g \in Handle : /\ pc'[g] = "unborn" <=> pc[g] = "unborn"
                              /\ Live(g)' => Live(g)
<1>1. feed' = feed /\ pc[h] \notin {"unborn", "exited"}
      /\ \A g \in Handle \ {h} : pc'[g] = pc[g]
  BY StepFrame
<1>2. tracked' = tracked /\ pc'[h] # "unborn"
  <2>1. CASE DelayOver(h) \/ DelayCancelled(h) \/ Exit(h) \/ FetchOK(h) \/ EnrichOK(h)
    BY <2>1 DEF DelayOver, DelayCancelled, Exit, FetchOK, EnrichOK, TypeOK, Goto
  <2>2. CASE FirstRefresh(h) \/ Tick(h)
    BY <2>2 DEF FirstRefresh, Tick, BeginRefresh, TypeOK, Goto
  <2>3. CASE FetchOrEnrichFails(h) \/ HandleEmpty(h)
    BY <2>3 DEF FetchOrEnrichFails, HandleEmpty, FailRefresh, TypeOK, Goto
  <2>4. CASE StageFile(h) \/ RenameFile(h)
    BY <2>4, <1>1 DEF StageFile, RenameFile, TypeOK, Goto
  <2>5. CASE StageFails(h) \/ RenameFails(h)
    BY <2>5 DEF StageFails, RenameFails, FailRefresh, TypeOK, Goto
  <2>6. CASE Publish(h) \/ RecordRefreshSuccess(h) \/ RecordRefresh(h)
    BY <2>6 DEF Publish, RecordRefreshSuccess, RecordRefresh, TypeOK, Goto
  <2> QED
    BY <2>1, <2>2, <2>3, <2>4, <2>5, <2>6 DEF WorkerStep, RefreshStep
<1> QED
  BY <1>1, <1>2 DEF Live

(* The parts of the invariant that speak of workers survive a step that
   leaves the map and the state of the goroutines alone. *)
LEMMA OwnedFrame ==
  ASSUME ManagerInv, feed' = feed, workers' = workers,
         \A g \in Handle : /\ pc'[g] = "unborn" <=> pc[g] = "unborn"
                           /\ Live(g)' => Live(g)
  PROVE  EveryWorkerOwned' /\ MapConsistent' /\ Running' = Running
<1>1. EveryWorkerOwned /\ MapConsistent /\ workers \in [Names -> Handle \cup {NoHandle}]
  BY DEF ManagerInv, ManagerTypeOK
<1>2. EveryWorkerOwned'
  BY <1>1 DEF EveryWorkerOwned, Name
<1>3. MapConsistent'
  BY <1>1 DEF MapConsistent, Name
<1> QED
  BY <1>2, <1>3 DEF Running

LEMMA ManagerInvStep ==
  ASSUME ManagerInv, [ManagerNext]_vars
  PROVE  ManagerInv'
<1>a. /\ ManagerTypeOK /\ TypeOK /\ EveryWorkerOwned /\ MapConsistent
      /\ LoopInv /\ DrainInv
  BY DEF ManagerInv, ManagerTypeOK
<1>b. TypeOK'
  BY <1>a, ContractKept, TypeStep
<1>c. cur \in Names /\ workers \in [Names -> Handle \cup {NoHandle}]
  BY <1>a DEF ManagerTypeOK
<1>1. ASSUME UNCHANGED mvars, feed' = feed, tracked' = tracked,
             \A g \in Handle : /\ pc'[g] = "unborn" <=> pc[g] = "unborn"
                               /\ Live(g)' => Live(g)
      PROVE  ManagerInv'
  <2>1. EveryWorkerOwned' /\ MapConsistent' /\ Running' = Running
    BY <1>1, OwnedFrame DEF mvars
  <2>2. ManagerTypeOK'
    BY <1>1, <1>a, <1>b DEF ManagerTypeOK, mvars
  <2>3. LoopInv' /\ DrainInv'
    BY <1>1, <2>1, <1>a DEF LoopInv, DrainInv, mvars
  <2> QED
    BY <2>1, <2>2, <2>3 DEF ManagerInv
<1>2. ASSUME NEW h \in Handle, WorkerStep(h), UNCHANGED mvars PROVE ManagerInv'
  BY <1>1, <1>2, <1>a, WorkerFrame
<1>3. ASSUME NEW n \in Names, Age(n), UNCHANGED mvars PROVE ManagerInv'
  BY <1>1, <1>3 DEF Age, Live
<1>4. CASE UNCHANGED vars
  BY <1>1, <1>4 DEF vars, wvars, Live
<1>5. ASSUME UNCHANGED wvars, workers' = workers
      PROVE  EveryWorkerOwned' /\ MapConsistent' /\ Running' = Running /\ tracked' = tracked
  BY <1>5, OwnedFrame DEF wvars, Live
<1>6. ASSUME NEW list \in Configs, ApplyBegin(list), phase \in {"boot", "serve"}
      PROVE ManagerInv'
  <2>1. EveryWorkerOwned' /\ MapConsistent' /\ Running' = Running /\ tracked' = tracked
    BY <1>5, <1>6 DEF ApplyBegin
  <2>2. ManagerTypeOK'
    BY <1>6, <1>a, <1>b DEF ApplyBegin, ManagerTypeOK, Running, MPC
  <2>3. LoopInv' /\ DrainInv'
    BY <1>6, <2>1 DEF ApplyBegin, LoopInv, DrainInv
  <2> QED
    BY <2>1, <2>2, <2>3 DEF ManagerInv
<1>7. ASSUME NEW n \in Names, VisitKeep(n) PROVE ManagerInv'
  <2>1. EveryWorkerOwned' /\ MapConsistent' /\ Running' = Running /\ tracked' = tracked
    BY <1>5, <1>7 DEF VisitKeep
  <2>2. ManagerTypeOK'
    BY <1>7, <1>a, <1>b DEF VisitKeep, ManagerTypeOK
  <2>3. LoopInv' /\ DrainInv'
    BY <1>7, <1>a, <2>1 DEF VisitKeep, LoopInv, DrainInv
  <2> QED
    BY <2>1, <2>2, <2>3 DEF ManagerInv
<1>8. ASSUME NEW n \in Names, VisitStop(n) PROVE ManagerInv'
  <2>1. UNCHANGED <<feed, pc, tracked, workers>>
    BY <1>8 DEF VisitStop, CancelWorker, Cancel
  <2>2. EveryWorkerOwned' /\ MapConsistent' /\ Running' = Running
    BY <2>1, OwnedFrame DEF Live
  <2>3. ManagerTypeOK'
    BY <1>8, <1>a, <1>b DEF VisitStop, ManagerTypeOK, MPC
  <2>4. LoopInv' /\ DrainInv'
    BY <1>8, <1>a, <2>1, <2>2 DEF VisitStop, LoopInv, DrainInv
  <2> QED
    BY <2>2, <2>3, <2>4 DEF ManagerInv
<1>9. CASE StopDone
  <2>1. /\ UNCHANGED wvars /\ workers' = [workers EXCEPT ![cur] = NoHandle]
        /\ mpc = "wait" /\ pc[workers[cur]] = "exited" /\ todo' = todo \ {cur}
    BY <1>9 DEF StopDone, WorkerDone
  <2>2. EveryWorkerOwned'
    BY <2>1, <1>a, <1>c DEF EveryWorkerOwned, wvars, Live, Name
  <2>3. MapConsistent'
    BY <2>1, <1>a, <1>c DEF MapConsistent, wvars, Name
  <2>4. Running' = Running \ {cur}
    BY <2>1, <1>c DEF Running
  <2>5. ManagerTypeOK'
    <3>1. workers' \in [Names -> Handle \cup {NoHandle}]
      BY <2>1, <1>c
    <3>2. todo' \subseteq Names /\ mpc' \in MPC
      BY <1>9, <2>1, <1>a DEF StopDone, ManagerTypeOK, MPC
    <3> QED
      BY <3>1, <3>2, <1>9, <1>a, <1>b DEF StopDone, ManagerTypeOK
  <2>6. LoopInv'
    BY <2>1, <2>4, <1>9, <1>a, <1>c DEF StopDone, LoopInv
  <2>7. DrainInv'
    BY <2>1, <2>4, <1>9, <1>a DEF StopDone, DrainInv
  <2> QED
    BY <2>2, <2>3, <2>5, <2>6, <2>7 DEF ManagerInv
<1>10. CASE ForgetGone
  <2>1. UNCHANGED <<feed, pc, workers>> /\ cur \notin tracked'
    BY <1>10 DEF ForgetGone, Forget
  <2>2. EveryWorkerOwned' /\ MapConsistent' /\ Running' = Running
    BY <2>1, OwnedFrame DEF Live
  <2>3. ManagerTypeOK'
    BY <1>10, <1>a, <1>b DEF ForgetGone, ManagerTypeOK, MPC
  <2>4. LoopInv' /\ DrainInv'
    BY <1>10, <1>a, <2>1, <2>2 DEF ForgetGone, LoopInv, DrainInv
  <2> QED
    BY <2>2, <2>3, <2>4 DEF ManagerInv
<1>11. CASE RemoveNext
  <2>1. UNCHANGED <<feed, pc, workers, tracked>>
    BY <1>11 DEF RemoveNext, RemoveOutput, wvars
  <2>2. EveryWorkerOwned' /\ MapConsistent' /\ Running' = Running
    BY <2>1, OwnedFrame DEF Live
  <2>3. mpc = "remove" /\ next \in 1..3
    BY <1>11, <1>a DEF RemoveNext, LoopInv
  <2>4. /\ next' \in 1..3 /\ mpc' \in {"visit", "remove"}
        /\ UNCHANGED <<want, todo, cur, newCount, started, phase, watching, ctxDone>>
    BY <1>11, <2>3, Formats DEF RemoveNext
  <2>5. ManagerTypeOK'
    BY <2>1, <2>4, <1>a, <1>b DEF ManagerTypeOK, MPC
  <2>6. LoopInv' /\ DrainInv'
    BY <2>1, <2>2, <2>3, <2>4, <1>a DEF LoopInv, DrainInv
  <2> QED
    BY <2>2, <2>5, <2>6 DEF ManagerInv
<1>12. CASE StartFeeds \/ SkipRunning \/ ApplyEnd
  <2>1. EveryWorkerOwned' /\ MapConsistent' /\ Running' = Running /\ tracked' = tracked
    BY <1>5, <1>12 DEF StartFeeds, SkipRunning, ApplyEnd
  <2>2. ManagerTypeOK'
    <3>1. CASE StartFeeds \/ SkipRunning
      BY <3>1, <1>a, <1>b DEF StartFeeds, SkipRunning, ManagerTypeOK, MPC
    <3>2. CASE ApplyEnd
      <4>1. phase' \in {"boot", "serve", "drain", "down"} /\ started' \in BOOLEAN
        BY <3>2, <1>a DEF ApplyEnd, ManagerTypeOK
      <4> QED
        BY <3>2, <4>1, <1>a, <1>b DEF ApplyEnd, ManagerTypeOK, MPC
    <3> QED
      BY <1>12, <3>1, <3>2
  <2>3. LoopInv' /\ DrainInv'
    BY <1>12, <1>a, <2>1 DEF StartFeeds, SkipRunning, ApplyEnd, LoopInv, DrainInv
  <2> QED
    BY <2>1, <2>2, <2>3 DEF ManagerInv
<1>13. CASE StartNew
  <2> DEFINE n == want[next].name
  <2>1. PICK h \in Unborn :
          /\ Launch(h, want[next], ~started /\ newCount > 0, ctxDone)
          /\ workers' = [workers EXCEPT ![n] = h]
    BY <1>13 DEF StartNew
  <2>2. n \in Names /\ workers[n] = NoHandle /\ mpc = "start"
    BY <1>13, <1>a, ListElement DEF StartNew
  <2>3. /\ h \in Handle /\ pc[h] = "unborn" /\ h # NoHandle
        /\ pc'[h] # "unborn" /\ Name(h)' = n
        /\ \A g \in Handle \ {h} : pc'[g] = pc[g] /\ Name(g)' = Name(g)
    BY <2>1, <1>a, HandleNotNone DEF Unborn, Launch, Goto, TypeOK, Name
  <2>4. EveryWorkerOwned'
    <3> SUFFICES ASSUME NEW g \in Handle, Live(g)' PROVE workers'[Name(g)'] = g
      BY DEF EveryWorkerOwned
    <3>1. CASE g = h
      BY <3>1, <2>1, <2>2, <2>3, <1>c
    <3>2. CASE g # h
      <4>1. Live(g) /\ Name(g)' = Name(g)
        BY <3>2, <2>3 DEF Live
      <4>2. workers[Name(g)] = g /\ g # NoHandle
        BY <4>1, <1>a, HandleNotNone DEF EveryWorkerOwned
      <4> QED
        BY <4>1, <4>2, <2>1, <2>2, <1>c
    <3> QED
      BY <3>1, <3>2
  <2>5. MapConsistent'
    BY <2>1, <2>2, <2>3, <1>a, <1>c DEF MapConsistent
  <2>6. ManagerTypeOK'
    <3>1. workers' \in [Names -> Handle \cup {NoHandle}]
      BY <2>1, <2>2, <2>3, <1>c
    <3>2. next' \in Nat \ {0} /\ newCount' \in Nat
      BY <1>13, <1>a DEF StartNew, ManagerTypeOK
    <3> QED
      BY <3>1, <3>2, <1>13, <1>a, <1>b DEF StartNew, ManagerTypeOK
  <2>7. Running \subseteq Running'
    BY <2>1, <2>2, <2>3, <1>c DEF Running
  <2>8. LoopInv' /\ DrainInv'
    BY <2>2, <2>7, <1>13, <1>a DEF StartNew, LoopInv, DrainInv
  <2> QED
    BY <2>4, <2>5, <2>6, <2>8 DEF ManagerInv
<1>14. CASE Signal
  <2>1. UNCHANGED <<feed, pc, workers, tracked>>
    BY <1>14 DEF Signal, Cancel
  <2>2. EveryWorkerOwned' /\ MapConsistent' /\ Running' = Running
    BY <2>1, OwnedFrame DEF Live
  <2>3. ManagerTypeOK'
    BY <1>14, <1>a, <1>b DEF Signal, ManagerTypeOK
  <2>4. LoopInv' /\ DrainInv'
    BY <1>14, <1>a, <2>1, <2>2 DEF Signal, LoopInv, DrainInv
  <2> QED
    BY <2>2, <2>3, <2>4 DEF ManagerInv
<1>15. CASE WatchReturns \/ ShutdownBegin \/ ShutdownEnd
  <2>1. EveryWorkerOwned' /\ MapConsistent' /\ Running' = Running /\ tracked' = tracked
    BY <1>5, <1>15 DEF WatchReturns, ShutdownBegin, ShutdownEnd
  <2>2. ManagerTypeOK'
    BY <1>15, <1>a, <1>b
    DEF WatchReturns, ShutdownBegin, ShutdownEnd, ManagerTypeOK, MPC, Running
  <2>3. LoopInv' /\ DrainInv'
    BY <1>15, <1>a, <2>1
    DEF WatchReturns, ShutdownBegin, ShutdownEnd, LoopInv, DrainInv
  <2> QED
    BY <2>1, <2>2, <2>3 DEF ManagerInv
<1>16. CASE BootApply \/ ReloadApply
  BY <1>6, <1>16 DEF BootApply, ReloadApply
<1> QED
  BY <1>2, <1>3, <1>4, <1>7, <1>8, <1>9, <1>10, <1>11, <1>12, <1>13, <1>14, <1>15, <1>16
  DEF ManagerNext, ManagerStep

LEMMA ManagerInvariant == ManagerSpec => []ManagerInv
BY ManagerInvInit, ManagerInvStep, PTL DEF ManagerSpec

(***************************************************************************)
(* The theorems.                                                           *)
(***************************************************************************)
(* The state of manager, workers and files has its type (ManagerTypeOK). *)
THEOREM ManagerTypeCorrect == ManagerSpec => []ManagerTypeOK
<1>1. ManagerInv => ManagerTypeOK
  BY DEF ManagerInv
<1> QED
  BY <1>1, ManagerInvariant, PTL

(* Every live worker is the one m.workers has for its name, so no two workers
   of a name are ever alive (stopLocked waits, startLocked registers). *)
THEOREM OneWorkerPerName == ManagerSpec => []EveryWorkerOwned
<1>1. ManagerInv => EveryWorkerOwned
  BY DEF ManagerInv
<1> QED
  BY <1>1, ManagerInvariant, PTL

(* The manager keeps the contract the workers rely on: as far as the workers,
   their files, the Tracker and the metrics go, every behaviour of the
   program is one of WorkerSpec. *)
THEOREM ManagerKeepsContract == ManagerSpec => WorkerSpec
<1>1. ManagerInit => WorkerInit
  BY DEF ManagerInit
<1>2. ManagerInv /\ [ManagerNext]_vars => [WorkerNext]_wvars
  BY ContractKept
<1> QED
  BY <1>1, <1>2, ManagerInvariant, PTL DEF ManagerSpec, WorkerSpec

\* After Shutdown the map is empty, and with it the set of live workers.
LEMMA StoppedIsQuiet == ManagerInv /\ NoLeftoverTemp => DownIsQuiet
<1> SUFFICES ASSUME ManagerInv, NoLeftoverTemp, phase = "down", NEW h \in Handle
             PROVE  ~Live(h) /\ tmp[h] = {}
  BY DEF DownIsQuiet
<1>1. ~Live(h)
  <2> SUFFICES ASSUME Live(h) PROVE FALSE
    OBVIOUS
  <2>1. workers[Name(h)] = h /\ Name(h) \in Names
    BY LiveHasFeed DEF ManagerInv, ManagerTypeOK, EveryWorkerOwned, Live
  <2> QED
    BY <2>1, HandleNotNone DEF ManagerInv, DrainInv, Running
<1> QED
  BY <1>1 DEF NoLeftoverTemp, Live

(* When Shutdown has returned no worker is alive and no temporary file of a
   refresh is left, whenever the signal came. *)
THEOREM QuietWhenDown == ManagerSpec => []DownIsQuiet
BY StoppedIsQuiet, ManagerInvariant, ManagerKeepsContract, TempsCleaned, PTL

(***************************************************************************)
(* What Apply does to files, status list and running workers.              *)
(***************************************************************************)
\* Whoever writes is alive, and so is in the map.
LEMMA OnlyRunningWrite ==
  ASSUME ManagerInv, [ManagerNext]_vars,
         NEW n \in Names \ Running, NEW e \in Ext, out[n][e] = NoFile
  PROVE  out'[n][e] = NoFile
<1>a. TypeOK /\ EveryWorkerOwned /\ [WorkerNext]_wvars
  BY ContractKept DEF ManagerInv, ManagerTypeOK
<1>1. ASSUME NEW h \in Handle, WorkerStep(h) PROVE out'[n] = out[n]
  <2>1. pc[h] \notin {"unborn", "exited"} /\ \A m \in Names \ {Name(h)} : out'[m] = out[m]
    BY <1>1, <1>a, StepFrame
  <2>2. workers[Name(h)] = h
    BY <2>1, <1>a DEF EveryWorkerOwned, Live
  <2>3. n # Name(h)
    BY <2>2, HandleNotNone DEF Running
  <2> QED
    BY <2>1, <2>3
<1>2. ASSUME NEW m \in Names, NEW x \in Ext, RemoveOutput(m, x)
      PROVE  out'[n][e] = NoFile
  BY <1>2, <1>a DEF RemoveOutput, TypeOK
<1>3. CASE ContractStep
  BY <1>2, <1>3 DEF ContractStep, Launch, Cancel, Forget
<1>4. CASE UNCHANGED wvars \/ \E m \in Names : Age(m)
  BY <1>4 DEF wvars, Age
<1> QED
  BY <1>a, <1>1, <1>3, <1>4 DEF WorkerNext

(* No file appears for a name that m.workers does not have (stopLocked waits
   for the worker to be gone). *)
THEOREM NothingResurrected == ManagerSpec => NoResurrection
<1>1. ManagerInv /\ [ManagerNext]_vars =>
        [\A n \in Names \ Running, e \in Ext :
           out[n][e] = NoFile => out'[n][e] = NoFile]_vars
  BY OnlyRunningWrite
<1> QED
  BY <1>1, ManagerInvariant, PTL DEF ManagerSpec, NoResurrection

(* Before the end of the process the only worker that is cancelled and still
   alive is the one that Apply waits for. *)
CancelInv ==
  /\ phase \in {"drain", "down"} => ctxDone
  /\ \A h \in Handle : (Live(h) /\ cancelled[h] /\ ~ctxDone) =>
       /\ mpc = "wait" /\ workers[cur] = h
       /\ ~ \E i \in DOMAIN want : want[i] = feed[h]

LEMMA CancelInvStep ==
  ASSUME ManagerInv, CancelInv, [ManagerNext]_vars
  PROVE  CancelInv'
<1>a. /\ ManagerTypeOK /\ TypeOK /\ EveryWorkerOwned /\ MapConsistent
      /\ LoopInv /\ workers \in [Names -> Handle \cup {NoHandle}]
  BY DEF ManagerInv, ManagerTypeOK
<1>1. ASSUME UNCHANGED <<feed, cancelled, workers, want, cur, mpc, ctxDone, phase>>,
             \A g \in Handle : Live(g)' => Live(g)
      PROVE  CancelInv'
  BY <1>1 DEF CancelInv
<1>2. ASSUME NEW h \in Handle, WorkerStep(h), UNCHANGED mvars PROVE CancelInv'
  <2>1. feed' = feed /\ \A g \in Handle : Live(g)' => Live(g)
    BY <1>2, <1>a, WorkerFrame
  <2>2. UNCHANGED cancelled
    BY <1>2 DEF WorkerStep, RefreshStep, DelayOver, DelayCancelled, FirstRefresh,
         Tick, BeginRefresh, Exit, FetchOK, FetchOrEnrichFails, EnrichOK,
         HandleEmpty, StageFile, StageFails, RenameFile, RenameFails, Publish,
         RecordRefreshSuccess, RecordRefresh
  <2> QED
    BY <2>1, <2>2, <1>1, <1>2 DEF mvars
<1>3. CASE UNCHANGED vars \/ \E n \in Names : Age(n) /\ UNCHANGED mvars
  BY <1>3, <1>1 DEF vars, wvars, mvars, Age, Live
\* With nobody waiting, no live worker is cancelled.
<1>4. ASSUME mpc # "wait", UNCHANGED <<feed, pc, cancelled, ctxDone>>,
             phase' \in {"drain", "down"} => ctxDone
      PROVE  CancelInv'
  BY <1>4 DEF CancelInv, Live
<1>5. ASSUME BootApply \/ ReloadApply \/ (\E n \in Names : VisitKeep(n))
             \/ StartFeeds \/ SkipRunning \/ ApplyEnd \/ WatchReturns
             \/ ShutdownBegin \/ ShutdownEnd
      PROVE  CancelInv'
  <2>1. mpc # "wait" /\ UNCHANGED wvars /\ ctxDone' = ctxDone
    BY <1>5 DEF BootApply, ReloadApply, ApplyBegin, VisitKeep, StartFeeds,
         SkipRunning, ApplyEnd, WatchReturns, ShutdownBegin, ShutdownEnd
  <2>2. phase' \in {"drain", "down"} => ctxDone
    BY <1>5 DEF BootApply, ReloadApply, ApplyBegin, VisitKeep, StartFeeds,
         SkipRunning, ApplyEnd, WatchReturns, ShutdownBegin, ShutdownEnd, CancelInv
  <2> QED
    BY <2>1, <2>2, <1>4 DEF wvars
<1>6. CASE ForgetGone \/ RemoveNext
  <2>1. mpc # "wait" /\ UNCHANGED <<feed, pc, cancelled, ctxDone, phase>>
    BY <1>6 DEF ForgetGone, Forget, RemoveNext, RemoveOutput, wvars
  <2> QED
    BY <2>1, <1>4 DEF CancelInv
<1>7. ASSUME NEW n \in Names, VisitStop(n) PROVE CancelInv'
  <2>1. /\ mpc = "visit" /\ mpc' = "wait" /\ cur' = n /\ n \in todo
        /\ UNCHANGED <<feed, pc, workers, want, phase, ctxDone>>
        /\ cancelled' = [h \in Handle |-> cancelled[h] \/ h \in {workers[n]}]
        /\ phase = "drain" \/ ~Keep(n)
    BY <1>7 DEF VisitStop, CancelWorker, Cancel
  <2>2. Name(workers[n]) = n
    BY <2>1, <1>a DEF LoopInv, Running, MapConsistent
  <2>3. ASSUME NEW h \in Handle, Live(h), cancelled'[h], ~ctxDone
        PROVE  h = workers[n] /\ ~ \E i \in DOMAIN want : want[i] = feed[h]
    <3>1. h = workers[n]
      BY <2>1, <2>3 DEF CancelInv
    <3>2. ~Keep(n)
      BY <2>1, <2>3 DEF CancelInv
    <3> QED
      BY <3>1, <3>2, <2>2 DEF Keep, feedChanged, Name
  <2> QED
    BY <2>1, <2>3 DEF CancelInv, Live
<1>8. CASE StopDone
  <2>1. /\ mpc = "wait" /\ pc[workers[cur]] = "exited"
        /\ UNCHANGED <<feed, pc, cancelled, want, phase, ctxDone>>
    BY <1>8 DEF StopDone, WorkerDone, wvars
  <2> QED
    BY <2>1 DEF CancelInv, Live
<1>9. CASE StartNew
  <2>1. PICK h \in Unborn : Launch(h, want[next], ~started /\ newCount > 0, ctxDone)
    BY <1>9 DEF StartNew
  <2>2. /\ mpc # "wait" /\ UNCHANGED <<phase, ctxDone>>
        /\ cancelled'[h] = ctxDone
        /\ \A g \in Handle \ {h} : pc'[g] = pc[g] /\ cancelled'[g] = cancelled[g]
    BY <1>9, <2>1, <1>a DEF StartNew, Launch, Goto, TypeOK, Unborn
  <2> QED
    BY <2>2 DEF CancelInv, Live
<1>10. CASE Signal
  BY <1>10 DEF Signal, CancelInv
<1> QED
  BY <1>2, <1>3, <1>5, <1>6, <1>7, <1>8, <1>9, <1>10 DEF ManagerNext, ManagerStep

(* A reload stops no worker whose feed is still wanted as it is (Apply leaves
   unchanged feeds running). *)
THEOREM OthersUndisturbed == ManagerSpec => []UnchangedKeptRunning
<1>1. ManagerInit => CancelInv
  BY DEF ManagerInit, WorkerInit, CancelInv, Live
<1>2. ManagerInv /\ CancelInv /\ [ManagerNext]_vars => CancelInv'
  BY CancelInvStep
<1>3. CancelInv => UnchangedKeptRunning
  BY DEF CancelInv, UnchangedKeptRunning
<1> QED
  BY <1>1, <1>2, <1>3, ManagerInvariant, PTL DEF ManagerSpec

(***************************************************************************)
(* Reconciliation.  Each conjunct says what Apply has achieved so far.     *)
(***************************************************************************)
Starting == phase \in {"boot", "serve"}

(* A file has a status entry, or is about to be removed, unless its name is in
   S: one whose files may be there for another reason. *)
FilesInv(S) ==
  \A n \in Names \ S, e \in Ext : out[n][e] # NoFile =>
    \/ n \in tracked
    \/ mpc = "remove" /\ n = cur /\ \E i \in next..3 : outputFormats[i] = e

\* A status entry has a worker, is about to be removed, or to get a worker.
TrackInv ==
  /\ Running \subseteq tracked
  /\ \A n \in tracked \ Running :
       \/ mpc = "forget" /\ n = cur
       \/ mpc \notin {"free", "start"} /\ n \in FeedNames(want)
       \/ mpc = "start" /\ \E i \in DOMAIN want : i >= next /\ want[i].name = n

\* Workers the loop has visited run what is wanted, and what it has passed runs.
RunInv ==
  /\ \A n \in Running \ todo : Keep(n)
  /\ mpc \in {"start", "free"} => todo = {}
  /\ mpc = "start" => \A i \in DOMAIN want : i < next => want[i].name \in Running
  /\ (mpc = "free" /\ phase = "serve") => \A i \in DOMAIN want : want[i].name \in Running

RecInv(S) == Starting => FilesInv(S) /\ TrackInv /\ RunInv

LEMMA WantIsList ==
  ASSUME ManagerTypeOK
  PROVE  /\ want \in Seq(Feeds)
         /\ \A i, j \in DOMAIN want : want[i].name = want[j].name => i = j
         /\ \A i \in DOMAIN want : i \in Nat \ {0} /\ want[i] \in Feeds /\ want[i].name \in Names
<1>1. << >> \in Seq(Feeds) /\ Configs \subseteq Seq(Feeds)
  BY ManagerAssumption
<1>2. want \in Seq(Feeds)
  BY <1>1 DEF ManagerTypeOK
<1>3. \A i, j \in DOMAIN want : want[i].name = want[j].name => i = j
  BY ManagerAssumption DEF ManagerTypeOK
<1> QED
  BY <1>2, <1>3, WorkerAssumption

\* A step that leaves map, list and loop alone, and writes no file of a
\* name without a worker.
LEMMA RecFrame ==
  ASSUME NEW S, RemoveFails \subseteq S, ManagerInv, RecInv(S), UNCHANGED mvars,
         UNCHANGED <<feed, tracked>>,
         \A n \in Names \ Running : out'[n] = out[n]
  PROVE  RecInv(S)'
<1>1. Running' = Running /\ \A n \in Names : Keep(n)' = Keep(n)
  BY DEF mvars, Running, Keep
<1>2. SUFFICES ASSUME Starting PROVE FilesInv(S)' /\ TrackInv' /\ RunInv'
  BY DEF RecInv, Starting, mvars
<1>3. FilesInv(S) /\ TrackInv /\ RunInv
  BY <1>2 DEF RecInv
<1>4. FilesInv(S)'
  BY <1>3 DEF FilesInv, TrackInv, mvars
<1>5. TrackInv'
  BY <1>1, <1>3 DEF TrackInv, mvars
<1>6. RunInv'
  BY <1>1, <1>3 DEF RunInv, mvars, Running
<1> QED
  BY <1>4, <1>5, <1>6

LEMMA RecWorkerStep ==
  ASSUME NEW S, RemoveFails \subseteq S, ManagerInv, RecInv(S), NEW h \in Handle,
         WorkerStep(h), UNCHANGED mvars
  PROVE  RecInv(S)'
<1>a. TypeOK /\ EveryWorkerOwned
  BY DEF ManagerInv, ManagerTypeOK
<1>1. UNCHANGED <<feed, tracked>>
  BY <1>a, WorkerFrame
<1>2. pc[h] \notin {"unborn", "exited"} /\ \A m \in Names \ {Name(h)} : out'[m] = out[m]
  BY <1>a, StepFrame
<1>3. workers[Name(h)] = h
  BY <1>2, <1>a DEF EveryWorkerOwned, Live
<1>4. Name(h) \notin Names \ Running
  BY <1>3, HandleNotNone DEF Running
<1> QED
  BY <1>1, <1>2, <1>4, RecFrame

\* The steps of Apply that stop workers.
LEMMA RecStopSteps ==
  ASSUME NEW S, RemoveFails \subseteq S, ManagerInv, RecInv(S), Starting,
         \/ \E list \in Configs : ApplyBegin(list)
         \/ \E n \in Names : VisitKeep(n) \/ VisitStop(n)
         \/ StopDone \/ ForgetGone \/ RemoveNext
  PROVE  RecInv(S)'
<1>a. /\ ManagerTypeOK /\ TypeOK /\ LoopInv
      /\ FilesInv(S) /\ TrackInv /\ RunInv
      /\ workers \in [Names -> Handle \cup {NoHandle}] /\ cur \in Names
  BY DEF ManagerInv, ManagerTypeOK, RecInv
<1>1. ASSUME UNCHANGED <<feed, workers>> PROVE Running' = Running
  BY <1>1 DEF Running
<1>2. ASSUME UNCHANGED <<feed, workers, want>>, NEW n PROVE Keep(n)' = Keep(n)
  BY <1>2 DEF Keep
<1>3. ASSUME NEW list \in Configs, ApplyBegin(list) PROVE RecInv(S)'
  <2>1. /\ UNCHANGED <<feed, workers, out, tracked>>
        /\ mpc = "free" /\ mpc' = "visit" /\ todo' = Running
    BY <1>3 DEF ApplyBegin, wvars
  <2>2. FilesInv(S)'
    BY <2>1, <1>a DEF FilesInv
  <2>3. TrackInv'
    BY <2>1, <1>1, <1>a DEF TrackInv
  <2>4. RunInv'
    BY <2>1, <1>1 DEF RunInv
  <2> QED
    BY <2>2, <2>3, <2>4 DEF RecInv
<1>4. ASSUME NEW n \in Names, VisitKeep(n) PROVE RecInv(S)'
  <2>1. /\ UNCHANGED <<feed, workers, out, tracked, want, mpc>> /\ mpc = "visit"
        /\ todo' = todo \ {n} /\ Keep(n)
    BY <1>4 DEF VisitKeep, wvars
  <2>2. FilesInv(S)'
    BY <2>1, <1>a DEF FilesInv
  <2>3. TrackInv'
    BY <2>1, <1>1, <1>a DEF TrackInv
  <2>4. RunInv'
    BY <2>1, <1>1, <1>2, <1>a DEF RunInv
  <2> QED
    BY <2>2, <2>3, <2>4 DEF RecInv
<1>5. ASSUME NEW n \in Names, VisitStop(n) PROVE RecInv(S)'
  <2>1. /\ UNCHANGED <<feed, workers, out, tracked, want, todo>>
        /\ mpc = "visit" /\ mpc' = "wait"
    BY <1>5 DEF VisitStop, CancelWorker, Cancel
  <2>2. FilesInv(S)'
    BY <2>1, <1>a DEF FilesInv
  <2>3. TrackInv'
    BY <2>1, <1>1, <1>a DEF TrackInv
  <2>4. RunInv'
    BY <2>1, <1>1, <1>2, <1>a DEF RunInv
  <2> QED
    BY <2>2, <2>3, <2>4 DEF RecInv
<1>6. CASE StopDone
  <2>1. /\ UNCHANGED <<feed, out, tracked, want, cur, phase>> /\ mpc = "wait"
        /\ workers' = [workers EXCEPT ![cur] = NoHandle] /\ todo' = todo \ {cur}
        /\ IF cur \in FeedNames(want) THEN mpc' = "visit" ELSE mpc' = "forget"
    BY <1>6 DEF StopDone, Starting, Desired, wvars
  <2>2. Running' = Running \ {cur} /\ \A n \in Running' : Keep(n)' = Keep(n)
    BY <2>1, <1>a DEF Running, Keep
  <2>3. FilesInv(S)'
    BY <2>1, <1>a DEF FilesInv
  <2>4. TrackInv'
    BY <2>1, <2>2, <1>a DEF TrackInv, FeedNames
  <2>5. RunInv'
    BY <2>1, <2>2, <1>a DEF RunInv
  <2> QED
    BY <2>3, <2>4, <2>5 DEF RecInv
<1>7. CASE ForgetGone
  <2>1. /\ UNCHANGED <<feed, workers, out, want, todo, cur>>
        /\ mpc = "forget" /\ mpc' = "remove" /\ next' = 1 /\ tracked' = tracked \ {cur}
    BY <1>7 DEF ForgetGone, Forget
  <2>2. FilesInv(S)'
    <3>1. \A e \in Ext : \E i \in 1..3 : outputFormats[i] = e
      BY Formats DEF Ext
    <3> QED
      BY <2>1, <3>1, <1>a DEF FilesInv
  <2>3. cur \notin Running
    BY <2>1, <1>a DEF LoopInv, Running
  <2>4. TrackInv'
    BY <2>1, <2>3, <1>1, <1>a DEF TrackInv, FeedNames
  <2>5. RunInv'
    BY <2>1, <1>1, <1>2, <1>a DEF RunInv
  <2> QED
    BY <2>2, <2>4, <2>5 DEF RecInv
<1>8. CASE RemoveNext
  <2>1. /\ UNCHANGED <<feed, workers, tracked, want, todo, cur>>
        /\ mpc = "remove" /\ next \in 1..3
        /\ mpc' = IF next = 3 THEN "visit" ELSE "remove"
        /\ next' = IF next = 3 THEN 1 ELSE next + 1
    BY <1>8, <1>a, Formats DEF RemoveNext, RemoveOutput, LoopInv, wvars
  <2>2. /\ \A n \in Names \ {cur} : out'[n] = out[n]
        /\ cur \notin RemoveFails => \A e \in Ext :
             out'[cur][e] = IF e = outputFormats[next] THEN NoFile ELSE out[cur][e]
    BY <1>8, <2>1, <1>a, Formats DEF RemoveNext, RemoveOutput, TypeOK, wvars
  <2>3. ASSUME NEW n \in Names \ S, NEW e \in Ext, out'[n][e] # NoFile
        PROVE  \/ n \in tracked
               \/ mpc' = "remove" /\ n = cur /\ \E i \in next'..3 : outputFormats[i] = e
    <3>1. CASE n # cur
      BY <3>1, <2>2, <2>3, <1>a DEF FilesInv
    <3>2. CASE n = cur
      <4>1. out[n][e] # NoFile /\ e # outputFormats[next]
        BY <3>2, <2>2, <2>3
      <4>2. n \in tracked \/ \E i \in next..3 : outputFormats[i] = e
        BY <4>1, <1>a DEF FilesInv
      <4>3. ASSUME NEW i \in next..3, outputFormats[i] = e
            PROVE  next # 3 /\ i \in (next + 1)..3
        BY <4>1, <4>3, <2>1
      <4> QED
        BY <4>2, <4>3, <3>2, <2>1
    <3> QED
      BY <3>1, <3>2
  <2>4. FilesInv(S)'
    BY <2>1, <2>3 DEF FilesInv
  <2>5. TrackInv'
    BY <2>1, <1>1, <1>a DEF TrackInv, FeedNames
  <2>6. RunInv'
    BY <2>1, <1>1, <1>2, <1>a DEF RunInv
  <2> QED
    BY <2>4, <2>5, <2>6 DEF RecInv
<1> QED
  BY <1>3, <1>4, <1>5, <1>6, <1>7, <1>8

\* The steps of Apply that start workers.
LEMMA RecStartSteps ==
  ASSUME NEW S, RemoveFails \subseteq S, ManagerInv, RecInv(S), Starting,
         StartFeeds \/ SkipRunning \/ StartNew \/ ApplyEnd
  PROVE  RecInv(S)'
<1>a. /\ ManagerTypeOK /\ TypeOK /\ LoopInv /\ MapConsistent
      /\ FilesInv(S) /\ TrackInv /\ RunInv
      /\ workers \in [Names -> Handle \cup {NoHandle}] /\ next \in Nat \ {0}
  BY DEF ManagerInv, ManagerTypeOK, RecInv
<1>b. \A i \in DOMAIN want : i \in Nat \ {0} /\ i <= Len(want) /\ want[i].name \in Names
  BY <1>a, WantIsList
<1>1. CASE StartFeeds
  <2>1. /\ UNCHANGED <<feed, workers, out, tracked, want, todo>>
        /\ mpc = "visit" /\ mpc' = "start" /\ next' = 1 /\ todo = {}
    BY <1>1 DEF StartFeeds, wvars
  <2>2. Running' = Running /\ \A n \in Running : Keep(n)' = Keep(n)
    BY <2>1 DEF Running, Keep
  <2>3. FilesInv(S)'
    BY <2>1, <1>a DEF FilesInv
  <2>4. TrackInv'
    BY <2>1, <2>2, <1>a, <1>b DEF TrackInv, FeedNames
  <2>5. RunInv'
    BY <2>1, <2>2, <1>a, <1>b DEF RunInv
  <2> QED
    BY <2>3, <2>4, <2>5 DEF RecInv
<1>2. CASE SkipRunning
  <2>1. /\ UNCHANGED <<feed, workers, out, tracked, want, todo, mpc>>
        /\ mpc = "start" /\ next' = next + 1 /\ workers[want[next].name] # NoHandle
        /\ next <= Len(want)
    BY <1>2 DEF SkipRunning, MoreFeeds, wvars
  <2>2. Running' = Running /\ \A n \in Running : Keep(n)' = Keep(n)
    BY <2>1 DEF Running, Keep
  <2>3. want[next].name \in Running
    BY <2>1, <1>a, WantIsList DEF Running
  <2>4. FilesInv(S)'
    BY <2>1, <1>a DEF FilesInv
  <2>5. TrackInv'
    BY <2>1, <2>2, <2>3, <1>a, <1>b DEF TrackInv
  <2>6. RunInv'
    BY <2>1, <2>2, <2>3, <1>a, <1>b DEF RunInv
  <2> QED
    BY <2>4, <2>5, <2>6 DEF RecInv
<1>3. CASE StartNew
  <2>1. /\ mpc = "start" /\ next <= Len(want) /\ workers[want[next].name] = NoHandle
        /\ next' = next + 1 /\ UNCHANGED <<want, mpc, todo>>
    BY <1>3 DEF StartNew, MoreFeeds
  <2>2. next \in DOMAIN want /\ want[next].name \in Names
    BY <2>1, <1>a, WantIsList
  <2>3. PICK i \in DOMAIN want : i = next
    BY <2>2
  <2>4. PICK n \in Names : n = want[next].name
    BY <2>2
  <2>5. PICK h \in Unborn :
          /\ Launch(h, want[next], ~started /\ newCount > 0, ctxDone)
          /\ workers' = [workers EXCEPT ![n] = h]
    BY <1>3, <2>4 DEF StartNew
  <2>6. /\ h \in Handle /\ pc[h] = "unborn" /\ h # NoHandle
        /\ UNCHANGED out /\ tracked' = tracked \cup {n}
        /\ feed'[h] = want[next] /\ \A g \in Handle \ {h} : feed'[g] = feed[g]
    BY <2>4, <2>5, <1>a, HandleNotNone DEF Unborn, Launch, TypeOK
  <2>7. Running' = Running \cup {n}
    BY <2>5, <2>6, <1>a DEF Running
  <2>8. Keep(n)'
    <3>1. want'[i].name = n /\ feed'[workers'[n]] = want'[i] /\ i \in DOMAIN want'
      BY <2>1, <2>3, <2>4, <2>5, <2>6, <1>a
    <3> QED
      BY <3>1 DEF Keep, feedChanged
  <2>9. ASSUME NEW m \in Running, m # n PROVE Keep(m)' = Keep(m)
    <3>1. workers'[m] = workers[m] /\ workers[m] \in Handle \ {h}
      BY <2>5, <2>6, <2>9, <1>a DEF Running, MapConsistent
    <3>2. feed'[workers'[m]] = feed[workers[m]]
      BY <3>1, <2>6
    <3> QED
      BY <3>2, <2>1 DEF Keep
  <2>10. FilesInv(S)'
    BY <2>1, <2>6, <1>a DEF FilesInv
  <2>11. TrackInv'
    <3>1. \A m \in tracked' \ Running' :
            \E j \in DOMAIN want : j >= next /\ want[j].name = m /\ m # n
      BY <2>1, <2>6, <2>7, <1>a DEF TrackInv
    <3>2. \A m \in tracked' \ Running' :
            \E j \in DOMAIN want : j >= next + 1 /\ want[j].name = m
      BY <3>1, <2>4, <1>a, <1>b
    <3> QED
      BY <3>2, <2>1, <2>6, <2>7, <1>a DEF TrackInv
  <2>12. \A m \in Running' : Keep(m)'
    BY <2>1, <2>7, <2>8, <2>9, <1>a DEF RunInv
  <2>13. ASSUME NEW j \in DOMAIN want', j < next' PROVE want'[j].name \in Running'
    BY <2>1, <2>4, <2>7, <2>13, <1>a, <1>b DEF RunInv
  <2>14. RunInv'
    BY <2>1, <2>12, <2>13, <1>a DEF RunInv
  <2> QED
    BY <2>10, <2>11, <2>14 DEF RecInv
<1>4. CASE ApplyEnd
  <2>1. /\ UNCHANGED <<feed, workers, out, tracked, want, todo>>
        /\ mpc = "start" /\ mpc' = "free" /\ ~(next <= Len(want))
    BY <1>4 DEF ApplyEnd, MoreFeeds, wvars
  <2>2. Running' = Running /\ \A n \in Running : Keep(n)' = Keep(n)
    BY <2>1 DEF Running, Keep
  <2>3. \A i \in DOMAIN want : i < next
    BY <2>1, <1>a, <1>b, WantIsList
  <2>4. FilesInv(S)'
    BY <2>1, <1>a DEF FilesInv
  <2>5. TrackInv'
    BY <2>1, <2>2, <2>3, <1>a, <1>b DEF TrackInv
  <2>6. RunInv'
    BY <2>1, <2>2, <2>3, <1>a DEF RunInv
  <2> QED
    BY <2>4, <2>5, <2>6 DEF RecInv
<1> QED
  BY <1>1, <1>2, <1>3, <1>4

LEMMA RecInvStep ==
  ASSUME NEW S, RemoveFails \subseteq S, ManagerInv, RecInv(S), [ManagerNext]_vars
  PROVE  RecInv(S)'
<1>1. ASSUME NEW h \in Handle, WorkerStep(h), UNCHANGED mvars PROVE RecInv(S)'
  BY <1>1, RecWorkerStep
<1>2. CASE UNCHANGED vars \/ \E n \in Names : Age(n) /\ UNCHANGED mvars
  BY <1>2, RecFrame DEF vars, wvars, Age
<1>3. ASSUME UNCHANGED <<feed, workers, out, tracked, want, mpc, todo, cur, next, phase>>
      PROVE  RecInv(S)'
  BY <1>3 DEF RecInv, Starting, FilesInv, TrackInv, RunInv, Running, Keep
<1>4. CASE Signal \/ WatchReturns
  BY <1>4, <1>3 DEF Signal, Cancel, WatchReturns, wvars
<1>5. CASE ~Starting
  <2>1. ~Starting'
    BY <1>5
    DEF Starting, ManagerNext, ManagerStep, BootApply, ReloadApply, ApplyBegin,
         VisitKeep, VisitStop, StopDone, ForgetGone, RemoveNext, StartFeeds,
         SkipRunning, StartNew, ApplyEnd, Signal, WatchReturns, ShutdownBegin,
         ShutdownEnd, vars, mvars
  <2> QED
    BY <2>1 DEF RecInv
<1>6. CASE ShutdownBegin \/ ShutdownEnd
  BY <1>6 DEF ShutdownBegin, ShutdownEnd, RecInv, Starting
<1> QED
  BY <1>1, <1>2, <1>4, <1>5, <1>6, RecStopSteps, RecStartSteps
  DEF ManagerNext, ManagerStep, BootApply, ReloadApply

(* Between calls of Apply the workers, the status list and the files are those
   of its latest list, each worker with the current definition of its feed,
   unless a file could not be removed (Apply, removeOutputs). *)
THEOREM ApplyReconciles == ManagerSpec => []Reconciled
<1>1. ManagerInit => RecInv(RemoveFails)
  <2> SUFFICES ASSUME ManagerInit PROVE FilesInv(RemoveFails) /\ TrackInv /\ RunInv
    BY DEF RecInv
  <2>1. Running = {} /\ tracked = {} /\ want = << >> /\ mpc = "free" /\ todo = {}
    BY DEF ManagerInit, WorkerInit, Running
  <2>2. FilesInv(RemoveFails)
    BY DEF ManagerInit, WorkerInit, FilesInv
  <2> QED
    BY <2>1, <2>2 DEF TrackInv, RunInv
<1>2. ManagerInv /\ RecInv(RemoveFails) /\ [ManagerNext]_vars => RecInv(RemoveFails)'
  BY RecInvStep
<1>3. ManagerInv /\ RecInv(RemoveFails) => Reconciled
  <2> SUFFICES ASSUME ManagerInv, RecInv(RemoveFails), mpc = "free", phase = "serve"
               PROVE  /\ Running = FeedNames(want)
                      /\ tracked = FeedNames(want)
                      /\ \A i \in DOMAIN want : feed[workers[want[i].name]] = want[i]
                      /\ \A n \in Names \ (FeedNames(want) \cup RemoveFails), e \in Ext :
                           out[n][e] = NoFile
    BY DEF Reconciled
  <2>1. FilesInv(RemoveFails) /\ TrackInv /\ RunInv
    BY DEF RecInv, Starting
  <2>2. \A n \in Running : Keep(n)
    BY <2>1 DEF RunInv
  <2>3. \A i \in DOMAIN want : want[i].name \in Running
    BY <2>1 DEF RunInv
  <2>4. Running = FeedNames(want)
    BY <2>2, <2>3 DEF FeedNames, Keep
  <2>5. tracked = FeedNames(want)
    BY <2>1, <2>4 DEF TrackInv
  <2>6. \A i \in DOMAIN want : feed[workers[want[i].name]] = want[i]
    BY <2>2, <2>3, WantIsList DEF ManagerInv, Keep, feedChanged
  <2> QED
    BY <2>1, <2>4, <2>5, <2>6 DEF FilesInv
<1> QED
  BY <1>1, <1>2, <1>3, ManagerInvariant, PTL DEF ManagerSpec

=============================================================================
