---------------------------- MODULE ServiceProofs ---------------------------
(***************************************************************************)
(* Theorems about System, Server and their composition Service: what holds *)
(* in every life of the process, and what its readers can put together,    *)
(* for any number of lives, feeds, workers and readers.                    *)
(***************************************************************************)
EXTENDS Service, ManagerProofs

(***************************************************************************)
(* The inductive invariant: those of workers and Manager, of which a       *)
(* restart clears what speaks of goroutines and keeps what speaks of       *)
(* files; a file that nobody tracks is one of an earlier life.             *)
(***************************************************************************)
SystemInv ==
  /\ ManagerInv
  /\ WorkerInv
  /\ StatusInv
  /\ RecInv(RemoveFails \cup lost)
  /\ IsFiniteSet(tracked)

LEMMA SystemInvInit == SystemInit => SystemInv
<1> SUFFICES ASSUME SystemInit PROVE SystemInv
  OBVIOUS
<1>1. ManagerInit /\ WorkerInit
  BY DEF SystemInit, ManagerInit
<1>2. ManagerInv /\ WorkerInv
  BY <1>1, ManagerInvInit, WorkerInvInit
<1>3. StatusInv
  BY <1>1 DEF WorkerInit, StatusInv, StatusOK, Live
<1>4. RecInv(RemoveFails \cup lost)
  <2>1. Running = {} /\ tracked = {} /\ want = << >> /\ mpc = "free" /\ todo = {}
    BY <1>1 DEF ManagerInit, WorkerInit, Running
  <2>2. FilesInv(RemoveFails \cup lost)
    BY <1>1 DEF WorkerInit, FilesInv
  <2> QED
    BY <2>1, <2>2 DEF RecInv, TrackInv, RunInv
<1>5. IsFiniteSet(tracked)
  BY <1>1, FS_EmptySet DEF WorkerInit
<1> QED
  BY <1>2, <1>3, <1>4, <1>5 DEF SystemInv

\* The Tracker gains or loses one name at a time.
LEMMA TrackedStaysFinite ==
  ASSUME TypeOK, IsFiniteSet(tracked), [WorkerNext]_wvars
  PROVE  IsFiniteSet(tracked)'
<1>1. ASSUME NEW h \in Handle, WorkerStep(h) PROVE IsFiniteSet(tracked)'
  BY <1>1, WorkerFrame
<1>2. ASSUME NEW h \in Handle, NEW f \in Feeds, NEW d \in BOOLEAN,
             NEW c \in BOOLEAN, Launch(h, f, d, c)
      PROVE  IsFiniteSet(tracked)'
  <2>1. tracked' = tracked \cup {f.name}
    BY <1>2 DEF Launch
  <2> QED
    BY <2>1, FS_AddElement
<1>3. ASSUME NEW n \in Names, Forget(n) PROVE IsFiniteSet(tracked)'
  <2>1. tracked' = tracked \ {n}
    BY <1>3 DEF Forget
  <2> QED
    BY <2>1, FS_RemoveElement
<1>4. ASSUME NEW H, Cancel(H) PROVE IsFiniteSet(tracked)'
  BY <1>4 DEF Cancel
<1>5. ASSUME NEW n \in Names, NEW e \in Ext, RemoveOutput(n, e)
      PROVE  IsFiniteSet(tracked)'
  BY <1>5 DEF RemoveOutput
<1>6. CASE UNCHANGED wvars \/ \E n \in Names : Age(n)
  BY <1>6 DEF wvars, Age
<1> QED
  BY <1>1, <1>2, <1>3, <1>4, <1>5, <1>6 DEF WorkerNext, ContractStep

\* Within a life nothing is new, but that a running feed is not lost any more.
LEMMA LifeStepInv ==
  ASSUME SystemInv, ManagerNext \/ UNCHANGED vars,
         lost' = lost \/ lost' = lost \ {n \in Names : workers'[n] # NoHandle}
  PROVE  SystemInv'
<1> DEFINE S == RemoveFails \cup lost
<1>1. /\ ManagerInv /\ WorkerInv /\ StatusInv /\ IsFiniteSet(tracked)
      /\ RecInv(S) /\ TypeOK
  BY DEF SystemInv, WorkerInv
<1>2. [ManagerNext]_vars
  OBVIOUS
<1>3. [WorkerNext]_wvars
  BY <1>1, <1>2, ContractKept
<1>4. ManagerInv'
  BY <1>1, <1>2, ManagerInvStep
<1>5. WorkerInv' /\ StatusInv'
  BY <1>1, <1>3, WorkerInvStep, StatusStep
<1>6. IsFiniteSet(tracked)'
  BY <1>1, <1>3, TrackedStaysFinite
<1>7. PICK T : T = S
  OBVIOUS
<1>8. RecInv(T)'
  BY <1>1, <1>2, <1>7, RecInvStep
<1>9. RecInv(RemoveFails \cup lost)'
  <2> SUFFICES ASSUME Starting'
               PROVE  FilesInv(RemoveFails \cup lost)' /\ TrackInv' /\ RunInv'
    BY DEF RecInv
  <2>1. FilesInv(T)' /\ TrackInv' /\ RunInv'
    BY <1>8 DEF RecInv
  <2>2. \A n \in Names : n \in T => n \in (RemoveFails \cup lost') \/ n \in tracked'
    BY <2>1, <1>7 DEF TrackInv, Running
  <2>3. FilesInv(RemoveFails \cup lost)'
    BY <2>1, <2>2 DEF FilesInv
  <2> QED
    BY <2>1, <2>3
<1> QED
  BY <1>4, <1>5, <1>6, <1>9 DEF SystemInv

\* A new life finds files, but no goroutine.
LEMMA RestartInv ==
  ASSUME SystemInv, Restart
  PROVE  SystemInv'
<1>1. /\ ManagerTypeOK /\ TypeOK /\ FilesBounded /\ PublishOrder
      /\ \A h \in Handle : HandleInv(h)
  BY DEF SystemInv, ManagerInv, WorkerInv, ManagerTypeOK
<1>2. /\ pc' = [h \in Handle |-> IF pc[h] = "unborn" THEN "unborn" ELSE "exited"]
      /\ tmp' = [h \in Handle |-> {}] /\ tracked' = {}
      /\ status' = [n \in Names |-> FreshStatus]
      /\ metrics' = [n \in Names |-> [ok |-> 0, fail |-> 0, items |-> 0, lastOK |-> 0]]
      /\ UNCHANGED <<out, feed, cancelled, start, items, pos, stale, clock, cur>>
  BY DEF Restart
<1>3. /\ workers' = [n \in Names |-> NoHandle] /\ want' = << >>
      /\ mpc' = "free" /\ todo' = {} /\ next' = 1 /\ newCount' = 0
      /\ started' = FALSE /\ phase' = "boot" /\ ctxDone' = FALSE
      /\ watching' \in BOOLEAN
      /\ lost' = {n \in Names : \E e \in Ext : out[n][e] # NoFile}
  BY DEF Restart
<1>4. \A h \in Handle : /\ ~Live(h)' /\ pc'[h] \in {"unborn", "exited"}
                        /\ (pc'[h] = "unborn" <=> pc[h] = "unborn")
                        /\ tmp'[h] = {}
  BY <1>2 DEF Live
<1>5. TypeOK'
  <2>1. /\ FreshStatus \in Status
        /\ [ok |-> 0, fail |-> 0, items |-> 0, lastOK |-> 0] \in RefreshMetrics
    BY WorkerAssumption DEF FreshStatus, Status, RefreshMetrics, Time
  <2>2. pc' \in [Handle -> PC] /\ tmp' \in [Handle -> SUBSET Ext]
    BY <1>2 DEF PC
  <2>3. status' \in [Names -> Status] /\ metrics' \in [Names -> RefreshMetrics]
    BY <1>2, <2>1
  <2> QED
    BY <1>1, <1>2, <1>4, <2>2, <2>3 DEF TypeOK
<1>6. ManagerInv'
  <2>1. ManagerTypeOK'
    <3>1. workers' \in [Names -> Handle \cup {NoHandle}]
      BY <1>3
    <3>2. mpc' \in MPC /\ phase' \in {"boot", "serve", "drain", "down"}
      BY <1>3 DEF MPC
    <3>3. next' \in Nat \ {0} /\ newCount' \in Nat /\ todo' \subseteq Names
      BY <1>3
    <3>4. started' \in BOOLEAN /\ watching' \in BOOLEAN /\ ctxDone' \in BOOLEAN
      BY <1>3
    <3>5. cur' \in Names /\ want' \in Configs \cup {<< >>}
      BY <1>1, <1>2, <1>3 DEF ManagerTypeOK
    <3> QED
      BY <3>1, <3>2, <3>3, <3>4, <3>5, <1>5 DEF ManagerTypeOK
  <2>2. EveryWorkerOwned' /\ MapConsistent'
    BY <1>3, <1>4 DEF EveryWorkerOwned, MapConsistent
  <2>3. LoopInv' /\ DrainInv'
    BY <1>3 DEF LoopInv, DrainInv
  <2> QED
    BY <2>1, <2>2, <2>3 DEF ManagerInv
<1>7. WorkerInv'
  <2>1. SingleWriter'
    BY <1>4 DEF SingleWriter
  <2>2. FilesBounded' /\ PublishOrder'
    BY <1>1, <1>2 DEF FilesBounded, PublishOrder
  <2>3. ASSUME NEW h \in Handle PROVE HandleInv(h)'
    BY <1>4 DEF HandleInv, Progress, EmptyOverdue, TempInv, Before, Refreshing
  <2> QED
    BY <1>5, <2>1, <2>2, <2>3 DEF WorkerInv
<1>8. StatusInv'
  BY <1>4 DEF StatusInv, StatusOK
<1>9. RecInv(RemoveFails \cup lost)'
  <2>1. FilesInv(RemoveFails \cup lost)'
    BY <1>2, <1>3 DEF FilesInv
  <2>2. Running' = {}
    BY <1>3 DEF Running
  <2> QED
    BY <1>2, <1>3, <2>1, <2>2 DEF RecInv, TrackInv, RunInv
<1>10. IsFiniteSet(tracked)'
  BY <1>2, FS_EmptySet
<1> QED
  BY <1>6, <1>7, <1>8, <1>9, <1>10 DEF SystemInv

LEMMA SystemInvStep ==
  ASSUME SystemInv, [SystemNext]_systemvars
  PROVE  SystemInv'
<1>1. CASE LifeStep
  BY <1>1, LifeStepInv DEF LifeStep
<1>2. CASE Restart
  BY <1>2, RestartInv
<1>3. CASE UNCHANGED systemvars
  BY <1>3, LifeStepInv DEF systemvars, syvars
<1> QED
  BY <1>1, <1>2, <1>3 DEF SystemNext

LEMMA SystemInvariant == SystemSpec => []SystemInv
BY SystemInvInit, SystemInvStep, PTL DEF SystemSpec

(***************************************************************************)
(* The theorems.                                                           *)
(***************************************************************************)
(* A crash in the middle of writeOutputs never leaves a .xml that is older
   than its alternates, nor does a later life that overwrites the mixture. *)
THEOREM XmlFirstAcrossCrashes == SystemSpec => []PublishOrder
<1>1. SystemInv => PublishOrder
  BY DEF SystemInv, WorkerInv
<1> QED
  BY <1>1, SystemInvariant, PTL

(* In every life /feeds.json claims a success only of files that are there,
   all three of that refresh, whatever earlier lives left (Tracker, Refresh). *)
THEOREM HonestAcrossCrashes == SystemSpec => []StatusMatchesDisk
<1>1. SystemInv => StatusMatchesDisk
  BY DEF SystemInv, StatusInv, StatusOK, StatusMatchesDisk
<1> QED
  BY <1>1, SystemInvariant, PTL

(* Between calls of Apply files without a worker are those of feeds removed
   from the list while the process was down, and those that could not be
   removed (Apply, removeOutputs). *)
THEOREM OnlyLostFilesStay == SystemSpec => []ReconciledButLost
<1>1. SystemInv => ReconciledButLost
  <2> SUFFICES ASSUME SystemInv, mpc = "free", phase = "serve"
               PROVE  /\ Running = FeedNames(want)
                      /\ tracked = FeedNames(want)
                      /\ \A i \in DOMAIN want : feed[workers[want[i].name]] = want[i]
                      /\ \A n \in Names \ (FeedNames(want) \cup RemoveFails \cup lost),
                           e \in Ext : out[n][e] = NoFile
    BY DEF ReconciledButLost
  <2>1. /\ FilesInv(RemoveFails \cup lost) /\ TrackInv /\ RunInv
    BY DEF SystemInv, RecInv, Starting
  <2>2. \A n \in Running : Keep(n)
    BY <2>1 DEF RunInv
  <2>3. \A i \in DOMAIN want : want[i].name \in Running
    BY <2>1 DEF RunInv
  <2>4. Running = FeedNames(want)
    BY <2>2, <2>3 DEF FeedNames, Keep
  <2>5. tracked = FeedNames(want)
    BY <2>1, <2>4 DEF TrackInv
  <2>6. \A i \in DOMAIN want : feed[workers[want[i].name]] = want[i]
    BY <2>2, <2>3, WantIsList DEF SystemInv, ManagerInv, Keep, feedChanged
  <2> QED
    BY <2>1, <2>4, <2>5, <2>6 DEF FilesInv
<1> QED
  BY <1>1, SystemInvariant, PTL

LEMMA LifeIsWorkers ==
  ASSUME SystemInv, [SystemNext]_systemvars
  PROVE  [WorkerNext]_wvars \/ (Restart /\ out' = out)
BY ContractKept DEF SystemNext, LifeStep, Restart, systemvars, vars, SystemInv

(* Published files only move forward, a feed is blanked only past its budget,
   and no file appears for a name without a worker, in whatever life the file
   and the worker that replaces it were made (writeOutputs, handleEmpty,
   stopLocked). *)
THEOREM FilesAcrossLives ==
  SystemSpec => NoOverwriteByOlder /\ EmptyOnlyWhenStale /\ NoResurrection
<1>1. SystemInv /\ [SystemNext]_systemvars =>
        [\A n \in Names, e \in Ext :
           out'[n][e] # out[n][e] =>
             \/ out'[n][e].start > out[n][e].start
             \/ out'[n][e] = NoFile /\ n \notin tracked]_wvars
  BY LifeIsWorkers, FilesMoveForward DEF SystemInv
<1>2. SystemInv /\ [SystemNext]_systemvars =>
        [\A n \in Names :
           (/\ out[n]["xml"].items > 0
            /\ out'[n]["xml"] # NoFile
            /\ out'[n]["xml"].items = 0) => stale[n]]_wvars
  <2> SUFFICES ASSUME SystemInv, [SystemNext]_systemvars, NEW n \in Names,
                      out[n]["xml"].items > 0, out'[n]["xml"].items = 0
               PROVE  stale[n] \/ out'[n]["xml"] = NoFile
    OBVIOUS
  <2>1. out' # out
    <3>1. out[n]["xml"].items \in Nat
      BY WorkerAssumption DEF SystemInv, WorkerInv, TypeOK, File, Ext
    <3> QED
      BY <3>1
  <2> QED
    BY <2>1, LifeIsWorkers, FilesMoveForward DEF SystemInv
<1>3. SystemInv /\ [SystemNext]_systemvars =>
        [\A n \in Names \ Running, e \in Ext :
           out[n][e] = NoFile => out'[n][e] = NoFile]_vars
  <2> SUFFICES ASSUME SystemInv, [SystemNext]_systemvars,
                      NEW n \in Names \ Running, NEW e \in Ext, out[n][e] = NoFile
               PROVE  out'[n][e] = NoFile
    OBVIOUS
  <2>1. [ManagerNext]_vars \/ out' = out
    BY DEF SystemNext, LifeStep, Restart, systemvars
  <2> QED
    BY <2>1, OnlyRunningWrite DEF SystemInv
<1> QED
  BY <1>1, <1>2, <1>3, SystemInvariant, PTL
  DEF SystemSpec, NoOverwriteByOlder, EmptyOnlyWhenStale, NoResurrection

LEMMA CancelInvAcrossLives ==
  ASSUME SystemInv, CancelInv, [SystemNext]_systemvars
  PROVE  CancelInv'
<1>1. CASE Restart
  BY <1>1 DEF Restart, CancelInv, Live
<1>2. CASE [ManagerNext]_vars
  BY <1>2, CancelInvStep DEF SystemInv
<1> QED
  BY <1>1, <1>2 DEF SystemNext, LifeStep, systemvars

(* In every life there is one worker per name at most, a reload disturbs no
   other feed, no dotfile outlives its write but by a crash, and an orderly
   end leaves nothing behind (stopLocked, Apply, writeOutputs, Shutdown). *)
THEOREM WorkersAcrossLives ==
  SystemSpec => [](EveryWorkerOwned /\ UnchangedKeptRunning /\ NoLeftoverTemp /\ DownIsQuiet)
<1>1. SystemInit => CancelInv
  BY DEF SystemInit, ManagerInit, WorkerInit, CancelInv, Live
<1>2. SystemInv /\ CancelInv /\ [SystemNext]_systemvars => CancelInv'
  BY CancelInvAcrossLives
<1>3. CancelInv => UnchangedKeptRunning
  BY DEF CancelInv, UnchangedKeptRunning
<1>4. SystemInv => NoLeftoverTemp
  BY DEF SystemInv, WorkerInv, HandleInv, TempInv, NoLeftoverTemp
<1>5. SystemInv => EveryWorkerOwned /\ (NoLeftoverTemp => DownIsQuiet)
  BY StoppedIsQuiet DEF SystemInv, ManagerInv
<1> QED
  BY <1>1, <1>2, <1>3, <1>4, <1>5, SystemInvariant, PTL DEF SystemSpec

\* Dotfiles belong to live workers, and they to different tracked names.
LEMMA FewTemps ==
  ASSUME SystemInv, NEW H, H = {h \in Handle : tmp[h] # {}}
  PROVE  IsFiniteSet(H) /\ Cardinality(H) <= Cardinality(tracked)
<1>1. TypeOK /\ SingleWriter /\ IsFiniteSet(tracked)
  BY DEF SystemInv, WorkerInv
<1>2. ASSUME NEW h \in H PROVE Live(h) /\ h \in Handle /\ Name(h) \in tracked
  <2>1. Live(h)
    BY DEF SystemInv, WorkerInv, HandleInv, TempInv, Live
  <2> QED
    BY <2>1 DEF SystemInv, StatusInv, StatusOK
<1> DEFINE f == [h \in H |-> Name(h)]
<1>3. f \in [H -> tracked]
  BY <1>2
<1>4. ASSUME NEW g \in H, NEW h \in H, f[g] = f[h] PROVE g = h
  BY <1>1, <1>2, <1>4 DEF SingleWriter
<1>5. f \in Injection(H, tracked)
  BY <1>3, <1>4 DEF Injection, IsInjective
<1> HIDE DEF f
<1> QED
  BY <1>1, <1>5, FS_Injection

LEMMA ThreeFormats == IsFiniteSet(Ext) /\ Cardinality(Ext) = 3
<1> DEFINE A == {} \cup {"xml"}
           B == A \cup {"atom"}
<1>1. IsFiniteSet({}) /\ Cardinality({}) = 0
  BY FS_EmptySet
<1>2. IsFiniteSet(A) /\ Cardinality(A) = 1
  BY <1>1, FS_AddElement
<1>3. IsFiniteSet(B) /\ Cardinality(B) = 2
  <2>1. "atom" \notin A
    OBVIOUS
  <2> HIDE DEF A
  <2> QED
    BY <1>2, <2>1, FS_AddElement
<1>4. "json" \notin B /\ Ext = B \cup {"json"}
  BY DEF Ext
<1> HIDE DEF B
<1> QED
  BY <1>3, <1>4, FS_AddElement

(* The dotfiles a life leaves are those of the writes it was cut off in, at
   most one set of formats for each feed it ran; an orderly end leaves none
   (writeOutputs, stageFile, Shutdown). *)
THEOREM LeaksAreFew == SystemSpec => CrashLeaksLittle
<1>1. ASSUME SystemInv, [SystemNext]_systemvars, leaked' # leaked
      PROVE  /\ phase # "down"
             /\ Cardinality(leaked' \ leaked) <= Len(outputFormats) * Cardinality(tracked)
  <2>1. Restart
    BY <1>1 DEF SystemNext, LifeStep, systemvars, syvars
  <2>2. PICK H : H = {h \in Handle : tmp[h] # {}}
    OBVIOUS
  <2>3. leaked' = leaked \cup {d \in Handle \X Ext : d[2] \in tmp[d[1]]}
    BY <2>1 DEF Restart
  <2>4. leaked' \ leaked \in SUBSET (H \X Ext)
    BY <2>2, <2>3
  <2>5. IsFiniteSet(H) /\ Cardinality(H) <= Cardinality(tracked)
    BY <1>1, <2>2, FewTemps
  <2>6. phase # "down"
    <3> SUFFICES ASSUME phase = "down" PROVE FALSE
      OBVIOUS
    <3>1. PICK h \in Handle : tmp[h] # {}
      BY <1>1, <2>3
    <3>2. Live(h)
      BY <1>1, <3>1 DEF SystemInv, WorkerInv, HandleInv, TempInv, Live
    <3>3. workers[Name(h)] = h /\ h # NoHandle /\ Name(h) \in Names
      BY <1>1, <3>2, HandleNotNone, LiveHasFeed
      DEF SystemInv, ManagerInv, EveryWorkerOwned, WorkerInv, Live
    <3> QED
      BY <1>1, <3>3 DEF SystemInv, ManagerInv, DrainInv, Running
  <2>7. IsFiniteSet(H \X Ext) /\ Cardinality(H \X Ext) = Cardinality(H) * 3
    BY <2>5, ThreeFormats, FS_Product
  <2>8. Cardinality(leaked' \ leaked) <= Cardinality(H \X Ext)
    BY <2>4, <2>7, FS_Subset
  <2>9. /\ Cardinality(H) \in Nat /\ Cardinality(tracked) \in Nat
        /\ IsFiniteSet(leaked' \ leaked) /\ Cardinality(leaked' \ leaked) \in Nat
    BY <1>1, <2>4, <2>5, <2>7, FS_Subset, FS_CardinalityType DEF SystemInv
  <2> QED
    BY <2>5, <2>6, <2>7, <2>8, <2>9, Formats
<1>2. SystemInv /\ [SystemNext]_systemvars =>
        [leaked' # leaked =>
          /\ phase # "down"
          /\ Cardinality(leaked' \ leaked) <= Len(outputFormats) * Cardinality(tracked)]_systemvars
  BY <1>1
<1> QED
  BY <1>2, SystemInvariant, PTL DEF SystemSpec, CrashLeaksLittle

(***************************************************************************)
(* The readers.                                                            *)
(***************************************************************************)
(* b is not newer than <n>.<e>, nor than any that will get its name. *)
Above(n, e, b) ==
  /\ b <= clock[n]
  /\ out[n][e] # NoFile => b <= out[n][e].start

\* The .atom is renamed before the .json.
AtomFirst ==
  \A n \in Names : out[n]["atom"] # NoFile => out[n]["json"].start <= out[n]["atom"].start

ListInv == \A n \in Names, e \in Ext : Above(n, e, status[n].lastSuccessAt)

ReaderInv(r) ==
  /\ \A n \in Names, e \in Ext : Above(n, e, known[r][n][e])
  /\ asked[r].kind = "file" =>
       /\ asked[r].name \in Names /\ asked[r].ext \in Ext
       /\ \A e \in UpTo(asked[r].ext) : Above(asked[r].name, e, opened[r].start)

ServerInv ==
  /\ ServerTypeOK
  /\ WorkerInv
  /\ StatusInv
  /\ AtomFirst
  /\ ListInv
  /\ \A r \in Readers : ReaderInv(r)

LEMMA Before3 ==
  ASSUME NEW e \in Ext, NEW x \in UpTo(e)
  PROVE  x \in Ext /\ (x = e \/ x = "xml" \/ (e = "json" /\ x = "atom"))
<1>1. DOMAIN outputFormats = 1..3
  BY Formats
<1>2. PICK j \in 1..3, k \in 1..3 : outputFormats[j] = x /\ j <= k /\ outputFormats[k] = e
  BY <1>1 DEF UpTo
<1>3. \/ j = k \/ j = 1 \/ (j = 2 /\ k = 3)
  BY <1>2
<1> QED
  BY <1>2, <1>3, Formats

-----------------------------------------------------------------------------
(* What the steps of the workers do to what readers rely on. *)

\* The refresh that renames a file is the latest of its feed.
LEMMA RenamedIsLatest ==
  ASSUME WorkerInv, NEW h \in Handle, RenameFile(h)
  PROVE  /\ start[h] = clock[Name(h)] /\ Name(h) \in Names /\ UNCHANGED <<feed, clock>>
         /\ pos[h] \in 0..2
         /\ outputFormats[pos[h] + 1] \in Ext
         /\ out' = [out EXCEPT ![Name(h)][outputFormats[pos[h] + 1]] = Version(h)]
<1>1. TypeOK /\ HandleInv(h) /\ pc[h] = "rename"
  BY DEF WorkerInv, RenameFile
<1>2. start[h] = clock[Name(h)] /\ Name(h) \in Names
  BY <1>1, LiveHasFeed DEF HandleInv, Progress, Refreshing
<1>3. pos[h] \in 0..2
  BY <1>1, Formats DEF TypeOK
<1> QED
  BY <1>2, <1>3, Formats DEF RenameFile

\* The files of the environment's and the other steps.
LEMMA OthersOnlyRemove ==
  ASSUME WorkerInv, [WorkerNext]_wvars, \A h \in Handle : ~RenameFile(h),
         NEW n \in Names
  PROVE  /\ \A e \in Ext : out'[n][e] \in {out[n][e], NoFile}
         /\ clock'[n] >= clock[n]
<1>a. TypeOK /\ clock[n] \in Nat
  BY DEF WorkerInv, TypeOK, Time
<1>1. ASSUME NEW h \in Handle, WorkerStep(h) PROVE out' = out
  BY <1>1
  DEF WorkerStep, RefreshStep, DelayOver, DelayCancelled, FirstRefresh, Tick,
         BeginRefresh, Exit, FetchOK, FetchOrEnrichFails, EnrichOK, HandleEmpty,
         StageFile, StageFails, RenameFails, Publish, RecordRefreshSuccess,
         RecordRefresh
<1>2. ASSUME NEW h \in Handle, WorkerStep(h) PROVE clock'[n] >= clock[n]
  <2>1. CASE BeginRefresh(h)
    BY <2>1, <1>a DEF BeginRefresh, TypeOK
  <2>2. CASE UNCHANGED clock
    BY <2>2, <1>a
  <2> QED
    BY <1>2, <2>1, <2>2
    DEF WorkerStep, RefreshStep, DelayOver, DelayCancelled, FirstRefresh, Tick,
         Exit, FetchOK, FetchOrEnrichFails, EnrichOK, HandleEmpty,
         StageFile, StageFails, RenameFile, RenameFails, Publish, RecordRefreshSuccess,
         RecordRefresh
<1>3. CASE ContractStep
  <2>1. clock' = clock
    BY <1>3 DEF ContractStep, Launch, Cancel, Forget, RemoveOutput
  <2>2. ASSUME NEW m \in Names, NEW x \in Ext, RemoveOutput(m, x)
        PROVE  \A e \in Ext : out'[n][e] \in {out[n][e], NoFile}
    BY <2>2, <1>a DEF RemoveOutput, TypeOK
  <2>3. out' = out \/ \E m \in Names, x \in Ext : RemoveOutput(m, x)
    BY <1>3 DEF ContractStep, Launch, Cancel, Forget
  <2> QED
    BY <2>1, <2>2, <2>3, <1>a
<1>4. CASE UNCHANGED wvars \/ \E m \in Names : Age(m)
  BY <1>4, <1>a DEF wvars, Age
<1> QED
  BY <1>1, <1>2, <1>3, <1>4 DEF WorkerNext

\* A bound stays one: files give way to those of the latest refresh.
LEMMA AboveKept ==
  ASSUME WorkerInv, [WorkerNext]_wvars, NEW n \in Names, NEW e \in Ext,
         NEW b \in Nat, Above(n, e, b)
  PROVE  Above(n, e, b)'
<1>a. TypeOK /\ clock[n] \in Nat
  BY DEF WorkerInv, TypeOK, Time
<1>1. ASSUME NEW h \in Handle, RenameFile(h) PROVE Above(n, e, b)'
  <2>1. PICK f \in Ext, m \in Names :
          /\ m = Name(h) /\ start[h] = clock[m] /\ clock' = clock
          /\ out' = [out EXCEPT ![m][f] = Version(h)]
    BY <1>1, RenamedIsLatest
  <2>2. Version(h).start = start[h]
    BY DEF Version
  <2>3. CASE n = m /\ e = f
    BY <2>1, <2>2, <2>3, <1>a DEF Above, TypeOK
  <2>4. CASE ~(n = m /\ e = f)
    <3>1. out'[n][e] = out[n][e]
      BY <2>1, <2>4, <1>a DEF TypeOK
    <3> QED
      BY <3>1, <2>1 DEF Above
  <2> QED
    BY <2>3, <2>4
<1>2. CASE \A h \in Handle : ~RenameFile(h)
  <2>1. out'[n][e] \in {out[n][e], NoFile} /\ clock'[n] >= clock[n]
    BY <1>2, OthersOnlyRemove
  <2>2. clock'[n] \in Int
    BY <1>a, TypeStep DEF TypeOK, Time
  <2> QED
    BY <2>1, <2>2, <1>a DEF Above
<1> QED
  BY <1>1, <1>2

LEMMA AtomFirstKept ==
  ASSUME WorkerInv, AtomFirst, [WorkerNext]_wvars
  PROVE  AtomFirst'
<1>a. TypeOK /\ FilesBounded
  BY DEF WorkerInv
<1>b. "atom" \in Ext /\ "json" \in Ext /\ NoFile.start = 0
      /\ \A n \in Names, e \in Ext : out[n][e].start \in Nat
  BY <1>a DEF Ext, TypeOK, File, Time, NoFile
<1>1. ASSUME NEW h \in Handle, RenameFile(h), NEW n \in Names, out'[n]["atom"] # NoFile
      PROVE  out'[n]["json"].start <= out'[n]["atom"].start
  <2>1. /\ start[h] = clock[Name(h)] /\ Name(h) \in Names /\ pos[h] \in 0..2
        /\ outputFormats[pos[h] + 1] \in Ext
        /\ out' = [out EXCEPT ![Name(h)][outputFormats[pos[h] + 1]] = Version(h)]
    BY <1>1, RenamedIsLatest
  <2>2. CASE n # Name(h)
    BY <2>1, <2>2, <1>1, <1>a DEF AtomFirst, TypeOK
  <2>3. CASE n = Name(h) /\ pos[h] = 0
    BY <2>1, <2>3, <1>1, <1>a, <1>b, Formats DEF AtomFirst, TypeOK
  <2>4. CASE n = Name(h) /\ pos[h] = 1
    <3>1. out'[n]["atom"].start = clock[n] /\ out'[n]["json"] = out[n]["json"]
      BY <2>1, <2>4, <1>a, <1>b, Formats DEF TypeOK, Version
    <3> QED
      BY <3>1, <1>a, <1>b DEF FilesBounded
  <2>5. CASE n = Name(h) /\ pos[h] = 2
    <3>1. out[n]["atom"] = Version(h)
      BY <2>5, <1>1, Formats DEF WorkerInv, HandleInv, Progress, RenameFile
    <3>2. out'[n]["atom"] = Version(h) /\ out'[n]["json"] = Version(h)
      BY <3>1, <2>1, <2>5, <1>a, <1>b, Formats DEF TypeOK
    <3> QED
      BY <3>2, <2>1, <1>a DEF Version, TypeOK, Time
  <2> QED
    BY <2>1, <2>2, <2>3, <2>4, <2>5
<1>2. ASSUME \A h \in Handle : ~RenameFile(h), NEW n \in Names, out'[n]["atom"] # NoFile
      PROVE  out'[n]["json"].start <= out'[n]["atom"].start
  <2>1. out'[n]["atom"] = out[n]["atom"] /\ out'[n]["json"] \in {out[n]["json"], NoFile}
    BY <1>2, <1>b, OthersOnlyRemove
  <2> QED
    BY <2>1, <1>2, <1>b DEF AtomFirst
<1> QED
  BY <1>1, <1>2 DEF AtomFirst

\* A success is listed only after all of its files are there.
LEMMA ListKept ==
  ASSUME WorkerInv, StatusInv, ListInv, [WorkerNext]_wvars
  PROVE  ListInv'
<1>a. TypeOK /\ TypeOK'
  BY TypeStep DEF WorkerInv
<1>b. ASSUME NEW n \in Names
      PROVE  /\ status[n] \in Status /\ status'[n] \in Status
             /\ status[n].lastSuccessAt \in Nat
             /\ clock[n] \in Nat /\ clock'[n] \in Nat
             /\ \A e \in Ext : out[n][e].start \in Nat /\ out'[n][e].start \in Nat
  BY <1>a DEF TypeOK, Status, Time, File
\* Most steps keep it, or forget it.
<1>1. ASSUME NEW n \in Names,
             status'[n].lastSuccessAt = status[n].lastSuccessAt \/ status'[n].lastSuccessAt = 0
      PROVE  \A e \in Ext : Above(n, e, status[n].lastSuccessAt)'
  <2>1. ASSUME NEW e \in Ext, NEW b \in Nat, b = status[n].lastSuccessAt
        PROVE  Above(n, e, b)'
    BY <2>1, AboveKept DEF ListInv
  <2> QED
    BY <2>1, <1>1, <1>b DEF Above
<1>2. ASSUME NEW h \in Handle, FailRefresh(h), pc[h] # "unborn", NEW n \in Names
      PROVE  status'[n].lastSuccessAt = status[n].lastSuccessAt
  <2>1. Name(h) \in Names
    BY <1>2, <1>a, LiveHasFeed
  <2> QED
    BY <2>1, <1>2, <1>a, <1>b DEF FailRefresh, TrackerUpdate, TypeOK, Status
<1>3. ASSUME NEW h \in Handle, Publish(h), NEW n \in Names
      PROVE  \/ status'[n].lastSuccessAt = status[n].lastSuccessAt
             \/ \A e \in Ext : Above(n, e, status[n].lastSuccessAt)'
  <2>1. /\ pc[h] = "publish" /\ UNCHANGED <<out, clock>> /\ Name(h) \in Names
        /\ start[h] = clock[Name(h)]
    BY <1>3, <1>a, LiveHasFeed
    DEF Publish, WorkerInv, HandleInv, Progress, Refreshing
  <2>2. \A e \in Ext : out[Name(h)][e] = Version(h)
    BY <2>1 DEF StatusInv, StatusOK, Live
  <2>3. CASE n # Name(h)
    BY <2>3, <1>3, <1>a DEF Publish, TrackerUpdate, TypeOK
  <2>4. CASE n = Name(h) /\ (items[h] = 0 \/ n \notin tracked)
    BY <2>1, <2>4, <1>3, <1>a, <1>b DEF Publish, TrackerUpdate, TypeOK, Status
  <2>5. CASE n = Name(h) /\ items[h] # 0 /\ n \in tracked
    <3>1. status'[n].lastSuccessAt = start[h]
      BY <2>1, <2>5, <1>3, <1>a DEF Publish, TrackerUpdate, TypeOK
    <3> QED
      BY <3>1, <2>1, <2>2, <2>5, <1>b DEF Above, Version
  <2> QED
    BY <2>3, <2>4, <2>5
<1>4. ASSUME NEW h \in Handle, WorkerStep(h), NEW n \in Names
      PROVE  \A e \in Ext : Above(n, e, status[n].lastSuccessAt)'
  <2>1. pc[h] # "unborn"
    BY <1>4, <1>a, StepFrame
  <2>2. CASE UNCHANGED status
    BY <2>2, <1>1
  <2>3. CASE FailRefresh(h)
    BY <2>1, <2>3, <1>1, <1>2
  <2>4. CASE Publish(h)
    BY <2>4, <1>1, <1>3
  <2> QED
    BY <1>4, <2>2, <2>3, <2>4
    DEF WorkerStep, RefreshStep, DelayOver, DelayCancelled,
         FirstRefresh, Tick, BeginRefresh, Exit, FetchOK, FetchOrEnrichFails, EnrichOK,
         HandleEmpty, StageFile, StageFails, RenameFile, RenameFails,
         RecordRefreshSuccess, RecordRefresh
<1>5. ASSUME ContractStep \/ (\E m \in Names : Age(m)) \/ UNCHANGED wvars, NEW n \in Names
      PROVE  \A e \in Ext : Above(n, e, status[n].lastSuccessAt)'
  <2>1. FreshStatus.lastSuccessAt = 0
    BY DEF FreshStatus
  <2>2. status'[n] = status[n] \/ status'[n] = FreshStatus
    BY <1>5, <1>a
    DEF ContractStep, Launch, Cancel, Forget, RemoveOutput, Age, wvars, TypeOK
  <2> QED
    BY <2>1, <2>2, <1>1
<1> QED
  BY <1>4, <1>5 DEF ListInv, WorkerNext
-----------------------------------------------------------------------------
(* What readers do. *)

LEMMA LargerIsOne ==
  ASSUME NEW a \in Nat, NEW b \in Nat
  PROVE  Larger(a, b) \in Nat /\ Larger(a, b) \in {a, b}
BY DEF Larger

\* What a reader asks for and knows changes nothing else.
LEMMA ReadersChangeNothing ==
  ASSUME UNCHANGED wvars
  PROVE  /\ \A n, e, b : Above(n, e, b)' <=> Above(n, e, b)
         /\ WorkerInv => WorkerInv'
         /\ StatusInv => StatusInv'
         /\ AtomFirst => AtomFirst'
         /\ ListInv => ListInv'
<1> USE DEF wvars
<1>1. \A n, e, b : Above(n, e, b)' <=> Above(n, e, b)
  BY DEF Above
<1>2. (AtomFirst => AtomFirst') /\ (ListInv => ListInv')
  BY DEF AtomFirst, ListInv, Above
<1>3. WorkerInv => WorkerInv'
  BY WorkerInvStep
<1>4. StatusInv => StatusInv'
  BY DEF StatusInv, StatusOK, Live, Name, Version
<1> QED
  BY <1>1, <1>2, <1>3, <1>4

LEMMA ServeKeeps ==
  ASSUME ServerInv, NEW r \in Readers, Serve(r), UNCHANGED wvars
  PROVE  ServerInv'
<1>a. /\ TypeOK /\ TypeOK'
      /\ asked \in [Readers -> Requests] /\ opened \in [Readers -> File]
      /\ known \in [Readers -> [Names -> [Ext -> Time]]]
      /\ ReaderInv(r) /\ WorkerInv /\ AtomFirst /\ ListInv
  BY ReadersChangeNothing DEF ServerInv, ServerTypeOK, WorkerInv
<1>b. WorkerInv' /\ StatusInv' /\ AtomFirst' /\ ListInv'
  BY ReadersChangeNothing DEF ServerInv
<1>c. UNCHANGED <<out, clock>>
  BY DEF wvars
<1>d. \A n \in Names, e \in Ext : known[r][n][e] \in Nat
  BY <1>a DEF Time
\* It is enough to look at r.
<1>e. ASSUME ReaderInv(r)',
             asked' \in [Readers -> Requests], opened' \in [Readers -> File],
             known' \in [Readers -> [Names -> [Ext -> Time]]],
             \A q \in Readers \ {r} :
               asked'[q] = asked[q] /\ opened'[q] = opened[q] /\ known'[q] = known[q]
      PROVE  ServerInv'
  <2>1. ASSUME NEW q \in Readers PROVE ReaderInv(q)'
    <3>1. CASE q = r
      BY <3>1, <1>e
    <3>2. CASE q # r
      <4>1. asked'[q] = asked[q] /\ opened'[q] = opened[q] /\ known'[q] = known[q]
        BY <3>2, <1>e
      <4>2. ReaderInv(q)
        BY DEF ServerInv
      <4> QED
        BY <4>1, <4>2, <1>c DEF ReaderInv, Above
    <3> QED
      BY <3>1, <3>2
  <2>2. ServerTypeOK'
    BY <1>e, <1>a DEF ServerTypeOK
  <2> QED
    BY <2>1, <2>2, <1>b DEF ServerInv
<1>1. CASE List(r)
  <2>1. \A n \in Names : Listed(n) \in Nat /\ Listed(n) \in {status[n].lastSuccessAt, 0}
    BY <1>a DEF Listed, TypeOK, Status, Time
  <2>2. /\ UNCHANGED <<asked, opened>>
        /\ known' = [known EXCEPT ![r] =
             [n \in Names |-> [e \in Ext |-> Larger(known[r][n][e], Listed(n))]]]
    BY <1>1 DEF List
  <2>3. known' \in [Readers -> [Names -> [Ext -> Time]]]
    BY <2>1, <2>2, <1>a, <1>d, LargerIsOne DEF Time
  <2>4. ASSUME NEW n \in Names, NEW e \in Ext PROVE Above(n, e, known[r][n][e])'
    <3>1. known'[r][n][e] \in {known[r][n][e], Listed(n)}
      BY <2>1, <2>2, <1>a, <1>d, LargerIsOne
    <3>2. Above(n, e, known[r][n][e]) /\ Above(n, e, status[n].lastSuccessAt)
      BY <1>a DEF ReaderInv, ListInv
    <3>3. clock[n] \in Nat /\ out[n][e].start \in Nat
      BY <1>a DEF TypeOK, File, Time
    <3> QED
      BY <3>1, <3>2, <3>3, <2>1, <1>c DEF Above
  <2>5. ReaderInv(r)'
    BY <2>2, <2>4, <1>a, <1>c DEF ReaderInv, Above
  <2> QED
    BY <1>e, <2>2, <2>3, <2>5, <1>a
<1>2. ASSUME NEW n \in Names, NEW e \in Ext, Open(r, n, e) PROVE ServerInv'
  <2>1. /\ known' = known /\ out[n][e] # NoFile /\ out[n][e] \in File
        /\ asked' = [asked EXCEPT ![r] = ForFile(n, e)]
        /\ opened' = [opened EXCEPT ![r] = out[n][e]]
    BY <1>2, <1>a DEF Open, Route, TypeOK
  <2>2. ForFile(n, e) \in Requests
    BY DEF Requests
  <2>3. asked' \in [Readers -> Requests] /\ opened' \in [Readers -> File]
    BY <2>1, <2>2, <1>a
  <2>4. asked'[r].name = n /\ asked'[r].ext = e /\ opened'[r] = out[n][e]
    BY <2>1, <1>a DEF ForFile
  <2>5. ASSUME NEW x \in UpTo(e) PROVE Above(n, x, out[n][e].start)
    <3>1. x \in Ext /\ (x = e \/ x = "xml" \/ (e = "json" /\ x = "atom"))
      BY Before3
    <3>2. out[n][e].start <= clock[n] /\ out[n][e].start \in Nat
      BY <1>a DEF WorkerInv, FilesBounded, TypeOK, File, Time
    <3>3. x = "xml" => (out[n][x] # NoFile => out[n][e].start <= out[n][x].start)
      BY <1>a DEF WorkerInv, PublishOrder
    <3>4. (e = "json" /\ x = "atom") => (out[n][x] # NoFile => out[n][e].start <= out[n][x].start)
      BY <1>a DEF AtomFirst
    <3> QED
      BY <3>1, <3>2, <3>3, <3>4 DEF Above
  <2>6. ReaderInv(r)'
    <3>1. \A m \in Names, x \in Ext : Above(m, x, known[r][m][x])'
      BY <2>1, <1>a, <1>c DEF ReaderInv, Above
    <3>2. \A x \in UpTo(e) : Above(n, x, opened[r].start)'
      BY <2>4, <2>5, <1>c DEF Above
    <3> QED
      BY <3>1, <3>2, <2>4 DEF ReaderInv
  <2> QED
    BY <1>e, <2>1, <2>3, <2>6, <1>a
<1>3. CASE Send(r)
  <2>1. PICK n \in Names, x \in Ext : n = asked[r].name /\ x = asked[r].ext
    BY <1>3, <1>a DEF Send, ReaderInv
  <2>2. /\ known' = [known EXCEPT ![r][n] =
              [e \in Ext |-> IF e \in UpTo(x) THEN Larger(known[r][n][e], opened[r].start)
                             ELSE known[r][n][e]]]
        /\ asked' = [asked EXCEPT ![r] = NoRequest]
        /\ opened' = [opened EXCEPT ![r] = NoFile]
    BY <1>3, <2>1 DEF Send
  <2>3. opened[r].start \in Nat /\ \A e \in UpTo(x) : Above(n, e, opened[r].start)
    BY <1>3, <1>a, <2>1 DEF Send, ReaderInv, File, Time
  <2>4. asked' \in [Readers -> Requests] /\ opened' \in [Readers -> File]
    <3>1. NoRequest \in Requests /\ NoFile \in File
      BY WorkerAssumption DEF Requests, NoFile, File, Time
    <3> QED
      BY <3>1, <2>2, <1>a
  <2>5. known' \in [Readers -> [Names -> [Ext -> Time]]]
    BY <2>2, <2>3, <1>a, <1>d, LargerIsOne DEF Time
  <2>6. ASSUME NEW m \in Names, NEW e \in Ext PROVE Above(m, e, known[r][m][e])'
    <3>1. \/ known'[r][m][e] = known[r][m][e]
          \/ m = n /\ e \in UpTo(x) /\ known'[r][m][e] = opened[r].start
      BY <2>2, <2>3, <1>a, <1>d, LargerIsOne
    <3> QED
      BY <3>1, <2>3, <1>a, <1>c DEF ReaderInv, Above
  <2>7. ReaderInv(r)'
    BY <2>2, <2>6, <1>a DEF ReaderInv, NoRequest
  <2> QED
    BY <1>e, <2>2, <2>4, <2>5, <2>7, <1>a
<1> QED
  BY <1>1, <1>2, <1>3 DEF Serve

LEMMA PublishKeeps ==
  ASSUME ServerInv, WorkerNext, UNCHANGED svars
  PROVE  ServerInv'
<1>a. WorkerInv /\ StatusInv /\ AtomFirst /\ ListInv /\ ServerTypeOK
  BY DEF ServerInv
<1>1. WorkerInv' /\ StatusInv' /\ AtomFirst' /\ ListInv'
  BY <1>a, WorkerInvStep, StatusStep, AtomFirstKept, ListKept
<1>2. ServerTypeOK'
  BY <1>1, <1>a DEF ServerTypeOK, WorkerInv, svars
<1>3. ASSUME NEW n \in Names, NEW e \in Ext, NEW b \in Nat, Above(n, e, b)
      PROVE  Above(n, e, b)'
  BY <1>3, <1>a, AboveKept
<1>4. ASSUME NEW r \in Readers PROVE ReaderInv(r)'
  <2>a. UNCHANGED <<asked, opened, known>> /\ ReaderInv(r)
    BY DEF svars, ServerInv
  <2>1. ASSUME NEW n \in Names, NEW e \in Ext PROVE Above(n, e, known[r][n][e])'
    <3>1. PICK b \in Nat : b = known[r][n][e]
      BY <1>a DEF ServerTypeOK, Time
    <3>2. Above(n, e, b)'
      BY <3>1, <2>a, <1>3 DEF ReaderInv
    <3> QED
      BY <3>1, <3>2, <2>a
  <2>2. ASSUME asked[r].kind = "file", NEW e \in UpTo(asked[r].ext)
        PROVE  Above(asked[r].name, e, opened[r].start)'
    <3>1. PICK n \in Names, b \in Nat : n = asked[r].name /\ b = opened[r].start
      BY <2>2, <2>a, <1>a DEF ReaderInv, ServerTypeOK, File, Time
    <3>2. e \in Ext
      BY <2>2, <2>a, Before3 DEF ReaderInv
    <3>3. Above(n, e, b)'
      BY <3>1, <3>2, <2>2, <2>a, <1>3 DEF ReaderInv
    <3> QED
      BY <3>1, <3>3, <2>a
  <2> QED
    BY <2>1, <2>2, <2>a DEF ReaderInv
<1> QED
  BY <1>1, <1>2, <1>4 DEF ServerInv

LEMMA ServerInvInit == ServerInit => ServerInv
<1> SUFFICES ASSUME ServerInit PROVE ServerInv
  OBVIOUS
<1>1. WorkerInv /\ TypeOK
  BY WorkerInvInit DEF ServerInit, WorkerInv
<1>2. StatusInv
  BY DEF ServerInit, WorkerInit, StatusInv, StatusOK, Live
<1>3. /\ out = [n \in Names |-> [e \in Ext |-> NoFile]]
      /\ clock = [n \in Names |-> 0] /\ status = [n \in Names |-> FreshStatus]
      /\ asked = [r \in Readers |-> NoRequest] /\ opened = [r \in Readers |-> NoFile]
      /\ known = [r \in Readers |-> [n \in Names |-> [e \in Ext |-> 0]]]
  BY DEF ServerInit, WorkerInit
<1>4. AtomFirst /\ ListInv
  BY <1>3 DEF AtomFirst, ListInv, Above, FreshStatus, Ext
<1>5. ServerTypeOK
  <2>1. NoRequest \in Requests /\ NoFile \in File
    BY WorkerAssumption DEF Requests, NoFile, File, Time
  <2> QED
    BY <2>1, <1>1, <1>3 DEF ServerTypeOK, Time
<1>6. \A r \in Readers : ReaderInv(r)
  BY <1>3 DEF ReaderInv, Above, NoRequest
<1> QED
  BY <1>1, <1>2, <1>4, <1>5, <1>6 DEF ServerInv

LEMMA NothingKeeps ==
  ASSUME ServerInv, UNCHANGED allvars
  PROVE  ServerInv'
<1>1. UNCHANGED wvars /\ UNCHANGED <<asked, opened, known>>
  BY DEF allvars, svars
<1>2. WorkerInv' /\ StatusInv' /\ AtomFirst' /\ ListInv'
  BY <1>1, ReadersChangeNothing DEF ServerInv
<1>3. \A r \in Readers : ReaderInv(r)'
  BY <1>1 DEF ServerInv, ReaderInv, Above, wvars
<1>4. ServerTypeOK'
  BY <1>1, <1>2 DEF ServerInv, ServerTypeOK, WorkerInv
<1> QED
  BY <1>2, <1>3, <1>4 DEF ServerInv

LEMMA ServerInvariant == ServerSpec => []ServerInv
<1>1. ServerInv /\ [ServerNext]_allvars => ServerInv'
  BY NothingKeeps, ServeKeeps, PublishKeeps DEF ServerNext
<1> QED
  BY <1>1, ServerInvInit, PTL DEF ServerSpec

LEMMA ServerInvGivesNeverBack == ServerInv => NeverBack
<1> SUFFICES ASSUME ServerInv, NEW r \in Readers, NEW n \in Names, NEW e \in Ext,
                    out[n][e] # NoFile
             PROVE  out[n][e].start >= known[r][n][e]
  BY DEF NeverBack
<1>1. Above(n, e, known[r][n][e])
  BY DEF ServerInv, ReaderInv
<1>2. out[n][e].start \in Nat /\ known[r][n][e] \in Nat
  BY DEF ServerInv, ServerTypeOK, TypeOK, File, Time
<1> QED
  BY <1>1, <1>2 DEF Above

(* A reader never goes back in time, in any format, whatever it put together
   from the list and from files it was sent (handleListFeeds, handleStatic,
   and the order in which writeOutputs renames), while workers and their
   environment do all that they may. *)
THEOREM ReadersNeverGoBack == ServerSpec => []NeverBack
BY ServerInvGivesNeverBack, ServerInvariant, PTL

(***************************************************************************)
(* The program and its clients.                                            *)
(***************************************************************************)
ServiceInv == SystemInv /\ ServerInv

LEMMA ServiceIsSystem ==
  ASSUME [ServiceNext]_servicevars
  PROVE  [SystemNext]_systemvars
BY DEF ServiceNext, Internal, ServiceRestart, Request, SystemNext, servicevars

(* Clients change nothing: what holds in every life of the process holds with
   any number of them (the handlers hold no state). *)
THEOREM ServiceKeepsSystem == ServiceSpec => SystemSpec
<1>1. ServiceInit => SystemInit
  BY DEF ServiceInit
<1> QED
  BY <1>1, ServiceIsSystem, PTL DEF ServiceSpec, SystemSpec

\* A new life starts with an empty list, and files as readers know them.
LEMMA RestartKeepsServer ==
  ASSUME SystemInv', ServerInv, ServiceRestart
  PROVE  ServerInv'
<1>1. /\ UNCHANGED <<out, clock, known>>
      /\ status' = [n \in Names |-> FreshStatus]
      /\ asked' = [r \in Readers |-> NoRequest] /\ opened' = [r \in Readers |-> NoFile]
  BY DEF ServiceRestart, Restart
<1>2. ServerTypeOK'
  <2>1. NoRequest \in Requests /\ NoFile \in File
    BY WorkerAssumption DEF Requests, NoFile, File, Time
  <2> QED
    BY <1>1, <2>1 DEF SystemInv, WorkerInv, ServerInv, ServerTypeOK
<1>3. AtomFirst'
  BY <1>1 DEF ServerInv, AtomFirst
<1>4. ListInv'
  <2>1. TypeOK
    BY DEF ServerInv, ServerTypeOK
  <2>2. \A n \in Names, e \in Ext : clock[n] \in Nat /\ out[n][e].start \in Nat
    BY <2>1 DEF TypeOK, File, Time
  <2> QED
    BY <1>1, <2>2 DEF ListInv, Above, FreshStatus
<1>5. \A r \in Readers : ReaderInv(r)'
  BY <1>1 DEF ServerInv, ReaderInv, Above, NoRequest
<1> QED
  BY <1>2, <1>3, <1>4, <1>5 DEF SystemInv, ServerInv

LEMMA ServiceInvStep ==
  ASSUME ServiceInv, [ServiceNext]_servicevars
  PROVE  ServiceInv'
<1>1. SystemInv'
  BY ServiceIsSystem, SystemInvStep DEF ServiceInv
<1>2. CASE Internal
  <2>1. [WorkerNext]_wvars
    BY <1>2, ContractKept DEF Internal, LifeStep, ServiceInv, SystemInv
  <2>2. ServerInv'
    BY <1>2, <2>1, PublishKeeps, NothingKeeps DEF Internal, ServiceInv, allvars
  <2> QED
    BY <1>1, <2>2 DEF ServiceInv
<1>3. CASE ServiceRestart
  BY <1>1, <1>3, RestartKeepsServer DEF ServiceInv
<1>4. CASE Request
  <2>1. UNCHANGED wvars /\ \E r \in Readers : Serve(r)
    BY <1>4 DEF Request, systemvars, vars
  <2> QED
    BY <1>1, <2>1, ServeKeeps DEF ServiceInv
<1>5. CASE UNCHANGED servicevars
  <2>1. UNCHANGED allvars
    BY <1>5 DEF servicevars, systemvars, vars, allvars
  <2> QED
    BY <1>1, <2>1, NothingKeeps DEF ServiceInv
<1> QED
  BY <1>2, <1>3, <1>4, <1>5 DEF ServiceNext

LEMMA ServiceInvariant == ServiceSpec => []ServiceInv
<1>1. ServiceInit => ServiceInv
  BY SystemInvInit, ServerInvInit DEF ServiceInit, ServiceInv
<1> QED
  BY <1>1, ServiceInvStep, PTL DEF ServiceSpec

(* A reader of the real program never goes back in time either, through
   reloads, removals and restarts of the process, crashes included: what it
   learned from one life binds the files of the next. *)
THEOREM NeverBackAcrossLives == ServiceSpec => []NeverBack
BY ServiceInvariant, ServerInvGivesNeverBack, PTL DEF ServiceInv

=============================================================================
