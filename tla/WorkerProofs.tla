---------------------------- MODULE WorkerProofs ----------------------------
(* Theorems about module Worker, for every value of its constants. *)
EXTENDS Worker, FiniteSetTheorems, TLAPS

LEMMA Formats ==
  /\ Len(outputFormats) = 3
  /\ outputFormats \in [1..3 -> Ext]
  /\ outputFormats[1] = "xml" /\ outputFormats[2] = "atom" /\ outputFormats[3] = "json"
BY DEF outputFormats, Ext

\* A worker that is alive has a feed.
LEMMA LiveHasFeed ==
  ASSUME TypeOK, NEW h \in Handle, pc[h] # "unborn"
  PROVE  feed[h] \in Feeds /\ Name(h) \in Names
BY WorkerAssumption DEF TypeOK, Name

LEMMA TypeInit == WorkerInit => TypeOK
<1> SUFFICES ASSUME WorkerInit PROVE TypeOK
  OBVIOUS
<1>1. /\ NoFile \in File /\ FreshStatus \in Status
      /\ [ok |-> 0, fail |-> 0, items |-> 0, lastOK |-> 0] \in RefreshMetrics
  BY WorkerAssumption DEF NoFile, File, FreshStatus, Status, RefreshMetrics, Time
<1>2. 0 \in 0..(Len(outputFormats) - 1)
  BY Formats
<1>3. 0 \in 0..MaxItems
  BY WorkerAssumption
<1> QED
  BY <1>1, <1>2, <1>3, WorkerAssumption
  DEF WorkerInit, TypeOK, PC, Time

(***************************************************************************)
(* Type correctness.  First the environment's steps, which module          *)
(* ManagerProofs uses again.                                               *)
(***************************************************************************)
LEMMA LaunchTyped ==
  ASSUME TypeOK, NEW h \in Handle, NEW f \in Feeds, NEW d \in BOOLEAN,
         NEW c \in BOOLEAN, Launch(h, f, d, c)
  PROVE  TypeOK'
<1>1. FreshStatus \in Status
  BY WorkerAssumption DEF FreshStatus, Status, Time
<1> QED
  BY <1>1, WorkerAssumption DEF TypeOK, Launch, Goto, PC

LEMMA CancelTyped ==
  ASSUME TypeOK, NEW H, Cancel(H)
  PROVE  TypeOK'
BY DEF TypeOK, Cancel

LEMMA ForgetTyped ==
  ASSUME TypeOK, NEW n \in Names, Forget(n)
  PROVE  TypeOK'
<1>1. FreshStatus \in Status
  BY WorkerAssumption DEF FreshStatus, Status, Time
<1> QED
  BY <1>1 DEF TypeOK, Forget

LEMMA RemoveOutputTyped ==
  ASSUME TypeOK, NEW n \in Names, NEW e \in Ext, RemoveOutput(n, e)
  PROVE  TypeOK'
<1>1. NoFile \in File
  BY WorkerAssumption DEF NoFile, File, Time
<1> QED
  BY <1>1 DEF TypeOK, RemoveOutput

LEMMA FailRefreshTyped ==
  ASSUME TypeOK, NEW h \in Handle, pc[h] # "unborn", FailRefresh(h)
  PROVE  /\ status' \in [Names -> Status]
         /\ pc' \in [Handle -> PC]
         /\ pc' = [pc EXCEPT ![h] = "failed"]
<1>1. Name(h) \in Names
  BY LiveHasFeed
<1>2. status[Name(h)] \in Status /\ start[h] \in Time
  BY <1>1 DEF TypeOK
<1>3. [status[Name(h)] EXCEPT !.lastRefreshAt = start[h], !.lastRefreshOK = FALSE] \in Status
  BY <1>2 DEF Status
<1> QED
  BY <1>1, <1>3 DEF TypeOK, FailRefresh, TrackerUpdate, Goto, PC, Refreshing

LEMMA WorkerStepTyped ==
  ASSUME TypeOK, NEW h \in Handle, WorkerStep(h)
  PROVE  TypeOK'
<1>a. pc[h] # "unborn"
  BY DEF WorkerStep, RefreshStep, DelayOver, DelayCancelled, FirstRefresh, Tick,
         Exit, FetchOK, FetchOrEnrichFails, EnrichOK, HandleEmpty, StageFile,
         StageFails, RenameFile, RenameFails, Publish, RecordRefreshSuccess,
         RecordRefresh
<1>b. Name(h) \in Names /\ feed[h] \in Feeds
  BY <1>a, LiveHasFeed
<1>1. CASE DelayOver(h) \/ DelayCancelled(h) \/ Exit(h) \/ FetchOK(h)
  BY <1>1, <1>a
  DEF DelayOver, DelayCancelled, Exit, FetchOK, TypeOK, Goto, PC, Refreshing
<1>2. CASE FirstRefresh(h) \/ Tick(h)
  <2>1. BeginRefresh(h)
    BY <1>2 DEF FirstRefresh, Tick
  <2> QED
    BY <2>1, <1>a, <1>b DEF BeginRefresh, TypeOK, Goto, PC, Refreshing, Time
<1>3. CASE FetchOrEnrichFails(h)
  BY <1>3, <1>a, FailRefreshTyped DEF FetchOrEnrichFails, TypeOK
<1>4. CASE EnrichOK(h)
  BY <1>4, <1>a, Formats DEF EnrichOK, ItemCounts, TypeOK, Goto, PC, Refreshing
<1>5. CASE HandleEmpty(h)
  <2>1. CASE FailRefresh(h)
    BY <2>1, <1>5, <1>a, FailRefreshTyped DEF HandleEmpty, TypeOK
  <2>2. CASE Goto(h, "stage") /\ UNCHANGED status
    BY <2>2, <1>5, <1>a DEF HandleEmpty, TypeOK, Goto, PC, Refreshing
  <2> QED
    BY <1>5, <2>1, <2>2 DEF HandleEmpty
<1>6. CASE StageFile(h)
  <2>1. pos[h] \in 0..2
    BY Formats DEF TypeOK
  <2>2. outputFormats[pos[h] + 1] \in Ext
    BY <2>1, Formats
  <2>3. tmp' \in [Handle -> SUBSET Ext]
    BY <1>6, <2>2 DEF StageFile, TypeOK
  <2>4. pos' \in [Handle -> 0..(Len(outputFormats) - 1)]
    BY <1>6, <2>1, Formats DEF StageFile, TypeOK
  <2>5. pc' \in [Handle -> PC] /\ \A g \in Handle : pc'[g] = "unborn" <=> pc[g] = "unborn"
    BY <1>6, <1>a DEF StageFile, TypeOK, Goto, PC, Refreshing
  <2> QED
    BY <1>6, <2>3, <2>4, <2>5 DEF StageFile, TypeOK
<1>7. CASE StageFails(h) \/ RenameFails(h)
  BY <1>7, <1>a, FailRefreshTyped DEF StageFails, RenameFails, Cleanup, TypeOK
<1>8. CASE RenameFile(h)
  <2>1. pos[h] \in 0..2
    BY Formats DEF TypeOK
  <2>2. outputFormats[pos[h] + 1] \in Ext
    BY <2>1, Formats
  <2>3. Version(h) \in File
    BY DEF Version, File, TypeOK
  <2>4. out' \in [Names -> [Ext -> File]]
    BY <1>8, <1>b, <2>2, <2>3 DEF RenameFile, TypeOK
  <2>5. tmp' \in [Handle -> SUBSET Ext] /\ stale' \in [Names -> BOOLEAN]
    BY <1>8 DEF RenameFile, TypeOK
  <2>6. pos' \in [Handle -> 0..(Len(outputFormats) - 1)]
    BY <1>8, <2>1, Formats DEF RenameFile, TypeOK
  <2>7. pc' \in [Handle -> PC] /\ \A g \in Handle : pc'[g] = "unborn" <=> pc[g] = "unborn"
    BY <1>8, <1>a DEF RenameFile, TypeOK, Goto, PC, Refreshing
  <2> QED
    BY <1>8, <2>4, <2>5, <2>6, <2>7 DEF RenameFile, TypeOK
<1>9. CASE Publish(h)
  <2>1. status[Name(h)] \in Status /\ start[h] \in Time /\ items[h] \in 0..MaxItems
    BY <1>b DEF TypeOK
  <2>2. 0 \in 0..MaxItems
    BY WorkerAssumption
  <2>3. [status[Name(h)] EXCEPT !.lastRefreshAt = start[h],
                                !.lastRefreshOK = FALSE, !.itemCount = 0] \in Status
    BY <2>1, <2>2 DEF Status
  <2>4. [lastRefreshAt |-> start[h], lastSuccessAt |-> start[h],
         lastRefreshOK |-> TRUE, itemCount |-> items[h]] \in Status
    BY <2>1 DEF Status
  <2>5. status' \in [Names -> Status]
    BY <1>9, <1>b, <2>3, <2>4 DEF Publish, TrackerUpdate, TypeOK
  <2> QED
    BY <1>9, <1>a, <2>5 DEF Publish, TypeOK, Goto, PC, Refreshing
<1>10. CASE RecordRefreshSuccess(h)
  <2>1. metrics' \in [Names -> RefreshMetrics]
    BY <1>10, <1>b DEF RecordRefreshSuccess, TypeOK, RefreshMetrics, Time
  <2> QED
    BY <1>10, <1>a, <2>1 DEF RecordRefreshSuccess, TypeOK, Goto, PC, Refreshing
<1>11. CASE RecordRefresh(h)
  <2> DEFINE m == metrics[Name(h)]
  <2>a. m \in RefreshMetrics
    BY <1>b DEF TypeOK
  <2>b. m.ok + 1 \in Nat /\ m.fail + 1 \in Nat
    BY <2>a DEF RefreshMetrics
  <2>c. /\ [m EXCEPT !.ok = m.ok + 1] \in RefreshMetrics
        /\ [m EXCEPT !.fail = m.fail + 1] \in RefreshMetrics
    BY <2>a, <2>b DEF RefreshMetrics
  <2>1. metrics' \in [Names -> RefreshMetrics]
    <3>1. \/ metrics' = [metrics EXCEPT ![Name(h)] = [m EXCEPT !.ok = m.ok + 1]]
          \/ metrics' = [metrics EXCEPT ![Name(h)] = [m EXCEPT !.fail = m.fail + 1]]
      BY <1>11 DEF RecordRefresh
    <3> QED
      BY <3>1, <2>c DEF TypeOK
  <2> QED
    BY <1>11, <1>a, <2>1 DEF RecordRefresh, TypeOK, Goto, PC, Refreshing
<1> QED
  BY <1>1, <1>2, <1>3, <1>4, <1>5, <1>6, <1>7, <1>8, <1>9, <1>10, <1>11
  DEF WorkerStep, RefreshStep

LEMMA TypeStep ==
  ASSUME TypeOK, [WorkerNext]_wvars
  PROVE  TypeOK'
<1>1. CASE UNCHANGED wvars
  BY <1>1 DEF wvars, TypeOK
<1>2. ASSUME NEW h \in Handle, WorkerStep(h) PROVE TypeOK'
  BY <1>2, WorkerStepTyped
<1>3. ASSUME NEW n \in Names, Age(n) PROVE TypeOK'
  BY <1>3 DEF Age, TypeOK
<1>4. ASSUME ContractStep PROVE TypeOK'
  BY <1>4, LaunchTyped, CancelTyped, ForgetTyped, RemoveOutputTyped
  DEF ContractStep
<1> QED
  BY <1>1, <1>2, <1>3, <1>4 DEF WorkerNext

(* The state of the workers, of the output directory, of the Tracker and of
   the metrics always has the shape TypeOK says, in any environment that
   keeps the contract. *)
THEOREM WorkerTypeCorrect == WorkerSpec => []TypeOK
BY TypeInit, TypeStep, PTL DEF WorkerSpec

(***************************************************************************)
(* Safety.  None of the properties is inductive: what a refresh may do to  *)
(* the files rests on nobody else writing them since it began.             *)
(***************************************************************************)

Before == {"fetch", "enrich", "empty", "stage"}

\* At most one worker of a name is alive.
SingleWriter ==
  \A g, h \in Handle : Live(g) /\ Live(h) /\ Name(g) = Name(h) => g = h

\* The files are the work of refreshes that have begun.
FilesBounded == \A n \in Names, e \in Ext : out[n][e].start <= clock[n]

\* A refresh is the latest one, finds older files, and replaces them in order.
Progress(h) ==
  /\ pc[h] \in Refreshing => start[h] = clock[Name(h)]
  /\ pc[h] \in Before => \A e \in Ext : out[Name(h)][e].start < start[h]
  /\ pc[h] = "rename" => \A i \in 1..3 :
       /\ i <= pos[h] => out[Name(h)][outputFormats[i]] = Version(h)
       /\ i > pos[h]  => out[Name(h)][outputFormats[i]].start < start[h]

\* An empty refresh gets as far as writing only over a .xml past its budget.
EmptyOverdue(h) ==
  (items[h] = 0 /\ (pc[h] = "stage" \/ (pc[h] = "rename" /\ pos[h] = 0)))
    => out[Name(h)]["xml"] # NoFile /\ stale[Name(h)]

\* What is staged is what is still to be renamed.
TempInv(h) ==
  /\ tmp[h] # {} => pc[h] \in {"stage", "rename"}
  /\ pc[h] = "rename" => \A i \in 1..3 : i <= pos[h] => outputFormats[i] \notin tmp[h]

HandleInv(h) == Progress(h) /\ EmptyOverdue(h) /\ TempInv(h)

WorkerInv ==
  /\ TypeOK
  /\ SingleWriter
  /\ FilesBounded
  /\ PublishOrder
  /\ \A h \in Handle : HandleInv(h)

LEMMA WorkerInvInit == WorkerInit => WorkerInv
<1> SUFFICES ASSUME WorkerInit PROVE WorkerInv
  OBVIOUS
<1>1. TypeOK
  BY TypeInit
<1>2. \A h \in Handle : ~Live(h) /\ pc[h] = "unborn" /\ tmp[h] = {}
  BY DEF WorkerInit, Live
<1>3. SingleWriter
  BY <1>2 DEF SingleWriter
<1>4. FilesBounded /\ PublishOrder
  BY DEF WorkerInit, FilesBounded, PublishOrder, NoFile, Ext
<1>5. \A h \in Handle : HandleInv(h)
  BY <1>2 DEF HandleInv, Progress, EmptyOverdue, TempInv, Refreshing, Before
<1> QED
  BY <1>1, <1>3, <1>4, <1>5 DEF WorkerInv

(* A step of goroutine h leaves the other goroutines and the files of other
   feeds alone. *)
LEMMA StepFrame ==
  ASSUME TypeOK, NEW h \in Handle, WorkerStep(h)
  PROVE  /\ feed' = feed
         /\ pc[h] \notin {"unborn", "exited"}
         /\ \A g \in Handle \ {h} :
              /\ pc'[g] = pc[g]       /\ start'[g] = start[g]
              /\ items'[g] = items[g] /\ pos'[g] = pos[g] /\ tmp'[g] = tmp[g]
         /\ \A n \in Names \ {Name(h)} :
              out'[n] = out[n] /\ stale'[n] = stale[n] /\ clock'[n] = clock[n]
<1>1. CASE DelayOver(h) \/ DelayCancelled(h) \/ Exit(h) \/ FetchOK(h)
  BY <1>1 DEF DelayOver, DelayCancelled, Exit, FetchOK, TypeOK, Goto
<1>2. CASE FirstRefresh(h) \/ Tick(h)
  BY <1>2 DEF FirstRefresh, Tick, BeginRefresh, TypeOK, Goto
<1>3. CASE FetchOrEnrichFails(h)
  BY <1>3 DEF FetchOrEnrichFails, FailRefresh, TypeOK, Goto
<1>4. CASE EnrichOK(h)
  BY <1>4 DEF EnrichOK, TypeOK, Goto
<1>5. CASE HandleEmpty(h)
  BY <1>5 DEF HandleEmpty, FailRefresh, TypeOK, Goto
<1>6. CASE StageFile(h)
  BY <1>6 DEF StageFile, TypeOK, Goto
<1>7. CASE StageFails(h) \/ RenameFails(h)
  BY <1>7 DEF StageFails, RenameFails, Cleanup, FailRefresh, TypeOK, Goto
<1>8. CASE RenameFile(h)
  BY <1>8 DEF RenameFile, TypeOK, Goto
<1>9. CASE Publish(h) \/ RecordRefreshSuccess(h) \/ RecordRefresh(h)
  BY <1>9 DEF Publish, RecordRefreshSuccess, RecordRefresh, TypeOK, Goto
<1> QED
  BY <1>1, <1>2, <1>3, <1>4, <1>5, <1>6, <1>7, <1>8, <1>9
  DEF WorkerStep, RefreshStep

\* The worker that takes the step, and the files of its feed.
LEMMA OwnStep ==
  ASSUME WorkerInv, NEW h \in Handle, WorkerStep(h), TypeOK'
  PROVE  /\ HandleInv(h)'
         /\ \A e \in Ext : out'[Name(h)][e].start <= clock'[Name(h)]
         /\ \A e \in Ext : out'[Name(h)]["xml"] # NoFile =>
              out'[Name(h)]["xml"].start >= out'[Name(h)][e].start
<1> DEFINE n == Name(h)
<1>a. /\ TypeOK /\ FilesBounded /\ PublishOrder
      /\ Progress(h) /\ EmptyOverdue(h) /\ TempInv(h)
  BY DEF WorkerInv, HandleInv
<1>b. pc[h] # "unborn" /\ feed' = feed /\ n' = n
  BY <1>a, StepFrame DEF Name
<1>c. n \in Names
  BY <1>a, <1>b, LiveHasFeed
<1>d. /\ clock[n] \in Nat /\ start[h] \in Nat /\ pos[h] \in 0..2
      /\ \A e \in Ext : out[n][e] \in File
  BY <1>a, <1>c, Formats DEF TypeOK, Time
<1>e. \A e \in Ext : out[n][e].start \in Nat
  BY <1>d DEF File, Time
<1>f. "xml" \in Ext
  BY DEF Ext
<1> HIDE DEF n
<1>1. ASSUME UNCHANGED <<out, clock, stale, start, items, pos, tmp>>,
             pc[h] \notin {"stage", "rename"},
             pc'[h] \notin Before \cup {"rename"},
             pc'[h] \in Refreshing => pc[h] \in Refreshing
      PROVE  HandleInv(h)'
  BY <1>1, <1>a, <1>b, <1>c
  DEF HandleInv, Progress, EmptyOverdue, TempInv, n, Before, Refreshing
<1>2. ASSUME UNCHANGED <<out, clock>>
      PROVE  /\ \A e \in Ext : out'[n][e].start <= clock'[n]
             /\ \A e \in Ext : out'[n]["xml"] # NoFile =>
                  out'[n]["xml"].start >= out'[n][e].start
  BY <1>2, <1>a, <1>c DEF FilesBounded, PublishOrder
<1>3. CASE DelayOver(h) \/ DelayCancelled(h) \/ Exit(h)
  <2>1. HandleInv(h)'
    BY <1>1, <1>3, <1>a
    DEF DelayOver, DelayCancelled, Exit, Goto, TypeOK, Before, Refreshing
  <2> QED
    BY <2>1, <1>2, <1>3 DEF DelayOver, DelayCancelled, Exit, n
<1>4. CASE FetchOrEnrichFails(h)
  <2>1. HandleInv(h)'
    BY <1>1, <1>4, <1>a
    DEF FetchOrEnrichFails, FailRefresh, Goto, TypeOK, Before, Refreshing
  <2> QED
    BY <2>1, <1>2, <1>4 DEF FetchOrEnrichFails, n
<1>5. CASE Publish(h) \/ RecordRefreshSuccess(h) \/ RecordRefresh(h)
  <2>1. HandleInv(h)'
    BY <1>1, <1>5, <1>a DEF Publish, RecordRefreshSuccess, RecordRefresh, Goto, TypeOK, Before, Refreshing
  <2> QED
    BY <2>1, <1>2, <1>5 DEF Publish, RecordRefreshSuccess, RecordRefresh, n
<1>6. CASE FirstRefresh(h) \/ Tick(h)
  <2>1. BeginRefresh(h) /\ pc[h] \notin {"stage", "rename"}
    BY <1>6 DEF FirstRefresh, Tick
  <2>2. /\ clock'[n] = clock[n] + 1 /\ start'[h] = clock[n] + 1
        /\ pc'[h] = "fetch" /\ UNCHANGED <<out, tmp>>
    BY <2>1, <1>a, <1>c DEF BeginRefresh, Goto, TypeOK, n
  <2>3. \A e \in Ext : out[n][e].start <= clock[n]
    BY <1>a, <1>c DEF FilesBounded
  <2>4. \A e \in Ext : out'[n][e].start < start'[h] /\ out'[n][e].start <= clock'[n]
    BY <2>2, <2>3, <1>d, <1>e
  <2>5. tmp[h] = {}
    BY <2>1, <1>a DEF TempInv
  <2>6. HandleInv(h)'
    BY <2>2, <2>4, <2>5, <1>b DEF HandleInv, Progress, EmptyOverdue, TempInv, n
  <2> QED
    BY <2>2, <2>4, <2>6, <1>a, <1>c DEF PublishOrder, n
<1>7. CASE FetchOK(h) \/ EnrichOK(h) \/ (HandleEmpty(h) /\ Goto(h, "stage"))
  <2>1. /\ UNCHANGED <<out, clock, stale, start, tmp>>
        /\ pc[h] \in {"fetch", "enrich", "empty"}
        /\ pc'[h] \in {"enrich", "empty", "stage"}
        /\ \/ items'[h] # 0
           \/ pc'[h] # "stage"
           \/ PastBudget(n)
    <3>1. CASE FetchOK(h)
      BY <3>1, <1>a DEF FetchOK, Goto, TypeOK
    <3>2. CASE EnrichOK(h)
      BY <3>2, <1>a DEF EnrichOK, Goto, TypeOK
    <3>3. CASE HandleEmpty(h) /\ Goto(h, "stage")
      BY <3>3, <1>a DEF HandleEmpty, FailRefresh, Goto, TypeOK, n
    <3> QED
      BY <1>7, <3>1, <3>2, <3>3
  <2>2. Progress(h)'
    BY <2>1, <1>a, <1>b DEF Progress, Before, Refreshing, n
  <2>3. EmptyOverdue(h)'
    BY <2>1, <1>b DEF EmptyOverdue, PastBudget, n
  <2>4. TempInv(h)'
    BY <2>1, <1>a DEF TempInv
  <2> QED
    BY <2>1, <2>2, <2>3, <2>4, <1>2 DEF HandleInv, n
<1>8. CASE HandleEmpty(h) /\ ~Goto(h, "stage")
  <2>1. HandleInv(h)'
    BY <1>1, <1>8, <1>a
    DEF HandleEmpty, FailRefresh, Goto, TypeOK, Before, Refreshing
  <2> QED
    BY <2>1, <1>2, <1>8 DEF HandleEmpty, n
<1>9. CASE StageFile(h)
  <2>1. /\ UNCHANGED <<out, clock, stale, start, items>> /\ pc[h] = "stage"
        /\ \/ pc'[h] = "rename" /\ pos'[h] = 0
           \/ pc'[h] = "stage"
    BY <1>9, <1>a DEF StageFile, Goto, TypeOK
  <2>2. /\ start[h] = clock[n]
        /\ \A e \in Ext : out[n][e].start < start[h]
        /\ items[h] = 0 => out[n]["xml"] # NoFile /\ stale[n]
    BY <2>1, <1>a DEF Progress, EmptyOverdue, Before, Refreshing, n
  <2>3. Progress(h)'
    BY <2>1, <2>2, <1>b, Formats DEF Progress, Before, n
  <2>4. EmptyOverdue(h)' /\ TempInv(h)'
    BY <2>1, <2>2, <1>b DEF EmptyOverdue, TempInv, n
  <2> QED
    BY <2>1, <2>3, <2>4, <1>2 DEF HandleInv, n
<1>10. CASE StageFails(h) \/ RenameFails(h)
  <2>1. /\ UNCHANGED <<out, clock, stale, start, items>>
        /\ pc[h] \in Refreshing /\ pc'[h] = "failed" /\ tmp'[h] = {}
    BY <1>10, <1>a
    DEF StageFails, RenameFails, Cleanup, FailRefresh, Goto, TypeOK, Refreshing
  <2>2. HandleInv(h)'
    BY <2>1, <1>a, <1>b
    DEF HandleInv, Progress, EmptyOverdue, TempInv, Before, Refreshing, n
  <2> QED
    BY <2>1, <2>2, <1>2 DEF n
<1>11. CASE RenameFile(h)
  <2> DEFINE f == outputFormats[pos[h] + 1]
  <2>1. f \in Ext /\ \A i \in 1..3 : outputFormats[i] \in Ext
    BY <1>d, Formats
  <2>2. /\ pc[h] = "rename" /\ UNCHANGED <<clock, start, items>>
        /\ out'[n] = [out[n] EXCEPT ![f] = Version(h)]
        /\ f # "xml" => stale' = stale
        /\ tmp'[h] = tmp[h] \ {f}
        /\ \/ pos[h] = 2 /\ pc'[h] = "publish"
           \/ pos[h] # 2 /\ pc'[h] = "rename" /\ pos'[h] = pos[h] + 1
    BY <1>11, <1>a, <1>c, <1>d, Formats DEF RenameFile, Goto, TypeOK, n
  <2>3. /\ start[h] = clock[n]
        /\ \A i \in 1..3 :
             /\ i <= pos[h] => out[n][outputFormats[i]] = Version(h)
             /\ i > pos[h] => out[n][outputFormats[i]].start < start[h]
             /\ i <= pos[h] => outputFormats[i] \notin tmp[h]
    BY <2>2, <1>a DEF Progress, TempInv, Refreshing, n
  <2>4. Version(h).start = start[h] /\ Version(h)' = Version(h)
    BY <2>2 DEF Version
  <2>5. \A i, j \in 1..3 : i # j => outputFormats[i] # outputFormats[j]
    BY Formats
  <2>6. \A e \in Ext : out[n] \in [Ext -> File] /\ out'[n][e] = IF e = f THEN Version(h) ELSE out[n][e]
    BY <2>2, <1>a, <1>c DEF TypeOK
  <2>7. pc'[h] = "rename" => \A i \in 1..3 :
          /\ i <= pos'[h] => out'[n][outputFormats[i]] = Version(h)
          /\ i > pos'[h] => out'[n][outputFormats[i]].start < start[h]
          /\ i <= pos'[h] => outputFormats[i] \notin tmp'[h]
    <3> SUFFICES ASSUME pc'[h] = "rename", NEW i \in 1..3
                 PROVE  /\ i <= pos'[h] => out'[n][outputFormats[i]] = Version(h)
                        /\ i > pos'[h] => out'[n][outputFormats[i]].start < start[h]
                        /\ i <= pos'[h] => outputFormats[i] \notin tmp'[h]
      OBVIOUS
    <3>1. pos'[h] = pos[h] + 1 /\ pos[h] + 1 \in 1..3
      BY <2>2, <1>d
    <3>2. CASE i = pos[h] + 1
      BY <3>1, <3>2, <2>2, <2>6, <2>1, <1>d
    <3>3. CASE i # pos[h] + 1
      <4>1. outputFormats[i] # f
        BY <3>1, <3>3, <2>5
      <4> QED
        BY <4>1, <3>1, <3>3, <2>1, <2>2, <2>3, <2>6, <1>d
    <3> QED
      BY <3>2, <3>3
  <2>8. Progress(h)'
    BY <2>2, <2>3, <2>4, <2>7, <1>b DEF Progress, Before, Refreshing, n
  <2>9. EmptyOverdue(h)' /\ TempInv(h)'
    <3>1. pc'[h] = "publish" => tmp'[h] = {}
      BY <2>2, <2>3, Formats, <1>a DEF TypeOK, Ext
    <3> QED
      BY <3>1, <2>2, <2>7, <1>d DEF EmptyOverdue, TempInv
  <2>10. \A e \in Ext : out'[n][e].start <= clock'[n]
    BY <2>2, <2>3, <2>4, <2>6, <1>a, <1>c, <1>d DEF FilesBounded
  <2>11. \A e \in Ext : out'[n]["xml"] # NoFile => out'[n]["xml"].start >= out'[n][e].start
    <3>1. out'[n]["xml"] = Version(h)
      BY <2>2, <2>3, <2>6, <1>d, <1>f, Formats
    <3> QED
      BY <3>1, <2>2, <2>3, <2>4, <2>10
  <2> QED
    BY <2>8, <2>9, <2>10, <2>11 DEF HandleInv, n
<1> QED
  BY <1>3, <1>4, <1>5, <1>6, <1>7, <1>8, <1>9, <1>10, <1>11
  DEF WorkerStep, RefreshStep, n

LEMMA WorkerStepInv ==
  ASSUME WorkerInv, NEW h \in Handle, WorkerStep(h)
  PROVE  WorkerInv'
<1>a. TypeOK /\ SingleWriter /\ FilesBounded /\ PublishOrder /\ \A g \in Handle : HandleInv(g)
  BY DEF WorkerInv
<1>b. TypeOK'
  BY <1>a, WorkerStepTyped
<1>c. /\ feed' = feed
      /\ pc[h] \notin {"unborn", "exited"}
      /\ \A g \in Handle \ {h} :
           /\ pc'[g] = pc[g]       /\ start'[g] = start[g]
           /\ items'[g] = items[g] /\ pos'[g] = pos[g] /\ tmp'[g] = tmp[g]
      /\ \A n \in Names \ {Name(h)} :
           out'[n] = out[n] /\ stale'[n] = stale[n] /\ clock'[n] = clock[n]
  BY <1>a, StepFrame
<1>d. Live(h) /\ \A g \in Handle : Name(g)' = Name(g) /\ (Live(g)' => Live(g))
  BY <1>c DEF Live, Name
<1>1. SingleWriter'
  BY <1>a, <1>d DEF SingleWriter
<1>2. /\ HandleInv(h)'
      /\ \A e \in Ext : out'[Name(h)][e].start <= clock'[Name(h)]
      /\ \A e \in Ext : out'[Name(h)]["xml"] # NoFile =>
           out'[Name(h)]["xml"].start >= out'[Name(h)][e].start
  BY <1>b, OwnStep
<1>3. FilesBounded'
  BY <1>a, <1>c, <1>2 DEF FilesBounded
<1>4. PublishOrder'
  BY <1>a, <1>c, <1>2 DEF PublishOrder
<1>5. ASSUME NEW g \in Handle, g # h PROVE HandleInv(g)'
  <2>1. HandleInv(g)
    BY <1>a
  <2>2. CASE pc[g] \in Refreshing
    <3>1. Live(g)
      BY <2>2 DEF Live, Refreshing
    <3>2. Name(g) # Name(h)
      BY <3>1, <1>5, <1>a, <1>d DEF SingleWriter
    <3>3. Name(g) \in Names
      BY <3>1, <1>a, LiveHasFeed DEF Live
    <3>4. /\ pc'[g] = pc[g] /\ start'[g] = start[g] /\ items'[g] = items[g]
          /\ pos'[g] = pos[g] /\ tmp'[g] = tmp[g] /\ Name(g)' = Name(g)
          /\ out'[Name(g)] = out[Name(g)] /\ stale'[Name(g)] = stale[Name(g)]
          /\ clock'[Name(g)] = clock[Name(g)]
      BY <3>2, <3>3, <1>5, <1>c, <1>d
    <3>5. Version(g)' = Version(g)
      BY <3>4 DEF Version
    <3> QED
      BY <2>1, <3>4, <3>5 DEF HandleInv, Progress, EmptyOverdue, TempInv
  <2>3. CASE pc[g] \notin Refreshing
    <3>1. pc'[g] \notin Refreshing /\ tmp'[g] = {}
      BY <2>1, <2>3, <1>5, <1>c DEF HandleInv, TempInv, Refreshing
    <3> QED
      BY <3>1 DEF HandleInv, Progress, EmptyOverdue, TempInv, Refreshing, Before
  <2> QED
    BY <2>2, <2>3
<1> QED
  BY <1>b, <1>1, <1>2, <1>3, <1>4, <1>5 DEF WorkerInv

LEMMA ContractStepInv ==
  ASSUME WorkerInv, ContractStep
  PROVE  WorkerInv'
<1>a. TypeOK /\ SingleWriter /\ FilesBounded /\ PublishOrder /\ \A g \in Handle : HandleInv(g)
  BY DEF WorkerInv
<1>1. ASSUME NEW h \in Handle, NEW f \in Feeds, NEW d \in BOOLEAN, NEW c \in BOOLEAN,
             NoLiveWorker(f.name), Launch(h, f, d, c)
      PROVE  WorkerInv'
  <2>1. TypeOK'
    BY <1>1, <1>a, LaunchTyped
  <2>2. /\ UNCHANGED <<start, items, pos, tmp, out, stale, clock>>
        /\ pc[h] = "unborn" /\ pc'[h] \in {"delay", "begin"} /\ Name(h)' = f.name
        /\ \A g \in Handle \ {h} : pc'[g] = pc[g] /\ Name(g)' = Name(g)
    BY <1>1, <1>a DEF Launch, Goto, TypeOK, Name
  <2>3. SingleWriter'
    BY <2>2, <1>1, <1>a DEF SingleWriter, NoLiveWorker, Live
  <2>4. FilesBounded' /\ PublishOrder'
    BY <2>2, <1>a DEF FilesBounded, PublishOrder
  <2>5. ASSUME NEW g \in Handle PROVE HandleInv(g)'
    <3>1. HandleInv(g) /\ Version(g)' = Version(g)
      BY <1>a, <2>2 DEF Version
    <3>2. CASE g = h
      BY <3>1, <3>2, <2>2
      DEF HandleInv, Progress, EmptyOverdue, TempInv, Refreshing, Before
    <3>3. CASE g # h
      BY <3>1, <3>3, <2>2 DEF HandleInv, Progress, EmptyOverdue, TempInv
    <3> QED
      BY <3>2, <3>3
  <2> QED
    BY <2>1, <2>3, <2>4, <2>5 DEF WorkerInv
<1>2. ASSUME NEW H, Cancel(H) PROVE WorkerInv'
  <2>1. TypeOK'
    BY <1>2, <1>a, CancelTyped
  <2>2. UNCHANGED <<feed, pc, start, items, pos, tmp, out, stale, clock>>
    BY <1>2 DEF Cancel
  <2> QED
    BY <2>1, <2>2, <1>a
    DEF WorkerInv, SingleWriter, Live, Name, FilesBounded, PublishOrder,
        HandleInv, Progress, EmptyOverdue, TempInv, Version
<1>3. ASSUME NEW n \in Names, Forget(n) PROVE WorkerInv'
  <2>1. TypeOK'
    BY <1>3, <1>a, ForgetTyped
  <2>2. UNCHANGED <<feed, pc, start, items, pos, tmp, out, stale, clock>>
    BY <1>3 DEF Forget
  <2> QED
    BY <2>1, <2>2, <1>a
    DEF WorkerInv, SingleWriter, Live, Name, FilesBounded, PublishOrder,
        HandleInv, Progress, EmptyOverdue, TempInv, Version
<1>4. ASSUME NEW n \in Names, NEW e \in Ext, NoLiveWorker(n), RemoveOutput(n, e)
      PROVE  WorkerInv'
  <2>1. TypeOK'
    BY <1>4, <1>a, RemoveOutputTyped
  <2>2. /\ UNCHANGED <<feed, pc, start, items, pos, tmp, clock>>
        /\ \A m \in Names \ {n} : out'[m] = out[m] /\ stale'[m] = stale[m]
        /\ \A x \in Ext : out'[n][x] = IF x = e THEN NoFile ELSE out[n][x]
    BY <1>4, <1>a DEF RemoveOutput, TypeOK
  <2>3. SingleWriter'
    BY <2>2, <1>a DEF SingleWriter, Live, Name
  <2>4. \A m \in Names, x \in Ext : /\ out[m][x].start \in Nat /\ clock[m] \in Nat
    BY <1>a DEF TypeOK, File, Time
  <2>5. FilesBounded'
    BY <2>2, <2>4, <1>a DEF FilesBounded, NoFile
  <2>6. PublishOrder'
    BY <2>2, <2>4, <1>a DEF PublishOrder, NoFile, Ext
  <2>7. ASSUME NEW g \in Handle PROVE HandleInv(g)'
    <3>1. HandleInv(g) /\ Version(g)' = Version(g) /\ Name(g)' = Name(g)
      BY <1>a, <2>2 DEF Version, Name
    <3>2. CASE pc[g] \in Refreshing
      <4>1. Live(g)
        BY <3>2 DEF Live, Refreshing
      <4>2. Name(g) \in Names \ {n}
        BY <4>1, <1>4, <1>a, LiveHasFeed DEF NoLiveWorker, Live
      <4> QED
        BY <4>2, <3>1, <2>2 DEF HandleInv, Progress, EmptyOverdue, TempInv
    <3>3. CASE pc[g] \notin Refreshing
      BY <3>3, <3>1, <2>2
      DEF HandleInv, Progress, EmptyOverdue, TempInv, Refreshing, Before
    <3> QED
      BY <3>2, <3>3
  <2> QED
    BY <2>1, <2>3, <2>5, <2>6, <2>7 DEF WorkerInv
<1> QED
  BY <1>1, <1>2, <1>3, <1>4 DEF ContractStep

LEMMA WorkerInvStep ==
  ASSUME WorkerInv, [WorkerNext]_wvars
  PROVE  WorkerInv'
<1>1. CASE UNCHANGED wvars
  BY <1>1 DEF wvars, WorkerInv, TypeOK, SingleWriter, Live, Name, FilesBounded,
              PublishOrder, HandleInv, Progress, EmptyOverdue, TempInv, Version
<1>2. ASSUME NEW n \in Names, Age(n) PROVE WorkerInv'
  <2>1. /\ UNCHANGED <<feed, pc, start, items, pos, tmp, out, clock>>
        /\ \A m \in Names : stale[m] => stale'[m]
    BY <1>2 DEF Age, WorkerInv, TypeOK
  <2>2. TypeOK'
    BY <1>2, TypeStep DEF WorkerInv, WorkerNext
  <2>3. \A h \in Handle : pc[h] \in {"stage", "rename"} => Name(h) \in Names
    BY LiveHasFeed DEF WorkerInv
  <2> QED
    BY <2>1, <2>2, <2>3
    DEF WorkerInv, SingleWriter, Live, Name, FilesBounded, PublishOrder,
        HandleInv, Progress, EmptyOverdue, TempInv, Version
<1> QED
  BY <1>1, <1>2, WorkerStepInv, ContractStepInv DEF WorkerNext

LEMMA WorkerInvariant == WorkerSpec => []WorkerInv
BY WorkerInvInit, WorkerInvStep, PTL DEF WorkerSpec

(* The .xml on disk is never older than its alternates, whatever renames fail
   and whichever files are removed (the order of outputFormats). *)
THEOREM XmlFirst == WorkerSpec => []PublishOrder
<1>1. WorkerInv => PublishOrder
  BY DEF WorkerInv
<1> QED
  BY <1>1, WorkerInvariant, PTL

(* Temporary files exist only while their refresh is staging or renaming
   (the cleanups of writeOutputs). *)
THEOREM TempsCleaned == WorkerSpec => []NoLeftoverTemp
<1>1. WorkerInv => NoLeftoverTemp
  BY DEF WorkerInv, HandleInv, TempInv, NoLeftoverTemp
<1> QED
  BY <1>1, WorkerInvariant, PTL

(***************************************************************************)
(* What a step may never do to a published file.                           *)
(***************************************************************************)
\* Of the steps of a worker only a rename changes a published file.
LEMMA OnlyRenameWrites ==
  ASSUME WorkerInv, NEW h \in Handle, WorkerStep(h), out' # out
  PROVE  \E e \in Ext :
           /\ out' = [out EXCEPT ![Name(h)][e] = Version(h)]
           /\ out[Name(h)][e].start < Version(h).start
           /\ (e = "xml" /\ items[h] = 0) => stale[Name(h)]
<1>1. RenameFile(h)
  BY DEF WorkerStep, RefreshStep, DelayOver, DelayCancelled, FirstRefresh, Tick,
         BeginRefresh, Exit, FetchOK, FetchOrEnrichFails, EnrichOK, HandleEmpty,
         StageFile, StageFails, RenameFails, Publish, RecordRefreshSuccess,
         RecordRefresh
<1>2. TypeOK /\ HandleInv(h)
  BY DEF WorkerInv
<1>3. pc[h] = "rename" /\ pos[h] \in 0..2
  BY <1>1, <1>2, Formats DEF RenameFile, TypeOK
<1> DEFINE f == outputFormats[pos[h] + 1]
<1>4. f \in Ext /\ out' = [out EXCEPT ![Name(h)][f] = Version(h)]
  BY <1>1, <1>3, Formats DEF RenameFile
<1>5. out[Name(h)][f].start < Version(h).start
  BY <1>2, <1>3 DEF HandleInv, Progress, Version
<1>6. f = "xml" => pos[h] = 0
  BY <1>3, Formats
<1>7. (f = "xml" /\ items[h] = 0) => stale[Name(h)]
  BY <1>2, <1>3, <1>6 DEF HandleInv, EmptyOverdue
<1> QED
  BY <1>4, <1>5, <1>7

LEMMA FilesMoveForward ==
  ASSUME WorkerInv, [WorkerNext]_wvars, NEW n \in Names
  PROVE  /\ \A e \in Ext : out'[n][e] # out[n][e] =>
              \/ out'[n][e].start > out[n][e].start
              \/ out'[n][e] = NoFile /\ n \notin tracked
         /\ (/\ out[n]["xml"].items > 0
             /\ out'[n]["xml"] # NoFile
             /\ out'[n]["xml"].items = 0) => stale[n]
<1>a. TypeOK
  BY DEF WorkerInv
<1>b. \A m \in Names, e \in Ext : out[m][e].start \in Nat /\ out[m][e].items \in Nat
  BY <1>a, WorkerAssumption DEF TypeOK, File, Time
<1>1. CASE out' = out
  BY <1>1, <1>b DEF Ext
<1>2. ASSUME NEW h \in Handle, WorkerStep(h), out' # out
      PROVE  /\ \A e \in Ext : out'[n][e] # out[n][e] =>
                  out'[n][e].start > out[n][e].start
             /\ (/\ out[n]["xml"].items > 0
                 /\ out'[n]["xml"] # NoFile
                 /\ out'[n]["xml"].items = 0) => stale[n]
  <2>1. PICK e \in Ext :
           /\ out' = [out EXCEPT ![Name(h)][e] = Version(h)]
           /\ out[Name(h)][e].start < Version(h).start
           /\ (e = "xml" /\ items[h] = 0) => stale[Name(h)]
    BY <1>2, OnlyRenameWrites
  <2>2. Version(h).items = items[h] /\ Version(h).start \in Nat
    BY <1>a DEF Version, TypeOK, Time
  <2>3. \A x \in Ext : out'[n][x] = IF n = Name(h) /\ x = e THEN Version(h) ELSE out[n][x]
    BY <2>1, <1>a DEF TypeOK
  <2>4. "xml" \in Ext
    BY DEF Ext
  <2> QED
    BY <2>1, <2>2, <2>3, <2>4, <1>b
<1>3. ASSUME NEW m \in Names \ tracked, NEW e \in Ext, RemoveOutput(m, e)
      PROVE  /\ \A x \in Ext : out'[n][x] # out[n][x] =>
                  out'[n][x] = NoFile /\ n \notin tracked
             /\ out'[n]["xml"] # NoFile => out'[n]["xml"] = out[n]["xml"]
  <2>1. \A x \in Ext : out'[n][x] = IF n = m /\ x = e THEN NoFile ELSE out[n][x]
    BY <1>3, <1>a DEF RemoveOutput, TypeOK
  <2> QED
    BY <2>1, <1>3 DEF Ext
<1>4. ASSUME ContractStep, out' # out
      PROVE  \E m \in Names \ tracked, e \in Ext : RemoveOutput(m, e)
  BY <1>4 DEF ContractStep, Launch, Cancel, Forget
<1>5. CASE UNCHANGED wvars \/ \E m \in Names : Age(m)
  BY <1>5, <1>1 DEF wvars, Age
<1>6. ASSUME ContractStep, out' # out
      PROVE  /\ \A e \in Ext : out'[n][e] # out[n][e] =>
                  out'[n][e] = NoFile /\ n \notin tracked
             /\ out'[n]["xml"] # NoFile => out'[n]["xml"] = out[n]["xml"]
  BY <1>3, <1>4, <1>6
<1> QED
  BY <1>1, <1>2, <1>5, <1>6, <1>b DEF WorkerNext, Ext

(* A published file gives way only to the output of a later refresh, or is
   removed after its feed left the status list (stopLocked, removeOutputs). *)
THEOREM OlderNeverWins == WorkerSpec => NoOverwriteByOlder
<1>1. WorkerInv /\ [WorkerNext]_wvars =>
        [\A n \in Names, e \in Ext :
           out'[n][e] # out[n][e] =>
             \/ out'[n][e].start > out[n][e].start
             \/ out'[n][e] = NoFile /\ n \notin tracked]_wvars
  BY FilesMoveForward
<1> QED
  BY <1>1, WorkerInvariant, PTL DEF WorkerSpec, NoOverwriteByOlder

(* A feed with items is replaced by an empty one only past its staleness
   budget (handleEmpty). *)
THEOREM EmptyNeedsStale == WorkerSpec => EmptyOnlyWhenStale
<1>1. WorkerInv /\ [WorkerNext]_wvars =>
        [\A n \in Names :
           (/\ out[n]["xml"].items > 0
            /\ out'[n]["xml"] # NoFile
            /\ out'[n]["xml"].items = 0) => stale[n]]_wvars
  BY FilesMoveForward
<1> QED
  BY <1>1, WorkerInvariant, PTL DEF WorkerSpec, EmptyOnlyWhenStale

(***************************************************************************)
(* The books: the Tracker, the counters and the files agree.               *)
(***************************************************************************)
RefreshingOf(n) == {h \in Handle : pc[h] \in Refreshing /\ Name(h) = n}

\* A worker that is alive is alone under its name.
LEMMA OwnRefreshing ==
  ASSUME SingleWriter, NEW h \in Handle, Live(h)
  PROVE  Cardinality(RefreshingOf(Name(h))) = IF pc[h] \in Refreshing THEN 1 ELSE 0
<1>1. \A g \in RefreshingOf(Name(h)) : g = h
  BY DEF RefreshingOf, SingleWriter, Live, Refreshing
<1>2. CASE pc[h] \in Refreshing
  <2>1. RefreshingOf(Name(h)) = {h}
    BY <1>1, <1>2 DEF RefreshingOf
  <2> QED
    BY <2>1, <1>2, FS_Singleton
<1>3. CASE pc[h] \notin Refreshing
  <2>1. RefreshingOf(Name(h)) = {}
    BY <1>1, <1>3 DEF RefreshingOf
  <2> QED
    BY <2>1, <1>3, FS_EmptySet
<1> QED
  BY <1>2, <1>3

SameCounts(n) == metrics'[n].ok = metrics[n].ok /\ metrics'[n].fail = metrics[n].fail
OneMoreCounted(n) ==
  \/ metrics'[n].ok = metrics[n].ok + 1 /\ metrics'[n].fail = metrics[n].fail
  \/ metrics'[n].ok = metrics[n].ok /\ metrics'[n].fail = metrics[n].fail + 1

(* A step of goroutine h leaves the entries of other feeds alone, and opens or
   closes one account at a time. *)
LEMMA BooksFrame ==
  ASSUME TypeOK, NEW h \in Handle, WorkerStep(h)
  PROVE  /\ tracked' = tracked
         /\ \A n \in Names \ {Name(h)} :
              status'[n] = status[n] /\ metrics'[n] = metrics[n]
         /\ \/ /\ SameCounts(Name(h)) /\ clock' = clock
               /\ pc'[h] \in Refreshing <=> pc[h] \in Refreshing
            \/ /\ SameCounts(Name(h)) /\ clock' = [clock EXCEPT ![Name(h)] = @ + 1]
               /\ pc[h] \notin Refreshing /\ pc'[h] \in Refreshing
            \/ /\ OneMoreCounted(Name(h)) /\ clock' = clock
               /\ pc[h] \in Refreshing /\ pc'[h] \notin Refreshing
<1>a. ASSUME UNCHANGED metrics PROVE SameCounts(Name(h))
  BY <1>a DEF SameCounts
<1>b. pc[h] # "unborn" => metrics[Name(h)] \in RefreshMetrics /\ Name(h) \in Names
  BY LiveHasFeed DEF TypeOK
<1>1. CASE DelayOver(h) \/ DelayCancelled(h) \/ Exit(h) \/ FetchOK(h)
  BY <1>1, <1>a
  DEF DelayOver, DelayCancelled, Exit, FetchOK, TypeOK, Goto, Refreshing
<1>2. CASE FirstRefresh(h) \/ Tick(h)
  BY <1>2, <1>a DEF FirstRefresh, Tick, BeginRefresh, TypeOK, Goto, Refreshing
<1>3. CASE FetchOrEnrichFails(h)
  BY <1>3, <1>a
  DEF FetchOrEnrichFails, FailRefresh, TrackerUpdate, TypeOK, Goto, Refreshing
<1>4. CASE EnrichOK(h)
  BY <1>4, <1>a DEF EnrichOK, TypeOK, Goto, Refreshing
<1>5. CASE HandleEmpty(h)
  BY <1>5, <1>a
  DEF HandleEmpty, FailRefresh, TrackerUpdate, TypeOK, Goto, Refreshing
<1>6. CASE StageFile(h)
  BY <1>6, <1>a DEF StageFile, TypeOK, Goto, Refreshing
<1>7. CASE StageFails(h) \/ RenameFails(h)
  BY <1>7, <1>a DEF StageFails, RenameFails, FailRefresh, TrackerUpdate, TypeOK, Goto, Refreshing
<1>8. CASE RenameFile(h)
  BY <1>8, <1>a DEF RenameFile, TypeOK, Goto, Refreshing
<1>9. CASE Publish(h)
  BY <1>9, <1>a DEF Publish, TrackerUpdate, TypeOK, Goto, Refreshing
<1>10. CASE RecordRefreshSuccess(h)
  <2>1. pc[h] = "succeeded" /\ pc'[h] = "ok" /\ UNCHANGED <<tracked, status, clock>>
    BY <1>10 DEF RecordRefreshSuccess, TypeOK, Goto
  <2>2. SameCounts(Name(h))
    BY <1>10, <2>1, <1>b
    DEF RecordRefreshSuccess, SameCounts, TypeOK, RefreshMetrics
  <2> QED
    BY <1>10, <2>1, <2>2 DEF RecordRefreshSuccess, TypeOK, Refreshing
<1>11. CASE RecordRefresh(h)
  <2>1. pc[h] \in {"ok", "failed"} /\ pc'[h] = "idle" /\ UNCHANGED <<tracked, status, clock>>
    BY <1>11 DEF RecordRefresh, TypeOK, Goto
  <2>2. OneMoreCounted(Name(h))
    <3> DEFINE m == metrics[Name(h)]
    <3>1. \/ metrics' = [metrics EXCEPT ![Name(h)] = [m EXCEPT !.ok = m.ok + 1]]
          \/ metrics' = [metrics EXCEPT ![Name(h)] = [m EXCEPT !.fail = m.fail + 1]]
      BY <1>11 DEF RecordRefresh
    <3>2. m \in RefreshMetrics /\ metrics \in [Names -> RefreshMetrics] /\ Name(h) \in Names
      BY <1>b, <2>1 DEF TypeOK
    <3>3. \/ metrics'[Name(h)] = [m EXCEPT !.ok = m.ok + 1]
          \/ metrics'[Name(h)] = [m EXCEPT !.fail = m.fail + 1]
      BY <3>1, <3>2
    <3> QED
      BY <3>2, <3>3 DEF OneMoreCounted, RefreshMetrics
  <2> QED
    BY <1>11, <2>1, <2>2 DEF RecordRefresh, TypeOK, Refreshing
<1> QED
  BY <1>1, <1>2, <1>3, <1>4, <1>5, <1>6, <1>7, <1>8, <1>9, <1>10, <1>11
  DEF WorkerStep, RefreshStep

LEMMA CountedStep ==
  ASSUME WorkerInv, WorkerInv', EveryRefreshCounted, NEW h \in Handle, WorkerStep(h)
  PROVE  EveryRefreshCounted'
<1> DEFINE Total(n) == metrics[n].ok + metrics[n].fail + Cardinality(RefreshingOf(n))
<1>a. TypeOK /\ SingleWriter /\ SingleWriter' /\ TypeOK'
  BY DEF WorkerInv
<1>b. /\ feed' = feed
      /\ pc[h] \notin {"unborn", "exited"}
      /\ \A g \in Handle \ {h} : pc'[g] = pc[g]
      /\ \A n \in Names \ {Name(h)} : clock'[n] = clock[n]
  BY <1>a, StepFrame
<1>c. Name(h) \in Names /\ Name(h)' = Name(h) /\ Live(h)
  BY <1>a, <1>b, LiveHasFeed DEF Name, Live
<1>d. \A n \in Names : Total(n) = clock[n]
  BY DEF EveryRefreshCounted, RefreshingOf
<1>e. metrics[Name(h)] \in RefreshMetrics /\ clock[Name(h)] \in Nat
  BY <1>a, <1>c DEF TypeOK, Time
<1>1. ASSUME NEW n \in Names, n # Name(h) PROVE Total(n)' = clock'[n]
  <2>1. RefreshingOf(n)' = RefreshingOf(n)
    BY <1>1, <1>b, <1>c DEF RefreshingOf, Name
  <2>2. metrics'[n] = metrics[n] /\ clock'[n] = clock[n]
    BY <1>1, <1>a, <1>b, BooksFrame
  <2> QED
    BY <2>1, <2>2, <1>d
<1>2. ASSUME NEW n \in Names, n = Name(h) PROVE Total(n)' = clock'[n]
  <2> DEFINE m == metrics[n]
             q == metrics'[n]
  <2>a. n = Name(h)'
    BY <1>2, <1>c
  <2>1. Cardinality(RefreshingOf(n)) = IF pc[h] \in Refreshing THEN 1 ELSE 0
    BY <1>2, <1>a, <1>c, OwnRefreshing
  <2>2. Cardinality(RefreshingOf(n))' = IF pc'[h] \in Refreshing THEN 1 ELSE 0
    <3>1. CASE Live(h)'
      <4>1. \A g \in RefreshingOf(n)' : g = h
        BY <3>1, <2>a, <1>a DEF RefreshingOf, SingleWriter, Live, Refreshing
      <4>2. RefreshingOf(n)' = IF pc'[h] \in Refreshing THEN {h} ELSE {}
        BY <4>1, <2>a DEF RefreshingOf
      <4> QED
        BY <4>2, FS_Singleton, FS_EmptySet
    <3>2. CASE ~Live(h)'
      <4>1. RefreshingOf(n)' = {} /\ pc'[h] \notin Refreshing
        BY <3>2, <1>2, <1>a, <1>b, <1>c
        DEF RefreshingOf, SingleWriter, Live, Refreshing, Name
      <4> QED
        BY <4>1, FS_EmptySet
    <3> QED
      BY <3>1, <3>2
  <2>3. m.ok \in Nat /\ m.fail \in Nat
    BY <1>2, <1>e DEF RefreshMetrics
  <2>4. m.ok + m.fail + (IF pc[h] \in Refreshing THEN 1 ELSE 0) = clock[n]
    BY <2>1, <1>d
  <2>5. q.ok + q.fail + (IF pc'[h] \in Refreshing THEN 1 ELSE 0) = clock'[n]
    <3>1. \/ /\ SameCounts(n) /\ clock' = clock
             /\ pc'[h] \in Refreshing <=> pc[h] \in Refreshing
          \/ /\ SameCounts(n) /\ clock' = [clock EXCEPT ![n] = @ + 1]
             /\ pc[h] \notin Refreshing /\ pc'[h] \in Refreshing
          \/ /\ OneMoreCounted(n) /\ clock' = clock
             /\ pc[h] \in Refreshing /\ pc'[h] \notin Refreshing
      BY <1>2, <1>a, BooksFrame
    <3>2. clock \in [Names -> Nat]
      BY <1>a DEF TypeOK, Time
    <3> QED
      BY <3>1, <3>2, <2>3, <2>4 DEF SameCounts, OneMoreCounted
  <2> QED
    BY <2>2, <2>5
<1>3. \A n \in Names : Total(n)' = clock'[n]
  BY <1>1, <1>2
<1> QED
  BY <1>3 DEF EveryRefreshCounted, RefreshingOf

LEMMA CountedNext ==
  ASSUME WorkerInv, WorkerInv', EveryRefreshCounted, [WorkerNext]_wvars
  PROVE  EveryRefreshCounted'
<1>1. ASSUME NEW h \in Handle, NEW f \in Feeds, NEW d \in BOOLEAN,
             NEW c \in BOOLEAN, Launch(h, f, d, c)
      PROVE  EveryRefreshCounted'
  <2>1. /\ UNCHANGED <<metrics, clock>>
        /\ pc[h] \notin Refreshing /\ pc'[h] \notin Refreshing
        /\ \A g \in Handle \ {h} : pc'[g] = pc[g] /\ Name(g)' = Name(g)
    BY <1>1 DEF Launch, Goto, WorkerInv, TypeOK, Name, Refreshing
  <2>2. \A n \in Names : {g \in Handle : pc'[g] \in Refreshing /\ Name(g)' = n}
                       = {g \in Handle : pc[g] \in Refreshing /\ Name(g) = n}
    BY <2>1
  <2> QED
    BY <2>1, <2>2 DEF EveryRefreshCounted
<1>2. ASSUME UNCHANGED <<feed, pc, metrics, clock>> PROVE EveryRefreshCounted'
  BY <1>2 DEF EveryRefreshCounted, Name
<1>3. CASE ContractStep
  BY <1>1, <1>2, <1>3 DEF ContractStep, Cancel, Forget, RemoveOutput
<1>4. CASE UNCHANGED wvars \/ \E n \in Names : Age(n)
  BY <1>4, <1>2 DEF wvars, Age
<1> QED
  BY <1>3, <1>4, CountedStep DEF WorkerNext

(* Every refresh that began is counted once, as ok or as fail, when it ends,
   by whichever path it returns (the deferred RecordRefresh of Refresh). *)
THEOREM RefreshesCounted == WorkerSpec => []EveryRefreshCounted
<1>1. WorkerInit => EveryRefreshCounted
  <2> SUFFICES ASSUME WorkerInit, NEW n \in Names
               PROVE  metrics[n].ok + metrics[n].fail
                        + Cardinality({h \in Handle : pc[h] \in Refreshing /\ Name(h) = n})
                      = clock[n]
    BY DEF EveryRefreshCounted
  <2>1. {h \in Handle : pc[h] \in Refreshing /\ Name(h) = n} = {}
    BY DEF WorkerInit, Refreshing
  <2>2. metrics[n].ok = 0 /\ metrics[n].fail = 0 /\ clock[n] = 0
    BY DEF WorkerInit
  <2> QED
    BY <2>1, <2>2, FS_EmptySet
<1>2. WorkerInv /\ WorkerInv' /\ EveryRefreshCounted /\ [WorkerNext]_wvars
        => EveryRefreshCounted'
  BY CountedNext
<1> QED
  BY <1>1, <1>2, WorkerInvariant, PTL DEF WorkerSpec

(* The status of a live worker is listed, and honest once its files are. *)
StatusOK(h) ==
  Live(h) =>
    /\ Name(h) \in tracked
    /\ pc[h] = "publish" => \A e \in Ext : out[Name(h)][e] = Version(h)
    /\ (status[Name(h)].lastRefreshOK /\ pc[h] \notin {"rename", "publish"})
         => \A e \in Ext :
              /\ out[Name(h)][e].start = status[Name(h)].lastSuccessAt
              /\ out[Name(h)][e].items = status[Name(h)].itemCount
              /\ out[Name(h)][e].items > 0

StatusInv == \A h \in Handle : StatusOK(h)

\* The worker that takes the step.
LEMMA OwnStatus ==
  ASSUME WorkerInv, NEW h \in Handle, StatusOK(h), WorkerStep(h)
  PROVE  StatusOK(h)'
<1> DEFINE n == Name(h)
<1>a. TypeOK /\ HandleInv(h)
  BY DEF WorkerInv
<1>b. feed' = feed /\ pc[h] \notin {"unborn", "exited"} /\ n' = n
  BY <1>a, StepFrame DEF Name
<1>c. n \in Names /\ n \in tracked /\ tracked' = tracked /\ Live(h)
  BY <1>a, <1>b, LiveHasFeed, BooksFrame DEF StatusOK, Live
<1>d. status \in [Names -> Status] /\ status[n] \in Status
  BY <1>a, <1>c DEF TypeOK
<1> HIDE DEF n
<1>1. ASSUME UNCHANGED <<out, status>>,
             pc'[h] # "publish",
             pc[h] \notin {"rename", "publish"}
      PROVE  StatusOK(h)'
  BY <1>1, <1>b, <1>c DEF StatusOK, n
<1>2. ASSUME FailRefresh(h) PROVE StatusOK(h)'
  <2>1. status'[n] = [status[n] EXCEPT !.lastRefreshAt = start[h], !.lastRefreshOK = FALSE]
    BY <1>2, <1>c, <1>d DEF FailRefresh, TrackerUpdate, n
  <2>2. ~status'[n].lastRefreshOK
    BY <2>1, <1>d DEF Status
  <2>3. pc'[h] = "failed"
    BY <1>2, <1>a DEF FailRefresh, Goto, TypeOK
  <2> QED
    BY <2>2, <2>3, <1>b, <1>c DEF StatusOK, n
<1>3. CASE DelayOver(h) \/ DelayCancelled(h) \/ Exit(h) \/ FetchOK(h)
  BY <1>3, <1>1, <1>a DEF DelayOver, DelayCancelled, Exit, FetchOK, Goto, TypeOK
<1>4. CASE FirstRefresh(h) \/ Tick(h)
  BY <1>4, <1>1, <1>a DEF FirstRefresh, Tick, BeginRefresh, Goto, TypeOK
<1>5. CASE FetchOrEnrichFails(h) \/ StageFails(h) \/ RenameFails(h)
  BY <1>5, <1>2 DEF FetchOrEnrichFails, StageFails, RenameFails
<1>6. CASE EnrichOK(h)
  BY <1>6, <1>1, <1>a DEF EnrichOK, Goto, TypeOK
<1>7. CASE HandleEmpty(h)
  BY <1>7, <1>1, <1>2, <1>a DEF HandleEmpty, Goto, TypeOK
<1>8. CASE StageFile(h)
  BY <1>8, <1>1, <1>a DEF StageFile, Goto, TypeOK
<1>9. CASE RenameFile(h)
  <2> DEFINE f == outputFormats[pos[h] + 1]
  <2>1. pos[h] \in 0..2 /\ pc[h] = "rename"
    BY <1>9, <1>a, Formats DEF RenameFile, TypeOK
  <2>2. /\ out'[n] = [out[n] EXCEPT ![f] = Version(h)] /\ Version(h)' = Version(h)
        /\ status' = status
        /\ \/ pos[h] = 2 /\ pc'[h] = "publish"
           \/ pc'[h] = "rename"
    BY <1>9, <2>1, <1>a, <1>c, Formats DEF RenameFile, Goto, TypeOK, Version, n
  <2>3. pos[h] = 2 => \A e \in Ext : out'[n][e] = Version(h)
    <3>1. \A i \in 1..3 : i <= pos[h] => out[n][outputFormats[i]] = Version(h)
      BY <2>1, <1>a DEF HandleInv, Progress, n
    <3>2. out[n] \in [Ext -> File]
      BY <1>a, <1>c DEF TypeOK
    <3> QED
      BY <3>1, <3>2, <2>2, Formats DEF Ext
  <2> QED
    BY <2>2, <2>3, <1>b, <1>c DEF StatusOK, n
<1>10. CASE Publish(h)
  <2>1. /\ pc[h] = "publish" /\ pc'[h] \notin {"rename", "publish"}
        /\ UNCHANGED <<out, items>>
    BY <1>10, <1>a DEF Publish, Goto, TypeOK
  <2>2. \A e \in Ext : out[n][e].start = start[h] /\ out[n][e].items = items[h]
    BY <2>1, <1>c DEF StatusOK, Version, n
  <2>3. CASE items[h] = 0
    <3>1. status'[n] = [status[n] EXCEPT !.lastRefreshAt = start[h],
                                          !.lastRefreshOK = FALSE, !.itemCount = 0]
      BY <2>3, <1>10, <1>c, <1>d DEF Publish, TrackerUpdate, n
    <3>2. ~status'[n].lastRefreshOK
      BY <3>1, <1>d DEF Status
    <3> QED
      BY <3>2, <2>1, <1>b, <1>c DEF StatusOK, n
  <2>4. CASE items[h] # 0
    <3>1. status'[n] = [lastRefreshAt |-> start[h], lastSuccessAt |-> start[h],
                        lastRefreshOK |-> TRUE, itemCount |-> items[h]]
      BY <2>4, <1>10, <1>c, <1>d DEF Publish, TrackerUpdate, n
    <3>2. items[h] \in Nat /\ items[h] > 0
      BY <2>4, <1>a, WorkerAssumption DEF TypeOK
    <3> QED
      BY <3>1, <3>2, <2>1, <2>2, <1>b, <1>c DEF StatusOK, n
  <2> QED
    BY <2>3, <2>4
<1>11. CASE RecordRefreshSuccess(h) \/ RecordRefresh(h)
  BY <1>11, <1>1, <1>a DEF RecordRefreshSuccess, RecordRefresh, Goto, TypeOK
<1> QED
  BY <1>3, <1>4, <1>5, <1>6, <1>7, <1>8, <1>9, <1>10, <1>11
  DEF WorkerStep, RefreshStep

LEMMA StatusStep ==
  ASSUME WorkerInv, StatusInv, [WorkerNext]_wvars
  PROVE  StatusInv'
<1>a. TypeOK /\ SingleWriter
  BY DEF WorkerInv
<1>1. ASSUME NEW h \in Handle, WorkerStep(h) PROVE StatusInv'
  <2>1. StatusOK(h)'
    BY <1>1, OwnStatus DEF StatusInv
  <2>2. ASSUME NEW g \in Handle, g # h PROVE StatusOK(g)'
    <3>1. /\ feed' = feed /\ pc[h] \notin {"unborn", "exited"}
          /\ pc'[g] = pc[g] /\ start'[g] = start[g] /\ items'[g] = items[g]
          /\ \A n \in Names \ {Name(h)} : out'[n] = out[n]
      BY <1>1, <1>a, <2>2, StepFrame
    <3>2. tracked' = tracked /\ \A n \in Names \ {Name(h)} : status'[n] = status[n]
      BY <1>1, <1>a, BooksFrame
    <3>3. SUFFICES ASSUME Live(g) PROVE StatusOK(g)'
      BY <3>1 DEF StatusOK, Live
    <3>4. Name(g) \in Names \ {Name(h)} /\ Name(g)' = Name(g)
      BY <3>1, <3>3, <1>a, <2>2, LiveHasFeed DEF SingleWriter, Live, Name
    <3>5. out'[Name(g)] = out[Name(g)] /\ status'[Name(g)] = status[Name(g)]
      BY <3>1, <3>2, <3>4
    <3>6. StatusOK(g) /\ Version(g)' = Version(g)
      BY <3>1 DEF StatusInv, Version
    <3> QED
      BY <3>1, <3>2, <3>3, <3>4, <3>5, <3>6 DEF StatusOK, Live
  <2> QED
    BY <2>1, <2>2 DEF StatusInv
<1>2. ASSUME NEW h \in Handle, NEW f \in Feeds, NEW d \in BOOLEAN,
             NEW c \in BOOLEAN, NoLiveWorker(f.name), Launch(h, f, d, c)
      PROVE  StatusInv'
  <2>1. /\ UNCHANGED <<start, items, out>> /\ tracked' = tracked \cup {f.name}
        /\ pc'[h] \in {"delay", "begin"} /\ Name(h)' = f.name
        /\ f.name \in Names /\ status'[f.name] = FreshStatus
        /\ \A n \in Names \ {f.name} : status'[n] = status[n]
        /\ \A g \in Handle \ {h} : pc'[g] = pc[g] /\ Name(g)' = Name(g)
    BY <1>2, <1>a, WorkerAssumption DEF Launch, Goto, TypeOK, Name
  <2>2. StatusOK(h)'
    BY <2>1 DEF StatusOK, FreshStatus
  <2>3. ASSUME NEW g \in Handle, g # h PROVE StatusOK(g)'
    <3>1. StatusOK(g) /\ Version(g)' = Version(g)
      BY <2>1 DEF StatusInv, Version
    <3>2. SUFFICES ASSUME Live(g) PROVE StatusOK(g)'
      BY <2>1, <2>3 DEF StatusOK, Live
    <3>3. Name(g) \in Names \ {f.name}
      BY <3>2, <1>2, <1>a, LiveHasFeed DEF NoLiveWorker, Live
    <3> QED
      BY <3>1, <3>2, <3>3, <2>1, <2>3 DEF StatusOK, Live
  <2> QED
    BY <2>2, <2>3 DEF StatusInv
<1>3. ASSUME UNCHANGED <<feed, pc, start, items, out, tracked, status>>
      PROVE  StatusInv'
  BY <1>3 DEF StatusInv, StatusOK, Live, Name, Version
<1>4. ASSUME NEW n \in Names, NoLiveWorker(n),
             Forget(n) \/ \E e \in Ext : RemoveOutput(n, e)
      PROVE  StatusInv'
  <2>1. /\ UNCHANGED <<feed, pc, start, items>>
        /\ tracked' \in {tracked, tracked \ {n}}
        /\ \A m \in Names \ {n} : out'[m] = out[m] /\ status'[m] = status[m]
    BY <1>4, <1>a DEF Forget, RemoveOutput, TypeOK
  <2>2. ASSUME NEW g \in Handle, Live(g) PROVE Name(g) \in Names \ {n}
    BY <2>2, <1>4, <1>a, LiveHasFeed DEF NoLiveWorker, Live
  <2>3. ASSUME NEW g \in Handle PROVE StatusOK(g)'
    <3>1. StatusOK(g) /\ Version(g)' = Version(g) /\ Name(g)' = Name(g) /\ (Live(g)' <=> Live(g))
      BY <2>1 DEF StatusInv, Version, Name, Live
    <3> QED
      BY <3>1, <2>1, <2>2 DEF StatusOK
  <2> QED
    BY <2>3 DEF StatusInv
<1>5. CASE ContractStep
  <2>1. ASSUME NEW H, Cancel(H) PROVE StatusInv'
    BY <2>1, <1>3 DEF Cancel
  <2> QED
    BY <1>2, <1>4, <1>5, <2>1 DEF ContractStep
<1>6. CASE UNCHANGED wvars \/ \E n \in Names : Age(n)
  BY <1>6, <1>3 DEF wvars, Age
<1> QED
  BY <1>1, <1>5, <1>6 DEF WorkerNext

LEMMA StatusInvariant == WorkerSpec => []StatusInv
<1>1. WorkerInit => StatusInv
  BY DEF WorkerInit, StatusInv, StatusOK, Live
<1>2. WorkerInv /\ StatusInv /\ [WorkerNext]_wvars => StatusInv'
  BY StatusStep
<1> QED
  BY <1>1, <1>2, WorkerInvariant, PTL DEF WorkerSpec

(* While /feeds.json says that the last refresh of a feed succeeded, all three
   formats on disk are that refresh's, with that many items, unless a later
   one is between its renames and its Tracker update (Refresh, writeOutputs). *)
THEOREM HonestStatus == WorkerSpec => []StatusMatchesDisk
<1>1. StatusInv => StatusMatchesDisk
  BY DEF StatusInv, StatusOK, StatusMatchesDisk
<1> QED
  BY <1>1, StatusInvariant, PTL

=============================================================================
