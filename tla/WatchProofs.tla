---------------------------- MODULE WatchProofs -----------------------------
(***************************************************************************)
(* Proofs about Watch, for any set of feed lists and any number of writes  *)
(* to the configuration file.                                              *)
(***************************************************************************)
EXTENDS Watch, TLAPS

(* What the watcher has seen is not newer than the file, and what it has, or
   is about to apply, is the file it has seen, unless a save is missed. *)
SeenInv ==
  /\ last <= stamp
  /\ wpc = "boot-apply" => loaded = disk \/ missed
  /\ wpc = "baseline" => applied = disk \/ missed
  /\ (wpc = "apply" /\ last = stamp /\ disk \in Lists /\ ~missed) => loaded = disk
  /\ UpToDate

\* Every attempt to load the file has used up a stamp of its own.
ReadInv ==
  /\ wpc \in {"boot", "boot-apply", "baseline"} => reads = 0
  /\ reads <= last
  /\ wpc = "load" => reads + 1 <= last

WatchInv == TypeOK /\ SeenInv /\ ReadInv

LEMMA WatchInit == Init => WatchInv
<1> SUFFICES ASSUME Init PROVE WatchInv
  OBVIOUS
<1>1. TypeOK
  <2>1. stamp \in 1..MaxStamp /\ last \in 0..MaxStamp /\ reads \in Nat
    BY WatchAssumption DEF Init, NoStamp
  <2>2. disk \in Lists /\ saving = NoList /\ loaded = NoList /\ applied = NoList
    BY WatchAssumption DEF Init
  <2>3. ctxDone \in BOOLEAN /\ missed \in BOOLEAN /\ wpc = "boot"
    BY DEF Init
  <2> QED
    BY <2>1, <2>2, <2>3 DEF TypeOK
<1>2. SeenInv /\ ReadInv
  BY DEF Init, SeenInv, ReadInv, UpToDate, NoStamp
<1> QED
  BY <1>1, <1>2 DEF WatchInv

LEMMA EditorStep ==
  ASSUME WatchInv, Editor
  PROVE  WatchInv'
<1>1. ASSUME NEW content \in Lists \cup {Broken}, NEW rest \in Saves \cup {NoList},
             Write(content, rest)
      PROVE  WatchInv'
  <2>1. TypeOK'
    BY <1>1, WatchAssumption DEF WatchInv, TypeOK, Write, pvars
  <2>2. SeenInv'
    <3>1. /\ stamp \in Nat /\ last <= stamp /\ stamp' = stamp + 1
          /\ UNCHANGED <<wpc, last, loaded, applied>>
      BY <1>1 DEF WatchInv, TypeOK, SeenInv, Write, pvars
    <3>a. wpc \in {"boot-apply", "baseline"} => missed'
      BY <1>1 DEF Write
    <3>2. last' # stamp' /\ last' <= stamp'
      BY <3>1 DEF WatchInv, TypeOK
    <3> QED
      BY <3>1, <3>a, <3>2 DEF SeenInv, UpToDate
  <2>3. ReadInv'
    BY <1>1, WatchAssumption DEF WatchInv, TypeOK, ReadInv, Write, pvars
  <2> QED
    BY <2>1, <2>2, <2>3 DEF WatchInv
<1>2. CASE SaveAtOnce
  BY <1>1, <1>2, WatchAssumption DEF SaveAtOnce
<1>3. CASE Truncate
  BY <1>1, <1>3, WatchAssumption DEF Truncate
<1>4. CASE WritePart
  <2>1. PICK content \in Partial[saving] \cup {Broken} : Write(content, saving)
    BY <1>4 DEF WritePart
  <2>2. saving \in Saves
    BY <1>4 DEF WritePart, WatchInv, TypeOK
  <2>3. content \in Lists \cup {Broken}
    BY <2>1, <2>2, WatchAssumption
  <2> QED
    BY <1>1, <2>1, <2>2, <2>3
<1>5. CASE WriteRest
  <2>1. saving \in Saves
    BY <1>5 DEF WriteRest, WatchInv, TypeOK
  <2> QED
    BY <1>1, <1>5, <2>1, WatchAssumption DEF WriteRest
<1> QED
  BY <1>2, <1>3, <1>4, <1>5 DEF Editor

LEMMA ProcessStep ==
  ASSUME WatchInv, Process \/ Signal
  PROVE  WatchInv'
<1> USE DEF WatchInv, TypeOK, SeenInv, ReadInv, UpToDate, LoadOK, fvars
<1>1. CASE BootLoad
  BY <1>1, WatchAssumption DEF BootLoad
<1>2. CASE BootFails
  BY <1>2, WatchAssumption DEF BootFails
<1>3. CASE BootApplied
  BY <1>3, WatchAssumption DEF BootApplied
<1>4. CASE Baseline
  BY <1>4, WatchAssumption DEF Baseline, NoStamp
<1>5. CASE Poll
  BY <1>5, WatchAssumption DEF Poll
<1>6. CASE Reload
  <2>1. missed' = FALSE
    BY <1>6, Zenon DEF Reload
  <2>2. missed' \in BOOLEAN
    BY <2>1
  <2>3. disk \in Lists /\ reads + 1 \in Nat
    BY <1>6, SMT DEF Reload
  <2>4. TypeOK'
    BY <1>6, <2>2, <2>3 DEF Reload
  <2>5. SeenInv' /\ ReadInv'
    BY <1>6 DEF Reload
  <2> QED
    BY <2>4, <2>5
<1>7. CASE ReloadFails
  <2>1. missed' = (disk \in Lists)
    BY <1>7 DEF ReloadFails
  <2>2. TypeOK'
    <3>1. CASE disk \in Lists
      BY <1>7, <2>1, <3>1 DEF ReloadFails
    <3>2. CASE disk \notin Lists
      BY <1>7, <2>1, <3>2 DEF ReloadFails
    <3> QED
      BY <3>1, <3>2
  <2>3. disk' \in Lists => missed'
    BY <1>7, <2>1 DEF ReloadFails
  <2>4. SeenInv' /\ ReadInv'
    BY <1>7, <2>3 DEF ReloadFails
  <2> QED
    BY <2>2, <2>4
<1>8. CASE OnChange
  BY <1>8, WatchAssumption DEF OnChange
<1>9. CASE Signal \/ WatchReturns
  BY <1>9, WatchAssumption DEF Signal, WatchReturns
<1> QED
  BY <1>1, <1>2, <1>3, <1>4, <1>5, <1>6, <1>7, <1>8, <1>9 DEF Process

LEMMA WatchInvariant == Spec => []WatchInv
<1>1. WatchInv /\ UNCHANGED vars => WatchInv'
  BY DEF vars, fvars, pvars, WatchInv, TypeOK, SeenInv, ReadInv, UpToDate
<1>2. WatchInv /\ [Next]_vars => WatchInv'
  BY <1>1, EditorStep, ProcessStep DEF Next
<1> QED
  BY <1>2, WatchInit, PTL DEF Spec

(* Every variable of the file, the process and its watcher keeps its type. *)
THEOREM WatchTypeCorrect == Spec => []TypeOK
BY WatchInvariant, PTL DEF WatchInv

(* A watcher with nothing to do has applied the file that is on disk, however
   saves, reads and Apply were interleaved (Watch notes the stamp before it
   reads), but for a save before its first os.Stat and for failed reads. *)
THEOREM IdleIsUpToDate == Spec => []UpToDate
<1>1. WatchInv => UpToDate
  BY DEF WatchInv, SeenInv
<1> QED
  BY <1>1, WatchInvariant, PTL

(* A file that stays broken is not read at every tick: there is at most one
   attempt to load it for each write to it (lastMod, lastSize). *)
THEOREM ReadsAreBounded == Spec => []OneReadPerWrite
<1>1. WatchInv => OneReadPerWrite
  BY DEF WatchInv, TypeOK, SeenInv, ReadInv, OneReadPerWrite
<1> QED
  BY <1>1, WatchInvariant, PTL

=============================================================================
