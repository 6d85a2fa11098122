------------------------------- MODULE Watch --------------------------------
(***************************************************************************)
(* Live reload: the configuration file, the editor that saves it, and the  *)
(* goroutines of the process that read it - main once at startup           *)
(* (main.go), then Watch of internal/config/watch.go for ever.  What       *)
(* mgr.Apply does with a feed list is the business of module Manager; here *)
(* it is one step that makes the list the applied one.                     *)
(*                                                                         *)
(* The file is a content and a stamp, which stands for the pair of         *)
(* modification time and size: a save is assumed to change at least one of *)
(* the two.  A content is a feed list, or Broken when Load rejects it.     *)
(* Operators called Faulty... are mistaken variants, as in module Worker.  *)
(***************************************************************************)
EXTENDS Naturals

CONSTANTS
  Lists,       \* the feed lists Load can return
  Saves,       \* those among them that somebody saves
  Partial,     \* Partial[l]: lists that a half-written copy of l reads as
  Broken,      \* any content that Load rejects
  NoList,
  MaxStamp,    \* bound: writes to the file, the one before startup included
  EarlyEdits,  \* the file may change between main's Load and Watch's start
  ReadErrors   \* reading a file that is there may fail

ASSUME WatchAssumption ==
  /\ Saves \subseteq Lists
  /\ Partial \in [Saves -> SUBSET Lists]
  /\ Broken \notin Lists /\ NoList \notin Lists
  /\ MaxStamp \in Nat \ {0}
  /\ EarlyEdits \in BOOLEAN /\ ReadErrors \in BOOLEAN

VARIABLES
  disk,     \* what a read of the file returns now
  stamp,    \* modification time and size, as one number
  saving,   \* the list an in-place save is in the middle of writing
  wpc,      \* where main, and then the watcher, stands
  last,     \* lastMod and lastSize
  loaded,   \* the list Load returned
  applied,  \* the list of the latest call of Apply
  reads,    \* loads the watcher has attempted
  ctxDone,  \* the context of main is done
  missed    \* ghost: the stamp hides a list that was never loaded

fvars == <<disk, stamp, saving>>
pvars == <<wpc, last, loaded, applied, reads, ctxDone>>
vars == <<fvars, pvars, missed>>

\* The zero lastMod and lastSize of a watcher whose first os.Stat failed.
NoStamp == 0

TypeOK ==
  /\ disk \in Lists \cup {Broken}
  /\ stamp \in 1..MaxStamp
  /\ saving \in Saves \cup {NoList}
  /\ wpc \in {"boot", "boot-apply", "baseline", "idle", "load", "apply", "done"}
  /\ last \in 0..MaxStamp
  /\ loaded \in Lists \cup {NoList}
  /\ applied \in Lists \cup {NoList}
  /\ reads \in Nat
  /\ ctxDone \in BOOLEAN
  /\ missed \in BOOLEAN

\* The process only gets this far with a file that Load accepts.
Init ==
  /\ disk \in Saves
  /\ stamp = 1
  /\ saving = NoList
  /\ wpc = "boot"
  /\ last = NoStamp
  /\ loaded = NoList
  /\ applied = NoList
  /\ reads = 0
  /\ ctxDone = FALSE
  /\ missed = FALSE

-----------------------------------------------------------------------------
(* The editor. *)

MayEdit == EarlyEdits \/ wpc \notin {"boot", "boot-apply", "baseline"}

\* One write: what the file holds now, and what is still being written.
Write(content, rest) ==
  /\ MayEdit
  /\ stamp < MaxStamp
  /\ disk' = content
  /\ stamp' = stamp + 1
  /\ saving' = rest
  /\ missed' = (missed \/ wpc \in {"boot-apply", "baseline"})
  /\ UNCHANGED pvars

\* A temporary file is renamed over it, or a mistake is saved.
SaveAtOnce ==
  /\ saving = NoList
  /\ \E content \in Saves \cup {Broken} : Write(content, NoList)

\* An in-place save truncates the file; there must be a write left to end it.
Truncate ==
  /\ saving = NoList
  /\ stamp + 1 < MaxStamp
  /\ \E l \in Saves : Write(Broken, l)

WritePart ==
  /\ saving # NoList
  /\ stamp + 1 < MaxStamp
  /\ \E content \in Partial[saving] \cup {Broken} : Write(content, saving)

WriteRest ==
  /\ saving # NoList
  /\ Write(saving, NoList)

-----------------------------------------------------------------------------
(* The process. *)

\* config.Load: os.Stat, os.ReadFile, Unmarshal and normalize.
FaultyLoadOK == TRUE
LoadOK == disk \in Lists
LoadMayFail == disk = Broken \/ ReadErrors

\* main loads the file and applies it before it starts the watcher.
BootLoad ==
  /\ wpc = "boot"
  /\ LoadOK
  /\ loaded' = disk
  /\ wpc' = "boot-apply"
  /\ UNCHANGED <<fvars, last, applied, reads, ctxDone, missed>>

\* main logs the error and exits.
BootFails ==
  /\ wpc = "boot"
  /\ LoadMayFail
  /\ wpc' = "done"
  /\ UNCHANGED <<fvars, last, loaded, applied, reads, ctxDone, missed>>

BootApplied ==
  /\ wpc = "boot-apply"
  /\ applied' = loaded
  /\ wpc' = "baseline"
  /\ UNCHANGED <<fvars, last, loaded, reads, ctxDone, missed>>

\* Watch begins: the file as it is now counts as seen.
Baseline ==
  /\ wpc = "baseline"
  /\ last' \in {stamp} \cup (IF ReadErrors THEN {NoStamp} ELSE {})
  /\ wpc' = "idle"
  /\ UNCHANGED <<fvars, loaded, applied, reads, ctxDone, missed>>

(* A tick finds the file changed.  A tick that finds it unchanged, or that
   cannot os.Stat it, changes nothing.  Which stamp was seen is noted before
   the file is read: an edit in between shows up at the next tick. *)
FaultyPollLeavesBaseline ==
  /\ wpc = "idle"
  /\ stamp # last
  /\ last' = IF disk = Broken THEN last ELSE stamp
  /\ wpc' = "load"
  /\ UNCHANGED <<fvars, loaded, applied, reads, ctxDone, missed>>

Poll ==
  /\ wpc = "idle"
  /\ stamp # last
  /\ last' = stamp
  /\ wpc' = "load"
  /\ UNCHANGED <<fvars, loaded, applied, reads, ctxDone, missed>>

Reload ==
  /\ wpc = "load"
  /\ LoadOK
  /\ loaded' = disk
  /\ reads' = reads + 1
  /\ wpc' = "apply"
  /\ missed' = FALSE
  /\ UNCHANGED <<fvars, last, applied, ctxDone>>

\* Logged and skipped; the previous list stays in force.
ReloadFails ==
  /\ wpc = "load"
  /\ LoadMayFail
  /\ reads' = reads + 1
  /\ wpc' = "idle"
  /\ missed' = LoadOK
  /\ UNCHANGED <<fvars, last, loaded, applied, ctxDone>>

\* onChange, which returns when Apply does.
FaultyOnChangeRestats ==
  /\ wpc = "apply"
  /\ applied' = loaded
  /\ last' = stamp
  /\ wpc' = "idle"
  /\ UNCHANGED <<fvars, loaded, reads, ctxDone, missed>>

OnChange ==
  /\ wpc = "apply"
  /\ applied' = loaded
  /\ wpc' = "idle"
  /\ UNCHANGED <<fvars, last, loaded, reads, ctxDone, missed>>

\* A signal; before Watch runs the context exists already.
Signal ==
  /\ wpc # "boot"
  /\ ~ctxDone
  /\ ctxDone' = TRUE
  /\ UNCHANGED <<fvars, wpc, last, loaded, applied, reads, missed>>

WatchReturns ==
  /\ wpc = "idle"
  /\ ctxDone
  /\ wpc' = "done"
  /\ UNCHANGED <<fvars, last, loaded, applied, reads, ctxDone, missed>>

-----------------------------------------------------------------------------
Editor == SaveAtOnce \/ Truncate \/ WritePart \/ WriteRest

Process ==
  \/ BootLoad \/ BootFails \/ BootApplied
  \/ Baseline \/ Poll \/ Reload \/ ReloadFails \/ OnChange
  \/ WatchReturns

Next == Editor \/ Process \/ Signal

Spec == Init /\ [][Next]_vars

\* The ticker ticks, and a save that was begun is finished.
Fairness ==
  /\ WF_vars(BootLoad \/ BootFails \/ BootApplied \/ Baseline
             \/ Poll \/ Reload \/ ReloadFails \/ OnChange)
  /\ WF_vars(WriteRest)

LiveSpec == Spec /\ Fairness

-----------------------------------------------------------------------------
(* A watcher that has nothing to do is up to date: if the stamp of a valid
   file is the one it has seen, then that file is what was applied last,
   whatever was saved while it was reading or while Apply was running.  There
   are two exceptions and no more: a save between main's Load and the first
   os.Stat of Watch, and a file that was good but could not be read. *)
UpToDate ==
  (wpc = "idle" /\ last = stamp /\ disk \in Lists /\ ~missed) => applied = disk

(* "a persistently broken file is not re-read every tick" (Watch): a write to
   the file is good for one attempt to load it. *)
OneReadPerWrite == reads <= stamp

(* When nobody edits the file any more, and it is valid, it is the list that
   stays applied, but for the two exceptions. *)
ChangesPickedUp ==
  <>[](disk \in Lists => \/ applied = disk
                         \/ ctxDone
                         \/ wpc = "done"
                         \/ missed)

(* "changes are picked up automatically" (README), without exceptions. *)
EveryChangePickedUp ==
  <>[](disk \in Lists => \/ applied = disk
                         \/ ctxDone
                         \/ wpc = "done")

(* A half-written file mid-edit is skipped and the previous config is kept
   (the comment on Watch): only what somebody saved is ever applied. *)
OnlySavedApplied == applied \in Saves \cup {NoList}

=============================================================================
