----------------------------- MODULE FileCache ------------------------------
(***************************************************************************)
(* The article cache of internal/filecache/filecache.go: one file per key, *)
(* whose modification time is its age.  There is no lock; Get and Set run  *)
(* in the goroutines that extract articles, Purge in main's janitor, and   *)
(* what they see of each other is what the file system shows between two   *)
(* system calls, so that each call is split into those.  The process may  *)
(* be killed between any two of them and started again.                    *)
(* Operators called Faulty... are mistaken variants, as in module Worker.  *)
(***************************************************************************)
EXTENDS Naturals, FiniteSets

CONSTANTS
  Keys,
  Fetchers,   \* goroutines that call Get and Set
  Janitor,    \* the one that calls Purge
  NoKey,
  MaxSets,    \* bound: calls of Set that get as far as a temporary file
  MaxCrashes  \* bound: times the process is killed

ASSUME CacheAssumption ==
  /\ Janitor \notin Fetchers
  /\ NoKey \notin Keys
  /\ MaxSets \in Nat
  /\ MaxCrashes \in Nat

VARIABLES
  file,     \* file[k]: the file of key k, NoFile if there is none
  expired,  \* files that are older than CACHE_TTL by now
  oversize, \* files that are larger than maxBytes
  temps,    \* temporary files on disk
  made,     \* files ever created
  pc,       \* where each goroutine stands
  key,      \* the key it works on
  seen,     \* the file it looked at, opened or made
  value,    \* what it has read
  stale,    \* files that were expired when its call began
  names,    \* the keys whose directory entries Purge has still to look at
  dots,     \* the temporary files among them
  kept,     \* ghost: expired files that it could not look at or remove
  orphans,  \* ghost: temporary files whose Set is over
  crashes   \* times the process was killed

vars == <<file, expired, oversize, temps, made, pc, key, seen, value, stale,
          names, dots, kept, orphans, crashes>>

sweep == <<names, dots, kept>>
past == <<orphans, crashes>>

(* Files are numbered in the order in which they are created.  A file never
   changes once it has its final name, so its number stands for its content. *)
NoFile == 0
Files == 1..MaxSets
Proc == Fetchers \cup {Janitor}

(* What a caller gets of a file: all of it, which is told apart by whether it
   is too large for Get, or only its beginning. *)
Entry(f) == <<f, f \in oversize>>
NoEntry == <<NoFile, FALSE>>
Part == <<NoFile, TRUE>>

TypeOK ==
  /\ file \in [Keys -> Files \cup {NoFile}]
  /\ expired \subseteq Files /\ oversize \subseteq Files /\ temps \subseteq Files
  /\ made \in 0..MaxSets
  /\ pc \in [Proc -> {"idle", "open", "read", "hit", "evict", "write",
                      "rename", "scan", "remove"}]
  /\ key \in [Proc -> Keys \cup {NoKey}]
  /\ seen \in [Proc -> Files \cup {NoFile}]
  /\ value \in [Proc -> (Files \cup {NoFile}) \X BOOLEAN]
  /\ stale \in [Proc -> SUBSET Files]
  /\ names \subseteq Keys
  /\ dots \subseteq Files /\ kept \subseteq Files /\ orphans \subseteq Files
  /\ crashes \in 0..MaxCrashes
  /\ \A p \in Proc : pc[p] \notin {"idle", "scan"} =>
       key[p] \in Keys /\ seen[p] \in Files

Init ==
  /\ file = [k \in Keys |-> NoFile]
  /\ expired = {} /\ oversize = {} /\ temps = {}
  /\ made = 0
  /\ pc = [p \in Proc |-> "idle"]
  /\ key = [p \in Proc |-> NoKey]
  /\ seen = [p \in Proc |-> NoFile]
  /\ value = [p \in Proc |-> NoEntry]
  /\ stale = [p \in Proc |-> {}]
  /\ names = {} /\ dots = {} /\ kept = {} /\ orphans = {}
  /\ crashes = 0

\* The path of k can be looked up: no fs.ErrNotExist.
Exists(k) == file[k] # NoFile

Goto(p, l) == pc' = [pc EXCEPT ![p] = l]

\* The call of p is over: its local variables are gone.
Return(p) ==
  /\ Goto(p, "idle")
  /\ key' = [key EXCEPT ![p] = NoKey]
  /\ seen' = [seen EXCEPT ![p] = NoFile]
  /\ value' = [value EXCEPT ![p] = NoEntry]
  /\ stale' = [stale EXCEPT ![p] = {}]

\* os.Remove of the path of k, whatever file has it now; errors are ignored.
Remove(k) == file' \in {file, [file EXCEPT ![k] = NoFile]}

(* Time passes: any cached or forgotten file may reach its time to live.  A
   Set is assumed to be quicker than that. *)
Expire(f) ==
  /\ f \in orphans \cap temps \/ \E k \in Keys : file[k] = f
  /\ expired' = expired \cup {f}
  /\ UNCHANGED <<file, oversize, temps, made, pc, key, seen, value, stale, sweep, past>>

-----------------------------------------------------------------------------
(* Get. *)

FaultyUsable(f) == f \notin oversize
Usable(f) == f \notin expired \cup oversize

\* os.Stat: a miss at once, a file to be evicted, or one to be opened.
GetStat(p, k) ==
  /\ pc[p] = "idle"
  /\ Exists(k)
  /\ Goto(p, IF Usable(file[k]) THEN "open" ELSE "evict")
  /\ key' = [key EXCEPT ![p] = k]
  /\ seen' = [seen EXCEPT ![p] = file[k]]
  /\ stale' = [stale EXCEPT ![p] = expired]
  /\ UNCHANGED <<file, expired, oversize, temps, made, value, sweep, past>>

\* The file is too old or too large: a miss.
Evict(p) ==
  /\ pc[p] = "evict"
  /\ Remove(key[p])
  /\ Return(p)
  /\ UNCHANGED <<expired, oversize, temps, made, sweep, past>>

FaultyOpen(p) ==
  /\ pc[p] = "open"
  /\ Goto(p, "read")
  /\ UNCHANGED <<file, expired, oversize, temps, made, key, seen, value, stale, sweep, past>>

\* os.Open of the path: possibly a newer file by now; a miss if it is not
\* there any more or cannot be opened.
Open(p) ==
  /\ pc[p] = "open"
  /\ \/ /\ Exists(key[p])
        /\ Goto(p, "read")
        /\ seen' = [seen EXCEPT ![p] = file[key[p]]]
        /\ UNCHANGED <<key, value, stale>>
     \/ Return(p)
  /\ UNCHANGED <<file, expired, oversize, temps, made, sweep, past>>

\* io.LimitReader: nobody looks at the size of the file that was opened, and
\* of one that is too large the first maxBytes are taken for all of it.
ReadAll(f) == IF f \in oversize THEN Part ELSE Entry(f)

\* The read fails, which is a miss, or brings a hit.
Read(p) ==
  /\ pc[p] = "read"
  /\ \/ Return(p)
     \/ /\ Goto(p, "hit")
        /\ value' = [value EXCEPT ![p] = ReadAll(seen[p])]
        /\ UNCHANGED <<key, seen, stale>>
  /\ UNCHANGED <<file, expired, oversize, temps, made, sweep, past>>

GetReturn(p) ==
  /\ pc[p] = "hit"
  /\ Return(p)
  /\ UNCHANGED <<file, expired, oversize, temps, made, sweep, past>>

-----------------------------------------------------------------------------
(* Set. *)

\* os.CreateTemp; the value may turn out larger than Get will accept.
CreateTemp(p, k) ==
  /\ pc[p] = "idle"
  /\ made < MaxSets
  /\ made' = made + 1
  /\ temps' = temps \cup {made + 1}
  /\ \E big \in BOOLEAN :
       oversize' = IF big THEN oversize \cup {made + 1} ELSE oversize
  /\ Goto(p, "write")
  /\ key' = [key EXCEPT ![p] = k]
  /\ seen' = [seen EXCEPT ![p] = made + 1]
  /\ UNCHANGED <<file, expired, value, stale, sweep, past>>

WriteClose(p) ==
  /\ pc[p] = "write"
  /\ Goto(p, "rename")
  /\ UNCHANGED <<file, expired, oversize, temps, made, key, seen, value, stale, sweep, past>>

FaultyCleanup(p) == UNCHANGED <<temps, orphans>>

\* The deferred os.Remove; if it fails too nobody knows the file any more.
Cleanup(p) ==
  \/ temps' = temps \ {seen[p]} /\ UNCHANGED orphans
  \/ orphans' = orphans \cup {seen[p]} /\ UNCHANGED temps

\* Writing, closing or renaming fails.
SetFails(p) ==
  /\ pc[p] \in {"write", "rename"}
  /\ Cleanup(p)
  /\ Return(p)
  /\ UNCHANGED <<file, expired, oversize, made, sweep, crashes>>

Rename(p) ==
  /\ pc[p] = "rename"
  /\ file' = [file EXCEPT ![key[p]] = seen[p]]
  /\ temps' = temps \ {seen[p]}
  /\ Return(p)
  /\ UNCHANGED <<expired, oversize, made, sweep, past>>

-----------------------------------------------------------------------------
(* Purge.  Temporary files are listed as well, but those of a Set in progress
   are younger than the time to live. *)

FaultyDotfiles == {}
Dotfiles == temps

\* The cutoff is taken, then the directory is read; if that fails Purge ends
\* at once and has done nothing.
ReadDir ==
  /\ pc[Janitor] = "idle"
  /\ names' = {k \in Keys : Exists(k)}
  /\ dots' = Dotfiles
  /\ stale' = [stale EXCEPT ![Janitor] = expired]
  /\ Goto(Janitor, "scan")
  /\ UNCHANGED <<file, expired, oversize, temps, made, key, seen, value, kept, past>>

FaultyBeforeCutoff(f) == f \notin stale[Janitor]
BeforeCutoff(f) == f \in stale[Janitor]

\* A call for f fails, and Purge goes on to the next entry.
Keep(f) == kept' = kept \cup ({f} \cap stale[Janitor])

\* e.Info: vanished, too young, or to be removed.
Info(k) ==
  /\ pc[Janitor] = "scan"
  /\ k \in names
  /\ IF Exists(k) /\ BeforeCutoff(file[k])
     THEN /\ Goto(Janitor, "remove")
          /\ key' = [key EXCEPT ![Janitor] = k]
          /\ seen' = [seen EXCEPT ![Janitor] = file[k]]
          /\ UNCHANGED names
     ELSE /\ names' = names \ {k}
          /\ UNCHANGED <<pc, key, seen>>
  /\ UNCHANGED <<file, expired, oversize, temps, made, value, stale, dots, kept, past>>

InfoFails(k) ==
  /\ pc[Janitor] = "scan"
  /\ k \in names
  /\ names' = names \ {k}
  /\ Keep(file[k])
  /\ UNCHANGED <<file, expired, oversize, temps, made, pc, key, seen, value, stale, dots, past>>

PurgeRemove ==
  /\ pc[Janitor] = "remove"
  /\ Remove(key[Janitor])
  /\ Keep(file'[key[Janitor]])
  /\ names' = names \ {key[Janitor]}
  /\ Goto(Janitor, "scan")
  /\ key' = [key EXCEPT ![Janitor] = NoKey]
  /\ seen' = [seen EXCEPT ![Janitor] = NoFile]
  /\ UNCHANGED <<expired, oversize, temps, made, value, stale, dots, past>>

(* The same for a temporary file: nobody else knows its name any more if it
   is old enough to be removed. *)
InfoTemp(f) ==
  /\ pc[Janitor] = "scan"
  /\ f \in dots
  /\ dots' = dots \ {f}
  /\ \/ /\ temps' = IF BeforeCutoff(f) THEN temps \ {f} ELSE temps
        /\ UNCHANGED kept
     \/ Keep(f) /\ UNCHANGED temps
  /\ UNCHANGED <<file, expired, oversize, made, pc, key, seen, value, stale, names, past>>

PurgeEnd ==
  /\ pc[Janitor] = "scan"
  /\ names = {} /\ dots = {}
  /\ Return(Janitor)
  /\ kept' = {}
  /\ UNCHANGED <<file, expired, oversize, temps, made, names, dots, past>>

-----------------------------------------------------------------------------
(* The process is killed and started again: every call is gone and the disk
   stays as it is, with the temporary files of the calls of Set. *)
Crash ==
  /\ crashes < MaxCrashes
  /\ crashes' = crashes + 1
  /\ orphans' = temps
  /\ pc' = [p \in Proc |-> "idle"]
  /\ key' = [p \in Proc |-> NoKey]
  /\ seen' = [p \in Proc |-> NoFile]
  /\ value' = [p \in Proc |-> NoEntry]
  /\ stale' = [p \in Proc |-> {}]
  /\ names' = {} /\ dots' = {} /\ kept' = {}
  /\ UNCHANGED <<file, expired, oversize, temps, made>>

PurgeStep ==
  \/ \E k \in Keys : Info(k) \/ InfoFails(k)
  \/ \E f \in Files : InfoTemp(f)
  \/ PurgeRemove \/ PurgeEnd

Next ==
  \/ \E f \in Files : Expire(f)
  \/ \E p \in Fetchers :
       \/ \E k \in Keys : GetStat(p, k) \/ CreateTemp(p, k)
       \/ Evict(p) \/ Open(p) \/ Read(p) \/ GetReturn(p)
       \/ WriteClose(p) \/ SetFails(p) \/ Rename(p)
  \/ ReadDir \/ PurgeStep
  \/ Crash

Spec == Init /\ [][Next]_vars

(* Files grow old, and the ticker of JANITOR_INTERVAL, if it is not zero,
   keeps calling Purge, which is a loop over one listing.  Calls may fail, but
   one that is made again in every Purge succeeds in the end. *)
Fairness ==
  /\ \A f \in Files : WF_vars(Expire(f)) /\ SF_vars(InfoTemp(f) /\ temps' # temps)
  /\ WF_vars(ReadDir) /\ WF_vars(PurgeStep)

(* The promise the extractor relies on: a map that may lose entries.  A hit
   takes effect when its file is opened, a Set when its file is renamed. *)
C == INSTANCE Cache WITH
       Entries <- Files \X BOOLEAN,
       Large <- Files \X {TRUE},
       Callers <- Fetchers,
       None <- NoEntry,
       store <- [k \in Keys |-> Entry(file[k])],
       got <- [p \in Fetchers |->
                 IF pc[p] = "read" THEN <<key[p], ReadAll(seen[p])>>
                 ELSE IF pc[p] = "hit" THEN <<key[p], value[p]>> ELSE <<>>]

-----------------------------------------------------------------------------
(* What Get is about to return was not expired when it was called: it is the
   file it found to be young enough, or one that was stored since then. *)
HitWasFresh ==
  \A p \in Fetchers : pc[p] \in {"read", "hit"} => seen[p] \notin stale[p]

(* A temporary file belongs to a Set in progress, on each of its paths,
   unless the process was killed or the file could not be removed. *)
NoStrayTemp ==
  temps \ orphans = {seen[p] : p \in {q \in Fetchers : pc[q] \in {"write", "rename"}}}

(* When a Purge that could list the directory returns, no file that was
   expired when it was called is left, whatever Get, Set and other evictions
   did to the directory meanwhile, and no temporary file of an earlier life of
   the process either - but for those whose own Info or Remove failed, which
   Purge passes over. *)
PurgeIsComplete ==
  [][(pc[Janitor] = "scan" /\ pc'[Janitor] = "idle" /\ crashes' = crashes) =>
       /\ temps \cap stale[Janitor] \subseteq kept
       /\ \A k \in Keys : file[k] \in stale[Janitor] => file[k] \in kept]_vars

(* A temporary file left behind by a crash, or by a Set that could not remove
   it, does not stay for ever: the janitor finds it once it is older than
   CACHE_TTL. *)
OrphansAreSwept ==
  \A f \in Files : f \in orphans ~> f \notin temps

(* Get, Set and Purge together implement the cache the extractor relies on:
   between any two system calls, and across a crash, the directory is a map
   from keys to entries, and a hit is an entry that the map had for that key
   while Get ran - never one that was already lost when it was opened, never
   a half-written one, but only the beginning of one that is too large and was
   stored between Get's look at the size and its opening of the file. *)
ImplementsCache == C!CacheSpec

(* A file that is neither expired nor oversize is lost only to a caller that
   found an unusable one under the same path, and between whose two system
   calls it was stored. *)
LossNeedsRace ==
  [][\A k \in Keys :
       (file[k] \notin expired \cup oversize \cup {NoFile} /\ file'[k] = NoFile) =>
         \E p \in Proc : key[p] = k /\ pc[p] \in {"evict", "remove"}
                         /\ seen[p] # file[k]]_vars

=============================================================================
