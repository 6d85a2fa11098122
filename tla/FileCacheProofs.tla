-------------------------- MODULE FileCacheProofs ---------------------------
(***************************************************************************)
(* Proofs about FileCache, for any keys, any number of concurrent callers  *)
(* of Get and Set, and any number of crashes.                              *)
(***************************************************************************)
EXTENDS FileCache, TLAPS

\* Goroutines inside Set.
Writers == {q \in Fetchers : pc[q] \in {"write", "rename"}}

\* Who may stand where.
Roles ==
  /\ \A p \in Fetchers : pc[p] \notin {"scan", "remove"}
  /\ pc[Janitor] \in {"idle", "scan", "remove"}

\* Whatever is known about files is about files that were made.
OldInv ==
  /\ \A f \in Files : f \in expired \cup oversize \cup temps \cup orphans => f <= made
  /\ \A k \in Keys : file[k] <= made
  /\ \A p \in Proc : seen[p] <= made

(* A Set in progress has a temporary file of its own, one that nobody else
   knows and that does not grow old. *)
OwnInv ==
  /\ \A q \in Writers :
       /\ seen[q] \in temps \ (orphans \cup expired)
       /\ \A k \in Keys : file[k] # seen[q]
       /\ \A r \in Writers : r # q => seen[r] # seen[q]
  /\ \A f \in temps \ orphans : \E q \in Writers : seen[q] = f

(* What was expired when a call began stays so, and can only be under a name
   the call still has to look at, or could not look at or remove. *)
AgeInv ==
  /\ \A p \in Proc : stale[p] \subseteq expired
  /\ \A p \in Fetchers :
       /\ pc[p] = "open" => file[key[p]] \notin stale[p]
       /\ pc[p] \in {"read", "hit"} => seen[p] \notin stale[p]
       /\ pc[p] = "evict" => seen[p] \in expired \cup oversize
  /\ pc[Janitor] = "remove" => seen[Janitor] \in stale[Janitor]
  /\ pc[Janitor] # "idle" =>
       /\ \A k \in Keys : file[k] \in stale[Janitor] => k \in names \/ file[k] \in kept
       /\ temps \cap stale[Janitor] \subseteq dots \cup kept

CacheInv == TypeOK /\ Roles /\ OldInv /\ OwnInv /\ AgeInv

\* What a caller can have read.
Values == (Files \cup {NoFile}) \X BOOLEAN

LEMMA ValueTypes ==
  /\ NoEntry \in Values /\ Part \in Values
  /\ \A f \in Files : Entry(f) \in Values /\ ReadAll(f) \in Values
<1>1. \A f \in Files : Entry(f) \in Values
  <2> SUFFICES ASSUME NEW f \in Files PROVE <<f, f \in oversize>> \in Values
    BY DEF Entry
  <2>1. f \in Files \cup {NoFile} /\ (f \in oversize) \in BOOLEAN
    OBVIOUS
  <2> QED
    BY <2>1, Zenon DEF Values
<1>2. NoEntry \in Values /\ Part \in Values
  BY Zenon DEF NoEntry, Part, Values
<1> QED
  BY <1>1, <1>2 DEF ReadAll

LEMMA NotMember ==
  ASSUME NEW f, NEW S, f \notin S
  PROVE  <<f, f \in S>> = <<f, FALSE>>
<1>1. (f \in S) = FALSE
  OBVIOUS
<1> QED
  BY <1>1, Zenon

LEMMA CacheInvInit == Init => CacheInv
<1> SUFFICES ASSUME Init PROVE CacheInv
  OBVIOUS
<1>1. TypeOK
  BY CacheAssumption, ValueTypes DEF Init, TypeOK, Values, Files, NoFile, Proc
<1>2. Roles /\ OldInv /\ OwnInv /\ AgeInv
  BY CacheAssumption
  DEF Init, Roles, OldInv, OwnInv, AgeInv, Writers, Proc, Files, NoFile
<1> QED
  BY <1>1, <1>2 DEF CacheInv

\* The steps of Get.
LEMMA GetSteps ==
  ASSUME CacheInv, NEW p \in Fetchers,
         \/ \E k \in Keys : GetStat(p, k)
         \/ Evict(p) \/ Open(p) \/ Read(p) \/ GetReturn(p)
  PROVE  CacheInv'
<1>a. TypeOK /\ Roles /\ OldInv /\ OwnInv /\ AgeInv /\ p \in Proc /\ p # Janitor
  BY CacheAssumption DEF CacheInv, Proc
<1>1. ASSUME NEW k \in Keys, GetStat(p, k) PROVE CacheInv'
  <2>1. /\ UNCHANGED <<file, expired, oversize, temps, made, value, names, dots, kept,
                        orphans, crashes>>
        /\ pc[p] = "idle" /\ file[k] \in Files
        /\ key' = [key EXCEPT ![p] = k] /\ seen' = [seen EXCEPT ![p] = file[k]]
        /\ stale' = [stale EXCEPT ![p] = expired]
        /\ pc' = [pc EXCEPT ![p] = IF file[k] \notin expired \cup oversize THEN "open" ELSE "evict"]
    BY <1>1, <1>a DEF GetStat, Goto, Usable, Exists, TypeOK, sweep, past
  <2>2. TypeOK'
    BY <2>1, <1>a DEF TypeOK
  <2>3. Roles' /\ OldInv'
    BY <2>1, <1>a DEF TypeOK, Roles, OldInv, Proc
  <2>4. Writers' = Writers /\ \A q \in Writers : seen'[q] = seen[q]
    BY <2>1, <1>a DEF TypeOK, Writers, Proc
  <2>5. OwnInv'
    BY <2>1, <2>4, <1>a DEF OwnInv
  <2>6. AgeInv'
    BY <2>1, <1>a DEF TypeOK, AgeInv, Proc
  <2> QED
    BY <2>2, <2>3, <2>5, <2>6 DEF CacheInv
<1>2. CASE Evict(p)
  <2>1. /\ UNCHANGED <<expired, oversize, temps, made, names, dots, kept, orphans, crashes>>
        /\ pc[p] = "evict" /\ key[p] \in Keys
        /\ value' = [value EXCEPT ![p] = NoEntry]
        /\ key' = [key EXCEPT ![p] = NoKey] /\ seen' = [seen EXCEPT ![p] = NoFile]
        /\ stale' = [stale EXCEPT ![p] = {}] /\ pc' = [pc EXCEPT ![p] = "idle"]
        /\ file' \in {file, [file EXCEPT ![key[p]] = NoFile]}
    BY <1>2, <1>a DEF Evict, Remove, Return, Goto, TypeOK, sweep, past
  <2>2. TypeOK'
    <3>1. value' \in [Proc -> Values]
      <4>1. value \in [Proc -> Values] /\ NoEntry \in Values
        BY <1>a, ValueTypes DEF TypeOK, Values
      <4> QED
        BY <2>1, <4>1
    <3>2. file' \in [Keys -> Files \cup {NoFile}]
      BY <2>1, <1>a DEF TypeOK
    <3> QED
      BY <2>1, <3>1, <3>2, <1>a DEF TypeOK, Values
  <2>3. Roles' /\ OldInv'
    BY <2>1, <1>a DEF TypeOK, Roles, OldInv, Proc, NoFile
  <2>4. Writers' = Writers /\ \A q \in Writers : seen'[q] = seen[q] /\ seen[q] # NoFile
    BY <2>1, <1>a DEF TypeOK, Writers, Proc, Files, NoFile
  <2>5. OwnInv'
    BY <2>1, <2>4, <1>a DEF OwnInv, TypeOK
  <2>6. AgeInv'
    BY <2>1, <1>a DEF TypeOK, AgeInv, Proc, Files, NoFile
  <2> QED
    BY <2>2, <2>3, <2>5, <2>6 DEF CacheInv
<1>3. CASE (Open(p) \/ Read(p)) /\ ~Return(p)
  <2>1. /\ UNCHANGED <<file, expired, oversize, temps, made, key, stale, names, dots, kept,
                        orphans, crashes>>
        /\ key[p] \in Keys /\ seen[p] \in Files
        /\ \/ /\ pc[p] = "open" /\ pc' = [pc EXCEPT ![p] = "read"]
              /\ file[key[p]] \in Files
              /\ seen' = [seen EXCEPT ![p] = file[key[p]]] /\ UNCHANGED value
           \/ /\ pc[p] = "read" /\ pc' = [pc EXCEPT ![p] = "hit"]
              /\ value' = [value EXCEPT ![p] = ReadAll(seen[p])] /\ UNCHANGED seen
    BY <1>3, <1>a DEF Open, Read, Goto, Exists, TypeOK, sweep, past
  <2>2. TypeOK'
    <3>1. value \in [Proc -> Values] /\ ReadAll(seen[p]) \in Values
      BY <2>1, <1>a, ValueTypes DEF TypeOK, Values
    <3>2. value' \in [Proc -> Values]
      BY <2>1, <3>1
    <3>3. seen' \in [Proc -> Files \cup {NoFile}]
      BY <2>1, <1>a DEF TypeOK
    <3>4. \A q \in Proc : pc'[q] \notin {"idle", "scan"} => key'[q] \in Keys /\ seen'[q] \in Files
      BY <2>1, <1>a DEF TypeOK
    <3> QED
      BY <2>1, <3>2, <3>3, <3>4, <1>a DEF TypeOK, Values
  <2>3. Roles' /\ OldInv'
    BY <2>1, <1>a DEF TypeOK, Roles, OldInv, Proc
  <2>4. Writers' = Writers /\ \A q \in Writers : seen'[q] = seen[q]
    BY <2>1, <1>a DEF TypeOK, Writers, Proc
  <2>5. OwnInv'
    BY <2>1, <2>4, <1>a DEF OwnInv
  <2>6. AgeInv'
    BY <2>1, <1>a DEF TypeOK, AgeInv, Proc
  <2> QED
    BY <2>2, <2>3, <2>5, <2>6 DEF CacheInv
<1>4. CASE (Open(p) \/ Read(p) \/ GetReturn(p)) /\ Return(p)
  <2>1. /\ UNCHANGED <<file, expired, oversize, temps, made, names, dots, kept, orphans, crashes>>
        /\ pc[p] \in {"open", "read", "hit"}
        /\ value' = [value EXCEPT ![p] = NoEntry]
        /\ key' = [key EXCEPT ![p] = NoKey] /\ seen' = [seen EXCEPT ![p] = NoFile]
        /\ stale' = [stale EXCEPT ![p] = {}] /\ pc' = [pc EXCEPT ![p] = "idle"]
    BY <1>4, <1>a DEF Open, Read, GetReturn, Return, Goto, sweep, past
  <2>2. TypeOK'
    BY <2>1, <1>a, ValueTypes DEF TypeOK, Values
  <2>3. Roles' /\ OldInv'
    BY <2>1, <1>a DEF TypeOK, Roles, OldInv, Proc, NoFile
  <2>4. Writers' = Writers /\ \A q \in Writers : seen'[q] = seen[q]
    BY <2>1, <1>a DEF TypeOK, Writers, Proc
  <2>5. OwnInv'
    BY <2>1, <2>4, <1>a DEF OwnInv
  <2>6. AgeInv'
    BY <2>1, <1>a DEF TypeOK, AgeInv, Proc
  <2> QED
    BY <2>2, <2>3, <2>5, <2>6 DEF CacheInv
<1>5. GetReturn(p) => Return(p)
  BY DEF GetReturn
<1> QED
  BY <1>1, <1>2, <1>3, <1>4, <1>5

\* The steps of Set.
LEMMA SetSteps ==
  ASSUME CacheInv, NEW p \in Fetchers,
         (\E k \in Keys : CreateTemp(p, k)) \/ WriteClose(p) \/ SetFails(p) \/ Rename(p)
  PROVE  CacheInv'
<1>a. TypeOK /\ Roles /\ OldInv /\ OwnInv /\ AgeInv /\ p \in Proc /\ p # Janitor
  BY CacheAssumption DEF CacheInv, Proc
<1>1. ASSUME NEW k \in Keys, CreateTemp(p, k) PROVE CacheInv'
  <2> DEFINE f == made + 1
  <2>1. /\ UNCHANGED <<file, expired, value, stale, names, dots, kept, orphans, crashes>>
        /\ pc[p] = "idle" /\ f \in Files /\ f \notin expired \cup oversize \cup temps \cup orphans
        /\ made' = f /\ temps' = temps \cup {f}
        /\ oversize \subseteq oversize' /\ oversize' \subseteq oversize \cup {f}
        /\ pc' = [pc EXCEPT ![p] = "write"] /\ key' = [key EXCEPT ![p] = k]
        /\ seen' = [seen EXCEPT ![p] = f]
    BY <1>1, <1>a, CacheAssumption
    DEF CreateTemp, Goto, TypeOK, OldInv, Files, sweep, past
  <2>2. TypeOK'
    BY <2>1, <1>a, CacheAssumption DEF TypeOK, Files
  <2>3. Roles' /\ OldInv'
    BY <2>1, <1>a DEF TypeOK, Roles, OldInv, Proc, Files, NoFile
  <2>4. /\ Writers' = Writers \cup {p} /\ p \notin Writers
        /\ \A q \in Writers : seen'[q] = seen[q] /\ seen[q] # f
        /\ \A c \in Keys : file[c] # f
    BY <2>1, <1>a DEF TypeOK, Writers, Proc, OldInv, Files, NoFile
  <2>5. OwnInv'
    BY <2>1, <2>4, <1>a DEF OwnInv, TypeOK
  <2>6. AgeInv'
    BY <2>1, <1>a DEF TypeOK, AgeInv, Proc
  <2> QED
    BY <2>2, <2>3, <2>5, <2>6 DEF CacheInv
<1>2. CASE WriteClose(p)
  <2>1. /\ UNCHANGED <<file, expired, oversize, temps, made, key, seen, value, stale, names,
                        dots, kept, orphans, crashes>>
        /\ pc[p] = "write" /\ pc' = [pc EXCEPT ![p] = "rename"]
    BY <1>2 DEF WriteClose, Goto, sweep, past
  <2>2. TypeOK'
    BY <2>1, <1>a DEF TypeOK
  <2>3. Roles' /\ OldInv'
    BY <2>1, <1>a DEF TypeOK, Roles, OldInv, Proc
  <2>4. Writers' = Writers
    BY <2>1, <1>a DEF TypeOK, Writers, Proc
  <2>5. OwnInv'
    BY <2>1, <2>4, <1>a DEF OwnInv
  <2>6. AgeInv'
    BY <2>1, <1>a DEF TypeOK, AgeInv, Proc
  <2> QED
    BY <2>2, <2>3, <2>5, <2>6 DEF CacheInv
<1>3. CASE SetFails(p) \/ Rename(p)
  <2>1. /\ UNCHANGED <<expired, oversize, made, names, dots, kept, crashes>>
        /\ p \in Writers /\ key[p] \in Keys /\ seen[p] \in Files
        /\ value' = [value EXCEPT ![p] = NoEntry]
        /\ key' = [key EXCEPT ![p] = NoKey] /\ seen' = [seen EXCEPT ![p] = NoFile]
        /\ stale' = [stale EXCEPT ![p] = {}] /\ pc' = [pc EXCEPT ![p] = "idle"]
        /\ \/ UNCHANGED <<file, temps>> /\ orphans' = orphans \cup {seen[p]}
           \/ /\ temps' = temps \ {seen[p]} /\ UNCHANGED orphans
              /\ file' = file \/ file' = [file EXCEPT ![key[p]] = seen[p]]
    BY <1>3, <1>a
    DEF SetFails, Rename, Cleanup, Return, Goto, TypeOK, Writers, sweep, past
  <2>2. TypeOK'
    BY <2>1, <1>a, ValueTypes DEF TypeOK, Values
  <2>3. Roles' /\ OldInv'
    BY <2>1, <1>a DEF TypeOK, Roles, OldInv, Proc, NoFile
  <2>4. Writers' = Writers \ {p} /\ \A q \in Writers' : seen'[q] = seen[q] /\ seen[q] # seen[p]
    BY <2>1, <1>a DEF TypeOK, Writers, Proc, OwnInv
  <2>5. seen[p] \notin expired \cup orphans /\ \A k \in Keys : file'[k] \in {file[k], seen[p]}
    BY <2>1, <1>a DEF TypeOK, OwnInv
  <2>6. OwnInv'
    <3>1. temps' \ orphans' = (temps \ orphans) \ {seen[p]}
      BY <2>1
    <3>2. temps \ {seen[p]} \subseteq temps' /\ orphans' \subseteq orphans \cup {seen[p]}
      BY <2>1
    <3> QED
      BY <2>1, <2>4, <2>5, <3>1, <3>2, <1>a DEF OwnInv
  <2>7. AgeInv'
    BY <2>1, <2>5, <1>a DEF TypeOK, AgeInv, Proc, Writers
  <2> QED
    BY <2>2, <2>3, <2>6, <2>7 DEF CacheInv
<1> QED
  BY <1>1, <1>2, <1>3

\* The steps of Purge.
LEMMA PurgeSteps ==
  ASSUME CacheInv, ReadDir \/ PurgeStep
  PROVE  CacheInv'
<1>a. TypeOK /\ Roles /\ OldInv /\ OwnInv /\ AgeInv /\ Janitor \in Proc \ Fetchers
  BY CacheAssumption DEF CacheInv, Proc
\* The callers of Get and Set do not notice.
<1>b. ASSUME \A p \in Fetchers : pc'[p] = pc[p] /\ key'[p] = key[p] /\ seen'[p] = seen[p]
      PROVE  Writers' = Writers /\ \A q \in Writers : seen'[q] = seen[q]
  BY <1>b DEF Writers
<1>1. CASE ReadDir
  <2>1. /\ UNCHANGED <<file, expired, oversize, temps, made, key, seen, value, kept, orphans, crashes>>
        /\ pc[Janitor] = "idle" /\ names' = {k \in Keys : Exists(k)} /\ dots' = temps
        /\ stale' = [stale EXCEPT ![Janitor] = expired]
        /\ pc' = [pc EXCEPT ![Janitor] = "scan"]
    BY <1>1 DEF ReadDir, Dotfiles, Goto, past
  <2>2. TypeOK'
    BY <2>1, <1>a DEF TypeOK
  <2>3. Roles' /\ OldInv'
    BY <2>1, <1>a DEF TypeOK, Roles, OldInv, Proc
  <2>4. OwnInv'
    BY <2>1, <1>a, <1>b DEF OwnInv, TypeOK, Proc
  <2>5. AgeInv'
    BY <2>1, <1>a DEF TypeOK, AgeInv, Proc, Exists, Files, NoFile
  <2> QED
    BY <2>2, <2>3, <2>4, <2>5 DEF CacheInv
<1>2. ASSUME NEW k \in Keys, Info(k), Exists(k), BeforeCutoff(file[k])
      PROVE  CacheInv'
  <2>1. /\ UNCHANGED <<file, expired, oversize, temps, made, value, stale, names, dots, kept,
                        orphans, crashes>>
        /\ pc[Janitor] = "scan" /\ file[k] \in stale[Janitor] /\ file[k] \in Files
        /\ key' = [key EXCEPT ![Janitor] = k] /\ seen' = [seen EXCEPT ![Janitor] = file[k]]
        /\ pc' = [pc EXCEPT ![Janitor] = "remove"]
    BY <1>2, <1>a DEF Info, Goto, Exists, BeforeCutoff, TypeOK, past
  <2>2. TypeOK'
    BY <2>1, <1>a DEF TypeOK
  <2>3. Roles' /\ OldInv'
    BY <2>1, <1>a DEF TypeOK, Roles, OldInv, Proc
  <2>4. OwnInv'
    BY <2>1, <1>a, <1>b DEF OwnInv, TypeOK, Proc
  <2>5. AgeInv'
    BY <2>1, <1>a DEF TypeOK, AgeInv, Proc
  <2> QED
    BY <2>2, <2>3, <2>4, <2>5 DEF CacheInv
<1>3. ASSUME NEW k \in Keys,
             InfoFails(k) \/ (Info(k) /\ ~(Exists(k) /\ BeforeCutoff(file[k])))
      PROVE  CacheInv'
  <2>1. /\ UNCHANGED <<file, expired, oversize, temps, made, pc, key, seen, value, stale, dots,
                        orphans, crashes>>
        /\ kept \subseteq kept' /\ kept' \subseteq kept \cup stale[Janitor]
        /\ file[k] \in stale[Janitor] => file[k] \in kept'
        /\ names' = names \ {k}
    BY <1>3, <1>a DEF Info, InfoFails, Keep, Exists, BeforeCutoff, TypeOK, past, Files, NoFile
  <2>2. TypeOK'
    BY <2>1, <1>a DEF TypeOK
  <2>3. Roles' /\ OldInv' /\ OwnInv'
    BY <2>1, <1>a DEF Roles, OldInv, OwnInv, Writers
  <2>4. AgeInv'
    BY <2>1, <1>a DEF AgeInv
  <2> QED
    BY <2>2, <2>3, <2>4 DEF CacheInv
<1>4. ASSUME NEW f \in Files, InfoTemp(f) PROVE CacheInv'
  <2>1. /\ UNCHANGED <<file, expired, oversize, made, pc, key, seen, value, stale, names,
                        orphans, crashes>>
        /\ dots' = dots \ {f}
        /\ \/ /\ temps' = IF f \in stale[Janitor] THEN temps \ {f} ELSE temps
              /\ UNCHANGED kept
           \/ kept' = kept \cup ({f} \cap stale[Janitor]) /\ UNCHANGED temps
    BY <1>4 DEF InfoTemp, BeforeCutoff, Keep, past
  <2>2. TypeOK'
    BY <2>1, <1>a DEF TypeOK
  <2>3. Roles' /\ OldInv'
    BY <2>1, <1>a DEF Roles, OldInv
  <2>4. OwnInv'
    <3>1. f \in stale[Janitor] => \A q \in Writers : seen[q] # f
      BY <1>a DEF OwnInv, AgeInv
    <3> QED
      BY <2>1, <3>1, <1>a DEF OwnInv, Writers
  <2>5. AgeInv'
    BY <2>1, <1>a DEF AgeInv
  <2> QED
    BY <2>2, <2>3, <2>4, <2>5 DEF CacheInv
<1>5. CASE PurgeRemove
  <2>1. /\ UNCHANGED <<expired, oversize, temps, made, value, stale, dots, orphans, crashes>>
        /\ pc[Janitor] = "remove" /\ key[Janitor] \in Keys
        /\ file' \in {file, [file EXCEPT ![key[Janitor]] = NoFile]}
        /\ kept' = kept \cup ({file'[key[Janitor]]} \cap stale[Janitor])
        /\ names' = names \ {key[Janitor]}
        /\ pc' = [pc EXCEPT ![Janitor] = "scan"] /\ key' = [key EXCEPT ![Janitor] = NoKey]
        /\ seen' = [seen EXCEPT ![Janitor] = NoFile]
    BY <1>5, <1>a DEF PurgeRemove, Remove, Keep, Goto, TypeOK, past
  <2>2. TypeOK'
    BY <2>1, <1>a DEF TypeOK
  <2>3. Roles' /\ OldInv'
    BY <2>1, <1>a DEF TypeOK, Roles, OldInv, Proc, NoFile
  <2>4. \A q \in Writers : seen[q] # NoFile
    BY <1>a DEF TypeOK, Writers, Proc, Files, NoFile
  <2>5. OwnInv'
    BY <2>1, <2>4, <1>a, <1>b DEF OwnInv, TypeOK, Proc
  <2>6. AgeInv'
    BY <2>1, <1>a DEF TypeOK, AgeInv, Proc, Files, NoFile
  <2> QED
    BY <2>2, <2>3, <2>5, <2>6 DEF CacheInv
<1>6. CASE PurgeEnd
  <2>1. /\ UNCHANGED <<file, expired, oversize, temps, made, names, dots, orphans, crashes>>
        /\ value' = [value EXCEPT ![Janitor] = NoEntry] /\ kept' = {}
        /\ key' = [key EXCEPT ![Janitor] = NoKey] /\ seen' = [seen EXCEPT ![Janitor] = NoFile]
        /\ stale' = [stale EXCEPT ![Janitor] = {}] /\ pc' = [pc EXCEPT ![Janitor] = "idle"]
    BY <1>6 DEF PurgeEnd, Return, Goto, past
  <2>2. TypeOK'
    BY <2>1, <1>a, ValueTypes DEF TypeOK, Values
  <2>3. Roles' /\ OldInv'
    BY <2>1, <1>a DEF TypeOK, Roles, OldInv, Proc, NoFile
  <2>4. OwnInv'
    BY <2>1, <1>a, <1>b DEF OwnInv, TypeOK, Proc
  <2>5. AgeInv'
    BY <2>1, <1>a DEF TypeOK, AgeInv, Proc
  <2> QED
    BY <2>2, <2>3, <2>4, <2>5 DEF CacheInv
<1> QED
  BY <1>1, <1>2, <1>3, <1>4, <1>5, <1>6 DEF PurgeStep

\* Time passes, or the process is killed.
LEMMA OutsideSteps ==
  ASSUME CacheInv, (\E f \in Files : Expire(f)) \/ Crash
  PROVE  CacheInv'
<1>a. TypeOK /\ Roles /\ OldInv /\ OwnInv /\ AgeInv
  BY DEF CacheInv
<1>1. ASSUME NEW f \in Files, Expire(f) PROVE CacheInv'
  <2>1. /\ UNCHANGED <<file, oversize, temps, made, pc, key, seen, value, stale, names, dots, kept,
                        orphans, crashes>>
        /\ expired' = expired \cup {f} /\ f <= made
        /\ f \in orphans \/ \E k \in Keys : file[k] = f
    BY <1>1, <1>a DEF Expire, OldInv, sweep, past
  <2>2. TypeOK'
    BY <2>1, <1>a DEF TypeOK
  <2>3. Roles' /\ OldInv'
    BY <2>1, <1>a DEF Roles, OldInv
  <2>4. OwnInv'
    BY <2>1, <1>a DEF OwnInv, Writers
  <2>5. AgeInv'
    BY <2>1, <1>a DEF AgeInv
  <2> QED
    BY <2>2, <2>3, <2>4, <2>5 DEF CacheInv
<1>2. CASE Crash
  <2>1. /\ UNCHANGED <<file, expired, oversize, temps, made>>
        /\ pc' = [p \in Proc |-> "idle"] /\ key' = [p \in Proc |-> NoKey]
        /\ seen' = [p \in Proc |-> NoFile] /\ stale' = [p \in Proc |-> {}]
        /\ value' = [p \in Proc |-> NoEntry]
        /\ names' = {} /\ dots' = {} /\ kept' = {} /\ orphans' = temps
        /\ crashes' = crashes + 1 /\ crashes < MaxCrashes
    BY <1>2 DEF Crash
  <2>2. TypeOK'
    BY <2>1, <1>a, CacheAssumption, ValueTypes DEF TypeOK, Values
  <2>3. Roles' /\ OldInv' /\ Writers' = {}
    BY <2>1, <1>a DEF TypeOK, Roles, OldInv, Proc, NoFile, Writers
  <2>4. OwnInv' /\ AgeInv'
    BY <2>1, <2>3 DEF OwnInv, AgeInv, Proc
  <2> QED
    BY <2>2, <2>3, <2>4 DEF CacheInv
<1> QED
  BY <1>1, <1>2

LEMMA CacheInvariant == Spec => []CacheInv
<1>1. CacheInv /\ UNCHANGED vars => CacheInv'
  BY DEF CacheInv, TypeOK, Roles, OldInv, OwnInv, AgeInv, Writers, vars, sweep, past
<1>2. CacheInv /\ [Next]_vars => CacheInv'
  BY <1>1, GetSteps, SetSteps, PurgeSteps, OutsideSteps DEF Next
<1> QED
  BY CacheInvInit, <1>2, PTL DEF Spec

(* Every variable of the cache, its callers and the janitor keeps its type. *)
THEOREM FileCacheTypeCorrect == Spec => []TypeOK
<1>1. CacheInv => TypeOK
  BY DEF CacheInv
<1> QED
  BY <1>1, CacheInvariant, PTL

(* What Get returns was not expired when it was called (Get). *)
THEOREM HitsAreFresh == Spec => []HitWasFresh
<1>1. CacheInv => HitWasFresh
  BY DEF CacheInv, AgeInv, HitWasFresh
<1> QED
  BY <1>1, CacheInvariant, PTL

(* Every temporary file is that of a Set in progress, or was left behind by a
   crash or a failed removal (the deferred cleanup of Set). *)
THEOREM TempsAreOwned == Spec => []NoStrayTemp
<1>1. CacheInv => NoStrayTemp
  BY DEF CacheInv, OwnInv, Writers, NoStrayTemp
<1> QED
  BY <1>1, CacheInvariant, PTL

(* Purge leaves nothing that was expired when it was called but what it could
   not look at or remove, whoever changes the directory it walks (Purge). *)
THEOREM PurgeCompletes == Spec => PurgeIsComplete
<1>1. ASSUME CacheInv, [Next]_vars, pc[Janitor] = "scan", pc'[Janitor] = "idle",
             crashes' = crashes
      PROVE  /\ temps \cap stale[Janitor] \subseteq kept
             /\ \A k \in Keys : file[k] \in stale[Janitor] => file[k] \in kept
  <2>a. TypeOK /\ AgeInv /\ Janitor \in Proc \ Fetchers
    BY <1>1, CacheAssumption DEF CacheInv, Proc
  <2>1. ASSUME pc'[Janitor] = pc[Janitor] PROVE FALSE
    BY <1>1, <2>1
  <2>2. ASSUME NEW p \in Fetchers, NEW l, pc' = [pc EXCEPT ![p] = l] PROVE FALSE
    BY <2>a, <2>2, <2>1 DEF TypeOK
  <2>3. ~(\E f \in Files : Expire(f)) /\ pc' # pc
    BY <2>1 DEF Expire
  <2>4. ASSUME NEW p \in Fetchers,
               \/ \E k \in Keys : GetStat(p, k) \/ CreateTemp(p, k)
               \/ Evict(p) \/ Open(p) \/ Read(p) \/ GetReturn(p)
               \/ WriteClose(p) \/ SetFails(p) \/ Rename(p)
        PROVE  FALSE
    BY <2>2, <2>4 DEF GetStat, CreateTemp, Evict, Open, Read, GetReturn, WriteClose,
       SetFails, Rename, Return, Goto
  <2>5. ~Crash
    BY <1>1, <2>a, CacheAssumption DEF Crash, TypeOK
  <2>6. ~ReadDir
    BY <1>1, <2>a DEF ReadDir
  <2>7. /\ ~(\E k \in Keys : Info(k) \/ InfoFails(k))
        /\ ~(\E f \in Files : InfoTemp(f)) /\ ~PurgeRemove
    BY <1>1, <2>a DEF Info, InfoFails, InfoTemp, PurgeRemove, Goto, TypeOK
  <2>8. PurgeEnd
    BY <1>1, <2>3, <2>4, <2>5, <2>6, <2>7 DEF Next, PurgeStep, vars
  <2> QED
    BY <2>8, <2>a DEF PurgeEnd, AgeInv
<1>2. CacheInv /\ [Next]_vars =>
        [(pc[Janitor] = "scan" /\ pc'[Janitor] = "idle" /\ crashes' = crashes) =>
           /\ temps \cap stale[Janitor] \subseteq kept
           /\ \A k \in Keys : file[k] \in stale[Janitor] => file[k] \in kept]_vars
  BY <1>1
<1> QED
  BY <1>2, CacheInvariant, PTL DEF Spec, PurgeIsComplete

(* A good file is lost only to a caller that saw a bad one under its name
   before the good one was stored (Get's and Purge's os.Remove). *)
THEOREM LossIsARace == Spec => LossNeedsRace
<1>1. ASSUME CacheInv, [Next]_vars, NEW k \in Keys,
             file[k] \notin expired \cup oversize \cup {NoFile}, file'[k] = NoFile
      PROVE  \E p \in Proc : key[p] = k /\ pc[p] \in {"evict", "remove"}
                             /\ seen[p] # file[k]
  <2>a. TypeOK /\ AgeInv /\ Janitor \in Proc /\ Fetchers \subseteq Proc
    BY <1>1 DEF CacheInv, Proc
  <2>1. file' # file
    BY <1>1
  <2>2. ASSUME NEW p \in Fetchers, Evict(p)
        PROVE  key[p] = k /\ pc[p] = "evict" /\ seen[p] # file[k]
    BY <1>1, <2>2, <2>a DEF Evict, Remove, TypeOK, AgeInv
  <2>3. ASSUME NEW p \in Fetchers, Rename(p) PROVE FALSE
    BY <1>1, <2>3, <2>a DEF Rename, TypeOK, Files, NoFile
  <2>4. ASSUME PurgeRemove
        PROVE  key[Janitor] = k /\ pc[Janitor] = "remove" /\ seen[Janitor] # file[k]
    BY <1>1, <2>4, <2>a DEF PurgeRemove, Remove, TypeOK, AgeInv
  <2>5. ASSUME NEW p \in Fetchers,
               \/ \E c \in Keys : GetStat(p, c) \/ CreateTemp(p, c)
               \/ Open(p) \/ Read(p) \/ GetReturn(p) \/ WriteClose(p) \/ SetFails(p)
        PROVE  FALSE
    BY <2>1, <2>5 DEF GetStat, CreateTemp, Open, Read, GetReturn, WriteClose, SetFails
  <2>6. ~(\E f \in Files : Expire(f) \/ InfoTemp(f)) /\ ~Crash /\ ~ReadDir
        /\ ~(\E c \in Keys : Info(c) \/ InfoFails(c)) /\ ~PurgeEnd /\ vars' # vars
    BY <2>1 DEF Expire, InfoTemp, Crash, ReadDir, Info, InfoFails, PurgeEnd, vars
  <2>7. (\E p \in Fetchers : Evict(p)) \/ PurgeRemove
    BY <1>1, <2>3, <2>5, <2>6 DEF Next, PurgeStep
  <2> QED
    BY <2>2, <2>4, <2>7, <2>a
<1>2. CacheInv /\ [Next]_vars =>
        [\A k \in Keys :
           (file[k] \notin expired \cup oversize \cup {NoFile} /\ file'[k] = NoFile) =>
             \E p \in Proc : key[p] = k /\ pc[p] \in {"evict", "remove"}
                             /\ seen[p] # file[k]]_vars
  BY <1>1
<1> QED
  BY <1>2, CacheInvariant, PTL DEF Spec, LossNeedsRace

-----------------------------------------------------------------------------
(* The refinement: what the calls of Get have in hand is what the abstract
   cache has found for them. *)
Hit(p) ==
  IF pc[p] = "read" THEN <<key[p], ReadAll(seen[p])>>
  ELSE IF pc[p] = "hit" THEN <<key[p], value[p]>> ELSE <<>>
Hits == [p \in Fetchers |-> Hit(p)]
Store == [k \in Keys |-> Entry(file[k])]

LEMMA CacheSteps ==
  ASSUME CacheInv, [Next]_vars
  PROVE  [C!CacheNext]_C!cvars
<1>a. /\ TypeOK /\ OldInv /\ Janitor \in Proc \ Fetchers /\ Fetchers \subseteq Proc
      /\ pc \in [Proc -> {"idle", "open", "read", "hit", "evict", "write", "rename",
                          "scan", "remove"}]
      /\ key \in [Proc -> Keys \cup {NoKey}] /\ seen \in [Proc -> Files \cup {NoFile}]
      /\ value \in [Proc -> (Files \cup {NoFile}) \X BOOLEAN]
      /\ file \in [Keys -> Files \cup {NoFile}]
  BY CacheAssumption DEF CacheInv, Proc, TypeOK
<1>b. C!cvars = <<Store, Hits>>
  BY DEF C!cvars, Hits, Hit, Store
<1>c. ~(NoFile \in oversize)
  BY <1>a DEF TypeOK, Files, NoFile
\* What is in the files that exist does not change.
<1>d. ASSUME NEW f \in Files \cup {NoFile}, f <= made
      PROVE  Entry(f)' = Entry(f) /\ ReadAll(f)' = ReadAll(f)
  <2>1. f \in oversize' <=> f \in oversize
    <3>1. CASE \E p \in Fetchers, k \in Keys : CreateTemp(p, k)
      <4>1. oversize' = oversize \/ oversize' = oversize \cup {made + 1}
        BY <3>1 DEF CreateTemp
      <4>2. f # made + 1
        BY <1>a, <1>d DEF TypeOK, Files, NoFile
      <4> QED
        BY <4>1, <4>2
    <3>2. CASE ~(\E p \in Fetchers, k \in Keys : CreateTemp(p, k))
      BY <3>2 DEF Next, PurgeStep, Expire, GetStat, Evict, Open, Read, GetReturn, WriteClose,
         SetFails, Rename, ReadDir, Info, InfoFails, InfoTemp, PurgeRemove, PurgeEnd, Crash, vars
    <3> QED
      BY <3>1, <3>2
  <2> QED
    BY <2>1 DEF Entry, ReadAll, Part
<1>e. ASSUME file' = file PROVE Store' = Store
  <2> SUFFICES ASSUME NEW k \in Keys PROVE Entry(file[k])' = Entry(file[k])
    BY <1>e DEF Store
  <2>1. file[k] \in Files \cup {NoFile} /\ file[k] <= made
    BY <1>a DEF OldInv
  <2> QED
    BY <1>e, <2>1, <1>d DEF Entry
\* Most steps leave both alone.
<1>1. ASSUME file' = file, Hits' = Hits PROVE [C!CacheNext]_C!cvars
  <2>1. UNCHANGED <<Store, Hits>>
    BY <1>1, <1>e
  <2> QED
    BY <2>1, <1>b DEF Hits, Hit, Store, C!cvars
\* A caller whose position and reading stay has the same hit in hand.
<1>f. ASSUME NEW q \in Fetchers, pc'[q] = pc[q], key'[q] = key[q], seen'[q] = seen[q],
             value'[q] = value[q]
      PROVE  Hit(q)' = Hit(q)
  <2>1. CASE pc[q] = "read"
    <3>1. seen[q] \in Files \cup {NoFile} /\ seen[q] <= made
      BY <1>a DEF OldInv
    <3>2. PICK f \in Files \cup {NoFile} : f = seen[q] /\ f <= made
      BY <3>1
    <3> QED
      BY <1>d, <1>f, <2>1, <3>2 DEF Hit, ReadAll, Entry
  <2>2. CASE pc[q] # "read"
    BY <1>f, <2>2 DEF Hit
  <2> QED
    BY <2>1, <2>2
<1>2. ASSUME NEW p \in Proc, pc[p] \notin {"read", "hit"}, NEW l, l \notin {"read", "hit"},
             pc' = [pc EXCEPT ![p] = l],
             \A q \in Proc \ {p} : key'[q] = key[q] /\ seen'[q] = seen[q] /\ value'[q] = value[q]
      PROVE  Hits' = Hits
  <2>1. ASSUME NEW q \in Fetchers PROVE Hit(q)' = Hit(q)
    <3>1. CASE q = p
      BY <1>2, <1>a, <3>1 DEF Hit
    <3>2. CASE q # p
      <4>1. pc'[q] = pc[q] /\ key'[q] = key[q] /\ seen'[q] = seen[q] /\ value'[q] = value[q]
        BY <1>2, <1>a, <3>2
      <4> QED
        BY <4>1, <1>f
    <3> QED
      BY <3>1, <3>2
  <2> QED
    BY <2>1 DEF Hits
<1>3. ASSUME UNCHANGED <<pc, key, seen, value>> PROVE Hits' = Hits
  BY <1>3, <1>f DEF Hits
\* os.Remove takes the entry away, or fails.
<1>4. ASSUME NEW k \in Keys, Remove(k), Hits' = Hits, oversize' = oversize
      PROVE  [C!CacheNext]_C!cvars
  <2>1. CASE file' = file
    BY <2>1, <1>1, <1>4
  <2>2. CASE file' = [file EXCEPT ![k] = NoFile]
    <3>1. Store' = [Store EXCEPT ![k] = NoEntry]
      <4> SUFFICES ASSUME NEW c \in Keys
                   PROVE  Entry(file[c])' = IF c = k THEN NoEntry ELSE Entry(file[c])
        BY DEF Store
      <4>1. CASE c = k
        <5>1. file'[c] = NoFile /\ NoFile \notin oversize'
          BY <4>1, <2>2, <1>4, <1>a, <1>c
        <5> QED
          BY <4>1, <5>1, NotMember DEF Entry, NoEntry
      <4>2. CASE c # k
        BY <4>2, <2>2, <1>4, <1>a DEF Entry
      <4> QED
        BY <4>1, <4>2
    <3>2. C!Lose(k)
      BY <3>1, <1>4 DEF C!Lose, Store, Hits, Hit
    <3> QED
      BY <3>2 DEF C!CacheNext
  <2> QED
    BY <2>1, <2>2, <1>4 DEF Remove
<1>5. ASSUME NEW p \in Fetchers, NEW k \in Keys, GetStat(p, k)
      PROVE  [C!CacheNext]_C!cvars
  <2>1. file' = file /\ Hits' = Hits
    BY <1>5, <1>2, <1>a DEF GetStat, Goto
  <2> QED
    BY <1>1, <2>1
<1>6. ASSUME NEW p \in Fetchers, NEW k \in Keys, CreateTemp(p, k)
      PROVE  [C!CacheNext]_C!cvars
  <2>1. file' = file /\ Hits' = Hits
    BY <1>6, <1>2, <1>a DEF CreateTemp, Goto
  <2> QED
    BY <1>1, <2>1
<1>7. ASSUME NEW p \in Fetchers, Evict(p) PROVE [C!CacheNext]_C!cvars
  <2>1. Hits' = Hits /\ key[p] \in Keys /\ oversize' = oversize
    BY <1>7, <1>2, <1>a DEF Evict, Return, Goto, TypeOK
  <2> QED
    BY <1>7, <1>4, <2>1 DEF Evict
<1>8. ASSUME NEW p \in Fetchers, Open(p), ~Return(p) PROVE C!CacheNext
  <2>1. PICK k \in Keys : k = key[p]
    BY <1>8, <1>a DEF Open, TypeOK
  <2>2. /\ pc[p] = "open" /\ UNCHANGED <<file, oversize, key, value>>
        /\ file[k] \in Files /\ pc' = [pc EXCEPT ![p] = "read"]
        /\ seen' = [seen EXCEPT ![p] = file[k]]
    BY <1>8, <1>a, <2>1 DEF Open, Goto, Exists
  <2>3. Hits[p] = <<>>
    BY <2>2 DEF Hits, Hit
  <2>4. Hits' = [Hits EXCEPT ![p] = <<k, ReadAll(file[k])>>]
    <3>1. Hit(p)' = <<k, ReadAll(file[k])>>
      BY <2>1, <2>2, <1>a DEF Hit, ReadAll, Entry
    <3>2. \A q \in Fetchers \ {p} : Hit(q)' = Hit(q)
      BY <2>2, <1>a, <1>f
    <3> QED
      BY <3>1, <3>2 DEF Hits
  <2>5. Store' = Store /\ Store[k] = Entry(file[k]) /\ Store[k] # NoEntry
    <3>1. Entry(file[k]) # NoEntry
      <4>1. file[k] # NoFile
        BY <2>2 DEF Files, NoFile
      <4> QED
        BY <4>1, Zenon DEF Entry, NoEntry
    <3> QED
      BY <2>2, <3>1, <1>e DEF Store
  <2>6. C!Content(Store[k]) = ReadAll(file[k])
    <3>1. Entry(file[k]) \in Files \X {TRUE} <=> file[k] \in oversize
      BY <2>2, Zenon DEF Entry
    <3> QED
      BY <2>5, <3>1 DEF C!Content, ReadAll
  <2>7. C!Find(p, k)
    BY <2>3, <2>4, <2>5, <2>6 DEF C!Find, C!NoHit, C!Content, Hits, Hit, Store
  <2> QED
    BY <2>7 DEF C!CacheNext
<1>9. ASSUME NEW p \in Fetchers, Open(p), Return(p)
      PROVE  [C!CacheNext]_C!cvars
  <2>1. file' = file /\ Hits' = Hits
    BY <1>9, <1>2, <1>a DEF Open, Return, Goto
  <2> QED
    BY <1>1, <2>1
<1>10. ASSUME NEW p \in Fetchers, Read(p) \/ GetReturn(p), Return(p) PROVE C!CacheNext
  <2>1. file' = file /\ pc' = [pc EXCEPT ![p] = "idle"]
        /\ \A q \in Proc \ {p} : key'[q] = key[q] /\ seen'[q] = seen[q] /\ value'[q] = value[q]
    BY <1>10, <1>a DEF Read, GetReturn, Return, Goto
  <2>2. Hit(p)' = <<>> /\ \A q \in Fetchers \ {p} : Hit(q)' = Hit(q)
    <3>1. Hit(p)' = <<>>
      BY <2>1, <1>a DEF Hit
    <3>2. ASSUME NEW q \in Fetchers \ {p} PROVE Hit(q)' = Hit(q)
      <4>1. pc'[q] = pc[q] /\ key'[q] = key[q] /\ seen'[q] = seen[q] /\ value'[q] = value[q]
        BY <2>1, <1>a
      <4> QED
        BY <4>1, <1>f
    <3> QED
      BY <3>1, <3>2
  <2>3. Hits' = [Hits EXCEPT ![p] = <<>>] /\ Store' = Store
    BY <2>1, <2>2, <1>e DEF Hits
  <2>4. C!Done(p)
    BY <2>3 DEF C!Done, C!NoHit, Hits, Hit, Store
  <2> QED
    BY <2>4 DEF C!CacheNext
<1>11. ASSUME NEW p \in Fetchers, Read(p), ~Return(p) PROVE [C!CacheNext]_C!cvars
  <2>1. /\ UNCHANGED <<file, oversize, key, seen>> /\ pc[p] = "read"
        /\ pc' = [pc EXCEPT ![p] = "hit"] /\ value' = [value EXCEPT ![p] = ReadAll(seen[p])]
    BY <1>11 DEF Read, Goto
  <2>2. Hit(p)' = Hit(p)
    BY <2>1, <1>a DEF Hit
  <2>3. \A q \in Fetchers \ {p} : Hit(q)' = Hit(q)
    BY <2>1, <1>a, <1>f
  <2>4. Hits' = Hits
    BY <2>2, <2>3 DEF Hits
  <2> QED
    BY <1>1, <2>1, <2>4
<1>12. ASSUME NEW p \in Fetchers, WriteClose(p) \/ SetFails(p)
       PROVE  [C!CacheNext]_C!cvars
  <2>1. file' = file /\ Hits' = Hits
    BY <1>12, <1>2, <1>a DEF WriteClose, SetFails, Return, Goto
  <2> QED
    BY <1>1, <2>1
<1>13. ASSUME NEW p \in Fetchers, Rename(p) PROVE C!CacheNext
  <2>1. /\ Hits' = Hits /\ key[p] \in Keys /\ seen[p] \in Files
        /\ file' = [file EXCEPT ![key[p]] = seen[p]] /\ oversize' = oversize
    BY <1>13, <1>2, <1>a DEF Rename, Return, Goto, TypeOK
  <2>2. PICK k \in Keys, f \in Files : k = key[p] /\ f = seen[p]
    BY <2>1
  <2>3. Store' = [Store EXCEPT ![k] = Entry(f)]
    BY <2>1, <2>2, <1>a DEF Store, Entry
  <2>4. Entry(f) \in Files \X BOOLEAN
    <3>1. (f \in oversize) \in BOOLEAN
      OBVIOUS
    <3> QED
      BY <3>1, Zenon DEF Entry
  <2>5. C!Put(k, Entry(f))
    BY <2>1, <2>3 DEF C!Put, Store, Hits, Hit
  <2> QED
    BY <2>4, <2>5 DEF C!CacheNext
<1>14. ASSUME ReadDir \/ PurgeEnd \/ (\E k \in Keys : Info(k) \/ InfoFails(k))
              \/ (\E f \in Files : InfoTemp(f))
       PROVE  [C!CacheNext]_C!cvars
  <2>1. \A p \in Fetchers : pc'[p] = pc[p] /\ key'[p] = key[p] /\ seen'[p] = seen[p]
                            /\ value'[p] = value[p]
    BY <1>14, <1>a DEF ReadDir, PurgeEnd, Info, InfoFails, InfoTemp, Return, Goto
  <2>2. file' = file
    BY <1>14 DEF ReadDir, PurgeEnd, Info, InfoFails, InfoTemp
  <2>3. Hits' = Hits
    BY <2>1, <1>f DEF Hits
  <2> QED
    BY <1>1, <2>2, <2>3
<1>15. ASSUME PurgeRemove PROVE [C!CacheNext]_C!cvars
  <2>1. Hits' = Hits /\ key[Janitor] \in Keys /\ oversize' = oversize
    BY <1>15, <1>2, <1>a DEF PurgeRemove, Goto, TypeOK
  <2> QED
    BY <1>15, <1>4, <2>1 DEF PurgeRemove
<1>16. ASSUME Crash PROVE C!CacheNext
  <2>1. Hits' = [p \in Fetchers |-> <<>>] /\ Store' = Store
    BY <1>16, <1>a, <1>e DEF Crash, Hits, Hit
  <2> QED
    BY <2>1 DEF C!CacheNext, C!CrashAll, C!NoHit, Hits, Hit, Store
<1>17. CASE (\E f \in Files : Expire(f)) \/ UNCHANGED vars
  <2>1. file' = file /\ UNCHANGED <<pc, key, seen, value>>
    BY <1>17 DEF Expire, vars
  <2> QED
    BY <1>1, <1>3, <2>1
<1>18. \A p \in Fetchers : GetReturn(p) => Return(p)
  BY DEF GetReturn
<1> QED
  BY <1>5, <1>6, <1>7, <1>8, <1>9, <1>10, <1>11, <1>12, <1>13, <1>14, <1>15, <1>16, <1>17, <1>18
  DEF Next, PurgeStep

(* Get, Set and Purge, system call by system call and across crashes, are the
   map that the extractor relies on, with hits that bring the whole of an
   entry, or of one that is too large its beginning (the interface
   extractor.Cache). *)
THEOREM FileCacheImplementsCache == Spec => ImplementsCache
<1>1. Init => C!CacheInit
  <2> SUFFICES ASSUME Init PROVE C!CacheInit
    OBVIOUS
  <2>1. \A k \in Keys : Entry(file[k]) = NoEntry
    BY NotMember DEF Init, Entry, NoEntry
  <2>2. Store = [k \in Keys |-> NoEntry]
    BY <2>1 DEF Store
  <2>3. Hits = [p \in Fetchers |-> <<>>]
    BY CacheAssumption DEF Init, Proc, Hits, Hit
  <2> QED
    BY <2>2, <2>3 DEF C!CacheInit, C!NoHit, Store, Hits, Hit
<1>2. CacheInv /\ [Next]_vars => [C!CacheNext]_C!cvars
  BY CacheSteps
<1> QED
  BY <1>1, <1>2, CacheInvariant, PTL DEF Spec, ImplementsCache, C!CacheSpec

=============================================================================
