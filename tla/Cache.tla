------------------------------- MODULE Cache --------------------------------
(***************************************************************************)
(* What the article cache promises to the extractor, whatever it does with *)
(* files: the interface Cache of internal/extractor/extractor.go, a map    *)
(* from keys to entries that may lose an entry at any time.  A hit takes   *)
(* effect at one moment between call and return, and the entry it brings   *)
(* is the one that was stored under that very key at that moment - whole,  *)
(* or cut off if it is too large.                                          *)
(***************************************************************************)
CONSTANTS
  Keys,     \* article URLs
  Entries,  \* what can be stored
  Large,    \* entries that are larger than a look-up will read
  Callers,  \* goroutines that look entries up
  None,     \* no entry
  Part      \* the beginning of an entry

ASSUME EntryAssumption ==
  /\ None \notin Entries
  /\ Part \notin Entries
  /\ Large \subseteq Entries

NoHit == <<>>

VARIABLES
  store,  \* store[k]: the entry of key k, None if there is none
  got     \* got[p]: key and content of the hit that p will return, or NoHit

cvars == <<store, got>>

CacheTypeOK ==
  /\ store \in [Keys -> Entries \cup {None}]
  /\ got \in [Callers -> (Keys \X (Entries \cup {Part})) \cup {NoHit}]

CacheInit ==
  /\ store = [k \in Keys |-> None]
  /\ got = [p \in Callers |-> NoHit]

\* Set stores an entry ...
Put(k, e) ==
  /\ store' = [store EXCEPT ![k] = e]
  /\ UNCHANGED got

\* ... which is gone again as soon as the cache likes.
Lose(k) ==
  /\ store' = [store EXCEPT ![k] = None]
  /\ UNCHANGED got

\* What a look-up brings of e.
Content(e) == IF e \in Large THEN Part ELSE e

\* The moment at which a Get that hits takes effect, and its return.
Find(p, k) ==
  /\ got[p] = NoHit
  /\ store[k] # None
  /\ got' = [got EXCEPT ![p] = <<k, Content(store[k])>>]
  /\ UNCHANGED store

Done(p) ==
  /\ got' = [got EXCEPT ![p] = NoHit]
  /\ UNCHANGED store

\* The process is killed: what is stored survives it.
CrashAll ==
  /\ got' = [p \in Callers |-> NoHit]
  /\ UNCHANGED store

CacheNext ==
  \/ \E k \in Keys : Lose(k) \/ (\E e \in Entries : Put(k, e))
  \/ \E p \in Callers : Done(p) \/ (\E k \in Keys : Find(p, k))
  \/ CrashAll

CacheSpec == CacheInit /\ [][CacheNext]_cvars

=============================================================================
