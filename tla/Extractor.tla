----------------------------- MODULE Extractor ------------------------------
(***************************************************************************)
(* Extract of internal/extractor/extractor.go, called by several           *)
(* goroutines at once on one cache, which is the abstract one of module    *)
(* Cache.  The Web is the environment: what a request for a URL may end in *)
(* is given by two relations, and open each time one is made.  Nothing     *)
(* here is bounded.                                                        *)
(* Operators called Faulty... are mistaken variants, as in module Worker.  *)
(***************************************************************************)
EXTENDS Cache

CONSTANTS
  Bad,    \* article URLs that are not absolute http(s) URLs
  NoURL,  \* no article
  Leads,  \* pairs of a URL and one where a request for it may find an article
  Fails   \* pairs of a URL and a lasting failure of requests for it

Classes == {"upstream", "unsupported", "empty"}
Outcomes == {"error", "cache_negative", "cache_hit", "invalid_url",
             "fetch_error", "render_error", "ok"} \cup Classes

(* cacheEntry: the article found at some URL, or the class of a failure. *)
Body(u) == [class |-> "", page |-> u]
Negative(c) == [class |-> c, page |-> NoURL]

ASSUME ExtractorAssumption ==
  /\ Bad \subseteq Keys
  /\ NoURL \notin Keys
  /\ Leads \subseteq (Keys \ Bad) \X (Keys \ Bad)
  /\ Fails \subseteq (Keys \ Bad) \X Classes
  /\ Entries = {Body(u) : u \in Keys} \cup {Negative(c) : c \in Classes}

VARIABLES
  spoilt,   \* keys whose entry is past its ExpiresAt, or is damaged
  pc,       \* where each call stands
  url,      \* its articleURL
  outcome,  \* its label for the metrics
  entry,    \* the entry it stores
  raced     \* ghost: calls whose URL got an entry after they looked it up

xvars == <<store, got, spoilt, pc, url, outcome, entry, raced>>

ExtractorTypeOK ==
  /\ CacheTypeOK
  /\ spoilt \subseteq Keys
  /\ pc \in [Callers -> {"idle", "look", "fetch", "store", "alias", "done"}]
  /\ url \in [Callers -> Keys \cup {NoURL}]
  /\ outcome \in [Callers -> Outcomes]
  /\ entry \in [Callers -> Entries \cup {None}]
  /\ raced \subseteq Callers
  /\ \A p \in Callers :
       /\ pc[p] # "idle" => url[p] \in Keys
       /\ pc[p] \in {"store", "alias"} => entry[p] \in Entries
       /\ pc[p] = "alias" => entry[p].page \in Keys

ExtractorInit ==
  /\ CacheInit
  /\ spoilt = {}
  /\ pc = [p \in Callers |-> "idle"]
  /\ url = [p \in Callers |-> NoURL]
  /\ outcome = [p \in Callers |-> "error"]
  /\ entry = [p \in Callers |-> None]
  /\ raced = {}

Goto(p, l) == pc' = [pc EXCEPT ![p] = l]

-----------------------------------------------------------------------------
(* The cache underneath: CACHE_TTL and Purge, ExpiresAt, damage. *)

Drop(k) ==
  /\ Lose(k)
  /\ spoilt' = spoilt \ {k}
  /\ UNCHANGED <<pc, url, outcome, entry, raced>>

Spoil(k) ==
  /\ store[k] # None
  /\ spoilt' = spoilt \cup {k}
  /\ UNCHANGED <<store, got, pc, url, outcome, entry, raced>>

\* cacheSet; a ghost remembers the calls that had looked up k before.
Set(k, e) ==
  /\ Put(k, e)
  /\ spoilt' = spoilt \ {k}
  /\ raced' = raced \cup {q \in Callers : pc[q] \notin {"idle", "look"} /\ url[q] = k}

\* Nothing to set, or Set could not write its file.
NotSet == UNCHANGED <<store, got, spoilt, raced>>

-----------------------------------------------------------------------------
(* Extract, up to the request. *)

Call(p, u) ==
  /\ pc[p] = "idle"
  /\ Goto(p, "look")
  /\ url' = [url EXCEPT ![p] = u]
  /\ UNCHANGED <<store, got, spoilt, outcome, entry, raced>>

FaultyHitOutcome(e) == "cache_hit"
HitOutcome(e) == IF e.class = "" THEN "cache_hit" ELSE "cache_negative"

\* What Get brings of the entry of k can be decoded - the beginning of one
\* cannot - and is not past its ExpiresAt.
Usable(k) == store[k] \notin Large \cup {None} /\ k \notin spoilt

\* cacheGet brings an entry: an article, or a failure that is not repeated.
Hit(p) ==
  /\ pc[p] = "look"
  /\ Usable(url[p])
  /\ Find(p, url[p])
  /\ outcome' = [outcome EXCEPT ![p] = HitOutcome(store[url[p]])]
  /\ Goto(p, "done")
  /\ UNCHANGED <<spoilt, url, entry, raced>>

FaultyNothingUsable(k) == TRUE
NothingUsable(k) == ~Usable(k)

Miss(p) ==
  /\ pc[p] = "look"
  /\ NothingUsable(url[p])
  /\ IF url[p] \in Bad
     THEN /\ outcome' = [outcome EXCEPT ![p] = "invalid_url"]
          /\ Goto(p, "done")
     ELSE /\ Goto(p, "fetch")
          /\ UNCHANGED outcome
  /\ UNCHANGED <<store, got, spoilt, url, entry, raced>>

-----------------------------------------------------------------------------
(* What the request ends in. *)

FaultyTransient(p, o) ==
  /\ pc[p] = "fetch"
  /\ o = "upstream"
  /\ outcome' = [outcome EXCEPT ![p] = o]
  /\ entry' = [entry EXCEPT ![p] = Negative(o)]
  /\ Goto(p, "store")
  /\ UNCHANGED <<store, got, spoilt, url, raced>>

\* No answer, an answer whose article cannot be read to its end or rendered,
\* or a status that is likely to change: the next call asks again.
Transient(p, o) ==
  /\ pc[p] = "fetch"
  /\ o \in {"fetch_error", "render_error", "upstream"}
  /\ outcome' = [outcome EXCEPT ![p] = o]
  /\ Goto(p, "done")
  /\ UNCHANGED <<store, got, spoilt, url, entry, raced>>

\* A 4xx, something that is not HTML, or a page without an article.
Refused(p, c) ==
  /\ pc[p] = "fetch"
  /\ <<url[p], c>> \in Fails
  /\ outcome' = [outcome EXCEPT ![p] = c]
  /\ entry' = [entry EXCEPT ![p] = Negative(c)]
  /\ Goto(p, "store")
  /\ UNCHANGED <<store, got, spoilt, url, raced>>

\* An article, found at f after redirects; outcome gets its label at the end.
Article(p, f) ==
  /\ pc[p] = "fetch"
  /\ <<url[p], f>> \in Leads
  /\ entry' = [entry EXCEPT ![p] = Body(f)]
  /\ Goto(p, "store")
  /\ UNCHANGED <<store, got, spoilt, url, outcome, raced>>

\* cacheNegative, or the first cacheSet of an article.
Store(p) ==
  /\ pc[p] = "store"
  /\ Set(url[p], entry[p]) \/ NotSet
  /\ Goto(p, IF entry[p].class = "" THEN "alias" ELSE "done")
  /\ UNCHANGED <<url, outcome, entry>>

\* The second cacheSet, if the article was found somewhere else.
Alias(p) ==
  /\ pc[p] = "alias"
  /\ \/ entry[p].page # url[p] /\ Set(entry[p].page, entry[p])
     \/ NotSet
  /\ outcome' = [outcome EXCEPT ![p] = "ok"]
  /\ Goto(p, "done")
  /\ UNCHANGED <<url, entry>>

(* The deferred recordOutcome, and the return to the caller; the variables of
   the next call begin as those of the first one did. *)
Return(p) ==
  /\ pc[p] = "done"
  /\ Done(p)
  /\ Goto(p, "idle")
  /\ url' = [url EXCEPT ![p] = NoURL]
  /\ outcome' = [outcome EXCEPT ![p] = "error"]
  /\ entry' = [entry EXCEPT ![p] = None]
  /\ raced' = raced \ {p}
  /\ UNCHANGED spoilt

-----------------------------------------------------------------------------
Answer(p) ==
  \/ \E o \in Outcomes : Transient(p, o)
  \/ \E c \in Classes : Refused(p, c)
  \/ \E f \in Keys : Article(p, f)

ExtractStep(p) == Hit(p) \/ Miss(p) \/ Answer(p) \/ Store(p) \/ Alias(p)

Decay == \E k \in Keys : Drop(k) \/ Spoil(k)

ExtractorNext ==
  \/ Decay
  \/ \E p \in Callers : (\E u \in Keys : Call(p, u)) \/ ExtractStep(p) \/ Return(p)

ExtractorSpec == ExtractorInit /\ [][ExtractorNext]_xvars

-----------------------------------------------------------------------------
(* What is in the cache was earned: an article is kept only under the URL it
   was found at and those that were redirected there, a failure only under
   the URL that was asked for, and only if the answer was a lasting one - not
   a 5xx, not a lost connection, not a cancelled call ("NegativeCachesOn4xx",
   "DoesNotNegativeCacheOn5xx"), whatever calls overlap. *)
EntriesEarned ==
  \A k \in Keys : store[k] # None =>
    IF store[k].class = ""
    THEN \E u \in Keys : <<u, store[k].page>> \in Leads /\ k \in {u, store[k].page}
    ELSE <<k, store[k].class>> \in Fails

(* The label a call is counted under says what happened: no return path is
   left with the label "error" ("any return-path we forget to label"), a hit
   is told from a negative one, and "ok" from every kind of failure. *)
OutcomeHonest ==
  \A p \in Callers : pc[p] = "done" =>
    CASE got[p] # NoHit   -> outcome[p] = IF got[p][2].class = ""
                                          THEN "cache_hit" ELSE "cache_negative"
      [] entry[p] # None  -> outcome[p] = IF entry[p].class = ""
                                          THEN "ok" ELSE entry[p].class
      [] OTHER -> outcome[p] \in {"invalid_url", "fetch_error", "render_error", "upstream"}

(* An article in the cache, not expired and not too large for it, gives way to
   a failure only if both were fetched at once: a call that finds it does not
   ask upstream again, so a site that is down for an hour does not empty the
   feeds. *)
LiveBodyKept ==
  [][\A k \in Keys :
       (/\ Usable(k) /\ store'[k] # None
        /\ store[k].class = "" /\ store'[k].class # "")
         => \E p \in raced : pc[p] = "store" /\ url[p] = k]_xvars

=============================================================================
