--------------------------- MODULE ArticleProofs ----------------------------
(***************************************************************************)
(* Proofs about Extractor, for any URLs, answers of the Web and number of  *)
(* concurrent calls, and about enrich, which uses it as its interface      *)
(* demands and publishes whole feeds, for any feed; and about the clean-up *)
(* of an article in SimplifyDOM, for any article.                          *)
(***************************************************************************)
EXTENDS Enrich, SimplifyDOM, TLAPS, SequenceTheorems, FiniteSetTheorems,
        WellFoundedInduction

\* What a call is about to store is what its own request ended in.
PendingEarned(p) ==
  /\ pc[p] \in {"store", "alias"} =>
       IF entry[p].class = "" THEN <<url[p], entry[p].page>> \in Leads
       ELSE <<url[p], entry[p].class>> \in Fails
  /\ pc[p] = "alias" => entry[p].class = ""

\* Where the label comes from, from the call's beginning to its end.
Labelled(p) ==
  /\ pc[p] \in {"idle", "look", "fetch"} => got[p] = NoHit /\ entry[p] = None
  /\ pc[p] \in {"store", "alias"} => got[p] = NoHit /\ entry[p] # None
  /\ (pc[p] = "store" /\ entry[p].class # "") => outcome[p] = entry[p].class
  /\ pc[p] = "done" =>
       \/ /\ got[p] # NoHit /\ entry[p] = None
          /\ outcome[p] = IF got[p][2].class = "" THEN "cache_hit" ELSE "cache_negative"
       \/ /\ got[p] = NoHit /\ entry[p] # None
          /\ outcome[p] = IF entry[p].class = "" THEN "ok" ELSE entry[p].class
       \/ /\ got[p] = NoHit /\ entry[p] = None
          /\ outcome[p] \in {"invalid_url", "fetch_error", "render_error", "upstream"}

\* A call that asks upstream found nothing usable, or has been overtaken.
Overtaken(p) ==
  (pc[p] \in {"fetch", "store", "alias"} /\ Usable(url[p])) => p \in raced

ExtractorInv ==
  /\ ExtractorTypeOK
  /\ EntriesEarned
  /\ \A p \in Callers : PendingEarned(p) /\ Labelled(p) /\ Overtaken(p)

LEMMA EntryShapes ==
  /\ \A u \in Keys : Body(u) \in Entries /\ Body(u).class = "" /\ Body(u).page = u
  /\ \A c \in Classes : Negative(c) \in Entries /\ Negative(c).class = c /\ c # ""
                        /\ Negative(c).page = NoURL
  /\ None \notin Entries
BY ExtractorAssumption, EntryAssumption DEF Body, Negative, Classes

LEMMA ExtractorInvInit == ExtractorInit => ExtractorInv
<1> SUFFICES ASSUME ExtractorInit PROVE ExtractorInv
  OBVIOUS
<1>1. ExtractorTypeOK
  BY DEF ExtractorInit, CacheInit, ExtractorTypeOK, CacheTypeOK, Outcomes
<1>2. EntriesEarned
  BY DEF ExtractorInit, CacheInit, EntriesEarned
<1>3. \A p \in Callers : PendingEarned(p) /\ Labelled(p) /\ Overtaken(p)
  BY DEF ExtractorInit, CacheInit, PendingEarned, Labelled, Overtaken, Usable
<1> QED
  BY <1>1, <1>2, <1>3 DEF ExtractorInv

-----------------------------------------------------------------------------
\* Steps of one call that leave the cache alone.
LEMMA QuietStep ==
  ASSUME ExtractorInv, NEW p \in Callers, UNCHANGED <<store, spoilt>>,
         ExtractorTypeOK',
         \A q \in Callers \ {p} :
           /\ pc'[q] = pc[q] /\ url'[q] = url[q] /\ outcome'[q] = outcome[q]
           /\ entry'[q] = entry[q] /\ got'[q] = got[q] /\ (q \in raced' <=> q \in raced),
         PendingEarned(p)', Labelled(p)', Overtaken(p)'
  PROVE  ExtractorInv'
<1>1. EntriesEarned'
  BY DEF ExtractorInv, EntriesEarned
<1>2. ASSUME NEW q \in Callers
      PROVE  (PendingEarned(q) /\ Labelled(q) /\ Overtaken(q))'
  <2>1. CASE q = p
    BY <2>1
  <2>2. CASE q # p
    <3>1. PendingEarned(q) /\ Labelled(q) /\ Overtaken(q)
      BY DEF ExtractorInv
    <3>2. /\ pc'[q] = pc[q] /\ url'[q] = url[q] /\ outcome'[q] = outcome[q]
          /\ entry'[q] = entry[q] /\ got'[q] = got[q] /\ (q \in raced' <=> q \in raced)
          /\ store' = store /\ spoilt' = spoilt
      BY <2>2
    <3> QED
      BY <3>1, <3>2 DEF PendingEarned, Labelled, Overtaken, Usable
  <2> QED
    BY <2>1, <2>2
<1> QED
  BY <1>1, <1>2 DEF ExtractorInv

LEMMA QuietSteps ==
  ASSUME ExtractorInv, NEW p \in Callers,
         \/ \E u \in Keys : Call(p, u)
         \/ Hit(p) \/ Miss(p) \/ Answer(p) \/ Return(p)
  PROVE  ExtractorInv'
<1>a. /\ ExtractorTypeOK /\ PendingEarned(p) /\ Labelled(p) /\ Overtaken(p)
      /\ store \in [Keys -> Entries \cup {None}]
      /\ got \in [Callers -> (Keys \X (Entries \cup {Part})) \cup {NoHit}]
      /\ pc \in [Callers -> {"idle", "look", "fetch", "store", "alias", "done"}]
      /\ url \in [Callers -> Keys \cup {NoURL}]
      /\ outcome \in [Callers -> Outcomes] /\ entry \in [Callers -> Entries \cup {None}]
      /\ pc[p] # "idle" => url[p] \in Keys
  BY DEF ExtractorInv, ExtractorTypeOK, CacheTypeOK
<1>1. ASSUME NEW u \in Keys, Call(p, u) PROVE ExtractorInv'
  <2>1. /\ UNCHANGED <<store, got, spoilt, outcome, entry, raced>> /\ pc[p] = "idle"
        /\ pc' = [pc EXCEPT ![p] = "look"] /\ url' = [url EXCEPT ![p] = u]
    BY <1>1 DEF Call, Goto
  <2>2. ExtractorTypeOK'
    BY <2>1, <1>a DEF ExtractorTypeOK, CacheTypeOK
  <2>3. PendingEarned(p)' /\ Labelled(p)' /\ Overtaken(p)'
    BY <2>1, <1>a DEF PendingEarned, Labelled, Overtaken, Usable
  <2> QED
    BY <2>1, <2>2, <2>3, <1>a, QuietStep
<1>2. CASE Hit(p)
  <2>1. PICK e \in Entries : e = store[url[p]]
    BY <1>2, <1>a DEF Hit, Find
  <2>2. /\ UNCHANGED <<store, spoilt, url, entry, raced>> /\ pc[p] = "look"
        /\ pc' = [pc EXCEPT ![p] = "done"] /\ url[p] \in Keys
        /\ got' = [got EXCEPT ![p] = <<url[p], e>>]
        /\ outcome' = [outcome EXCEPT ![p] =
                         IF e.class = "" THEN "cache_hit" ELSE "cache_negative"]
    BY <1>2, <2>1, <1>a DEF Hit, Usable, Find, Content, Goto, HitOutcome
  <2>3. /\ <<url[p], e>> # NoHit /\ <<url[p], e>> \in Keys \X (Entries \cup {Part})
        /\ <<url[p], e>>[2] = e
    BY <2>2 DEF NoHit
  <2>4. ExtractorTypeOK'
    BY <2>2, <2>3, <1>a DEF ExtractorTypeOK, CacheTypeOK, Outcomes
  <2>5. PendingEarned(p)' /\ Labelled(p)' /\ Overtaken(p)'
    BY <2>2, <2>3, <1>a DEF PendingEarned, Labelled, Overtaken, Usable
  <2> QED
    BY <2>2, <2>4, <2>5, <1>a, QuietStep
<1>3. CASE Miss(p)
  <2>1. /\ UNCHANGED <<store, got, spoilt, url, entry, raced>> /\ pc[p] = "look"
        /\ ~Usable(url[p])
        /\ \/ pc' = [pc EXCEPT ![p] = "done"] /\ outcome' = [outcome EXCEPT ![p] = "invalid_url"]
           \/ pc' = [pc EXCEPT ![p] = "fetch"] /\ outcome' = outcome
    BY <1>3 DEF Miss, Goto, NothingUsable
  <2>2. ExtractorTypeOK'
    BY <2>1, <1>a DEF ExtractorTypeOK, CacheTypeOK, Outcomes
  <2>3. PendingEarned(p)' /\ Labelled(p)' /\ Overtaken(p)'
    BY <2>1, <1>a DEF PendingEarned, Labelled, Overtaken, Usable
  <2> QED
    BY <2>1, <2>2, <2>3, <1>a, QuietStep
<1>4. ASSUME NEW o \in Outcomes, Transient(p, o) PROVE ExtractorInv'
  <2>1. /\ UNCHANGED <<store, got, spoilt, url, entry, raced>> /\ pc[p] = "fetch"
        /\ pc' = [pc EXCEPT ![p] = "done"] /\ outcome' = [outcome EXCEPT ![p] = o]
        /\ o \in {"fetch_error", "render_error", "upstream"}
    BY <1>4 DEF Transient, Goto
  <2>2. ExtractorTypeOK'
    BY <2>1, <1>a DEF ExtractorTypeOK, CacheTypeOK, Outcomes
  <2>3. PendingEarned(p)' /\ Labelled(p)' /\ Overtaken(p)'
    BY <2>1, <1>a DEF PendingEarned, Labelled, Overtaken, Usable
  <2> QED
    BY <2>1, <2>2, <2>3, <1>a, QuietStep
<1>5. ASSUME NEW c \in Classes, Refused(p, c) PROVE ExtractorInv'
  <2>1. /\ UNCHANGED <<store, got, spoilt, url, raced>> /\ pc[p] = "fetch"
        /\ <<url[p], c>> \in Fails
        /\ pc' = [pc EXCEPT ![p] = "store"] /\ outcome' = [outcome EXCEPT ![p] = c]
        /\ entry' = [entry EXCEPT ![p] = Negative(c)]
    BY <1>5 DEF Refused, Goto
  <2>2. Negative(c) \in Entries /\ Negative(c).class = c /\ c # "" /\ Negative(c) # None
    BY EntryShapes
  <2>3. ExtractorTypeOK'
    BY <2>1, <2>2, <1>a DEF ExtractorTypeOK, CacheTypeOK, Outcomes
  <2>4. PendingEarned(p)' /\ Labelled(p)' /\ Overtaken(p)'
    BY <2>1, <2>2, <1>a DEF PendingEarned, Labelled, Overtaken, Usable
  <2> QED
    BY <2>1, <2>3, <2>4, <1>a, QuietStep
<1>6. ASSUME NEW f \in Keys, Article(p, f) PROVE ExtractorInv'
  <2>1. /\ UNCHANGED <<store, got, spoilt, url, outcome, raced>> /\ pc[p] = "fetch"
        /\ <<url[p], f>> \in Leads
        /\ pc' = [pc EXCEPT ![p] = "store"]
        /\ entry' = [entry EXCEPT ![p] = Body(f)]
    BY <1>6 DEF Article, Goto
  <2>2. Body(f) \in Entries /\ Body(f).class = "" /\ Body(f).page = f /\ Body(f) # None
    BY EntryShapes
  <2>3. ExtractorTypeOK'
    BY <2>1, <2>2, <1>a DEF ExtractorTypeOK, CacheTypeOK
  <2>4. PendingEarned(p)' /\ Labelled(p)' /\ Overtaken(p)'
    BY <2>1, <2>2, <1>a DEF PendingEarned, Labelled, Overtaken, Usable
  <2> QED
    BY <2>1, <2>3, <2>4, <1>a, QuietStep
<1>7. CASE Return(p)
  <2>1. /\ UNCHANGED <<store, spoilt>> /\ pc' = [pc EXCEPT ![p] = "idle"]
        /\ got' = [got EXCEPT ![p] = NoHit] /\ url' = [url EXCEPT ![p] = NoURL]
        /\ outcome' = [outcome EXCEPT ![p] = "error"]
        /\ entry' = [entry EXCEPT ![p] = None] /\ raced' = raced \ {p}
    BY <1>7 DEF Return, Done, Goto
  <2>2. ExtractorTypeOK'
    BY <2>1, <1>a DEF ExtractorTypeOK, CacheTypeOK, Outcomes
  <2>3. PendingEarned(p)' /\ Labelled(p)' /\ Overtaken(p)'
    BY <2>1, <1>a DEF PendingEarned, Labelled, Overtaken, Usable
  <2> QED
    BY <2>1, <2>2, <2>3, <1>a, QuietStep
<1> QED
  BY <1>1, <1>2, <1>3, <1>4, <1>5, <1>6, <1>7 DEF Answer

\* Storing an entry that was earned.
LEMMA SetKeeps ==
  ASSUME ExtractorInv, NEW k \in Keys, NEW e \in Entries, Set(k, e),
         IF e.class = ""
         THEN \E u \in Keys : <<u, e.page>> \in Leads /\ k \in {u, e.page}
         ELSE <<k, e.class>> \in Fails
  PROVE  /\ CacheTypeOK' /\ spoilt' \subseteq Keys /\ raced' \subseteq Callers /\ got' = got
         /\ EntriesEarned'
         /\ \A q \in Callers : (pc[q] \in {"fetch", "store", "alias"} /\ store'[url[q]] \notin Large \cup {None}
              /\ url[q] \notin spoilt') => q \in raced'
<1>1. /\ store' = [store EXCEPT ![k] = e] /\ got' = got /\ spoilt' = spoilt \ {k}
      /\ raced' = raced \cup {q \in Callers : pc[q] \notin {"idle", "look"} /\ url[q] = k}
      /\ store \in [Keys -> Entries \cup {None}]
  BY DEF Set, Put, ExtractorInv, ExtractorTypeOK, CacheTypeOK
<1>2. EntriesEarned'
  BY <1>1 DEF ExtractorInv, EntriesEarned
<1>3. CacheTypeOK' /\ spoilt' \subseteq Keys /\ raced' \subseteq Callers
  BY <1>1 DEF ExtractorInv, ExtractorTypeOK, CacheTypeOK
<1>4. ASSUME NEW q \in Callers, pc[q] \in {"fetch", "store", "alias"},
             store'[url[q]] \notin Large \cup {None}, url[q] \notin spoilt'
      PROVE  q \in raced'
  <2>1. url[q] \in Keys /\ Overtaken(q)
    BY <1>4 DEF ExtractorInv, ExtractorTypeOK
  <2>2. CASE url[q] = k
    BY <2>2, <1>1, <1>4
  <2>3. CASE url[q] # k
    BY <2>1, <2>3, <1>1, <1>4 DEF Overtaken, Usable
  <2> QED
    BY <2>2, <2>3
<1> QED
  BY <1>1, <1>2, <1>3, <1>4

LEMMA StoreSteps ==
  ASSUME ExtractorInv, NEW p \in Callers, Store(p) \/ Alias(p)
  PROVE  ExtractorInv'
<1>a. /\ ExtractorTypeOK /\ PendingEarned(p) /\ Labelled(p)
      /\ pc \in [Callers -> {"idle", "look", "fetch", "store", "alias", "done"}]
      /\ outcome \in [Callers -> Outcomes]
      /\ pc[p] \in {"store", "alias"} /\ url[p] \in Keys /\ entry[p] \in Entries
      /\ UNCHANGED <<url, entry>>
  BY DEF ExtractorInv, ExtractorTypeOK, Store, Alias
<1>b. \A e \in Entries : e \in {Body(u) : u \in Keys} \/ e \in {Negative(c) : c \in Classes}
  BY ExtractorAssumption
<1>c. entry[p].class = "" => entry[p].page \in Keys
  <2>1. ASSUME NEW u \in Keys, entry[p] = Body(u) PROVE entry[p].page \in Keys
    BY <2>1, EntryShapes
  <2>2. ASSUME NEW c \in Classes, entry[p] = Negative(c) PROVE entry[p].class # ""
    BY <2>2, EntryShapes
  <2>3. (\E u \in Keys : entry[p] = Body(u)) \/ (\E c \in Classes : entry[p] = Negative(c))
    BY <1>a, <1>b
  <2> QED
    BY <2>1, <2>2, <2>3
\* Either something was set, or nothing.
<1>1. /\ CacheTypeOK' /\ spoilt' \subseteq Keys /\ raced' \subseteq Callers /\ got' = got
      /\ EntriesEarned'
      /\ \A q \in Callers : (pc[q] \in {"fetch", "store", "alias"} /\ store'[url[q]] \notin Large \cup {None}
           /\ url[q] \notin spoilt') => q \in raced'
  <2>1. CASE NotSet
    BY <2>1 DEF NotSet, ExtractorInv, ExtractorTypeOK, CacheTypeOK, EntriesEarned, Overtaken, Usable
  <2>2. CASE pc[p] = "store" /\ Set(url[p], entry[p])
    <3>1. IF entry[p].class = ""
          THEN \E u \in Keys : <<u, entry[p].page>> \in Leads /\ url[p] \in {u, entry[p].page}
          ELSE <<url[p], entry[p].class>> \in Fails
      BY <2>2, <1>a DEF PendingEarned
    <3> QED
      BY <3>1, <2>2, <1>a, SetKeeps
  <2>3. CASE pc[p] = "alias" /\ Set(entry[p].page, entry[p])
    <3>1. entry[p].class = "" /\ <<url[p], entry[p].page>> \in Leads /\ entry[p].page \in Keys
      BY <2>3, <1>a, <1>c DEF PendingEarned
    <3>2. \E u \in Keys : <<u, entry[p].page>> \in Leads /\ entry[p].page \in {u, entry[p].page}
      BY <3>1, <1>a
    <3> QED
      BY <3>1, <3>2, <2>3, <1>a, SetKeeps
  <2> QED
    BY <2>1, <2>2, <2>3 DEF Store, Alias
<1>2. /\ \A q \in Callers \ {p} : pc'[q] = pc[q] /\ outcome'[q] = outcome[q]
      /\ outcome' \in [Callers -> Outcomes]
      /\ \/ /\ pc[p] = "store" /\ outcome' = outcome
            /\ pc' = [pc EXCEPT ![p] = IF entry[p].class = "" THEN "alias" ELSE "done"]
         \/ /\ pc[p] = "alias" /\ outcome'[p] = "ok"
            /\ pc' = [pc EXCEPT ![p] = "done"]
  BY <1>a DEF Store, Alias, Goto, Outcomes
<1>3. ExtractorTypeOK'
  BY <1>1, <1>2, <1>a, <1>c DEF ExtractorTypeOK
<1>4. PendingEarned(p)' /\ Labelled(p)' /\ Overtaken(p)'
  <2>1. PendingEarned(p)'
    BY <1>2, <1>a DEF PendingEarned
  <2>2. entry[p] # None
    BY <1>a, EntryAssumption
  <2>3. Labelled(p)'
    BY <1>1, <1>2, <1>a, <2>2 DEF Labelled, PendingEarned
  <2>4. Overtaken(p)'
    BY <1>1, <1>2, <1>a DEF Overtaken, Usable
  <2> QED
    BY <2>1, <2>3, <2>4
<1>5. ASSUME NEW q \in Callers, q # p
      PROVE  (PendingEarned(q) /\ Labelled(q) /\ Overtaken(q))'
  <2>1. PendingEarned(q) /\ Labelled(q) /\ pc'[q] = pc[q] /\ outcome'[q] = outcome[q]
    BY <1>5, <1>2 DEF ExtractorInv
  <2> QED
    BY <2>1, <1>1, <1>a DEF PendingEarned, Labelled, Overtaken, Usable
<1> QED
  BY <1>1, <1>3, <1>4, <1>5 DEF ExtractorInv

LEMMA DecayStep ==
  ASSUME ExtractorInv, Decay
  PROVE  ExtractorInv'
<1>1. PICK k \in Keys : Drop(k) \/ Spoil(k)
  BY DEF Decay
<1>2. /\ UNCHANGED <<got, pc, url, outcome, entry, raced>>
      /\ \/ store' = [store EXCEPT ![k] = None] /\ spoilt' = spoilt \ {k}
         \/ store' = store /\ spoilt' = spoilt \cup {k}
  BY <1>1 DEF Drop, Spoil, Lose
<1>3. ExtractorTypeOK'
  BY <1>2 DEF ExtractorInv, ExtractorTypeOK, CacheTypeOK
<1>4. EntriesEarned'
  BY <1>2 DEF ExtractorInv, ExtractorTypeOK, CacheTypeOK, EntriesEarned
<1>5. ASSUME NEW p \in Callers
      PROVE  (PendingEarned(p) /\ Labelled(p) /\ Overtaken(p))'
  <2>1. PendingEarned(p) /\ Labelled(p) /\ Overtaken(p)
    BY DEF ExtractorInv
  <2>2. store \in [Keys -> Entries \cup {None}] /\ (pc[p] # "idle" => url[p] \in Keys)
    BY DEF ExtractorInv, ExtractorTypeOK, CacheTypeOK
  <2> QED
    BY <2>1, <2>2, <1>2 DEF PendingEarned, Labelled, Overtaken, Usable
<1> QED
  BY <1>3, <1>4, <1>5 DEF ExtractorInv

LEMMA ExtractorInvStep ==
  ASSUME ExtractorInv, [ExtractorNext]_xvars
  PROVE  ExtractorInv'
<1>1. CASE UNCHANGED xvars
  BY <1>1 DEF xvars, ExtractorInv, ExtractorTypeOK, CacheTypeOK, EntriesEarned,
     PendingEarned, Labelled, Overtaken, Usable
<1> QED
  BY <1>1, QuietSteps, StoreSteps, DecayStep DEF ExtractorNext, ExtractStep

LEMMA ExtractorInvariant == ExtractorSpec => []ExtractorInv
BY ExtractorInvInit, ExtractorInvStep, PTL DEF ExtractorSpec

(* Every entry is an article under a URL it was found through, or a lasting
   failure of a request for its very URL (cacheSet, cacheNegative). *)
THEOREM OnlyEarnedEntries == ExtractorSpec => []EntriesEarned
<1>1. ExtractorInv => EntriesEarned
  BY DEF ExtractorInv
<1> QED
  BY <1>1, ExtractorInvariant, PTL

(* Every call is counted under the label of what happened (recordOutcome). *)
THEOREM LabelsAreHonest == ExtractorSpec => []OutcomeHonest
<1>1. ExtractorInv => OutcomeHonest
  <2> SUFFICES ASSUME ExtractorInv, NEW p \in Callers, pc[p] = "done"
               PROVE  CASE got[p] # NoHit   -> outcome[p] = IF got[p][2].class = ""
                                                 THEN "cache_hit" ELSE "cache_negative"
                        [] entry[p] # None  -> outcome[p] = IF entry[p].class = ""
                                                 THEN "ok" ELSE entry[p].class
                        [] OTHER -> outcome[p] \in {"invalid_url", "fetch_error", "render_error", "upstream"}
    BY DEF OutcomeHonest
  <2>1. Labelled(p)
    BY DEF ExtractorInv
  <2>2. CASE got[p] # NoHit
    BY <2>1, <2>2 DEF Labelled
  <2>3. CASE got[p] = NoHit /\ entry[p] # None
    BY <2>1, <2>3 DEF Labelled
  <2>4. CASE got[p] = NoHit /\ entry[p] = None
    BY <2>1, <2>4 DEF Labelled
  <2> QED
    BY <2>2, <2>3, <2>4
<1> QED
  BY <1>1, ExtractorInvariant, PTL

(* A live article gives way to a failure only if both were fetched at once
   (Extract asks the cache first). *)
THEOREM ArticlesOutliveFailures == ExtractorSpec => LiveBodyKept
<1>1. ASSUME ExtractorInv, [ExtractorNext]_xvars, NEW k \in Keys, Usable(k),
             store'[k] # None, store[k].class = "", store'[k].class # ""
      PROVE  \E p \in raced : pc[p] = "store" /\ url[p] = k
  <2>a. store \in [Keys -> Entries \cup {None}]
    BY <1>1 DEF ExtractorInv, ExtractorTypeOK, CacheTypeOK
  <2>1. store' # store
    BY <1>1
  <2>2. ~Decay
    BY <1>1, <2>a DEF Decay, Drop, Spoil, Lose
  <2>3. ASSUME NEW p \in Callers,
               \/ \E u \in Keys : Call(p, u)
               \/ Hit(p) \/ Miss(p) \/ Answer(p) \/ Return(p)
        PROVE  FALSE
    BY <2>1, <2>3
    DEF Call, Hit, Find, Miss, Answer, Transient, Refused, Article, Return, Done
  <2>4. PICK p \in Callers : Store(p) \/ Alias(p)
    BY <1>1, <2>1, <2>2, <2>3 DEF ExtractorNext, ExtractStep, xvars
  <2>5. CASE Alias(p)
    <3>1. entry[p].class = "" /\ store' = [store EXCEPT ![entry[p].page] = entry[p]]
      BY <2>1, <2>5, <1>1 DEF Alias, NotSet, Set, Put, ExtractorInv, PendingEarned
    <3> QED
      BY <3>1, <1>1, <2>a
  <2>6. CASE Store(p)
    <3>1. pc[p] = "store" /\ store' = [store EXCEPT ![url[p]] = entry[p]]
      BY <2>1, <2>6 DEF Store, NotSet, Set, Put
    <3>2. url[p] = k
      BY <3>1, <1>1, <2>a
    <3>3. p \in raced
      BY <3>1, <3>2, <1>1 DEF ExtractorInv, Overtaken
    <3> QED
      BY <3>1, <3>2, <3>3
  <2> QED
    BY <2>4, <2>5, <2>6
<1>2. ExtractorInv /\ [ExtractorNext]_xvars =>
        [\A k \in Keys :
           (/\ Usable(k) /\ store'[k] # None
            /\ store[k].class = "" /\ store'[k].class # "")
             => \E p \in raced : pc[p] = "store" /\ url[p] = k]_xvars
  BY <1>1
<1> QED
  BY <1>2, ExtractorInvariant, PTL DEF ExtractorSpec, LiveBodyKept
-----------------------------------------------------------------------------
(* enrich is a user of Extract: it adds when calls are made. *)
LoopInv == phase \in {"loop", "go", "wait"} /\ (phase = "go" => next \in Index)
           /\ next \in 1..(Len(Links) + 1)

LEMMA EnrichStepIsExtractorStep ==
  ASSUME LoopInv, [EnrichNext]_evars
  PROVE  LoopInv' /\ [ExtractorNext]_xvars
<1>a. Len(Links) \in Nat /\ \A i \in Index : Links[i] \in Keys \cup {NoURL}
  BY EnrichAssumption DEF Index
<1>1. CASE Loop
  BY <1>1, <1>a DEF Loop, LoopInv, Index
<1>2. CASE Collect
  BY <1>2, <1>a DEF Collect, LoopInv, Index
<1>3. CASE Expires
  BY <1>3 DEF Expires, LoopInv
<1>4. CASE Ages
  BY <1>4 DEF Ages, local, LoopInv, ExtractorNext
<1>5. ASSUME NEW p \in Callers, Go(p) PROVE LoopInv' /\ [ExtractorNext]_xvars
  <2>1. LoopInv' /\ Links[next] \in Keys \cup {NoURL}
    BY <1>5, <1>a DEF Go, LoopInv, Index
  <2>2. UNCHANGED xvars \/ (Call(p, Links[next]) /\ Links[next] \in Keys)
    <3>1. CASE Links[next] = NoURL
      BY <1>5, <3>1 DEF Go, xvars
    <3>2. CASE Links[next] # NoURL
      BY <1>5, <2>1, <3>2 DEF Go
    <3> QED
      BY <3>1, <3>2
  <2> QED
    BY <2>1, <2>2 DEF ExtractorNext
<1>6. ASSUME NEW p \in Callers, Extracting(p)
      PROVE  LoopInv' /\ [ExtractorNext]_xvars
  BY <1>6 DEF Extracting, LoopInv, ExtractorNext
<1>7. ASSUME NEW p \in Callers, ItemDone(p) PROVE LoopInv' /\ [ExtractorNext]_xvars
  BY <1>7 DEF ItemDone, LoopInv, ExtractorNext
<1>8. CASE UNCHANGED evars
  BY <1>8 DEF evars, local, LoopInv
<1> QED
  BY <1>1, <1>2, <1>3, <1>4, <1>5, <1>6, <1>7, <1>8 DEF EnrichNext

LEMMA EnrichUsesExtractor == EnrichSpec => ExtractorSpec
<1>1. EnrichInit => LoopInv /\ ExtractorInit
  BY EnrichAssumption DEF EnrichInit, LoopInv, Index
<1>2. LoopInv /\ [EnrichNext]_evars => LoopInv' /\ [ExtractorNext]_xvars
  BY EnrichStepIsExtractorStep
<1> QED
  BY <1>1, <1>2, PTL DEF EnrichSpec, ExtractorSpec

(* The concurrent extraction of a feed, with its deadlines and retries, keeps
   what is promised of single calls (enrich). *)
THEOREM EnrichKeepsExtractor ==
  EnrichSpec => []EntriesEarned /\ []OutcomeHonest /\ LiveBodyKept
BY EnrichUsesExtractor, OnlyEarnedEntries, LabelsAreHonest, ArticlesOutliveFailures, PTL

-----------------------------------------------------------------------------
(* The loop over the results.  What a recursive function computes is shown by
   induction over its argument, which the theorems of the library about
   well-founded orders allow for a set of numbers in place of a predicate. *)

LEMMA IntervalInduction ==
  ASSUME NEW n \in Nat, NEW S, 0 \in S, \A i \in 0..n : i \in S /\ i < n => i + 1 \in S
  PROVE  \A i \in 0..n : i \in S
<1> DEFINE T == (0..n) \ S
           F == {0..i : i \in T}
<1>1. SUFFICES ASSUME T # {} PROVE FALSE
  OBVIOUS
<1>2. IsFiniteSet(0..n)
  BY FS_Interval
<1>3. FiniteSubsetsOf(0..n) = SUBSET (0..n)
  BY <1>2, FS_FiniteSubsetsOfFinite
<1>4. IsWellFoundedOn(StrictSubsetOrdering(0..n), SUBSET (0..n))
  BY <1>3, FS_StrictSubsetOrderingWellFounded
<1>5. F \subseteq SUBSET (0..n) /\ F # {}
  BY <1>1
<1>6. \E x \in F : \A y \in F : <<y, x>> \notin StrictSubsetOrdering(0..n)
  <2> HIDE DEF F
  <2> QED
    BY <1>4, <1>5, WFMin
<1>7. PICK i \in T : \A j \in T : <<0..j, 0..i>> \notin StrictSubsetOrdering(0..n)
  BY <1>6
<1>8. i # 0 /\ i \in 0..n /\ i - 1 \in 0..n
  BY <1>7
<1>9. CASE i - 1 \in S
  BY <1>8, <1>9, <1>7
<1>10. CASE i - 1 \in T
  <2>1. 0..(i-1) \subseteq 0..i /\ i \in 0..i /\ i \notin 0..(i-1)
    BY <1>8
  <2>2. 0..(i-1) \in SUBSET (0..n) /\ 0..i \in SUBSET (0..n)
    BY <1>8
  <2>3. <<0..(i-1), 0..i>> \in StrictSubsetOrdering(0..n)
    <3> DEFINE a == 0..(i-1)
               b == 0..i
               top == SUBSET (0..n)
    <3>1. a \in top /\ b \in top /\ a \subseteq b /\ a # b
      BY <2>1, <2>2
    <3>2. StrictSubsetOrdering(0..n) = {x \in top \X top : x[1] \subseteq x[2] /\ x[1] # x[2]}
      BY Zenon DEF StrictSubsetOrdering
    <3> HIDE DEF a, b, top
    <3> DEFINE p == <<a, b>>
    <3>3. p \in top \X top /\ p[1] = a /\ p[2] = b
      BY <3>1
    <3> HIDE DEF p
    <3>4. p \in StrictSubsetOrdering(0..n)
      BY <3>1, <3>2, <3>3
    <3> QED
      BY <3>4 DEF a, b, p
  <2> QED
    BY <2>3, <1>7, <1>10
<1> QED
  BY <1>8, <1>9, <1>10

\* The recursive definition has a solution, so Gathered is one.
LEMMA GatheredDef ==
  ASSUME Len(Links) \in Nat
  PROVE  Gathered = [i \in 0..Len(Links) |->
           IF i = 0 THEN <<>>
           ELSE IF made[i] = NoItem THEN Gathered[i - 1]
           ELSE Append(Gathered[i - 1], made[i])]
<1> DEFINE n == Len(Links)
           Add(i, v) == IF made[i] = NoItem THEN v ELSE Append(v, made[i])
           Upto(g, k) == g = [i \in 0..k |-> IF i = 0 THEN <<>> ELSE Add(i, g[i - 1])]
           S == {k \in 0..n : \E g : Upto(g, k)}
<1>1. 0 \in S
  <2>1. Upto([i \in 0..0 |-> <<>>], 0)
    OBVIOUS
  <2> QED
    BY <2>1, 0 \in 0..n
<1>2. ASSUME NEW k \in 0..n, k \in S, k < n PROVE k + 1 \in S
  <2>1. PICK g : Upto(g, k)
    BY <1>2
  <2> DEFINE h == [i \in 0..(k + 1) |-> IF i = k + 1 THEN Add(i, g[k]) ELSE g[i]]
  <2>2. \A i \in 0..k : h[i] = g[i]
    BY <1>2
  <2>3. ASSUME NEW i \in 0..(k + 1)
        PROVE  h[i] = IF i = 0 THEN <<>> ELSE Add(i, h[i - 1])
    <3>1. CASE i = k + 1
      BY <3>1, <2>2
    <3>2. CASE i # k + 1 /\ i # 0
      <4>1. i \in 0..k /\ i - 1 \in 0..k
        BY <3>2
      <4>2. g[i] = Add(i, g[i - 1])
        BY <4>1, <3>2, <2>1
      <4> QED
        BY <4>1, <4>2, <2>2, <3>2
    <3>3. CASE i = 0
      BY <3>3, <2>1, <2>2
    <3> QED
      BY <3>1, <3>2, <3>3
  <2>4. Upto(h, k + 1)
    <3> HIDE DEF Add
    <3> QED
      BY <2>3
  <2>5. k + 1 \in 0..n
    BY <1>2
  <2> QED
    BY <2>4, <2>5
<1>3. n \in S
  <2>1. n \in Nat /\ n \in 0..n
    OBVIOUS
  <2> HIDE DEF S, n
  <2>2. \A i \in 0..n : i \in S /\ i < n => i + 1 \in S
    BY <1>2
  <2> QED
    BY <1>1, <2>1, <2>2, IntervalInduction
<1>4. \E g : g = [i \in 0..Len(Links) |->
           IF i = 0 THEN <<>>
           ELSE IF made[i] = NoItem THEN g[i - 1]
           ELSE Append(g[i - 1], made[i])]
  BY <1>3
<1> QED
  BY <1>4 DEF Gathered
\* What has been collected of the first i items, in their order.
InOrder(g, i) ==
  /\ g \in Seq(Item)
  /\ \A j \in DOMAIN g : g[j].at \in 1..i /\ g[j] # NoItem /\ g[j] = made[g[j].at]
  /\ \A j, k \in DOMAIN g : j < k => g[j].at < g[k].at
  /\ \A m \in 1..i : made[m] # NoItem => \E j \in DOMAIN g : g[j].at = m

LEMMA AppendInOrder ==
  ASSUME made \in [Index -> Item], NEW i \in Index, NEW g, InOrder(g, i - 1),
         made[i] # NoItem, made[i].at = i, Len(Links) \in Nat
  PROVE  InOrder(Append(g, made[i]), i)
<1> DEFINE h == Append(g, made[i])
<1>1. /\ g \in Seq(Item) /\ made[i] \in Item /\ i \in Nat \ {0}
      /\ h \in Seq(Item) /\ Len(h) = Len(g) + 1 /\ Len(g) \in Nat
      /\ DOMAIN h = 1..(Len(g) + 1) /\ DOMAIN g = 1..Len(g)
      /\ h[Len(g) + 1] = made[i] /\ \A j \in DOMAIN g : h[j] = g[j]
  BY DEF InOrder, Index
<1>2. \A j \in DOMAIN g : g[j].at \in 1..(i - 1) /\ g[j] # NoItem /\ g[j] = made[g[j].at]
  BY DEF InOrder
<1>3. ASSUME NEW j \in DOMAIN h PROVE h[j].at \in 1..i /\ h[j] # NoItem /\ h[j] = made[h[j].at]
  <2>1. CASE j = Len(g) + 1
    BY <2>1, <1>1
  <2>2. CASE j # Len(g) + 1
    BY <2>2, <1>1, <1>2
  <2> QED
    BY <2>1, <2>2
<1>4. ASSUME NEW j \in DOMAIN h, NEW k \in DOMAIN h, j < k PROVE h[j].at < h[k].at
  <2>1. j \in DOMAIN g
    BY <1>1, <1>4
  <2>2. CASE k = Len(g) + 1
    BY <2>1, <2>2, <1>1, <1>2
  <2>3. CASE k # Len(g) + 1
    BY <2>1, <2>3, <1>1, <1>4 DEF InOrder
  <2> QED
    BY <2>2, <2>3
<1>5. ASSUME NEW m \in 1..i, made[m] # NoItem PROVE \E j \in DOMAIN h : h[j].at = m
  <2>1. CASE m = i
    BY <2>1, <1>1
  <2>2. CASE m # i
    <3>1. m \in 1..(i - 1)
      BY <2>2, <1>1
    <3>2. PICK j \in DOMAIN g : g[j].at = m
      BY <3>1, <1>5 DEF InOrder
    <3> QED
      BY <3>2, <1>1
  <2> QED
    BY <2>1, <2>2
<1> QED
  BY <1>1, <1>3, <1>4, <1>5 DEF InOrder

LEMMA CollectedInOrder ==
  ASSUME made \in [Index -> Item], \A i \in Index : made[i] # NoItem => made[i].at = i
  PROVE  InOrder(Collected, Len(Links))
<1> DEFINE n == Len(Links)
           S == {i \in 0..n : InOrder(Gathered[i], i)}
<1>a. n \in Nat
  BY EnrichAssumption
<1>1. /\ Gathered[0] = <<>>
      /\ \A i \in Index : Gathered[i] = IF made[i] = NoItem THEN Gathered[i - 1]
                                        ELSE Append(Gathered[i - 1], made[i])
  <2>1. Gathered = [i \in 0..n |->
           IF i = 0 THEN <<>>
           ELSE IF made[i] = NoItem THEN Gathered[i - 1]
           ELSE Append(Gathered[i - 1], made[i])]
    BY <1>a, GatheredDef
  <2>2. 0 \in 0..n /\ \A i \in Index : i \in 0..n /\ i # 0
    BY <1>a DEF Index
  <2> HIDE DEF n
  <2> QED
    BY <2>1, <2>2
<1>2. 0 \in S
  <2>1. InOrder(<<>>, 0)
    <3>1. <<>> \in Seq(Item) /\ DOMAIN <<>> = {} /\ 1..0 = {}
      OBVIOUS
    <3> QED
      BY <3>1 DEF InOrder
  <2> QED
    BY <2>1, <1>1, <1>a
<1>3. ASSUME NEW i \in 0..n, i \in S, i < n PROVE i + 1 \in S
  <2>1. i + 1 \in Index /\ (i + 1) - 1 = i /\ InOrder(Gathered[i], i)
    BY <1>3, <1>a DEF Index
  <2>2. CASE made[i + 1] = NoItem
    <3>1. Gathered[i + 1] = Gathered[i]
      BY <2>1, <2>2, <1>1
    <3>2. InOrder(Gathered[i], i + 1)
      BY <2>1, <2>2, <1>3 DEF InOrder
    <3>3. i + 1 \in 0..n
      BY <2>1, <1>a DEF Index
    <3> QED
      BY <3>1, <3>2, <3>3
  <2>3. CASE made[i + 1] # NoItem
    <3>1. Gathered[i + 1] = Append(Gathered[i], made[i + 1])
      BY <2>1, <2>3, <1>1
    <3>2. InOrder(Append(Gathered[i], made[i + 1]), i + 1)
      BY <2>1, <2>3, <1>a, AppendInOrder
    <3>3. i + 1 \in 0..n
      BY <2>1, <1>a DEF Index
    <3> QED
      BY <3>1, <3>2, <3>3
  <2> QED
    BY <2>2, <2>3
<1>4. n \in S
  <2>1. n \in 0..n
    BY <1>a
  <2> HIDE DEF S, n
  <2> QED
    BY <2>1, <1>a, <1>2, <1>3, IntervalInduction
<1> QED
  BY <1>4 DEF Collected

-----------------------------------------------------------------------------
(* The invariant of enrich.  What a call has in hand is what the URL it was
   made for leads to. *)
InHand(p) ==
  /\ (got[p] # NoHit /\ got[p][2].class = "") =>
       \E u \in Keys : <<u, got[p][2].page>> \in Leads /\ url[p] \in {u, got[p][2].page}
  /\ (pc[p] = "done" /\ entry[p] # None /\ entry[p].class = "") =>
       <<url[p], entry[p].page>> \in Leads

\* A goroutine works on an item that the loop has handed out, for its link.
AtWork(p) ==
  pc[p] # "idle" => item[p] \in Linked /\ item[p] < next /\ url[p] = Links[item[p]]

\* An item shows nothing, or what its own link leads to.
RightItem(x) ==
  x.page # NoURL => \E u \in Keys : <<u, x.page>> \in Leads /\ Links[x.at] \in {u, x.page}

\* What was handed out has been made, or somebody works on it.
HandedOut(i) ==
  /\ made[i] # NoItem => i \in Linked /\ made[i].at = i /\ RightItem(made[i])
  /\ (i \in Linked /\ i < next) =>
       made[i] # NoItem \/ \E p \in Callers : pc[p] # "idle" /\ item[p] = i

EnrichTypes ==
  /\ item \in [Callers -> 0..Len(Links)]
  /\ made \in [Index -> Item]
  /\ expired \in BOOLEAN /\ gained \in BOOLEAN /\ hasty \in BOOLEAN
  /\ cut \subseteq Index
  /\ published \in Seq(Item)

(* gctx is done only with ctx, for no goroutine returns an error: so the loop
   has handed out all items unless the refresh fails. *)
DeadlineInv ==
  /\ groupDone = expired
  /\ cut # {} => groupDone
  /\ phase = "wait" => groupDone \/ next > Len(Links)

EnrichInv ==
  /\ ExtractorInv /\ LoopInv /\ EnrichTypes /\ DeadlineInv
  /\ \A p \in Callers : InHand(p) /\ AtWork(p)
  /\ \A i \in Index : HandedOut(i)
  /\ \A j \in DOMAIN published : RightItem(published[j])

LEMMA LinkFacts ==
  /\ Len(Links) \in Nat /\ NoURL \notin Keys
  /\ Index = 1..Len(Links) /\ Linked = {i \in Index : Links[i] # NoURL}
  /\ \A i \in Linked : Links[i] \in Keys /\ i \in Index /\ i # 0
BY EnrichAssumption, ExtractorAssumption DEF Index, Linked

LEMMA EnrichInvInit == EnrichInit => EnrichInv
<1> SUFFICES ASSUME EnrichInit PROVE EnrichInv
  OBVIOUS
<1>1. ExtractorInv
  BY ExtractorInvInit DEF EnrichInit
<1>2. LoopInv /\ EnrichTypes /\ DeadlineInv
  <2>1. NoItem \in Item /\ <<>> \in Seq(Item)
    BY LinkFacts DEF NoItem, Item
  <2>2. LoopInv
    BY LinkFacts DEF EnrichInit, LoopInv
  <2>4. DeadlineInv
    BY DEF EnrichInit, DeadlineInv
  <2>3. EnrichTypes
    <3>1. Len(Links) \in Nat
      BY LinkFacts
    <3>2. item \in [Callers -> 0..Len(Links)]
      BY <3>1 DEF EnrichInit
    <3>3. made \in [Index -> Item] /\ published \in Seq(Item) /\ cut \subseteq Index
      BY <2>1 DEF EnrichInit
    <3>4. expired \in BOOLEAN /\ gained \in BOOLEAN /\ hasty \in BOOLEAN
      BY DEF EnrichInit
    <3> QED
      BY <3>2, <3>3, <3>4 DEF EnrichTypes
  <2> QED
    BY <2>2, <2>3, <2>4
<1>3. ASSUME NEW p \in Callers PROVE InHand(p) /\ AtWork(p)
  BY DEF EnrichInit, ExtractorInit, CacheInit, InHand, AtWork
<1>4. ASSUME NEW i \in Index PROVE HandedOut(i)
  BY LinkFacts DEF EnrichInit, HandedOut
<1> QED
  BY <1>1, <1>2, <1>3, <1>4 DEF EnrichInv, EnrichInit

\* Only p moves in a step of p's call, and what it takes in hand is right.
LEMMA ExtractStepFrame ==
  ASSUME ExtractorInv, NEW p \in Callers, ExtractStep(p)
  PROVE  /\ url' = url /\ pc[p] # "idle" /\ pc'[p] # "idle"
         /\ \A q \in Callers \ {p} : /\ pc'[q] = pc[q] /\ got'[q] = got[q]
                                     /\ entry'[q] = entry[q]
<1>1. /\ pc \in [Callers -> {"idle", "look", "fetch", "store", "alias", "done"}]
      /\ got \in [Callers -> (Keys \X (Entries \cup {Part})) \cup {NoHit}]
      /\ entry \in [Callers -> Entries \cup {None}]
  BY DEF ExtractorInv, ExtractorTypeOK, CacheTypeOK
<1>2. CASE Hit(p)
  BY <1>1, <1>2 DEF Hit, Find, Goto
<1>3. CASE Miss(p)
  BY <1>1, <1>3 DEF Miss, Goto
<1>4. CASE Answer(p)
  BY <1>1, <1>4 DEF Answer, Transient, Refused, Article, Goto
<1>5. CASE Store(p)
  BY <1>1, <1>5 DEF Store, Set, Put, NotSet, Goto
<1>6. CASE Alias(p)
  BY <1>1, <1>6 DEF Alias, Set, Put, NotSet, Goto
<1> QED
  BY <1>2, <1>3, <1>4, <1>5, <1>6 DEF ExtractStep

LEMMA InHandStep ==
  ASSUME ExtractorInv, NEW p \in Callers, InHand(p), ExtractStep(p)
  PROVE  InHand(p)'
<1>1. /\ pc \in [Callers -> {"idle", "look", "fetch", "store", "alias", "done"}]
      /\ got \in [Callers -> (Keys \X (Entries \cup {Part})) \cup {NoHit}]
      /\ entry \in [Callers -> Entries \cup {None}]
      /\ store \in [Keys -> Entries \cup {None}]
      /\ pc[p] # "idle" => url[p] \in Keys
      /\ EntriesEarned /\ PendingEarned(p) /\ Labelled(p)
  BY DEF ExtractorInv, ExtractorTypeOK, CacheTypeOK
<1>2. CASE Hit(p)
  <2>1. /\ got' = [got EXCEPT ![p] = <<url[p], store[url[p]]>>] /\ entry' = entry /\ url' = url
        /\ store[url[p]] # None /\ url[p] \in Keys /\ entry[p] = None
    BY <1>1, <1>2 DEF Hit, Usable, Find, Content, Labelled
  <2>2. got'[p][2] = store[url[p]]
    BY <2>1, <1>1
  <2>3. store[url[p]].class = "" => \E u \in Keys :
          <<u, store[url[p]].page>> \in Leads /\ url[p] \in {u, store[url[p]].page}
    BY <2>1, <1>1 DEF EntriesEarned
  <2> QED
    BY <2>1, <2>2, <2>3 DEF InHand
<1>3. CASE Miss(p)
  BY <1>1, <1>3 DEF Miss, Goto, InHand, Labelled
<1>4. CASE Answer(p)
  <2>1. /\ got' = got /\ url' = url /\ pc[p] = "fetch" /\ got[p] = NoHit /\ entry[p] = None
        /\ pc'[p] = "done" => entry'[p] = None
    BY <1>1, <1>4 DEF Answer, Transient, Refused, Article, Goto, Labelled
  <2> QED
    BY <2>1 DEF InHand
<1>5. CASE Store(p)
  <2>1. /\ got' = got /\ url' = url /\ entry' = entry /\ got[p] = NoHit
        /\ pc'[p] = "done" => entry[p].class # ""
    BY <1>1, <1>5 DEF Store, Set, Put, NotSet, Goto, Labelled
  <2> QED
    BY <2>1 DEF InHand
<1>6. CASE Alias(p)
  <2>1. /\ got' = got /\ url' = url /\ entry' = entry /\ got[p] = NoHit
        /\ entry[p].class = "" => <<url[p], entry[p].page>> \in Leads
    BY <1>1, <1>6 DEF Alias, Set, Put, NotSet, Goto, Labelled, PendingEarned
  <2> QED
    BY <2>1 DEF InHand
<1> QED
  BY <1>2, <1>3, <1>4, <1>5, <1>6 DEF ExtractStep

\* Steps that leave the goroutines and the results alone.
LEMMA LoopSteps ==
  ASSUME EnrichInv, ExtractorInv', LoopInv', Loop \/ Expires \/ Ages
  PROVE  EnrichInv'
<1>1. /\ UNCHANGED <<pc, url, got, entry, item, made, next, cut, published>>
      /\ gained' \in BOOLEAN /\ hasty' \in BOOLEAN /\ expired' \in BOOLEAN
  <2>1. CASE Ages
    BY <2>1 DEF Ages, Decay, Drop, Spoil, Lose, local, EnrichInv, EnrichTypes
  <2>2. CASE Loop
    BY <2>2 DEF Loop, xvars, EnrichInv, EnrichTypes
  <2>3. CASE Expires
    BY <2>3 DEF Expires, xvars, EnrichInv, EnrichTypes
  <2> QED
    BY <2>1, <2>2, <2>3
<1>2. EnrichTypes'
  BY <1>1 DEF EnrichInv, EnrichTypes
<1>3. DeadlineInv'
  <2>1. DeadlineInv /\ next \in 1..(Len(Links) + 1)
    BY DEF EnrichInv, LoopInv
  <2>2. CASE Ages
    BY <2>1, <2>2 DEF Ages, local, DeadlineInv
  <2>3. CASE Loop
    BY <2>1, <2>3 DEF Loop, DeadlineInv
  <2>4. CASE Expires
    BY <2>1, <2>4 DEF Expires, DeadlineInv
  <2> QED
    BY <2>2, <2>3, <2>4
<1>4. \A p \in Callers : (InHand(p) /\ AtWork(p))'
  BY <1>1 DEF EnrichInv, InHand, AtWork
<1>5. \A i \in Index : HandedOut(i)'
  BY <1>1 DEF EnrichInv, HandedOut
<1> QED
  BY <1>1, <1>2, <1>3, <1>4, <1>5 DEF EnrichInv

LEMMA GoStep ==
  ASSUME EnrichInv, ExtractorInv', LoopInv', NEW p \in Callers, Go(p)
  PROVE  EnrichInv'
<1>a. /\ EnrichTypes /\ DeadlineInv /\ next \in Index /\ next \in 0..Len(Links)
      /\ item \in [Callers -> 0..Len(Links)]
      /\ pc \in [Callers -> {"idle", "look", "fetch", "store", "alias", "done"}]
      /\ url \in [Callers -> Keys \cup {NoURL}]
  BY LinkFacts DEF EnrichInv, EnrichTypes, Go, LoopInv, ExtractorInv, ExtractorTypeOK
<1>1. /\ UNCHANGED <<got, entry, made, expired, groupDone, cut, gained, hasty, published>>
      /\ phase' = "loop" /\ next' = next + 1 /\ pc[p] = "idle"
      /\ \/ Links[next] = NoURL /\ UNCHANGED <<pc, url, item>>
         \/ /\ Links[next] # NoURL /\ pc' = [pc EXCEPT ![p] = "look"]
            /\ url' = [url EXCEPT ![p] = Links[next]]
            /\ item' = [item EXCEPT ![p] = next]
  BY DEF Go, Call, Goto, xvars
<1>2. EnrichTypes' /\ DeadlineInv'
  <2>1. item' \in [Callers -> 0..Len(Links)]
    BY <1>1, <1>a DEF EnrichTypes
  <2>2. EnrichTypes'
    BY <2>1, <1>1, <1>a DEF EnrichTypes
  <2>3. DeadlineInv'
    BY <1>1, <1>a DEF DeadlineInv
  <2> QED
    BY <2>2, <2>3
<1>3. ASSUME NEW q \in Callers PROVE (InHand(q) /\ AtWork(q))'
  <2>1. InHand(q) /\ AtWork(q) /\ got[p] = NoHit /\ entry[p] = None
    BY <1>1 DEF EnrichInv, ExtractorInv, Labelled
  <2>2. InHand(q)'
    BY <2>1, <1>1, <1>a DEF InHand
  <2>3. AtWork(q)'
    <3>1. q # p => pc'[q] = pc[q] /\ url'[q] = url[q] /\ item'[q] = item[q]
      BY <1>1, <1>a
    <3>2. q = p => \/ pc'[q] = "idle"
                   \/ item'[q] = next /\ url'[q] = Links[next] /\ next \in Linked
      BY <1>1, <1>a, LinkFacts DEF EnrichTypes
    <3> QED
      BY <3>1, <3>2, <2>1, <1>1, <1>a, LinkFacts DEF AtWork
  <2> QED
    BY <2>2, <2>3
<1>4. ASSUME NEW i \in Index PROVE HandedOut(i)'
  <2>1. HandedOut(i)
    BY DEF EnrichInv
  <2>2. ASSUME i \in Linked, i < next + 1
        PROVE  made[i] # NoItem \/ \E q \in Callers : pc'[q] # "idle" /\ item'[q] = i
    <3>1. CASE i = next
      BY <3>1, <2>2, <1>1, <1>a, LinkFacts DEF EnrichTypes
    <3>2. CASE i # next
      <4>1. i < next
        BY <3>2, <2>2, <1>a, LinkFacts
      <4>2. made[i] # NoItem \/ \E q \in Callers \ {p} : pc[q] # "idle" /\ item[q] = i
        BY <4>1, <2>1, <2>2, <1>1 DEF HandedOut
      <4> QED
        BY <4>2, <1>1, <1>a
    <3> QED
      BY <3>1, <3>2
  <2> QED
    BY <2>1, <2>2, <1>1 DEF HandedOut
<1> QED
  BY <1>1, <1>2, <1>3, <1>4 DEF EnrichInv

LEMMA ExtractingStep ==
  ASSUME EnrichInv, ExtractorInv', LoopInv', NEW p \in Callers, Extracting(p)
  PROVE  EnrichInv'
<1>1. /\ UNCHANGED <<phase, next, item, made, expired, groupDone, hasty, published, url>>
      /\ pc[p] # "idle" /\ pc'[p] # "idle"
      /\ \A q \in Callers \ {p} : pc'[q] = pc[q] /\ got'[q] = got[q] /\ entry'[q] = entry[q]
  BY ExtractStepFrame DEF EnrichInv, Extracting
<1>2. item[p] \in Index
  BY <1>1, LinkFacts DEF EnrichInv, AtWork
<1>3. EnrichTypes'
  <2>1. cut' \subseteq Index
    BY <1>2 DEF Extracting, EnrichInv, EnrichTypes
  <2>2. gained' \in BOOLEAN
    BY DEF Extracting
  <2> QED
    BY <2>1, <2>2, <1>1 DEF EnrichInv, EnrichTypes
<1>4. DeadlineInv'
  <2>1. cut' # {} => cut # {} \/ groupDone
    BY DEF Extracting
  <2> QED
    BY <2>1, <1>1 DEF EnrichInv, DeadlineInv
<1>5. ASSUME NEW q \in Callers PROVE (InHand(q) /\ AtWork(q))'
  <2>1. InHand(q) /\ AtWork(q) /\ ExtractorInv
    BY DEF EnrichInv
  <2>2. CASE q = p
    <3>1. InHand(p)'
      BY <2>1, <2>2, InHandStep DEF Extracting
    <3> QED
      BY <3>1, <2>1, <2>2, <1>1 DEF AtWork
  <2>3. CASE q # p
    BY <2>1, <2>3, <1>1 DEF InHand, AtWork
  <2> QED
    BY <2>2, <2>3
<1>6. ASSUME NEW i \in Index PROVE HandedOut(i)'
  BY <1>1 DEF EnrichInv, HandedOut
<1> QED
  BY <1>1, <1>3, <1>4, <1>5, <1>6 DEF EnrichInv

\* What itemFor makes of a finished call is the item, with what it leads to.
LEMMA OutcomeRight ==
  ASSUME EnrichInv, NEW p \in Callers, pc[p] = "done"
  PROVE  /\ Outcome(p) \in Item /\ Outcome(p).at = item[p] /\ Outcome(p) # NoItem
         /\ RightItem(Outcome(p)) /\ item[p] \in Linked
<1>1. /\ InHand(p) /\ AtWork(p) /\ Labelled(p) /\ url[p] \in Keys
      /\ got \in [Callers -> (Keys \X (Entries \cup {Part})) \cup {NoHit}]
      /\ entry \in [Callers -> Entries \cup {None}]
      /\ Leads \subseteq Keys \X Keys /\ NoURL \notin Keys
  BY ExtractorAssumption DEF EnrichInv, ExtractorInv, ExtractorTypeOK, CacheTypeOK
<1>2. item[p] \in Linked /\ url[p] = Links[item[p]] /\ item[p] \in 0..Len(Links) /\ item[p] # 0
  BY <1>1, LinkFacts DEF AtWork
<1>3. ASSUME NEW u \in Keys, NEW w \in Keys, <<w, u>> \in Leads, url[p] \in {w, u},
             Outcome(p) = WithArticle(item[p], u)
      PROVE  /\ Outcome(p) \in Item /\ Outcome(p).at = item[p] /\ Outcome(p) # NoItem
             /\ RightItem(Outcome(p))
  BY <1>2, <1>3 DEF WithArticle, Item, NoItem, RightItem
<1>b. ASSUME NEW e \in Entries PROVE e.class \in Classes \cup {""}
  <2>1. (\E u \in Keys : e = Body(u)) \/ (\E c \in Classes : e = Negative(c))
    BY ExtractorAssumption
  <2> QED
    BY <2>1, EntryShapes
<1>c. entry[p] # None => entry[p].class \in Classes \cup {""}
  BY <1>1, <1>b
<1>4. CASE outcome[p] = "ok"
  <2>1. entry[p] # None /\ entry[p].class = ""
    BY <1>1, <1>4, <1>c DEF Labelled, Classes
  <2>2. <<url[p], entry[p].page>> \in Leads /\ entry[p].page \in Keys
    BY <2>1, <1>1 DEF InHand
  <2> QED
    BY <2>2, <1>1, <1>2, <1>3, <1>4 DEF Outcome
<1>5. CASE outcome[p] = "cache_hit"
  <2>1. got[p] # NoHit /\ got[p][2].class = ""
    BY <1>1, <1>5, <1>c DEF Labelled, Classes
  <2>2. PICK u \in Keys : <<u, got[p][2].page>> \in Leads /\ url[p] \in {u, got[p][2].page}
    BY <2>1, <1>1 DEF InHand
  <2>3. got[p][2].page \in Keys
    BY <2>2, <1>1
  <2> QED
    BY <2>2, <2>3, <1>2, <1>3, <1>5 DEF Outcome
<1>6. CASE outcome[p] \notin {"ok", "cache_hit"}
  BY <1>2, <1>6 DEF Outcome, WithDescription, Item, NoItem, RightItem
<1> QED
  BY <1>2, <1>4, <1>5, <1>6

LEMMA ItemDoneStep ==
  ASSUME EnrichInv, ExtractorInv', LoopInv', NEW p \in Callers, ItemDone(p)
  PROVE  EnrichInv'
<1>a. /\ Outcome(p) \in Item /\ Outcome(p).at = item[p] /\ Outcome(p) # NoItem
      /\ RightItem(Outcome(p)) /\ item[p] \in Linked /\ item[p] \in Index
  BY OutcomeRight, LinkFacts DEF ItemDone, Return
<1>b. /\ made \in [Index -> Item] /\ item \in [Callers -> 0..Len(Links)]
      /\ pc \in [Callers -> {"idle", "look", "fetch", "store", "alias", "done"}]
      /\ url \in [Callers -> Keys \cup {NoURL}]
      /\ got \in [Callers -> (Keys \X (Entries \cup {Part})) \cup {NoHit}]
      /\ entry \in [Callers -> Entries \cup {None}]
  BY DEF EnrichInv, EnrichTypes, ExtractorInv, ExtractorTypeOK, CacheTypeOK
<1>1. /\ UNCHANGED <<phase, next, expired, groupDone, cut, gained, hasty, published>>
      /\ pc' = [pc EXCEPT ![p] = "idle"] /\ url' = [url EXCEPT ![p] = NoURL]
      /\ got' = [got EXCEPT ![p] = NoHit] /\ entry' = [entry EXCEPT ![p] = None]
      /\ made' = [made EXCEPT ![item[p]] = Outcome(p)]
      /\ item' = [item EXCEPT ![p] = 0]
  BY DEF ItemDone, Return, Done, Goto
<1>2. EnrichTypes' /\ DeadlineInv'
  <2>1. made' \in [Index -> Item]
    BY <1>1, <1>a, <1>b
  <2>2. item' \in [Callers -> 0..Len(Links)]
    BY <1>1, <1>b, LinkFacts
  <2> QED
    BY <2>1, <2>2, <1>1 DEF EnrichInv, EnrichTypes, DeadlineInv
<1>3. ASSUME NEW q \in Callers PROVE (InHand(q) /\ AtWork(q))'
  <2>1. InHand(q) /\ AtWork(q)
    BY DEF EnrichInv
  <2> QED
    BY <2>1, <1>1, <1>b DEF InHand, AtWork
<1>4. ASSUME NEW i \in Index PROVE HandedOut(i)'
  <2>1. HandedOut(i)
    BY DEF EnrichInv
  <2>2. CASE i = item[p]
    BY <2>2, <1>1, <1>a, <1>b DEF HandedOut
  <2>3. CASE i # item[p]
    <3>1. made'[i] = made[i]
      BY <2>3, <1>1, <1>b
    <3>2. ASSUME NEW q \in Callers, pc[q] # "idle", item[q] = i
          PROVE  pc'[q] # "idle" /\ item'[q] = i
      BY <3>2, <2>3, <1>1, <1>b
    <3> QED
      BY <3>1, <3>2, <2>1, <1>1 DEF HandedOut
  <2> QED
    BY <2>2, <2>3
<1> QED
  BY <1>1, <1>2, <1>3, <1>4 DEF EnrichInv

LEMMA CollectedRight ==
  ASSUME EnrichInv
  PROVE  /\ InOrder(Collected, Len(Links))
         /\ \A j \in DOMAIN Collected : RightItem(Collected[j])
<1>1. /\ made \in [Index -> Item]
      /\ \A i \in Index : made[i] # NoItem => made[i].at = i /\ RightItem(made[i])
  BY DEF EnrichInv, EnrichTypes, HandedOut
<1>2. InOrder(Collected, Len(Links))
  BY <1>1, CollectedInOrder
<1>3. ASSUME NEW j \in DOMAIN Collected PROVE RightItem(Collected[j])
  <2>1. /\ Collected[j].at \in Index /\ Collected[j] # NoItem
        /\ Collected[j] = made[Collected[j].at]
    BY <1>2 DEF InOrder, Index
  <2> QED
    BY <2>1, <1>1
<1> QED
  BY <1>2, <1>3

LEMMA CollectStep ==
  ASSUME EnrichInv, ExtractorInv', LoopInv', Collect
  PROVE  EnrichInv'
<1>1. /\ UNCHANGED <<pc, url, got, entry, item, hasty>>
      /\ phase' = "loop" /\ next' = 1 /\ made' = [i \in Index |-> NoItem]
      /\ expired' = FALSE /\ groupDone' = FALSE /\ cut' = {} /\ gained' = FALSE
      /\ published' = published \/ published' = Collected
      /\ \A p \in Callers : pc[p] = "idle"
  BY DEF Collect, xvars
<1>2. EnrichTypes'
  <2>1. published' \in Seq(Item)
    BY <1>1, CollectedRight DEF EnrichInv, EnrichTypes, InOrder
  <2>2. made' \in [Index -> Item] /\ cut' \subseteq Index
    BY <1>1, LinkFacts DEF NoItem, Item
  <2> QED
    BY <2>1, <2>2, <1>1 DEF EnrichInv, EnrichTypes
<1>3. DeadlineInv'
  BY <1>1 DEF DeadlineInv
<1>4. ASSUME NEW q \in Callers PROVE (InHand(q) /\ AtWork(q))'
  BY <1>1 DEF EnrichInv, InHand, AtWork
<1>5. ASSUME NEW i \in Index PROVE HandedOut(i)'
  BY <1>1, LinkFacts DEF HandedOut
<1>6. \A j \in DOMAIN published' : RightItem(published'[j])
  BY <1>1, CollectedRight DEF EnrichInv
<1> QED
  BY <1>2, <1>3, <1>4, <1>5, <1>6 DEF EnrichInv, RightItem

LEMMA EnrichInvStep ==
  ASSUME EnrichInv, [EnrichNext]_evars
  PROVE  EnrichInv'
<1>1. ExtractorInv' /\ LoopInv'
  BY EnrichStepIsExtractorStep, ExtractorInvStep DEF EnrichInv
<1>2. CASE UNCHANGED evars
  BY <1>1, <1>2 DEF evars, xvars, local, EnrichInv, EnrichTypes, DeadlineInv, InHand,
     AtWork, HandedOut, RightItem
<1> QED
  BY <1>1, <1>2, LoopSteps, GoStep, ExtractingStep, ItemDoneStep, CollectStep DEF EnrichNext

LEMMA EnrichInvariant == EnrichSpec => []EnrichInv
BY EnrichInvInit, EnrichInvStep, PTL DEF EnrichSpec

(* A published item shows the article that its own link leads to, whichever
   goroutine fetched it and from wherever it came (itemFor). *)
THEOREM ItemsMatchLinks == EnrichSpec => []RightArticle
<1>1. EnrichInv => RightArticle
  BY DEF EnrichInv, RightArticle, RightItem
<1> QED
  BY <1>1, EnrichInvariant, PTL

(* What is published is the whole feed in its order, for a goroutine never
   fails the group, and a refresh that its deadline cut short is not
   published (enrich). *)
THEOREM WholeFeedsOnly == EnrichSpec => PublishedWhole
<1> DEFINE Whole ==
      published' # published =>
        /\ {published'[j].at : j \in DOMAIN published'} = Linked
        /\ \A j \in DOMAIN published' : published'[j] = made[published'[j].at]
        /\ \A j, k \in DOMAIN published' : j < k => published'[j].at < published'[k].at
        /\ cut = {}
<1>1. ASSUME EnrichInv, [EnrichNext]_evars PROVE [Whole]_evars
  <2> SUFFICES ASSUME published' # published PROVE Whole
    OBVIOUS
  <2>1. Collect /\ published' = Collected /\ ~expired
    <3>1. Collect
      BY <1>1 DEF EnrichNext, evars, Loop, Expires, Ages, Go, Extracting, ItemDone
    <3> QED
      BY <3>1 DEF Collect
  <2>2. next > Len(Links) /\ cut = {} /\ \A p \in Callers : pc[p] = "idle"
    BY <2>1, <1>1 DEF Collect, EnrichInv, DeadlineInv
  <2>3. /\ \A j \in DOMAIN Collected : /\ Collected[j].at \in Index /\ Collected[j] # NoItem
                                       /\ Collected[j] = made[Collected[j].at]
        /\ \A j, k \in DOMAIN Collected : j < k => Collected[j].at < Collected[k].at
        /\ \A i \in Index : made[i] # NoItem => \E j \in DOMAIN Collected : Collected[j].at = i
    BY <1>1, CollectedRight DEF InOrder, Index
  <2>4. \A i \in Index : i \in Linked <=> made[i] # NoItem
    <3> SUFFICES ASSUME NEW i \in Index PROVE i \in Linked <=> made[i] # NoItem
      OBVIOUS
    <3>1. HandedOut(i) /\ i < next
      BY <1>1, <2>2, LinkFacts DEF EnrichInv, LoopInv
    <3> QED
      BY <3>1, <2>2 DEF HandedOut
  <2>5. {Collected[j].at : j \in DOMAIN Collected} = Linked
    BY <2>3, <2>4 DEF Linked
  <2> QED
    BY <2>1, <2>2, <2>3, <2>5
<1>2. EnrichInv /\ [EnrichNext]_evars => [Whole]_evars
  BY <1>1
<1> QED
  BY <1>2, EnrichInvariant, PTL DEF EnrichSpec, PublishedWhole

-----------------------------------------------------------------------------
(* The functions of SimplifyDOM recur over the levels of a tree. *)

LEMMA Levels ==
  MaxDepth \in Nat \ {0} /\ 0 \in 0..MaxDepth /\ MaxDepth \in 1..MaxDepth
BY SimplifyAssumption

LEMMA RootTag == "text" \in Tags /\ "div" \in Tags \ {"text"}
BY SimplifyAssumption

\* One level more than v.
TreeAt(d, v) ==
  IF d = 0 THEN {} ELSE Text \cup Elements(v)

LEMMA TreeDef == Tree = [d \in 0..MaxDepth |-> TreeAt(d, Tree[d - 1])]
<1> DEFINE Upto(g, k) == g = [d \in 0..k |-> TreeAt(d, g[d - 1])]
           S == {k \in 0..MaxDepth : \E g : Upto(g, k)}
<1>1. ASSUME NEW v, NEW w PROVE TreeAt(0, v) = TreeAt(0, w)
  BY DEF TreeAt
<1>2. 0 \in S
  <2>1. Upto([d \in 0..0 |-> TreeAt(0, 0)], 0)
    BY <1>1
  <2> QED
    BY <2>1, Levels
<1>3. ASSUME NEW k \in 0..MaxDepth, k \in S, k < MaxDepth PROVE k + 1 \in S
  <2>1. PICK g : Upto(g, k)
    BY <1>3
  <2> DEFINE h == [d \in 0..(k + 1) |-> IF d = k + 1 THEN TreeAt(d, g[k]) ELSE g[d]]
  <2>2. ASSUME NEW d \in 0..(k + 1) PROVE h[d] = TreeAt(d, h[d - 1])
    <3>1. CASE d = k + 1
      BY <3>1
    <3>2. CASE d # k + 1 /\ d # 0
      BY <2>1, <3>2
    <3>3. CASE d = 0
      BY <2>1, <1>1, <3>3
    <3> QED
      BY <3>1, <3>2, <3>3
  <2>3. Upto(h, k + 1)
    <3> HIDE DEF h
    <3>1. h = [d \in 0..(k + 1) |-> h[d]]
      BY DEF h
    <3> QED
      BY <2>2, <3>1
  <2>4. \E f : Upto(f, k + 1)
    <3> HIDE DEF h, Upto
    <3> QED
      BY <2>3
  <2>5. k + 1 \in 0..MaxDepth
    BY <1>3, Levels
  <2> QED
    BY <2>4, <2>5
<1>4. MaxDepth \in S
  <2>1. MaxDepth \in Nat /\ MaxDepth \in 0..MaxDepth
    BY Levels
  <2> HIDE DEF S
  <2> QED
    BY <1>2, <1>3, <2>1, IntervalInduction
<1>5. \E g : g = [d \in 0..MaxDepth |-> TreeAt(d, g[d - 1])]
  BY <1>4
<1> QED
  BY <1>5 DEF Tree, TreeAt

LEMMA Trees ==
  /\ Tree[0] = {}
  /\ \A d \in 1..MaxDepth :
       Tree[d] = Text \cup Elements(Tree[d - 1])
<1>1. \A d \in 0..MaxDepth : Tree[d] = TreeAt(d, Tree[d - 1])
  BY TreeDef
<1>2. 0 \in 0..MaxDepth /\ \A d \in 1..MaxDepth : d \in 0..MaxDepth /\ d # 0
  BY Levels
<1>3. Tree[0] = {}
  BY <1>1, <1>2 DEF TreeAt
<1>4. ASSUME NEW d \in 1..MaxDepth
      PROVE  Tree[d] = Text \cup Elements(Tree[d - 1])
  BY <1>1, <1>2 DEF TreeAt
<1> QED
  BY <1>3, <1>4

\* A pass over a node of d levels, if v is one over its children.
PassAt(d, v) ==
  [n \in Tree[d] |-> [parent \in Tags |->
     Simplified(n, parent, [i \in DOMAIN n.kids |-> v[n.kids[i]][n.tag]])]]

LEMMA PassDef == Pass = [d \in 0..MaxDepth |-> PassAt(d, Pass[d - 1])]
<1> DEFINE Upto(g, k) == g = [d \in 0..k |-> PassAt(d, g[d - 1])]
           S == {k \in 0..MaxDepth : \E g : Upto(g, k)}
<1>1. ASSUME NEW v, NEW w PROVE PassAt(0, v) = PassAt(0, w)
  BY Trees DEF PassAt
<1>2. 0 \in S
  <2>1. Upto([d \in 0..0 |-> PassAt(0, 0)], 0)
    BY <1>1
  <2> QED
    BY <2>1, Levels
<1>3. ASSUME NEW k \in 0..MaxDepth, k \in S, k < MaxDepth PROVE k + 1 \in S
  <2>1. PICK g : Upto(g, k)
    BY <1>3
  <2> DEFINE h == [d \in 0..(k + 1) |-> IF d = k + 1 THEN PassAt(d, g[k]) ELSE g[d]]
  <2>2. ASSUME NEW d \in 0..(k + 1) PROVE h[d] = PassAt(d, h[d - 1])
    <3>1. CASE d = k + 1
      BY <3>1
    <3>2. CASE d # k + 1 /\ d # 0
      BY <2>1, <3>2
    <3>3. CASE d = 0
      BY <2>1, <1>1, <3>3
    <3> QED
      BY <3>1, <3>2, <3>3
  <2>3. Upto(h, k + 1)
    <3> HIDE DEF h
    <3>1. h = [d \in 0..(k + 1) |-> h[d]]
      BY DEF h
    <3> QED
      BY <2>2, <3>1
  <2>4. \E f : Upto(f, k + 1)
    <3> HIDE DEF h, Upto
    <3> QED
      BY <2>3
  <2>5. k + 1 \in 0..MaxDepth
    BY <1>3, Levels
  <2> QED
    BY <2>4, <2>5
<1>4. MaxDepth \in S
  <2>1. MaxDepth \in Nat /\ MaxDepth \in 0..MaxDepth
    BY Levels
  <2> HIDE DEF S
  <2> QED
    BY <1>2, <1>3, <2>1, IntervalInduction
<1>5. \E g : g = [d \in 0..MaxDepth |-> PassAt(d, g[d - 1])]
  BY <1>4
<1> QED
  BY <1>5 DEF Pass, PassAt

\* What is in a node of d levels.
ContentsAt(d, v) ==
  [n \in Tree[d] |->
     IF n.tag \in {"text", "img"}
     THEN IF isPlaceholderImage(n) THEN <<>> ELSE <<n.mark>>
     ELSE FlattenSeq([i \in DOMAIN n.kids |-> v[n.kids[i]]])]

LEMMA ContentsDef == Contents = [d \in 0..MaxDepth |-> ContentsAt(d, Contents[d - 1])]
<1> DEFINE Upto(g, k) == g = [d \in 0..k |-> ContentsAt(d, g[d - 1])]
           S == {k \in 0..MaxDepth : \E g : Upto(g, k)}
<1>1. ASSUME NEW v, NEW w PROVE ContentsAt(0, v) = ContentsAt(0, w)
  BY Trees DEF ContentsAt
<1>2. 0 \in S
  <2>1. Upto([d \in 0..0 |-> ContentsAt(0, 0)], 0)
    BY <1>1
  <2> QED
    BY <2>1, Levels
<1>3. ASSUME NEW k \in 0..MaxDepth, k \in S, k < MaxDepth PROVE k + 1 \in S
  <2>1. PICK g : Upto(g, k)
    BY <1>3
  <2> DEFINE h == [d \in 0..(k + 1) |-> IF d = k + 1 THEN ContentsAt(d, g[k]) ELSE g[d]]
  <2>2. ASSUME NEW d \in 0..(k + 1) PROVE h[d] = ContentsAt(d, h[d - 1])
    <3>1. CASE d = k + 1
      BY <3>1
    <3>2. CASE d # k + 1 /\ d # 0
      BY <2>1, <3>2
    <3>3. CASE d = 0
      BY <2>1, <1>1, <3>3
    <3> QED
      BY <3>1, <3>2, <3>3
  <2>3. Upto(h, k + 1)
    <3> HIDE DEF h
    <3>1. h = [d \in 0..(k + 1) |-> h[d]]
      BY DEF h
    <3> QED
      BY <2>2, <3>1
  <2>4. \E f : Upto(f, k + 1)
    <3> HIDE DEF h, Upto
    <3> QED
      BY <2>3
  <2>5. k + 1 \in 0..MaxDepth
    BY <1>3, Levels
  <2> QED
    BY <2>4, <2>5
<1>4. MaxDepth \in S
  <2>1. MaxDepth \in Nat /\ MaxDepth \in 0..MaxDepth
    BY Levels
  <2> HIDE DEF S
  <2> QED
    BY <1>2, <1>3, <2>1, IntervalInduction
<1>5. \E g : g = [d \in 0..MaxDepth |-> ContentsAt(d, g[d - 1])]
  BY <1>4
<1> QED
  BY <1>5 DEF Contents, ContentsAt

\* What a node of d levels consists of.
ListingAt(d, v) ==
  [n \in Tree[d] |->
     <<n.mark>> \o FlattenSeq([i \in DOMAIN n.kids |-> v[n.kids[i]]])]

LEMMA ListingDef == Listing = [d \in 0..MaxDepth |-> ListingAt(d, Listing[d - 1])]
<1> DEFINE Upto(g, k) == g = [d \in 0..k |-> ListingAt(d, g[d - 1])]
           S == {k \in 0..MaxDepth : \E g : Upto(g, k)}
<1>1. ASSUME NEW v, NEW w PROVE ListingAt(0, v) = ListingAt(0, w)
  BY Trees DEF ListingAt
<1>2. 0 \in S
  <2>1. Upto([d \in 0..0 |-> ListingAt(0, 0)], 0)
    BY <1>1
  <2> QED
    BY <2>1, Levels
<1>3. ASSUME NEW k \in 0..MaxDepth, k \in S, k < MaxDepth PROVE k + 1 \in S
  <2>1. PICK g : Upto(g, k)
    BY <1>3
  <2> DEFINE h == [d \in 0..(k + 1) |-> IF d = k + 1 THEN ListingAt(d, g[k]) ELSE g[d]]
  <2>2. ASSUME NEW d \in 0..(k + 1) PROVE h[d] = ListingAt(d, h[d - 1])
    <3>1. CASE d = k + 1
      BY <3>1
    <3>2. CASE d # k + 1 /\ d # 0
      BY <2>1, <3>2
    <3>3. CASE d = 0
      BY <2>1, <1>1, <3>3
    <3> QED
      BY <3>1, <3>2, <3>3
  <2>3. Upto(h, k + 1)
    <3> HIDE DEF h
    <3>1. h = [d \in 0..(k + 1) |-> h[d]]
      BY DEF h
    <3> QED
      BY <2>2, <3>1
  <2>4. \E f : Upto(f, k + 1)
    <3> HIDE DEF h, Upto
    <3> QED
      BY <2>3
  <2>5. k + 1 \in 0..MaxDepth
    BY <1>3, Levels
  <2> QED
    BY <2>4, <2>5
<1>4. MaxDepth \in S
  <2>1. MaxDepth \in Nat /\ MaxDepth \in 0..MaxDepth
    BY Levels
  <2> HIDE DEF S
  <2> QED
    BY <1>2, <1>3, <2>1, IntervalInduction
<1>5. \E g : g = [d \in 0..MaxDepth |-> ListingAt(d, g[d - 1])]
  BY <1>4
<1> QED
  BY <1>5 DEF Listing, ListingAt

\* What is below a node of d levels.
BelowAt(d, v) ==
  [n \in Tree[d] |->
     UNION {{<<n.kids[i], n.tag>>} \cup v[n.kids[i]] : i \in DOMAIN n.kids}]

LEMMA BelowDef == Below = [d \in 0..MaxDepth |-> BelowAt(d, Below[d - 1])]
<1> DEFINE Upto(g, k) == g = [d \in 0..k |-> BelowAt(d, g[d - 1])]
           S == {k \in 0..MaxDepth : \E g : Upto(g, k)}
<1>1. ASSUME NEW v, NEW w PROVE BelowAt(0, v) = BelowAt(0, w)
  BY Trees DEF BelowAt
<1>2. 0 \in S
  <2>1. Upto([d \in 0..0 |-> BelowAt(0, 0)], 0)
    BY <1>1
  <2> QED
    BY <2>1, Levels
<1>3. ASSUME NEW k \in 0..MaxDepth, k \in S, k < MaxDepth PROVE k + 1 \in S
  <2>1. PICK g : Upto(g, k)
    BY <1>3
  <2> DEFINE h == [d \in 0..(k + 1) |-> IF d = k + 1 THEN BelowAt(d, g[k]) ELSE g[d]]
  <2>2. ASSUME NEW d \in 0..(k + 1) PROVE h[d] = BelowAt(d, h[d - 1])
    <3>1. CASE d = k + 1
      BY <3>1
    <3>2. CASE d # k + 1 /\ d # 0
      BY <2>1, <3>2
    <3>3. CASE d = 0
      BY <2>1, <1>1, <3>3
    <3> QED
      BY <3>1, <3>2, <3>3
  <2>3. Upto(h, k + 1)
    <3> HIDE DEF h
    <3>1. h = [d \in 0..(k + 1) |-> h[d]]
      BY DEF h
    <3> QED
      BY <2>2, <3>1
  <2>4. \E f : Upto(f, k + 1)
    <3> HIDE DEF h, Upto
    <3> QED
      BY <2>3
  <2>5. k + 1 \in 0..MaxDepth
    BY <1>3, Levels
  <2> QED
    BY <2>4, <2>5
<1>4. MaxDepth \in S
  <2>1. MaxDepth \in Nat /\ MaxDepth \in 0..MaxDepth
    BY Levels
  <2> HIDE DEF S
  <2> QED
    BY <1>2, <1>3, <2>1, IntervalInduction
<1>5. \E g : g = [d \in 0..MaxDepth |-> BelowAt(d, g[d - 1])]
  BY <1>4
<1> QED
  BY <1>5 DEF Below, BelowAt

-----------------------------------------------------------------------------
\* x and y make z: for the provers a fact that is not taken apart.
Joins(z, x, y) == z = x \o y

\* f[i] is what the first i sequences of ss make.
Running(f, ss) ==
  /\ f[0] = <<>>
  /\ \A i \in 1..Len(ss) : Joins(f[i], f[i - 1], ss[i])

LEMMA RunningExists ==
  ASSUME NEW S, NEW ss \in Seq(Seq(S))
  PROVE  \E f \in [0..Len(ss) -> Seq(S)] : Running(f, ss)
<1> DEFINE n == Len(ss)
           Upto(f, k) == /\ f \in [0..k -> Seq(S)] /\ f[0] = <<>>
                         /\ \A i \in 1..k : f[i] = f[i - 1] \o ss[i]
           K == {k \in 0..n : \E f : Upto(f, k)}
<1>a. n \in Nat /\ \A i \in 1..n : ss[i] \in Seq(S)
  BY LenProperties, ElementOfSeq
<1> HIDE DEF n
<1>1. 0 \in K
  <2>1. Upto([i \in 0..0 |-> <<>>], 0)
    OBVIOUS
  <2>2. 0 \in 0..n
    BY <1>a
  <2> QED
    BY <2>1, <2>2
<1>2. ASSUME NEW k \in 0..n, k \in K, k < n PROVE k + 1 \in K
  <2>1. PICK f : Upto(f, k)
    BY <1>2
  <2> DEFINE h == [i \in 0..(k + 1) |-> IF i = k + 1 THEN f[k] \o ss[k + 1] ELSE f[i]]
  <2>a. k \in Nat /\ k + 1 \in 1..n /\ k \in 0..k /\ ss[k + 1] \in Seq(S)
    BY <1>2, <1>a
  <2>2. f[k] \o ss[k + 1] \in Seq(S)
    <3>1. f[k] \in Seq(S)
      BY <2>1, <2>a
    <3> QED
      BY <3>1, <2>a, ConcatProperties
  <2>3. h \in [0..(k + 1) -> Seq(S)] /\ h[0] = <<>>
    <3>1. ASSUME NEW i \in 0..(k + 1) PROVE (IF i = k + 1 THEN f[k] \o ss[k + 1] ELSE f[i]) \in Seq(S)
      BY <2>1, <2>2, <2>a
    <3>2. 0 \in 0..(k + 1) /\ 0 # k + 1
      BY <2>a
    <3> QED
      BY <2>1, <3>1, <3>2
  <2>4. ASSUME NEW i \in 1..(k + 1) PROVE h[i] = h[i - 1] \o ss[i]
    <3>1. i \in 0..(k + 1) /\ i - 1 \in 0..(k + 1) /\ i - 1 # k + 1
      BY <2>a
    <3>2. h[i - 1] = f[i - 1] /\ h[i] = IF i = k + 1 THEN f[k] \o ss[k + 1] ELSE f[i]
      BY <3>1
    <3>a. i = k + 1 => i - 1 = k
      BY <2>a
    <3> HIDE DEF h
    <3>3. CASE i = k + 1
      BY <3>2, <3>3, <3>a
    <3>4. CASE i # k + 1
      <4>1. i \in 1..k
        BY <3>4, <2>a
      <4> QED
        BY <3>2, <3>4, <4>1, <2>1
    <3> QED
      BY <3>3, <3>4
  <2>5. Upto(h, k + 1)
    <3> HIDE DEF h
    <3> QED
      BY <2>3, <2>4
  <2>6. \E g : Upto(g, k + 1)
    <3> HIDE DEF h, Upto
    <3> QED
      BY <2>5
  <2>7. k + 1 \in 0..n
    BY <2>a, <1>a
  <2> HIDE DEF Upto
  <2> QED
    BY <2>6, <2>7
<1>3. n \in K
  <2>1. n \in 0..n
    BY <1>a
  <2> HIDE DEF K
  <2> QED
    BY <1>1, <1>2, <1>a, <2>1, IntervalInduction
<1>4. PICK f : Upto(f, n)
  BY <1>3
<1> QED
  BY <1>4 DEF Running, n, Joins

\* FlattenSeq is what the last of them is.
LEMMA FlattenIs ==
  ASSUME NEW S, NEW ss \in Seq(Seq(S)), NEW f \in [0..Len(ss) -> Seq(S)], Running(f, ss)
  PROVE  FlattenSeq(ss) = f[Len(ss)]
<1> DEFINE n == Len(ss)
           At(g) == [i \in 1..n |-> IF i = 1 THEN ss[i] ELSE g[i - 1] \o ss[i]]
           flatten == CHOOSE g : g = At(g)
<1>a. /\ n \in Nat /\ \A i \in 1..n : ss[i] \in Seq(S)
      /\ \A i \in 0..n : f[i] \in Seq(S)
  BY LenProperties, ElementOfSeq
<1>b. f[0] = <<>> /\ \A i \in 1..n : f[i] = f[i - 1] \o ss[i]
  BY DEF Running, Joins
<1>c. \A i \in 1..n : i = 1 => f[i] = ss[i]
  <2> SUFFICES ASSUME 1 \in 1..n PROVE f[1] = ss[1]
    OBVIOUS
  <2>a. f[1] = f[1 - 1] \o ss[1]
    BY <1>b, Zenon
  <2>1. f[1] = f[1 - 1] \o ss[1] /\ 1 - 1 = 0
    BY <2>a
  <2>2. f[1] = <<>> \o ss[1]
    BY <2>1, <1>b
  <2> QED
    BY <2>2, <1>a, ConcatEmptySeq
<1>1. CASE n = 0
  <2>1. ss = <<>>
    BY <1>1
  <2> QED
    BY <1>1, <1>b, <2>1 DEF FlattenSeq
<1>2. CASE n # 0
  <2>1. FlattenSeq(ss) = flatten[n]
    BY <1>2 DEF FlattenSeq
  <2>2. \E g : g = At(g)
    <3> DEFINE g == [i \in 1..n |-> f[i]]
    <3>1. ASSUME NEW i \in 1..n
          PROVE  f[i] = IF i = 1 THEN ss[i] ELSE g[i - 1] \o ss[i]
      <4>1. CASE i = 1
        BY <4>1, <1>c
      <4>2. CASE i # 1
        <5>a. f[i] = f[i - 1] \o ss[i]
          BY <1>b
        <5>1. i - 1 \in 1..n
          BY <4>2, <1>a
        <5>2. g[i - 1] = f[i - 1]
          BY <5>1
        <5> HIDE DEF g
        <5> QED
          BY <4>2, <5>a, <5>2
      <4> QED
        BY <4>1, <4>2
    <3>2. g = At(g)
      BY <3>1
    <3> HIDE DEF g, At
    <3> QED
      BY <3>2
  <2>3. flatten = At(flatten)
    <3> HIDE DEF At
    <3> QED
      BY <2>2
  <2> HIDE DEF flatten, n
  <2> DEFINE K == {i \in 0..n : i = 0 \/ flatten[i] = f[i]}
  <2>4. ASSUME NEW i \in 0..n, i \in K, i < n PROVE i + 1 \in K
    <3>1. i + 1 \in 1..n /\ i + 1 \in 0..n
      BY <2>4, <1>a
    <3>2. flatten[i + 1] = IF i + 1 = 1 THEN ss[i + 1] ELSE flatten[i] \o ss[i + 1]
      <4> DEFINE e == i + 1
      <4>1. e \in 1..n /\ e - 1 = i
        BY <3>1
      <4> HIDE DEF e
      <4>2. flatten[e] = IF e = 1 THEN ss[e] ELSE flatten[e - 1] \o ss[e]
        BY <2>3, <4>1
      <4> QED
        BY <4>1, <4>2 DEF e
    <3>3. f[i + 1] = f[i] \o ss[i + 1]
      <4> DEFINE e == i + 1
      <4>1. e \in 1..n /\ e - 1 = i
        BY <3>1
      <4> HIDE DEF e
      <4>2. f[e] = f[e - 1] \o ss[e]
        BY <4>1, <1>b
      <4> QED
        BY <4>1, <4>2 DEF e
    <3>4. CASE i = 0
      <4>1. i + 1 = 1
        BY <3>4
      <4> QED
        BY <3>1, <3>2, <4>1, <1>c
    <3>5. CASE i # 0
      <4>1. i + 1 # 1 /\ flatten[i] = f[i]
        BY <3>5, <2>4
      <4>2. flatten[i + 1] = f[i + 1]
        BY <3>2, <3>3, <4>1
      <4> QED
        BY <3>1, <4>2
    <3> QED
      BY <3>4, <3>5
  <2>5. n \in K
    <3>1. 0 \in K /\ n \in 0..n
      BY <1>a
    <3> HIDE DEF K
    <3> QED
      BY <2>4, <3>1, <1>a, IntervalInduction
  <2> QED
    BY <1>2, <2>1, <2>5 DEF n
<1> QED
  BY <1>1, <1>2

LEMMA FlattenType ==
  ASSUME NEW S, NEW ss \in Seq(Seq(S))
  PROVE  FlattenSeq(ss) \in Seq(S)
<1>1. PICK f \in [0..Len(ss) -> Seq(S)] : Running(f, ss)
  BY RunningExists
<1>2. FlattenSeq(ss) = f[Len(ss)]
  BY <1>1, FlattenIs
<1> QED
  BY <1>2

LEMMA JoinsAssociates ==
  ASSUME NEW S, NEW x \in Seq(S), NEW y \in Seq(S), NEW z \in Seq(S),
         NEW xy, Joins(xy, x, y), NEW yz, Joins(yz, y, z), NEW all, Joins(all, x, yz)
  PROVE  Joins(all, xy, z)
<1>1. (x \o y) \o z = x \o (y \o z)
  OBVIOUS
<1> QED
  BY <1>1 DEF Joins

LEMMA FlattenConcat ==
  ASSUME NEW S, NEW a \in Seq(Seq(S)), NEW b \in Seq(Seq(S)),
         NEW d, Joins(d, a, b)
  PROVE  Joins(FlattenSeq(d), FlattenSeq(a), FlattenSeq(b))
<1>1. PICK fa \in [0..Len(a) -> Seq(S)] : Running(fa, a)
  BY RunningExists
<1>2. PICK fb \in [0..Len(b) -> Seq(S)] : Running(fb, b)
  BY RunningExists
<1> DEFINE n == Len(a)
           m == Len(b)
           f == [i \in 0..(n + m) |-> IF i <= n THEN fa[i] ELSE fa[n] \o fb[i - n]]
<1>3. /\ n \in Nat /\ m \in Nat /\ d \in Seq(Seq(S)) /\ Len(d) = n + m
      /\ \A i \in 1..n : d[i] = a[i]
      /\ \A i \in (n + 1)..(n + m) : d[i] = b[i - n]
  <2>1. /\ n \in Nat /\ m \in Nat /\ d \in Seq(Seq(S)) /\ Len(d) = n + m
        /\ \A i \in 1..(n + m) : d[i] = IF i <= n THEN a[i] ELSE b[i - n]
    BY LenProperties, ConcatProperties DEF Joins
  <2> HIDE DEF n, m
  <2>2. \A i \in 1..n : i \in 1..(n + m) /\ i <= n
    BY <2>1
  <2>3. \A i \in (n + 1)..(n + m) : i \in 1..(n + m) /\ ~(i <= n)
    BY <2>1
  <2> QED
    BY <2>1, <2>2, <2>3
<1>4. /\ \A i \in 0..n : fa[i] \in Seq(S)
      /\ \A i \in 0..m : fb[i] \in Seq(S)
      /\ \A i \in 1..m : b[i] \in Seq(S)
  BY ElementOfSeq
<1> HIDE DEF n, m
<1>5. f \in [0..(n + m) -> Seq(S)]
  <2>1. ASSUME NEW i \in 0..(n + m)
        PROVE  (IF i <= n THEN fa[i] ELSE fa[n] \o fb[i - n]) \in Seq(S)
    <3>1. CASE i <= n
      BY <3>1, <1>3, <1>4
    <3>2. CASE ~(i <= n)
      <4>1. i - n \in 0..m /\ n \in 0..n
        BY <3>2, <1>3
      <4>2. fa[n] \in Seq(S) /\ fb[i - n] \in Seq(S)
        BY <4>1, <1>4
      <4> QED
        BY <3>2, <4>2, ConcatProperties
    <3> QED
      BY <3>1, <3>2
  <2> QED
    BY <2>1
<1>6. f[0] = <<>> /\ f[n] = fa[n]
  BY <1>1, <1>3 DEF Running, n, m
<1>7. ASSUME NEW i \in 1..(n + m) PROVE Joins(f[i], f[i - 1], d[i])
  <2>1. i \in 0..(n + m) /\ i - 1 \in 0..(n + m)
    BY <1>3
  <2>2. CASE i <= n
    <3>1. i \in 1..n /\ i - 1 <= n
      BY <2>2, <1>3
    <3>2. f[i] = fa[i] /\ f[i - 1] = fa[i - 1] /\ d[i] = a[i]
      BY <2>1, <2>2, <3>1, <1>3
    <3>3. Joins(fa[i], fa[i - 1], a[i])
      BY <3>1, <1>1 DEF Running, n
    <3> QED
      BY <3>2, <3>3
  <2>3. CASE ~(i <= n)
    <3> DEFINE j == i - n
    <3>1. /\ j \in 1..m /\ j - 1 \in 0..m /\ j \in 0..m /\ n \in 0..n
          /\ i \in (n + 1)..(n + m)
      BY <2>3, <1>3
    <3>2. f[i] = fa[n] \o fb[j]
      BY <2>1, <2>3
    <3>3. Joins(fb[j], fb[j - 1], b[j])
      BY <3>1, <1>2 DEF Running, m
    <3>4. f[i - 1] = fa[n] \o fb[j - 1]
      <4>1. CASE j = 1
        <5>1. fb[0] = <<>> /\ i - 1 = n /\ j - 1 = 0
          BY <4>1, <1>2, <1>3 DEF Running
        <5>2. fa[n] \in Seq(S) /\ f[n] = fa[n]
          BY <3>1, <1>4, <1>6
        <5> HIDE DEF f, j
        <5>3. f[i - 1] = fa[n] /\ fb[j - 1] = <<>>
          BY <5>1, <5>2
        <5>4. fa[n] \o <<>> = fa[n]
          BY <5>2, ConcatEmptySeq
        <5> QED
          BY <5>3, <5>4
      <4>2. CASE j # 1
        <5> DEFINE k == i - 1
        <5>1. ~(k <= n) /\ k - n = j - 1 /\ k \in 0..(n + m)
          BY <4>2, <3>1, <2>1, <1>3
        <5> HIDE DEF j, k
        <5>2. f[k] = fa[n] \o fb[k - n]
          BY <5>1
        <5> HIDE DEF f
        <5> QED
          BY <5>1, <5>2 DEF k
      <4> QED
        BY <4>1, <4>2
    <3>5. d[i] = b[j]
      BY <3>1, <1>3
    <3>6. fa[n] \in Seq(S) /\ fb[j - 1] \in Seq(S) /\ b[j] \in Seq(S)
      BY <3>1, <1>4
    <3> HIDE DEF f, j
    <3>7. Joins(f[i], fa[n], fb[j])
      BY <3>2 DEF Joins
    <3>8. Joins(f[i - 1], fa[n], fb[j - 1])
      BY <3>4 DEF Joins
    <3> QED
      BY <3>3, <3>5, <3>6, <3>7, <3>8, JoinsAssociates
  <2> QED
    BY <2>2, <2>3
<1>8. Running(f, d)
  <2> HIDE DEF f
  <2> QED
    BY <1>3, <1>6, <1>7 DEF Running
<1>9. FlattenSeq(d) = f[n + m]
  <2> HIDE DEF f
  <2> QED
    BY <1>3, <1>5, <1>8, FlattenIs
<1>10. f[n + m] = fa[n] \o fb[m]
  <2>1. CASE m = 0
    <3>1. fb[m] = <<>> /\ fa[n] \in Seq(S)
      BY <2>1, <1>2, <1>3, <1>4 DEF Running, n, m
    <3>2. n + m = n
      BY <2>1, <1>3
    <3> QED
      BY <3>1, <3>2, <1>6
  <2>2. CASE m # 0
    <3> DEFINE k == n + m
    <3>1. ~(k <= n) /\ k - n = m /\ k \in 0..(n + m)
      BY <2>2, <1>3
    <3> HIDE DEF k
    <3>2. f[k] = fa[n] \o fb[k - n]
      BY <3>1
    <3> HIDE DEF f
    <3> QED
      BY <3>1, <3>2 DEF k
  <2> QED
    BY <2>1, <2>2
<1>11. FlattenSeq(a) = fa[n] /\ FlattenSeq(b) = fb[m]
  BY <1>1, <1>2, FlattenIs DEF n, m
<1> QED
  BY <1>9, <1>10, <1>11 DEF Joins

\* What c makes of each element of x, and all of it together.
Image(c, x) == [j \in DOMAIN x |-> c[x[j]]]
AllOf(c, x) == FlattenSeq(Image(c, x))

\* A function from S to R, for the provers a fact that is not taken apart.
Maps(c, S, R) == c \in [S -> R]

LEMMA ImageType ==
  ASSUME NEW S, NEW R, NEW c, Maps(c, S, R), NEW x \in Seq(S)
  PROVE  Image(c, x) \in Seq(R) /\ Len(Image(c, x)) = Len(x)
<1>1. /\ Len(x) \in Nat /\ DOMAIN x = 1..Len(x)
      /\ \A i \in 1..Len(x) : x[i] \in S
  BY LenProperties, ElementOfSeq
<1>2. Image(c, x) = [i \in 1..Len(x) |-> c[x[i]]]
  BY <1>1 DEF Image
<1>3. \A i \in 1..Len(x) : c[x[i]] \in R
  BY <1>1 DEF Maps
<1> DEFINE n == Len(x)
<1> HIDE DEF n
<1> QED
  BY <1>1, <1>2, <1>3 DEF n

LEMMA ImageAt ==
  ASSUME NEW S, NEW x \in Seq(S), NEW c, NEW i \in 1..Len(x)
  PROVE  Image(c, x)[i] = c[x[i]]
BY LenProperties DEF Image

LEMMA ImageConcat ==
  ASSUME NEW S, NEW R, NEW c, Maps(c, S, R), NEW x \in Seq(S), NEW y \in Seq(S),
         NEW z, Joins(z, x, y)
  PROVE  Joins(Image(c, z), Image(c, x), Image(c, y))
<1> DEFINE p == Image(c, x)
           q == Image(c, y)
           w == Image(c, z)
           u == p \o q
           n == Len(x)
           m == Len(y)
<1>1. /\ z \in Seq(S) /\ Len(z) = n + m
      /\ n \in Nat /\ m \in Nat
      /\ \A i \in 1..(n + m) : z[i] = IF i <= n THEN x[i] ELSE y[i - n]
  BY ConcatProperties, LenProperties DEF Joins
<1>2. w \in Seq(R) /\ Len(w) = n + m /\ \A i \in 1..(n + m) : w[i] = c[z[i]]
  <2>1. Image(c, z) \in Seq(R) /\ Len(Image(c, z)) = Len(z)
    BY <1>1, ImageType
  <2>2. \A i \in 1..Len(z) : Image(c, z)[i] = c[z[i]]
    BY <1>1, ImageAt
  <2> HIDE DEF n, m
  <2> QED
    BY <1>1, <2>1, <2>2
<1>3. p \in Seq(R) /\ Len(p) = n /\ \A i \in 1..n : p[i] = c[x[i]]
  BY ImageType, ImageAt
<1>4. q \in Seq(R) /\ Len(q) = m /\ \A i \in 1..m : q[i] = c[y[i]]
  BY ImageType, ImageAt
<1> HIDE DEF n, m, w, p, q
<1>5. /\ u \in Seq(R) /\ Len(u) = n + m
      /\ \A i \in 1..(n + m) : u[i] = IF i <= n THEN p[i] ELSE q[i - n]
  <2>1. /\ u \in Seq(R) /\ Len(u) = Len(p) + Len(q)
        /\ \A i \in 1..(Len(p) + Len(q)) : u[i] = IF i <= Len(p) THEN p[i] ELSE q[i - Len(p)]
    BY <1>3, <1>4, ConcatProperties
  <2> HIDE DEF u
  <2> QED
    BY <1>3, <1>4, <2>1
<1> HIDE DEF u
<1>6. ASSUME NEW i \in 1..Len(w) PROVE w[i] = u[i]
  <2>1. i \in 1..(n + m)
    BY <1>1, <1>2
  <2>2. CASE i <= n
    <3>1. i \in 1..n
      BY <2>1, <2>2, <1>1
    <3>2. z[i] = x[i] /\ u[i] = p[i]
      BY <2>1, <2>2, <1>1, <1>5
    <3> QED
      BY <2>1, <3>1, <3>2, <1>2, <1>3
  <2>3. CASE ~(i <= n)
    <3>1. i - n \in 1..m
      BY <2>1, <2>3, <1>1
    <3>2. z[i] = y[i - n] /\ u[i] = q[i - n]
      BY <2>1, <2>3, <1>1, <1>5
    <3> QED
      BY <2>1, <3>1, <3>2, <1>2, <1>4
  <2> QED
    BY <2>2, <2>3
<1>7. w = u
  BY <1>2, <1>5, <1>6, SeqEqual
<1> QED
  BY <1>7 DEF Joins, u, w, p, q

LEMMA AllOfType ==
  ASSUME NEW S, NEW R, NEW c, Maps(c, S, Seq(R)), NEW x \in Seq(S)
  PROVE  AllOf(c, x) \in Seq(R)
BY ImageType, FlattenType DEF AllOf

\* What is made of everything together is what is made of each part.
LEMMA AllOfFlattened ==
  ASSUME NEW S, NEW R, NEW c, Maps(c, S, Seq(R)), NEW ss \in Seq(Seq(S))
  PROVE  AllOf(c, FlattenSeq(ss)) = FlattenSeq([i \in DOMAIN ss |-> AllOf(c, ss[i])])
<1> DEFINE n == Len(ss)
           each == [i \in DOMAIN ss |-> AllOf(c, ss[i])]
<1>1. PICK f \in [0..n -> Seq(S)] : Running(f, ss)
  BY RunningExists
<1>2. FlattenSeq(ss) = f[n]
  BY <1>1, FlattenIs
<1> DEFINE h == [i \in 0..n |-> AllOf(c, f[i])]
<1>3. /\ n \in Nat /\ DOMAIN ss = 1..n /\ \A i \in 1..n : ss[i] \in Seq(S)
      /\ \A i \in 0..n : f[i] \in Seq(S)
  BY LenProperties, ElementOfSeq
<1>4. each \in Seq(Seq(R)) /\ Len(each) = n /\ \A i \in 1..n : each[i] = AllOf(c, ss[i])
  <2>1. each = [i \in 1..n |-> AllOf(c, ss[i])]
    BY <1>3
  <2>2. \A i \in 1..n : AllOf(c, ss[i]) \in Seq(R)
    BY <1>3, AllOfType
  <2> HIDE DEF n, each
  <2> QED
    BY <2>1, <2>2, <1>3
<1>5. h \in [0..n -> Seq(R)]
  BY <1>3, AllOfType
<1>6. h[0] = <<>>
  <2>1. f[0] = <<>> /\ 0 \in 0..n
    BY <1>1, <1>3 DEF Running
  <2>2. Image(c, <<>>) = <<>>
    BY DEF Image
  <2>3. h[0] = AllOf(c, <<>>)
    BY <2>1
  <2>4. FlattenSeq(<<>>) = <<>>
    BY DEF FlattenSeq
  <2> QED
    BY <2>2, <2>3, <2>4 DEF AllOf
<1>7. ASSUME NEW i \in 1..n PROVE Joins(h[i], h[i - 1], each[i])
  <2> DEFINE x == f[i - 1]
             y == ss[i]
             z == f[i]
  <2>1. i \in 0..n /\ i - 1 \in 0..n
    BY <1>3
  <2>2. Joins(z, x, y)
    BY <1>1 DEF Running
  <2>3. x \in Seq(S) /\ y \in Seq(S)
    BY <2>1, <1>3
  <2>4. h[i] = AllOf(c, z) /\ h[i - 1] = AllOf(c, x) /\ each[i] = AllOf(c, y)
    BY <2>1, <1>4
  <2> HIDE DEF x, y, z, h, each
  <2>5. Image(c, x) \in Seq(Seq(R)) /\ Image(c, y) \in Seq(Seq(R))
    BY <2>3, ImageType
  <2>6. Joins(Image(c, z), Image(c, x), Image(c, y))
    BY <2>2, <2>3, ImageConcat
  <2> QED
    BY <2>4, <2>5, <2>6, FlattenConcat DEF AllOf
<1>8. Running(h, each)
  <2> HIDE DEF h, each
  <2> QED
    BY <1>4, <1>6, <1>7 DEF Running
<1>9. FlattenSeq(each) = h[n]
  <2> HIDE DEF h, each, n
  <2> QED
    BY <1>4, <1>5, <1>8, FlattenIs
<1>10. h[n] = AllOf(c, f[n])
  <2>1. n \in 0..n
    BY <1>3
  <2> QED
    BY <2>1
<1> QED
  BY <1>2, <1>9, <1>10

\* Sequences of one element each make the sequence of these.
LEMMA FlattenSingles ==
  ASSUME NEW S, NEW x \in Seq(S), NEW ss, ss = [i \in 1..Len(x) |-> <<x[i]>>]
  PROVE  FlattenSeq(ss) = x
<1> DEFINE n == Len(x)
           f == [i \in 0..n |-> SubSeq(x, 1, i)]
<1>1. n \in Nat /\ \A i \in 1..n : x[i] \in S
  BY LenProperties, ElementOfSeq
<1>2. ss \in Seq(Seq(S)) /\ Len(ss) = n /\ \A i \in 1..n : ss[i] = <<x[i]>>
  <2>1. \A i \in 1..n : <<x[i]>> \in Seq(S)
    BY <1>1
  <2> HIDE DEF n
  <2>2. ss = [i \in 1..n |-> <<x[i]>>]
    BY DEF n
  <2> QED
    BY <2>1, <2>2, <1>1
<1>3. f \in [0..n -> Seq(S)]
  <2>1. ASSUME NEW i \in 0..n PROVE SubSeq(x, 1, i) \in Seq(S)
    <3>1. i \in Int /\ 1 \in Int /\ \A j \in 1..i : x[j] \in S
      BY <1>1
    <3> QED
      BY <3>1, SubSeqProperties
  <2> QED
    BY <2>1
<1>4. f[0] = <<>>
  <2>1. SubSeq(x, 1, 0) = <<>>
    BY SubSeqEmpty
  <2> QED
    BY <2>1, <1>1
<1>5. ASSUME NEW i \in 1..n PROVE Joins(f[i], f[i - 1], ss[i])
  <2>1. 1 \in 1..Len(x) /\ i \in 1..Len(x) /\ i \in 0..n /\ i - 1 \in 0..n
    BY <1>1
  <2>2. SubSeq(x, 1, i) = SubSeq(x, 1, i - 1) \o <<x[i]>>
    BY <2>1, SubSeqRecursiveSecond
  <2> QED
    BY <2>1, <2>2, <1>2 DEF Joins
<1>6. Running(f, ss)
  <2> HIDE DEF f
  <2> QED
    BY <1>2, <1>4, <1>5 DEF Running
<1>7. FlattenSeq(ss) = f[n]
  <2> HIDE DEF f, n
  <2> QED
    BY <1>2, <1>3, <1>6, FlattenIs
<1>8. f[n] = x
  BY <1>1, SubSeqFull
<1> QED
  BY <1>7, <1>8

-----------------------------------------------------------------------------
\* The parts of a node, and how one is put together.
LEMMA NodeParts ==
  ASSUME NEW d \in 1..MaxDepth, NEW n \in Tree[d]
  PROVE  /\ n.tag \in Tags /\ n.attrs \in SUBSET STRING /\ n.mark \in Nat
         /\ n.kids \in Seq(Tree[d - 1])
         /\ n.tag = "text" => n.attrs = {} /\ n.kids = <<>>
<1>1. n \in Text \/ n \in Elements(Tree[d - 1])
  BY Trees
<1>2. CASE n \in Text
  <2>1. n.tag = "text" /\ n.attrs = {} /\ n.kids = <<>> /\ n.mark \in Nat
    BY <1>2 DEF Text
  <2>2. <<>> \in Seq(Tree[d - 1])
    BY EmptySeq
  <2>3. n.kids \in Seq(Tree[d - 1])
    BY <2>1, <2>2
  <2>4. n.attrs \in SUBSET STRING
    BY <2>1
  <2>5. "text" \in Tags
    BY RootTag
  <2>6. n.tag \in Tags
    BY <2>1, <2>5
  <2> QED
    BY <2>1, <2>3, <2>4, <2>6
<1>3. CASE n \in Elements(Tree[d - 1])
  BY <1>3 DEF Elements
<1> QED
  BY <1>1, <1>2, <1>3

LEMMA NodeIn ==
  ASSUME NEW d \in 1..MaxDepth, NEW tag \in Tags \ {"text"}, NEW attrs \in SUBSET STRING,
         NEW kids \in Seq(Tree[d - 1]), NEW mark \in Nat
  PROVE  LET m == Node(tag, attrs, kids, mark)
         IN m \in Tree[d] /\ m.tag = tag /\ m.attrs = attrs /\ m.kids = kids /\ m.mark = mark
<1>1. Node(tag, attrs, kids, mark) \in Elements(Tree[d - 1])
  BY DEF Node, Elements
<1> QED
  BY <1>1, Trees DEF Node

\* A tree of d levels is one of more levels.
LEMMA TreesGrow ==
  ASSUME NEW d \in 1..MaxDepth
  PROVE  Tree[d - 1] \subseteq Tree[d]
<1> DEFINE S == {k \in 0..(MaxDepth - 1) : Tree[k] \subseteq Tree[k + 1]}
<1>1. MaxDepth \in Nat /\ MaxDepth - 1 \in Nat /\ d - 1 \in 0..(MaxDepth - 1) /\ d - 1 + 1 = d
  BY Levels
<1>2. 0 \in S
  BY <1>1, Trees
<1>3. ASSUME NEW k \in 0..(MaxDepth - 1), k \in S, k < MaxDepth - 1 PROVE k + 1 \in S
  <2>1. k + 1 \in 1..MaxDepth /\ k + 2 \in 1..MaxDepth /\ k + 1 \in 0..(MaxDepth - 1)
    BY <1>1, <1>3
  <2>2. /\ Tree[k + 1] = Text \cup Elements(Tree[k])
        /\ Tree[k + 2] = Text \cup Elements(Tree[k + 1])
    <3> DEFINE a == k + 1
               b == k + 2
    <3>1. a \in 1..MaxDepth /\ b \in 1..MaxDepth /\ a - 1 = k /\ b - 1 = k + 1
      BY <2>1
    <3> HIDE DEF a, b
    <3>2. Tree[a] = Text \cup Elements(Tree[a - 1]) /\ Tree[b] = Text \cup Elements(Tree[b - 1])
      BY <3>1, Trees
    <3> QED
      BY <3>1, <3>2 DEF a, b
  <2>3. ASSUME NEW n \in Elements(Tree[k]) PROVE n \in Elements(Tree[k + 1])
    <3>1. n.kids \in Seq(Tree[k]) /\ Tree[k] \subseteq Tree[k + 1]
      BY <1>3 DEF Elements
    <3>2. n.kids \in Seq(Tree[k + 1])
      BY <3>1, SeqMonotonic
    <3> QED
      BY <3>2 DEF Elements
  <2>4. k + 1 + 1 = k + 2
    BY <1>1
  <2> QED
    BY <2>1, <2>2, <2>3, <2>4
<1>4. d - 1 \in S
  <2> HIDE DEF S
  <2> QED
    BY <1>1, <1>2, <1>3, IntervalInduction
<1> QED
  BY <1>1, <1>4

\* What a pass makes of the children of a node with this tag.
NodesOf(d, tag) == [k \in Tree[d] |-> Pass[d][k][tag].nodes]
NewKids(d, tag, kids) == AllOf(NodesOf(d, tag), kids)

Passed(d, tag, kids) == [i \in DOMAIN kids |-> Pass[d][kids[i]][tag]]

LEMMA PassedForest ==
  ASSUME NEW d, NEW tag, NEW kids \in Seq(Tree[d])
  PROVE  LET below == Passed(d, tag, kids) IN
         /\ Joined(below) = NewKids(d, tag, kids)
         /\ AnyChanged(below) <=> \E i \in DOMAIN kids : Pass[d][kids[i]][tag].changed
         /\ AnyChanged(below) \in BOOLEAN
<1> DEFINE below == Passed(d, tag, kids)
<1>1. \A i \in DOMAIN kids : kids[i] \in Tree[d]
  BY LenProperties, ElementOfSeq
<1>2. DOMAIN below = DOMAIN kids /\ \A i \in DOMAIN kids : below[i] = Pass[d][kids[i]][tag]
  BY DEF Passed
<1> HIDE DEF below
<1>3. \A i \in DOMAIN kids : NodesOf(d, tag)[kids[i]] = Pass[d][kids[i]][tag].nodes
  BY <1>1 DEF NodesOf
<1>4. [i \in DOMAIN below |-> below[i].nodes] = [i \in DOMAIN kids |-> NodesOf(d, tag)[kids[i]]]
  BY <1>2, <1>3
<1>5. Joined(below) = NewKids(d, tag, kids)
  BY <1>4 DEF Joined, NewKids, AllOf, Image
<1>6. AnyChanged(below) <=> \E i \in DOMAIN kids : Pass[d][kids[i]][tag].changed
  BY <1>2 DEF AnyChanged
<1>7. AnyChanged(below) \in BOOLEAN
  BY Zenon DEF AnyChanged
<1> QED
  BY <1>5, <1>6, <1>7 DEF below

LEMMA PassStep ==
  ASSUME NEW d \in 1..MaxDepth, NEW n \in Tree[d], NEW parent \in Tags
  PROVE  LET r == Pass[d][n][parent]
             kids == NewKids(d - 1, n.tag, n.kids)
             attrs == stripDataAttrs(n.attrs)
         IN \/ n.tag = "text" /\ r.nodes = <<n>> /\ ~r.changed
            \/ n.tag # "text" /\ isPlaceholderImage(n) /\ r.nodes = <<>> /\ r.changed
            \/ /\ n.tag # "text" /\ ~isPlaceholderImage(n)
               /\ Unwrapped(n, attrs, kids, parent) /\ r.nodes = kids /\ r.changed
            \/ /\ n.tag # "text" /\ ~isPlaceholderImage(n)
               /\ ~Unwrapped(n, attrs, kids, parent)
               /\ r.nodes = <<Node(n.tag, attrs, kids, n.mark)>>
               /\ r.changed <=> \E i \in DOMAIN n.kids : Pass[d - 1][n.kids[i]][n.tag].changed
<1> DEFINE below == Passed(d - 1, n.tag, n.kids)
           kids == NewKids(d - 1, n.tag, n.kids)
           attrs == stripDataAttrs(n.attrs)
           r == Pass[d][n][parent]
<1>1. r = Simplified(n, parent, below)
  <2>1. Pass[d] = PassAt(d, Pass[d - 1])
    <3>1. \A k \in 0..MaxDepth : Pass[k] = PassAt(k, Pass[k - 1])
      BY PassDef
    <3>2. d \in 0..MaxDepth
      BY Levels
    <3> QED
      BY <3>1, <3>2
  <2> QED
    BY <2>1 DEF PassAt, Passed
<1>2. /\ Joined(below) = kids
      /\ AnyChanged(below) <=> \E i \in DOMAIN n.kids : Pass[d - 1][n.kids[i]][n.tag].changed
  <2>1. n.kids \in Seq(Tree[d - 1])
    BY NodeParts
  <2> DEFINE e == d - 1
  <2> HIDE DEF e
  <2> QED
    BY <2>1, PassedForest DEF e
<1>3. r = IF n.tag = "text" THEN [nodes |-> <<n>>, changed |-> FALSE]
          ELSE IF isPlaceholderImage(n) THEN [nodes |-> <<>>, changed |-> TRUE]
          ELSE IF Unwrapped(n, attrs, kids, parent) THEN [nodes |-> kids, changed |-> TRUE]
          ELSE [nodes |-> <<Node(n.tag, attrs, kids, n.mark)>>, changed |-> AnyChanged(below)]
  <2> HIDE DEF below, kids
  <2> QED
    BY <1>1, <1>2 DEF Simplified, unwrapNode
<1> HIDE DEF below, kids, attrs, r
<1>5. CASE n.tag = "text"
  BY <1>3, <1>5 DEF r
<1>6. CASE n.tag # "text" /\ isPlaceholderImage(n)
  BY <1>3, <1>6 DEF r
<1>7. CASE n.tag # "text" /\ ~isPlaceholderImage(n) /\ Unwrapped(n, attrs, kids, parent)
  BY <1>3, <1>7 DEF r, kids, attrs
<1>8. CASE n.tag # "text" /\ ~isPlaceholderImage(n) /\ ~Unwrapped(n, attrs, kids, parent)
  BY <1>2, <1>3, <1>8 DEF r, kids, attrs
<1> QED
  BY <1>5, <1>6, <1>7, <1>8

-----------------------------------------------------------------------------
LEMMA AllOfSame ==
  ASSUME NEW S, NEW x \in Seq(S), NEW c, NEW e, \A y \in S : c[y] = e[y]
  PROVE  AllOf(c, x) = AllOf(e, x)
<1>1. \A i \in DOMAIN x : x[i] \in S
  BY LenProperties, ElementOfSeq
<1>2. Image(c, x) = Image(e, x)
  BY <1>1 DEF Image
<1> QED
  BY <1>2 DEF AllOf

LEMMA AllOfNone == ASSUME NEW c PROVE AllOf(c, <<>>) = <<>>
<1>1. Image(c, <<>>) = <<>>
  BY DEF Image
<1> QED
  BY <1>1 DEF AllOf, FlattenSeq

LEMMA AllOfOne ==
  ASSUME NEW S, NEW R, NEW c, Maps(c, S, Seq(R)), NEW x \in S
  PROVE  AllOf(c, <<x>>) = c[x]
<1> DEFINE a == c[x]
           ss == Image(c, <<x>>)
           f == [i \in 0..1 |-> IF i = 0 THEN <<>> ELSE a]
<1>1. a \in Seq(R)
  BY DEF Maps
<1>2. ss \in Seq(Seq(R)) /\ Len(ss) = 1 /\ ss[1] = a
  <2>1. <<x>> \in Seq(S) /\ Len(<<x>>) = 1 /\ <<x>>[1] = x
    OBVIOUS
  <2> DEFINE y == <<x>>
  <2> HIDE DEF y
  <2>2. y \in Seq(S) /\ Len(y) = 1 /\ y[1] = x
    BY <2>1 DEF y
  <2>3. Image(c, y) \in Seq(Seq(R)) /\ Len(Image(c, y)) = 1 /\ Image(c, y)[1] = c[y[1]]
    BY <2>2, ImageType, ImageAt
  <2> QED
    BY <2>2, <2>3 DEF y
<1> HIDE DEF a, ss
<1>3. f \in [0..1 -> Seq(R)] /\ f[0] = <<>> /\ f[1] = a
  BY <1>1
<1>4. Joins(f[1], f[0], ss[1])
  <2>1. a = <<>> \o a
    BY <1>1, ConcatEmptySeq
  <2> HIDE DEF f
  <2> QED
    BY <1>2, <1>3, <2>1 DEF Joins
<1>5. Running(f, ss)
  <2>1. \A i \in 1..Len(ss) : i = 1 /\ i - 1 = 0
    BY <1>2
  <2> HIDE DEF f
  <2> QED
    BY <1>3, <1>4, <2>1 DEF Running
<1>6. FlattenSeq(ss) = f[1]
  <2> HIDE DEF f
  <2> QED
    BY <1>2, <1>3, <1>5, FlattenIs
<1> QED
  BY <1>3, <1>6 DEF AllOf, ss, a

LEMMA ContentsOf ==
  ASSUME NEW d \in 1..MaxDepth, NEW n \in Tree[d]
  PROVE  Contents[d][n] = IF n.tag \in {"text", "img"}
                          THEN IF isPlaceholderImage(n) THEN <<>> ELSE <<n.mark>>
                          ELSE AllOf(Contents[d - 1], n.kids)
<1>1. \A k \in 0..MaxDepth : Contents[k] = ContentsAt(k, Contents[k - 1])
  BY ContentsDef
<1>2. d \in 0..MaxDepth
  BY Levels
<1>3. Contents[d] = ContentsAt(d, Contents[d - 1])
  BY <1>1, <1>2
<1> QED
  BY <1>3 DEF ContentsAt, AllOf, Image

LEMMA ContentsType ==
  ASSUME NEW d \in 0..MaxDepth
  PROVE  Maps(Contents[d], Tree[d], Seq(Nat))
<1> DEFINE S == {k \in 0..MaxDepth : Maps(Contents[k], Tree[k], Seq(Nat))}
<1>1. \A k \in 0..MaxDepth : Contents[k] = ContentsAt(k, Contents[k - 1])
  BY ContentsDef
<1>2. MaxDepth \in Nat /\ 0 \in 0..MaxDepth
  BY Levels
<1>3. \A k \in 0..MaxDepth : Contents[k] = [n \in Tree[k] |-> Contents[k][n]]
  BY <1>1 DEF ContentsAt
<1>4. 0 \in S
  BY <1>2, <1>3, Trees DEF Maps
<1>5. ASSUME NEW k \in 0..MaxDepth, k \in S, k < MaxDepth PROVE k + 1 \in S
  <2> DEFINE e == k + 1
  <2>1. e \in 1..MaxDepth /\ e \in 0..MaxDepth /\ e - 1 = k
    BY <1>2, <1>5
  <2> HIDE DEF e
  <2>2. ASSUME NEW n \in Tree[e] PROVE Contents[e][n] \in Seq(Nat)
    <3>1. n.mark \in Nat /\ n.kids \in Seq(Tree[k])
      BY <2>1, NodeParts
    <3>2. Maps(Contents[k], Tree[k], Seq(Nat))
      BY <1>5
    <3>3. AllOf(Contents[k], n.kids) \in Seq(Nat)
      BY <3>1, <3>2, AllOfType
    <3>4. <<n.mark>> \in Seq(Nat) /\ <<>> \in Seq(Nat)
      BY <3>1
    <3> QED
      BY <2>1, <3>3, <3>4, ContentsOf
  <2>3. Maps(Contents[e], Tree[e], Seq(Nat))
    BY <2>1, <2>2, <1>3 DEF Maps
  <2>4. e \in S
    BY <2>1, <2>3
  <2> QED
    BY <2>4 DEF e
<1>6. d \in S
  <2> HIDE DEF S
  <2> QED
    BY <1>2, <1>4, <1>5, IntervalInduction
<1> QED
  BY <1>6

\* The contents of a node do not depend on how many levels one allows it.
LEMMA ContentsGrow ==
  ASSUME NEW d \in 1..MaxDepth, NEW n \in Tree[d - 1]
  PROVE  Contents[d][n] = Contents[d - 1][n]
<1> DEFINE S == {k \in 0..(MaxDepth - 1) : \A y \in Tree[k] : Contents[k + 1][y] = Contents[k][y]}
<1>1. MaxDepth \in Nat /\ MaxDepth - 1 \in Nat /\ d - 1 \in 0..(MaxDepth - 1) /\ d - 1 + 1 = d
  BY Levels
<1>2. 0 \in S
  BY <1>1, Trees
<1>3. ASSUME NEW k \in 0..(MaxDepth - 1), k \in S, k < MaxDepth - 1 PROVE k + 1 \in S
  <2> DEFINE a == k + 1
             b == k + 2
  <2>1. /\ a \in 1..MaxDepth /\ b \in 1..MaxDepth /\ a - 1 = k /\ b - 1 = a
        /\ a \in 0..(MaxDepth - 1) /\ a + 1 = b
    BY <1>1, <1>3
  <2> HIDE DEF b
  <2>2. ASSUME NEW y \in Tree[a] PROVE Contents[b][y] = Contents[a][y]
    <3>h. \A x \in Tree[k] : Contents[a][x] = Contents[k][x]
      BY <1>3
    <3> HIDE DEF a
    <3>1. y \in Tree[b]
      BY <2>1, TreesGrow
    <3>2. y.kids \in Seq(Tree[k])
      BY <2>1, NodeParts
    <3>3. AllOf(Contents[a], y.kids) = AllOf(Contents[k], y.kids)
      BY <3>2, <3>h, AllOfSame
    <3>4. Contents[b][y] = IF y.tag \in {"text", "img"}
                           THEN IF isPlaceholderImage(y) THEN <<>> ELSE <<y.mark>>
                           ELSE AllOf(Contents[a], y.kids)
      BY <2>1, <3>1, ContentsOf
    <3>5. Contents[a][y] = IF y.tag \in {"text", "img"}
                           THEN IF isPlaceholderImage(y) THEN <<>> ELSE <<y.mark>>
                           ELSE AllOf(Contents[k], y.kids)
      BY <2>1, ContentsOf
    <3> QED
      BY <3>3, <3>4, <3>5
  <2>3. a \in S
    <3> HIDE DEF a
    <3> QED
      BY <2>1, <2>2
  <2> QED
    BY <2>3
<1>4. d - 1 \in S
  <2> HIDE DEF S
  <2> QED
    BY <1>1, <1>2, <1>3, IntervalInduction
<1> QED
  BY <1>1, <1>4

-----------------------------------------------------------------------------
\* A pass over a tree of d levels gives such trees, with the same contents.
Keeps(d) ==
  \A n \in Tree[d], parent \in Tags :
    /\ Pass[d][n][parent].nodes \in Seq(Tree[d])
    /\ AllOf(Contents[d], Pass[d][n][parent].nodes) = Contents[d][n]

LEMMA ForestKept ==
  ASSUME NEW d \in 0..MaxDepth, Keeps(d), NEW tag \in Tags, NEW kids \in Seq(Tree[d])
  PROVE  /\ NewKids(d, tag, kids) \in Seq(Tree[d])
         /\ AllOf(Contents[d], NewKids(d, tag, kids)) = AllOf(Contents[d], kids)
<1> DEFINE T == Tree[d]
           c == Contents[d]
           nodes == NodesOf(d, tag)
           ss == Image(nodes, kids)
           each == [i \in DOMAIN ss |-> AllOf(c, ss[i])]
<1>1. \A k \in T : nodes[k] \in Seq(T) /\ AllOf(c, nodes[k]) = c[k]
  BY DEF Keeps, NodesOf
<1>2. Maps(nodes, T, Seq(T))
  <2>1. nodes = [k \in T |-> nodes[k]]
    BY DEF NodesOf
  <2> HIDE DEF nodes, T, c
  <2> QED
    BY <1>1, <2>1 DEF Maps
<1>3. Maps(c, T, Seq(Nat))
  BY ContentsType
<1>4. NewKids(d, tag, kids) = FlattenSeq(ss)
  BY DEF NewKids, AllOf
<1> HIDE DEF T, c, nodes
<1>5. kids \in Seq(T)
  BY DEF T
<1>6. ss \in Seq(Seq(T)) /\ Len(ss) = Len(kids) /\ \A i \in 1..Len(kids) : ss[i] = nodes[kids[i]]
  <2>1. ss \in Seq(Seq(T)) /\ Len(ss) = Len(kids)
    BY <1>2, <1>5, ImageType
  <2>2. \A i \in 1..Len(kids) : ss[i] = nodes[kids[i]]
    BY <1>5, ImageAt
  <2> QED
    BY <2>1, <2>2
<1>7. \A i \in 1..Len(kids) : kids[i] \in T
  BY <1>5, ElementOfSeq
<1>8. each = Image(c, kids)
  <2>1. DOMAIN ss = 1..Len(kids) /\ DOMAIN kids = 1..Len(kids)
    BY <1>5, <1>6, LenProperties
  <2>2. \A i \in 1..Len(kids) : AllOf(c, ss[i]) = c[kids[i]]
    BY <1>1, <1>6, <1>7
  <2> HIDE DEF ss
  <2> QED
    BY <2>1, <2>2 DEF Image
<1> HIDE DEF ss
<1>9. AllOf(c, FlattenSeq(ss)) = FlattenSeq(each)
  BY <1>3, <1>6, AllOfFlattened
<1>10. FlattenSeq(ss) \in Seq(T)
  BY <1>6, FlattenType
<1> HIDE DEF each
<1>11. AllOf(c, FlattenSeq(ss)) = AllOf(c, kids)
  BY <1>8, <1>9 DEF AllOf
<1> QED
  BY <1>4, <1>10, <1>11 DEF T, c

LEMMA KeepsStep ==
  ASSUME NEW d \in 1..MaxDepth, Keeps(d - 1)
  PROVE  Keeps(d)
<1> SUFFICES ASSUME NEW n \in Tree[d], NEW parent \in Tags
             PROVE  /\ Pass[d][n][parent].nodes \in Seq(Tree[d])
                    /\ AllOf(Contents[d], Pass[d][n][parent].nodes) = Contents[d][n]
  BY DEF Keeps
<1> DEFINE T == Tree[d]
           e == d - 1
           U == Tree[e]
           c == Contents[d]
           r == Pass[d][n][parent]
           kids == NewKids(e, n.tag, n.kids)
           attrs == stripDataAttrs(n.attrs)
           m == Node(n.tag, attrs, kids, n.mark)
<1>1. e \in 0..MaxDepth /\ d \in 0..MaxDepth /\ U \subseteq T
  BY Levels, TreesGrow
<1>2. /\ n.tag \in Tags /\ n.attrs \in SUBSET STRING /\ n.mark \in Nat /\ n.kids \in Seq(U)
  BY NodeParts
<1>3. Maps(c, T, Seq(Nat))
  BY <1>1, ContentsType
<1>4. /\ kids \in Seq(U)
      /\ AllOf(Contents[e], kids) = AllOf(Contents[e], n.kids)
  <2> HIDE DEF e
  <2>1. Keeps(e)
    BY DEF e
  <2> QED
    BY <1>1, <1>2, <2>1, ForestKept
<1>5. /\ c[n] = IF n.tag \in {"text", "img"}
                THEN IF isPlaceholderImage(n) THEN <<>> ELSE <<n.mark>>
                ELSE AllOf(Contents[e], n.kids)
      /\ \A y \in U : c[y] = Contents[e][y]
  BY ContentsOf, ContentsGrow
<1>6. \/ n.tag = "text" /\ r.nodes = <<n>>
      \/ n.tag # "text" /\ isPlaceholderImage(n) /\ r.nodes = <<>>
      \/ /\ n.tag # "text" /\ ~isPlaceholderImage(n)
         /\ Unwrapped(n, attrs, kids, parent) /\ r.nodes = kids
      \/ n.tag # "text" /\ ~isPlaceholderImage(n) /\ r.nodes = <<m>>
  BY PassStep
<1>7. ASSUME n.tag # "text"
      PROVE  m \in T /\ m.tag = n.tag /\ m.attrs = attrs /\ m.kids = kids /\ m.mark = n.mark
  <2>1. attrs \in SUBSET STRING
    BY <1>2 DEF stripDataAttrs
  <2>2. n.tag \in Tags \ {"text"}
    BY <1>2, <1>7
  <2> HIDE DEF attrs, kids
  <2> QED
    BY <1>2, <1>4, <2>1, <2>2, NodeIn
<1>8. n.tag # "text" =>
        c[m] = IF n.tag = "img" THEN IF isPlaceholderImage(n) THEN <<>> ELSE <<n.mark>>
               ELSE AllOf(Contents[e], kids)
  <2> SUFFICES ASSUME n.tag # "text"
               PROVE  c[m] = IF n.tag = "img"
                             THEN IF isPlaceholderImage(n) THEN <<>> ELSE <<n.mark>>
                             ELSE AllOf(Contents[e], kids)
    OBVIOUS
  <2>1. c[m] = IF m.tag \in {"text", "img"}
               THEN IF isPlaceholderImage(m) THEN <<>> ELSE <<m.mark>>
               ELSE AllOf(Contents[e], m.kids)
    <3>1. m \in T
      BY <1>7
    <3> HIDE DEF m
    <3> QED
      BY <3>1, ContentsOf
  <2>2. isPlaceholderImage(m) <=> isPlaceholderImage(n)
    <3>1. "label" \in attrs <=> "label" \in n.attrs
      BY DEF stripDataAttrs
    <3>2. m.tag = n.tag /\ m.attrs = attrs
      BY <1>7
    <3> HIDE DEF m, attrs
    <3> QED
      BY <3>1, <3>2 DEF isPlaceholderImage
  <2>3. m.tag = n.tag /\ m.kids = kids /\ m.mark = n.mark
    BY <1>7
  <2> HIDE DEF m, kids, c, e
  <2> QED
    BY <2>1, <2>2, <2>3
<1> HIDE DEF T, U, c, r, kids, attrs, m, e
<1>9. CASE n.tag = "text"
  <2>1. r.nodes = <<n>>
    BY <1>6, <1>9
  <2>2. n \in T
    BY DEF T
  <2>3. AllOf(c, <<n>>) = c[n] /\ <<n>> \in Seq(T)
    BY <2>2, <1>3, AllOfOne
  <2> QED
    BY <2>1, <2>3 DEF r, c, T
<1>10. CASE n.tag # "text" /\ isPlaceholderImage(n) /\ r.nodes = <<>>
  <2>1. c[n] = <<>>
    BY <1>5, <1>10 DEF isPlaceholderImage
  <2>2. AllOf(c, <<>>) = <<>> /\ <<>> \in Seq(T)
    BY AllOfNone
  <2> QED
    BY <2>1, <2>2, <1>10 DEF r, c, T
<1>11. CASE /\ n.tag # "text" /\ ~isPlaceholderImage(n)
            /\ Unwrapped(n, attrs, kids, parent) /\ r.nodes = kids
  <2>1. n.tag \notin {"text", "img"}
    BY <1>11 DEF Unwrapped
  <2>2. c[n] = AllOf(Contents[e], n.kids)
    BY <2>1, <1>5
  <2>3. AllOf(c, kids) = AllOf(Contents[e], kids)
    BY <1>4, <1>5, AllOfSame
  <2>4. kids \in Seq(T)
    BY <1>1, <1>4, SeqMonotonic
  <2> QED
    BY <2>2, <2>3, <2>4, <1>4, <1>11 DEF r, c, T
<1>12. CASE n.tag # "text" /\ ~isPlaceholderImage(n) /\ r.nodes = <<m>>
  <2>1. m \in T
    BY <1>7, <1>12
  <2>2. AllOf(c, <<m>>) = c[m] /\ <<m>> \in Seq(T)
    BY <2>1, <1>3, AllOfOne
  <2>3. c[m] = c[n]
    BY <1>4, <1>5, <1>8, <1>12
  <2> QED
    BY <2>2, <2>3, <1>12 DEF r, c, T
<1> QED
  BY <1>6, <1>9, <1>10, <1>11, <1>12

LEMMA PassKeeps == ASSUME NEW d \in 0..MaxDepth PROVE Keeps(d)
<1> DEFINE S == {k \in 0..MaxDepth : Keeps(k)}
<1>1. MaxDepth \in Nat /\ 0 \in 0..MaxDepth
  BY Levels
<1>2. 0 \in S
  BY <1>1, Trees DEF Keeps
<1>3. ASSUME NEW k \in 0..MaxDepth, k \in S, k < MaxDepth PROVE k + 1 \in S
  <2> DEFINE e == k + 1
  <2>1. e \in 1..MaxDepth /\ e \in 0..MaxDepth /\ e - 1 = k
    BY <1>1, <1>3
  <2> HIDE DEF e
  <2>2. Keeps(e)
    BY <1>3, <2>1, KeepsStep
  <2>3. e \in S
    BY <2>1, <2>2
  <2> QED
    BY <2>3 DEF e
<1>4. d \in S
  <2> HIDE DEF S
  <2> QED
    BY <1>1, <1>2, <1>3, IntervalInduction
<1> QED
  BY <1>4

-----------------------------------------------------------------------------
\* n is no quirk under a node with tag parent, and none is below it.
Tidy(d, n, parent) ==
  ~Quirk(n, parent) /\ \A b \in Below[d][n] : ~Quirk(b[1], b[2])

LEMMA BelowOf ==
  ASSUME NEW d \in 1..MaxDepth, NEW n \in Tree[d]
  PROVE  Below[d][n] =
           UNION {{<<n.kids[i], n.tag>>} \cup Below[d - 1][n.kids[i]] : i \in DOMAIN n.kids}
<1>1. \A k \in 0..MaxDepth : Below[k] = BelowAt(k, Below[k - 1])
  BY BelowDef
<1>2. d \in 0..MaxDepth
  BY Levels
<1>3. Below[d] = BelowAt(d, Below[d - 1])
  BY <1>1, <1>2
<1> QED
  BY <1>3 DEF BelowAt

\* A node whose children are tidy has only tidy nodes below it.
LEMMA BelowTidy ==
  ASSUME NEW d \in 1..MaxDepth, NEW n \in Tree[d],
         \A i \in DOMAIN n.kids : Tidy(d - 1, n.kids[i], n.tag)
  PROVE  \A b \in Below[d][n] : ~Quirk(b[1], b[2])
<1> SUFFICES ASSUME NEW b \in Below[d][n] PROVE ~Quirk(b[1], b[2])
  OBVIOUS
<1>1. PICK i \in DOMAIN n.kids : b = <<n.kids[i], n.tag>> \/ b \in Below[d - 1][n.kids[i]]
  BY BelowOf
<1>2. Tidy(d - 1, n.kids[i], n.tag)
  BY <1>1
<1>3. CASE b = <<n.kids[i], n.tag>>
  <2>1. b[1] = n.kids[i] /\ b[2] = n.tag
    BY <1>3
  <2> QED
    BY <2>1, <1>2 DEF Tidy
<1>4. CASE b \in Below[d - 1][n.kids[i]]
  BY <1>2, <1>4 DEF Tidy
<1> QED
  BY <1>1, <1>3, <1>4

\* Where a pass over trees of d levels changes nothing, it leaves one tidy node.
Tidies(d) ==
  \A n \in Tree[d], parent \in Tags :
    ~Pass[d][n][parent].changed =>
      \E m \in Tree[d] : Pass[d][n][parent].nodes = <<m>> /\ Tidy(d, m, parent)

LEMMA ForestTidied ==
  ASSUME NEW d \in 0..MaxDepth, Tidies(d), NEW tag \in Tags, NEW kids \in Seq(Tree[d]),
         \A i \in DOMAIN kids : ~Pass[d][kids[i]][tag].changed
  PROVE  /\ NewKids(d, tag, kids) \in Seq(Tree[d])
         /\ \A i \in DOMAIN NewKids(d, tag, kids) : Tidy(d, NewKids(d, tag, kids)[i], tag)
<1> DEFINE T == Tree[d]
           n == Len(kids)
           One(i, m) == Pass[d][kids[i]][tag].nodes = <<m>> /\ Tidy(d, m, tag)
           x == [i \in 1..n |-> CHOOSE m \in T : One(i, m)]
           ss == Image(NodesOf(d, tag), kids)
<1>1. n \in Nat /\ DOMAIN kids = 1..n /\ \A i \in 1..n : kids[i] \in T
  BY LenProperties, ElementOfSeq
<1>2. ASSUME NEW i \in 1..n PROVE \E m \in T : One(i, m)
  BY <1>1 DEF Tidies
<1>3. ASSUME NEW i \in 1..n
      PROVE  x[i] \in T /\ Pass[d][kids[i]][tag].nodes = <<x[i]>> /\ Tidy(d, x[i], tag)
  <2> DEFINE m == x[i]
  <2>1. m \in T /\ One(i, m)
    <3> HIDE DEF One, T, n
    <3> QED
      BY <1>2
  <2> HIDE DEF m
  <2>2. Pass[d][kids[i]][tag].nodes = <<m>> /\ Tidy(d, m, tag)
    BY <2>1
  <2> QED
    BY <2>1, <2>2 DEF m
<1> HIDE DEF x
<1>4. x \in Seq(T) /\ Len(x) = n
  <2>1. x = [i \in 1..n |-> x[i]]
    BY DEF x
  <2> HIDE DEF T, n, One
  <2> QED
    BY <2>1, <1>1, <1>3
<1>5. ss = [i \in 1..Len(x) |-> <<x[i]>>]
  <2>1. \A i \in 1..n : NodesOf(d, tag)[kids[i]] = <<x[i]>>
    BY <1>1, <1>3 DEF NodesOf
  <2> HIDE DEF n
  <2> QED
    BY <2>1, <1>1, <1>4 DEF Image
<1>6. FlattenSeq(ss) = x
  <2> HIDE DEF ss
  <2> QED
    BY <1>4, <1>5, FlattenSingles
<1>7. NewKids(d, tag, kids) = x
  BY <1>6 DEF NewKids, AllOf
<1>8. \A i \in DOMAIN x : Tidy(d, x[i], tag)
  <2>1. DOMAIN x = 1..n
    BY <1>4, LenProperties
  <2>2. ASSUME NEW i \in 1..n PROVE Tidy(d, x[i], tag)
    BY <1>3
  <2> QED
    BY <2>1, <2>2
<1> HIDE DEF T
<1> QED
  BY <1>4, <1>7, <1>8 DEF T

LEMMA TidiesStep ==
  ASSUME NEW d \in 1..MaxDepth, Tidies(d - 1)
  PROVE  Tidies(d)
<1> SUFFICES ASSUME NEW n \in Tree[d], NEW parent \in Tags, ~Pass[d][n][parent].changed
             PROVE  \E m \in Tree[d] : Pass[d][n][parent].nodes = <<m>> /\ Tidy(d, m, parent)
  BY DEF Tidies
<1> DEFINE e == d - 1
           r == Pass[d][n][parent]
           kids == NewKids(e, n.tag, n.kids)
           attrs == stripDataAttrs(n.attrs)
           m == Node(n.tag, attrs, kids, n.mark)
<1>1. e \in 0..MaxDepth
  BY Levels
<1>2. /\ n.tag \in Tags /\ n.attrs \in SUBSET STRING /\ n.mark \in Nat /\ n.kids \in Seq(Tree[e])
      /\ n.tag = "text" => n.attrs = {} /\ n.kids = <<>>
  BY NodeParts
<1>3. \/ n.tag = "text" /\ r.nodes = <<n>>
      \/ /\ n.tag # "text" /\ ~isPlaceholderImage(n)
         /\ ~Unwrapped(n, attrs, kids, parent) /\ r.nodes = <<m>>
         /\ \A i \in DOMAIN n.kids : ~Pass[e][n.kids[i]][n.tag].changed
  BY PassStep
<1>4. CASE n.tag = "text" /\ r.nodes = <<n>>
  <2>1. n.attrs = {} /\ n.kids = <<>>
    BY <1>2, <1>4
  <2>2. ~Quirk(n, parent)
    BY <1>4, <2>1 DEF Quirk, isPlaceholderImage
  <2>3. DOMAIN n.kids = {}
    BY <2>1
  <2>4. \A b \in Below[d][n] : ~Quirk(b[1], b[2])
    BY <2>3, BelowTidy
  <2> QED
    BY <1>4, <2>2, <2>4 DEF Tidy
<1>5. CASE /\ n.tag # "text" /\ ~isPlaceholderImage(n)
           /\ ~Unwrapped(n, attrs, kids, parent) /\ r.nodes = <<m>>
           /\ \A i \in DOMAIN n.kids : ~Pass[e][n.kids[i]][n.tag].changed
  <2>1. kids \in Seq(Tree[e]) /\ \A i \in DOMAIN kids : Tidy(e, kids[i], n.tag)
    <3> HIDE DEF e
    <3>1. Tidies(e)
      BY DEF e
    <3> QED
      BY <1>1, <1>2, <1>5, <3>1, ForestTidied
  <2>2. m \in Tree[d] /\ m.tag = n.tag /\ m.attrs = attrs /\ m.kids = kids
    <3>1. attrs \in SUBSET STRING /\ n.tag \in Tags \ {"text"}
      BY <1>2, <1>5 DEF stripDataAttrs
    <3> HIDE DEF attrs, kids
    <3> QED
      BY <1>2, <2>1, <3>1, NodeIn
  <2>3. "data" \notin attrs /\ ("label" \in attrs => "label" \in n.attrs)
    BY DEF stripDataAttrs
  <2>4. ~Quirk(m, parent)
    <3> HIDE DEF m, attrs, kids
    <3> QED
      BY <1>5, <2>2, <2>3 DEF Quirk, Unwrapped, isPlaceholderImage
  <2>5. \A b \in Below[d][m] : ~Quirk(b[1], b[2])
    <3> HIDE DEF m, kids
    <3>1. \A i \in DOMAIN m.kids : Tidy(d - 1, m.kids[i], m.tag)
      BY <2>1, <2>2
    <3> QED
      BY <2>2, <3>1, BelowTidy
  <2> HIDE DEF m
  <2> QED
    BY <1>5, <2>2, <2>4, <2>5 DEF Tidy
<1> QED
  BY <1>3, <1>4, <1>5

LEMMA PassTidies == ASSUME NEW d \in 0..MaxDepth PROVE Tidies(d)
<1> DEFINE S == {k \in 0..MaxDepth : Tidies(k)}
<1>1. MaxDepth \in Nat /\ 0 \in 0..MaxDepth
  BY Levels
<1>2. 0 \in S
  BY <1>1, Trees DEF Tidies
<1>3. ASSUME NEW k \in 0..MaxDepth, k \in S, k < MaxDepth PROVE k + 1 \in S
  <2> DEFINE e == k + 1
  <2>1. e \in 1..MaxDepth /\ e \in 0..MaxDepth /\ e - 1 = k
    BY <1>1, <1>3
  <2> HIDE DEF e
  <2>2. Tidies(e)
    BY <1>3, <2>1, TidiesStep
  <2>3. e \in S
    BY <2>1, <2>2
  <2> QED
    BY <2>3 DEF e
<1>4. d \in S
  <2> HIDE DEF S
  <2> QED
    BY <1>1, <1>2, <1>3, IntervalInduction
<1> QED
  BY <1>4

-----------------------------------------------------------------------------
LEMMA ListingOf ==
  ASSUME NEW d \in 1..MaxDepth, NEW n \in Tree[d]
  PROVE  Joins(Listing[d][n], <<n.mark>>, AllOf(Listing[d - 1], n.kids))
<1>1. \A k \in 0..MaxDepth : Listing[k] = ListingAt(k, Listing[k - 1])
  BY ListingDef
<1>2. d \in 0..MaxDepth
  BY Levels
<1>3. Listing[d] = ListingAt(d, Listing[d - 1])
  BY <1>1, <1>2
<1> QED
  BY <1>3 DEF ListingAt, AllOf, Image, Joins

LEMMA ListingType ==
  ASSUME NEW d \in 0..MaxDepth
  PROVE  Maps(Listing[d], Tree[d], Seq(Nat))
<1> DEFINE S == {k \in 0..MaxDepth : Maps(Listing[k], Tree[k], Seq(Nat))}
<1>1. \A k \in 0..MaxDepth : Listing[k] = ListingAt(k, Listing[k - 1])
  BY ListingDef
<1>2. MaxDepth \in Nat /\ 0 \in 0..MaxDepth
  BY Levels
<1>3. \A k \in 0..MaxDepth : Listing[k] = [n \in Tree[k] |-> Listing[k][n]]
  BY <1>1 DEF ListingAt
<1>4. 0 \in S
  BY <1>2, <1>3, Trees DEF Maps
<1>5. ASSUME NEW k \in 0..MaxDepth, k \in S, k < MaxDepth PROVE k + 1 \in S
  <2> DEFINE e == k + 1
  <2>1. e \in 1..MaxDepth /\ e \in 0..MaxDepth /\ e - 1 = k
    BY <1>2, <1>5
  <2> HIDE DEF e
  <2>2. ASSUME NEW n \in Tree[e] PROVE Listing[e][n] \in Seq(Nat)
    <3>1. n.mark \in Nat /\ n.kids \in Seq(Tree[k])
      BY <2>1, NodeParts
    <3>2. Maps(Listing[k], Tree[k], Seq(Nat))
      BY <1>5
    <3>3. AllOf(Listing[k], n.kids) \in Seq(Nat)
      BY <3>1, <3>2, AllOfType
    <3>4. <<n.mark>> \in Seq(Nat)
      BY <3>1
    <3>5. Joins(Listing[e][n], <<n.mark>>, AllOf(Listing[k], n.kids))
      BY <2>1, ListingOf
    <3> QED
      BY <3>3, <3>4, <3>5, ConcatProperties DEF Joins
  <2>3. Maps(Listing[e], Tree[e], Seq(Nat))
    BY <2>1, <2>2, <1>3 DEF Maps
  <2>4. e \in S
    BY <2>1, <2>3
  <2> QED
    BY <2>4 DEF e
<1>6. d \in S
  <2> HIDE DEF S
  <2> QED
    BY <1>2, <1>4, <1>5, IntervalInduction
<1> QED
  BY <1>6

LEMMA ListingGrow ==
  ASSUME NEW d \in 1..MaxDepth, NEW n \in Tree[d - 1]
  PROVE  Listing[d][n] = Listing[d - 1][n]
<1> DEFINE S == {k \in 0..(MaxDepth - 1) : \A y \in Tree[k] : Listing[k + 1][y] = Listing[k][y]}
<1>1. MaxDepth \in Nat /\ MaxDepth - 1 \in Nat /\ d - 1 \in 0..(MaxDepth - 1) /\ d - 1 + 1 = d
  BY Levels
<1>2. 0 \in S
  BY <1>1, Trees
<1>3. ASSUME NEW k \in 0..(MaxDepth - 1), k \in S, k < MaxDepth - 1 PROVE k + 1 \in S
  <2> DEFINE a == k + 1
             b == k + 2
  <2>1. /\ a \in 1..MaxDepth /\ b \in 1..MaxDepth /\ a - 1 = k /\ b - 1 = a
        /\ a \in 0..(MaxDepth - 1) /\ a + 1 = b
    BY <1>1, <1>3
  <2> HIDE DEF b
  <2>2. ASSUME NEW y \in Tree[a] PROVE Listing[b][y] = Listing[a][y]
    <3>h. \A x \in Tree[k] : Listing[a][x] = Listing[k][x]
      BY <1>3
    <3> HIDE DEF a
    <3>1. y \in Tree[b]
      BY <2>1, TreesGrow
    <3>2. y.kids \in Seq(Tree[k])
      BY <2>1, NodeParts
    <3>3. AllOf(Listing[a], y.kids) = AllOf(Listing[k], y.kids)
      BY <3>2, <3>h, AllOfSame
    <3>4. Joins(Listing[b][y], <<y.mark>>, AllOf(Listing[a], y.kids))
      BY <2>1, <3>1, ListingOf
    <3>5. Joins(Listing[a][y], <<y.mark>>, AllOf(Listing[k], y.kids))
      BY <2>1, ListingOf
    <3> QED
      BY <3>3, <3>4, <3>5 DEF Joins
  <2>3. a \in S
    <3> HIDE DEF a
    <3> QED
      BY <2>1, <2>2
  <2> QED
    BY <2>3
<1>4. d - 1 \in S
  <2> HIDE DEF S
  <2> QED
    BY <1>1, <1>2, <1>3, IntervalInduction
<1> QED
  BY <1>1, <1>4

\* The number of nodes that n consists of.
LEMMA ListingLength ==
  ASSUME NEW d \in 1..MaxDepth, NEW n \in Tree[d]
  PROVE  /\ Len(AllOf(Listing[d - 1], n.kids)) \in Nat
         /\ Len(Listing[d][n]) = 1 + Len(AllOf(Listing[d - 1], n.kids))
<1>1. n.mark \in Nat /\ n.kids \in Seq(Tree[d - 1])
  BY NodeParts
<1>2. d - 1 \in 0..MaxDepth
  BY Levels
<1>3. AllOf(Listing[d - 1], n.kids) \in Seq(Nat)
  BY <1>1, <1>2, ListingType, AllOfType
<1>4. <<n.mark>> \in Seq(Nat) /\ Len(<<n.mark>>) = 1
  BY <1>1
<1>5. Joins(Listing[d][n], <<n.mark>>, AllOf(Listing[d - 1], n.kids))
  BY ListingOf
<1> QED
  BY <1>3, <1>4, <1>5, ConcatProperties, LenProperties DEF Joins

LEMMA Sums ==
  ASSUME NEW p \in Nat, NEW q \in Nat, NEW u \in Nat, NEW v \in Nat
  PROVE  /\ p <= q /\ u <= v => p + u <= q + v
         /\ p <= q /\ u < v => p + u < q + v
         /\ p < q /\ u <= v => p + u < q + v
OBVIOUS

\* Shorter sequences make a shorter one.
LEMMA FlattenShorter ==
  ASSUME NEW S, NEW ss \in Seq(Seq(S)), NEW tt \in Seq(Seq(S)), Len(ss) = Len(tt),
         \A i \in 1..Len(ss) : Len(ss[i]) <= Len(tt[i])
  PROVE  /\ Len(FlattenSeq(ss)) <= Len(FlattenSeq(tt))
         /\ (\E i \in 1..Len(ss) : Len(ss[i]) < Len(tt[i]))
              => Len(FlattenSeq(ss)) < Len(FlattenSeq(tt))
<1> DEFINE n == Len(ss)
<1>1. PICK f \in [0..n -> Seq(S)] : Running(f, ss)
  BY RunningExists
<1>2. PICK g \in [0..n -> Seq(S)] : Running(g, tt)
  BY RunningExists
<1>3. FlattenSeq(ss) = f[n] /\ FlattenSeq(tt) = g[n]
  BY <1>1, <1>2, FlattenIs
<1>4. /\ n \in Nat
      /\ \A i \in 1..n : ss[i] \in Seq(S) /\ tt[i] \in Seq(S)
      /\ \A i \in 0..n : f[i] \in Seq(S) /\ g[i] \in Seq(S)
  BY LenProperties, ElementOfSeq
<1>5. /\ f[0] = <<>> /\ g[0] = <<>>
      /\ \A i \in 1..n : Joins(f[i], f[i - 1], ss[i]) /\ Joins(g[i], g[i - 1], tt[i])
  BY <1>1, <1>2 DEF Running
<1>6. \A i \in 1..n : Len(ss[i]) <= Len(tt[i])
  OBVIOUS
<1> HIDE DEF n
<1> DEFINE K == {k \in 0..n :
                   /\ Len(f[k]) <= Len(g[k])
                   /\ (\E i \in 1..k : Len(ss[i]) < Len(tt[i])) => Len(f[k]) < Len(g[k])}
<1>7. 0 \in K
  BY <1>4, <1>5
<1>8. ASSUME NEW k \in 0..n, k \in K, k < n PROVE k + 1 \in K
  <2> DEFINE e == k + 1
  <2>1. e \in 1..n /\ e \in 0..n /\ e - 1 = k /\ \A i \in 1..e : i = e \/ i \in 1..k
    BY <1>4, <1>8
  <2> HIDE DEF e
  <2>2. /\ Len(f[e]) = Len(f[k]) + Len(ss[e]) /\ Len(g[e]) = Len(g[k]) + Len(tt[e])
        /\ Len(f[k]) \in Nat /\ Len(g[k]) \in Nat /\ Len(ss[e]) \in Nat /\ Len(tt[e]) \in Nat
    <3>1. Joins(f[e], f[k], ss[e]) /\ Joins(g[e], g[k], tt[e])
      BY <2>1, <1>5
    <3>2. f[k] \in Seq(S) /\ g[k] \in Seq(S) /\ ss[e] \in Seq(S) /\ tt[e] \in Seq(S)
      BY <2>1, <1>4
    <3> QED
      BY <3>1, <3>2, ConcatProperties, LenProperties DEF Joins
  <2>3. /\ Len(f[k]) <= Len(g[k])
        /\ (\E i \in 1..k : Len(ss[i]) < Len(tt[i])) => Len(f[k]) < Len(g[k])
    BY <1>8
  <2>h. Len(ss[e]) <= Len(tt[e])
    BY <2>1, <1>6
  <2>4. Len(f[e]) <= Len(g[e])
    BY <2>2, <2>3, <2>h, Sums
  <2>5. ASSUME NEW i \in 1..e, Len(ss[i]) < Len(tt[i]) PROVE Len(f[e]) < Len(g[e])
    <3>1. CASE i = e
      <4>1. Len(ss[e]) < Len(tt[e])
        BY <3>1, <2>5
      <4> QED
        BY <4>1, <2>2, <2>3, Sums
    <3>2. CASE i \in 1..k
      <4>1. Len(f[k]) < Len(g[k])
        BY <3>2, <2>3, <2>5
      <4> QED
        BY <4>1, <2>2, <2>h, Sums
    <3> QED
      BY <3>1, <3>2, <2>1
  <2>6. e \in K
    BY <2>1, <2>4, <2>5
  <2> QED
    BY <2>6 DEF e
<1>9. n \in K
  <2>1. n \in 0..n
    BY <1>4
  <2> HIDE DEF K
  <2> QED
    BY <1>4, <1>7, <1>8, <2>1, IntervalInduction
<1> QED
  BY <1>3, <1>9 DEF n

\* A pass over a tree of d levels does not make it larger; if it reports a
\* change it makes it smaller.
Shrinks(d) ==
  \A n \in Tree[d], parent \in Tags :
    LET r == Pass[d][n][parent]
        after == Len(AllOf(Listing[d], r.nodes))
    IN after <= Len(Listing[d][n]) /\ (r.changed => after < Len(Listing[d][n]))

LEMMA ForestShrinks ==
  ASSUME NEW d \in 0..MaxDepth, Shrinks(d), NEW tag \in Tags, NEW kids \in Seq(Tree[d])
  PROVE  LET after == Len(AllOf(Listing[d], NewKids(d, tag, kids)))
             before == Len(AllOf(Listing[d], kids))
         IN /\ after \in Nat /\ before \in Nat /\ after <= before
            /\ (\E i \in DOMAIN kids : Pass[d][kids[i]][tag].changed) => after < before
<1> DEFINE T == Tree[d]
           c == Listing[d]
           n == Len(kids)
           nodes == NodesOf(d, tag)
           ss == Image(nodes, kids)
           each == [i \in DOMAIN ss |-> AllOf(c, ss[i])]
           tt == Image(c, kids)
<1>1. /\ n \in Nat /\ DOMAIN kids = 1..n /\ \A i \in 1..n : kids[i] \in T
  BY LenProperties, ElementOfSeq
<1>2. Maps(nodes, T, Seq(T))
  <2>1. nodes = [k \in T |-> nodes[k]]
    BY DEF NodesOf
  <2>2. \A k \in T : nodes[k] \in Seq(T)
    BY PassKeeps DEF NodesOf, Keeps
  <2> HIDE DEF nodes, T, c
  <2> QED
    BY <2>1, <2>2 DEF Maps
<1>3. Maps(c, T, Seq(Nat))
  BY ListingType
<1>4. \A i \in 1..n :
        /\ Len(AllOf(c, nodes[kids[i]])) <= Len(c[kids[i]])
        /\ Pass[d][kids[i]][tag].changed => Len(AllOf(c, nodes[kids[i]])) < Len(c[kids[i]])
  BY <1>1 DEF Shrinks, NodesOf
<1>5. NewKids(d, tag, kids) = FlattenSeq(ss)
  BY DEF NewKids, AllOf
<1> HIDE DEF T, c, nodes
<1>6. kids \in Seq(T)
  BY DEF T
<1>7. ss \in Seq(Seq(T)) /\ Len(ss) = n /\ \A i \in 1..n : ss[i] = nodes[kids[i]]
  <2>1. ss \in Seq(Seq(T)) /\ Len(ss) = Len(kids)
    BY <1>2, <1>6, ImageType
  <2>2. \A i \in 1..Len(kids) : ss[i] = nodes[kids[i]]
    BY <1>6, ImageAt
  <2> QED
    BY <2>1, <2>2
<1>8. tt \in Seq(Seq(Nat)) /\ Len(tt) = n /\ \A i \in 1..n : tt[i] = c[kids[i]]
  <2>1. tt \in Seq(Seq(Nat)) /\ Len(tt) = Len(kids)
    BY <1>3, <1>6, ImageType
  <2>2. \A i \in 1..Len(kids) : tt[i] = c[kids[i]]
    BY <1>6, ImageAt
  <2> QED
    BY <2>1, <2>2
<1> HIDE DEF ss, tt, n
<1>9. each \in Seq(Seq(Nat)) /\ Len(each) = n /\ \A i \in 1..n : each[i] = AllOf(c, nodes[kids[i]])
  <2>1. DOMAIN ss = 1..n /\ \A i \in 1..n : ss[i] \in Seq(T)
    BY <1>7, LenProperties, ElementOfSeq
  <2>2. \A i \in 1..n : AllOf(c, ss[i]) \in Seq(Nat)
    BY <2>1, <1>3, AllOfType
  <2>3. each = [i \in 1..n |-> AllOf(c, ss[i])]
    BY <2>1
  <2>4. \A i \in 1..n : each[i] = AllOf(c, ss[i])
    BY <2>1
  <2> HIDE DEF each
  <2>5. each \in Seq(Seq(Nat)) /\ Len(each) = n
    BY <2>2, <2>3, <1>1
  <2> QED
    BY <2>4, <2>5, <1>7
<1>10. AllOf(c, FlattenSeq(ss)) = FlattenSeq(each)
  <2>1. ss \in Seq(Seq(T))
    BY <1>7
  <2> QED
    BY <2>1, <1>3, AllOfFlattened
<1>11. AllOf(c, kids) = FlattenSeq(tt)
  BY DEF AllOf, tt
<1> HIDE DEF each
<1>12. \A i \in 1..Len(each) : Len(each[i]) <= Len(tt[i])
  BY <1>4, <1>8, <1>9
<1>13. /\ Len(FlattenSeq(each)) <= Len(FlattenSeq(tt))
       /\ (\E i \in 1..Len(each) : Len(each[i]) < Len(tt[i]))
            => Len(FlattenSeq(each)) < Len(FlattenSeq(tt))
  BY <1>8, <1>9, <1>12, FlattenShorter
<1>14. Len(FlattenSeq(each)) \in Nat /\ Len(FlattenSeq(tt)) \in Nat
  BY <1>8, <1>9, FlattenType, LenProperties
<1>15. (\E i \in DOMAIN kids : Pass[d][kids[i]][tag].changed)
         => \E i \in 1..Len(each) : Len(each[i]) < Len(tt[i])
  BY <1>1, <1>4, <1>8, <1>9
<1> QED
  BY <1>5, <1>10, <1>11, <1>13, <1>14, <1>15 DEF c

LEMMA ShrinksStep ==
  ASSUME NEW d \in 1..MaxDepth, Shrinks(d - 1)
  PROVE  Shrinks(d)
<1> SUFFICES ASSUME NEW n \in Tree[d], NEW parent \in Tags
             PROVE  LET r == Pass[d][n][parent]
                        after == Len(AllOf(Listing[d], r.nodes))
                    IN after <= Len(Listing[d][n]) /\ (r.changed => after < Len(Listing[d][n]))
  BY DEF Shrinks
<1> DEFINE T == Tree[d]
           e == d - 1
           U == Tree[e]
           c == Listing[d]
           r == Pass[d][n][parent]
           kids == NewKids(e, n.tag, n.kids)
           attrs == stripDataAttrs(n.attrs)
           m == Node(n.tag, attrs, kids, n.mark)
           after == Len(AllOf(Listing[e], kids))
           before == Len(AllOf(Listing[e], n.kids))
<1>1. e \in 0..MaxDepth /\ d \in 0..MaxDepth
  BY Levels
<1>2. /\ n.tag \in Tags /\ n.attrs \in SUBSET STRING /\ n.mark \in Nat /\ n.kids \in Seq(U)
  BY NodeParts
<1>3. Maps(c, T, Seq(Nat))
  BY <1>1, ListingType
<1>4. /\ after \in Nat /\ before \in Nat /\ after <= before
      /\ (\E i \in DOMAIN n.kids : Pass[e][n.kids[i]][n.tag].changed) => after < before
  <2> HIDE DEF e
  <2>1. Shrinks(e)
    BY DEF e
  <2> QED
    BY <1>1, <1>2, <2>1, ForestShrinks
<1>5. kids \in Seq(U)
  BY <1>1, <1>2, PassKeeps, ForestKept
<1>6. Len(c[n]) = 1 + before /\ \A y \in U : c[y] = Listing[e][y]
  BY ListingLength, ListingGrow
<1>7. \/ n.tag = "text" /\ r.nodes = <<n>> /\ ~r.changed
      \/ r.nodes = <<>>
      \/ r.nodes = kids
      \/ /\ n.tag # "text" /\ r.nodes = <<m>>
         /\ r.changed => \E i \in DOMAIN n.kids : Pass[e][n.kids[i]][n.tag].changed
  BY PassStep
<1>8. ASSUME n.tag # "text" PROVE m \in T /\ Len(c[m]) = 1 + after
  <2>1. attrs \in SUBSET STRING
    BY <1>2 DEF stripDataAttrs
  <2>2. n.tag \in Tags \ {"text"}
    BY <1>2, <1>8
  <2> HIDE DEF attrs, kids
  <2>3. m \in T /\ m.kids = kids
    BY <1>2, <1>5, <2>1, <2>2, NodeIn
  <2> HIDE DEF m
  <2> QED
    BY <2>3, ListingLength
<1> HIDE DEF T, U, c, r, kids, attrs, m, e, after, before
<1>9. CASE n.tag = "text" /\ r.nodes = <<n>> /\ ~r.changed
  <2>1. n \in T
    BY DEF T
  <2>2. AllOf(c, <<n>>) = c[n]
    BY <2>1, <1>3, AllOfOne
  <2>3. Len(c[n]) <= Len(c[n])
    BY <1>4, <1>6
  <2> QED
    BY <2>2, <2>3, <1>9 DEF r, c
<1>10. CASE r.nodes = <<>>
  <2>1. Len(AllOf(c, <<>>)) = 0
    BY AllOfNone
  <2>2. 0 < Len(c[n]) /\ 0 <= Len(c[n])
    BY <1>4, <1>6
  <2> QED
    BY <2>1, <2>2, <1>10 DEF r, c
<1>11. CASE r.nodes = kids
  <2>1. Len(AllOf(c, kids)) = after
    BY <1>5, <1>6, AllOfSame DEF after
  <2>2. after < Len(c[n]) /\ after <= Len(c[n])
    BY <1>4, <1>6
  <2> QED
    BY <2>1, <2>2, <1>11 DEF r, c
<1>12. CASE /\ n.tag # "text" /\ r.nodes = <<m>>
            /\ r.changed => \E i \in DOMAIN n.kids : Pass[e][n.kids[i]][n.tag].changed
  <2>1. m \in T /\ Len(c[m]) = 1 + after
    BY <1>8, <1>12
  <2>2. AllOf(c, <<m>>) = c[m]
    BY <2>1, <1>3, AllOfOne
  <2>3. Len(c[m]) <= Len(c[n]) /\ (r.changed => Len(c[m]) < Len(c[n]))
    BY <2>1, <1>4, <1>6, <1>12
  <2> QED
    BY <2>2, <2>3, <1>12 DEF r, c
<1> QED
  BY <1>7, <1>9, <1>10, <1>11, <1>12

LEMMA PassShrinks == ASSUME NEW d \in 0..MaxDepth PROVE Shrinks(d)
<1> DEFINE S == {k \in 0..MaxDepth : Shrinks(k)}
<1>1. MaxDepth \in Nat /\ 0 \in 0..MaxDepth
  BY Levels
<1>2. 0 \in S
  BY <1>1, Trees DEF Shrinks
<1>3. ASSUME NEW k \in 0..MaxDepth, k \in S, k < MaxDepth PROVE k + 1 \in S
  <2> DEFINE e == k + 1
  <2>1. e \in 1..MaxDepth /\ e \in 0..MaxDepth /\ e - 1 = k
    BY <1>1, <1>3
  <2> HIDE DEF e
  <2>2. Shrinks(e)
    BY <1>3, <2>1, ShrinksStep
  <2>3. e \in S
    BY <2>1, <2>2
  <2> QED
    BY <2>3 DEF e
<1>4. d \in S
  <2> HIDE DEF S
  <2> QED
    BY <1>1, <1>2, <1>3, IntervalInduction
<1> QED
  BY <1>4

-----------------------------------------------------------------------------
SimplifyInv ==
  /\ root \in Tree[MaxDepth] /\ root.tag = "div"
  /\ changed \in BOOLEAN
  /\ ContentsKept
  /\ TidyInTheEnd

LEMMA SimplifyInvInit == SimplifyInit => SimplifyInv
<1> SUFFICES ASSUME SimplifyInit PROVE SimplifyInv
  OBVIOUS
<1>1. PICK kids \in Articles : root = Node("div", {}, kids, 0)
  BY DEF SimplifyInit
<1>2. MaxDepth \in 1..MaxDepth /\ kids \in Seq(Tree[MaxDepth - 1]) /\ "div" \in Tags \ {"text"}
  BY SimplifyAssumption
<1>3. root \in Tree[MaxDepth] /\ root.tag = "div"
  <2>1. {} \in SUBSET STRING /\ 0 \in Nat
    OBVIOUS
  <2> QED
    BY <1>1, <1>2, <2>1, NodeIn
<1> QED
  BY <1>3 DEF SimplifyInit, SimplifyInv, ContentsKept, TidyInTheEnd

\* What a pass makes of the root.
LEMMA RootStep ==
  ASSUME root \in Tree[MaxDepth], root.tag = "div", SimplifyPass
  PROVE  /\ root.kids \in Seq(Tree[MaxDepth - 1])
         /\ root' \in Tree[MaxDepth] /\ root'.tag = "div"
         /\ root'.kids = NewKids(MaxDepth - 1, "div", root.kids)
         /\ original' = original /\ changed' \in BOOLEAN
         /\ changed' <=> \E i \in DOMAIN root.kids :
                           Pass[MaxDepth - 1][root.kids[i]]["div"].changed
<1> DEFINE d == MaxDepth
           e == MaxDepth - 1
           kids == NewKids(e, "div", root.kids)
<1>1. d \in 1..MaxDepth /\ e \in 0..MaxDepth /\ d - 1 = e
  BY Levels
<1>2. root.attrs \in SUBSET STRING /\ root.mark \in Nat /\ root.kids \in Seq(Tree[e])
  BY <1>1, NodeParts
<1>3. /\ Joined(BelowRoot) = kids
      /\ AnyChanged(BelowRoot) <=> \E i \in DOMAIN root.kids : Pass[e][root.kids[i]]["div"].changed
      /\ AnyChanged(BelowRoot) \in BOOLEAN
  <2> DEFINE below == Passed(e, "div", root.kids)
  <2>1. BelowRoot = below
    BY DEF BelowRoot, Passed
  <2> HIDE DEF e
  <2>2. /\ Joined(below) = kids
        /\ AnyChanged(below) <=> \E i \in DOMAIN root.kids : Pass[e][root.kids[i]]["div"].changed
        /\ AnyChanged(below) \in BOOLEAN
    BY <1>2, PassedForest
  <2> HIDE DEF below, kids
  <2> QED
    BY <2>1, <2>2
<1>4. root' = [root EXCEPT !.kids = kids] /\ original' = original
  BY <1>3 DEF SimplifyPass
<1>5. changed' = AnyChanged(BelowRoot)
  BY DEF SimplifyPass
<1>6. changed' <=> \E i \in DOMAIN root.kids : Pass[e][root.kids[i]]["div"].changed
  BY <1>3, <1>5
<1>7. changed' \in BOOLEAN
  BY <1>3, <1>5
<1>8. kids \in Seq(Tree[e])
  BY <1>1, <1>2, RootTag, PassKeeps, ForestKept
<1> HIDE DEF kids
<1>9. root' = Node("div", root.attrs, kids, root.mark)
  <2>1. root = [tag |-> root.tag, attrs |-> root.attrs, kids |-> root.kids, mark |-> root.mark]
    <3>1. root \in Text \/ root \in Elements(Tree[e])
      BY <1>1, Trees
    <3> QED
      BY <3>1 DEF Text, Elements
  <2> QED
    BY <1>4, <2>1 DEF Node
<1>10. root' \in Tree[d] /\ root'.tag = "div" /\ root'.kids = kids
  BY <1>1, <1>2, <1>8, <1>9, RootTag, NodeIn
<1> QED
  BY <1>2, <1>4, <1>6, <1>7, <1>10 DEF kids

LEMMA SimplifyInvNext == SimplifyInv /\ [SimplifyPass]_svars => SimplifyInv'
<1> SUFFICES ASSUME SimplifyInv, [SimplifyPass]_svars PROVE SimplifyInv'
  OBVIOUS
<1>1. CASE UNCHANGED svars
  BY <1>1 DEF svars, SimplifyInv, ContentsKept, TidyInTheEnd
<1>2. CASE SimplifyPass
  <2> DEFINE d == MaxDepth
             e == MaxDepth - 1
             kids == NewKids(e, "div", root.kids)
  <2>1. d \in 1..MaxDepth /\ e \in 0..MaxDepth /\ "div" \in Tags
    BY Levels, RootTag
  <2>2. root \in Tree[d] /\ root.tag = "div"
    BY DEF SimplifyInv
  <2>3. /\ root.kids \in Seq(Tree[e])
        /\ root' \in Tree[d] /\ root'.tag = "div" /\ root'.kids = kids
        /\ original' = original /\ changed' \in BOOLEAN
        /\ changed' <=> \E i \in DOMAIN root.kids : Pass[e][root.kids[i]]["div"].changed
    BY <1>2, <2>2, RootStep
  <2>4. AllOf(Contents[e], kids) = AllOf(Contents[e], root.kids)
    BY <2>1, <2>3, PassKeeps, ForestKept
  <2>5. ~changed' => \A i \in DOMAIN kids : Tidy(e, kids[i], "div")
    BY <2>1, <2>3, PassTidies, ForestTidied
  <2> HIDE DEF kids
  <2>6. Contents[d][root'] = Contents[d][root]
    <3>1. Contents[d][root'] = AllOf(Contents[e], kids)
      BY <2>1, <2>3, ContentsOf
    <3>2. Contents[d][root] = AllOf(Contents[e], root.kids)
      BY <2>1, <2>2, ContentsOf
    <3> QED
      BY <2>4, <3>1, <3>2
  <2>7. ~changed' => \A b \in Below[d][root'] : ~Quirk(b[1], b[2])
    <3> DEFINE x == root'
    <3>1. ~changed' => \A i \in DOMAIN x.kids : Tidy(e, x.kids[i], x.tag)
      BY <2>3, <2>5
    <3>2. x \in Tree[d]
      BY <2>3
    <3> HIDE DEF x
    <3>3. (\A i \in DOMAIN x.kids : Tidy(d - 1, x.kids[i], x.tag))
            => \A b \in Below[d][x] : ~Quirk(b[1], b[2])
      BY <2>1, <3>2, BelowTidy
    <3> QED
      BY <3>1, <3>3 DEF x
  <2> QED
    BY <2>3, <2>6, <2>7 DEF SimplifyInv, ContentsKept, TidyInTheEnd
<1> QED
  BY <1>1, <1>2

(* No order in which wrappers are unwrapped loses or moves a word or a picture
   of the article, at any depth and with any tags. *)
THEOREM ArticleSurvives == SimplifySpec => []ContentsKept
<1>1. SimplifyInv => ContentsKept
  BY DEF SimplifyInv
<1> QED
  BY <1>1, SimplifyInvInit, SimplifyInvNext, PTL DEF SimplifySpec

(* When the loop of simplifyDOM ends, none of the quirks it is there for is
   left anywhere in the article. *)
THEOREM NoQuirkLeft == SimplifySpec => []TidyInTheEnd
<1>1. SimplifyInv => TidyInTheEnd
  BY DEF SimplifyInv
<1> QED
  BY <1>1, SimplifyInvInit, SimplifyInvNext, PTL DEF SimplifySpec

(* Each pass after which simplifyDOM goes on has made the tree smaller: the
   loop cannot run for ever, whatever the article. *)
THEOREM PassesMakeProgress == SimplifySpec => PassesShrink
<1> DEFINE Shrunk == changed' => Len(Listing[MaxDepth][root']) < Len(Listing[MaxDepth][root])
<1>1. ASSUME SimplifyInv, [SimplifyPass]_svars PROVE [Shrunk]_svars
  <2> SUFFICES ASSUME SimplifyPass, changed' PROVE Shrunk
    BY <1>1
  <2> DEFINE d == MaxDepth
             e == MaxDepth - 1
             kids == NewKids(e, "div", root.kids)
             x == root'
  <2>1. d \in 1..MaxDepth /\ e \in 0..MaxDepth /\ "div" \in Tags
    BY Levels, RootTag
  <2>2. root \in Tree[d] /\ root.tag = "div"
    BY <1>1 DEF SimplifyInv
  <2>3. /\ root.kids \in Seq(Tree[e]) /\ x \in Tree[d] /\ x.kids = kids
        /\ \E i \in DOMAIN root.kids : Pass[e][root.kids[i]]["div"].changed
    BY <2>2, RootStep
  <2> DEFINE after == Len(AllOf(Listing[e], kids))
             before == Len(AllOf(Listing[e], root.kids))
  <2>4. after \in Nat /\ before \in Nat /\ after < before
    BY <2>1, <2>3, PassShrinks, ForestShrinks
  <2> HIDE DEF x, kids
  <2>5. Len(Listing[d][root]) = 1 + before
    BY <2>1, <2>2, ListingLength
  <2>6. Len(Listing[d][x]) = 1 + after
    BY <2>1, <2>3, ListingLength
  <2> HIDE DEF after, before
  <2>7. Len(Listing[d][x]) < Len(Listing[d][root])
    BY <2>4, <2>5, <2>6
  <2> QED
    BY <2>7 DEF x
<1>2. SimplifyInv /\ [SimplifyPass]_svars => [Shrunk]_svars
  BY <1>1
<1> QED
  BY <1>2, SimplifyInvInit, SimplifyInvNext, PTL DEF SimplifySpec, PassesShrink

=============================================================================
