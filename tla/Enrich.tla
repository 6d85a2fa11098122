------------------------------- MODULE Enrich -------------------------------
(***************************************************************************)
(* enrich of internal/generator/generator.go: the articles of one feed are *)
(* extracted by an errgroup of CONCURRENCY goroutines under the deadline   *)
(* of FEED_TIMEOUT, and the refresh is repeated at the ticks of the worker *)
(* on the cache that earlier ones filled.  The goroutines are the Callers  *)
(* of module Extractor; this is the detail behind the steps EnrichOK and   *)
(* FetchOrEnrichFails of module Worker.                                    *)
(* Operators called Faulty... are mistaken variants, as in module Worker.  *)
(***************************************************************************)
EXTENDS Extractor, Sequences, Naturals, FiniteSets

CONSTANT Links  \* the links of the feed's items in order, NoURL without one

ASSUME EnrichAssumption == Links \in Seq(Keys \cup {NoURL})

VARIABLES
  phase,     \* where enrich stands
  next,      \* the item the loop has come to
  item,      \* item[p]: the item goroutine p works on, 0 if it is free
  made,      \* made[i]: the feed item made of item i, NoItem if none
  expired,   \* ctx is done
  groupDone, \* gctx is done
  cut,       \* ghost: items whose request a context has interrupted
  gained,    \* ghost: an entry that can be used was stored in this refresh
  hasty,     \* ghost: a deadline struck before that, or an entry was lost
  published  \* the items of the last refresh that went on to writeOutputs

local == <<phase, next, item, made, expired, groupDone, cut, gained>>
evars == <<xvars, local, hasty, published>>

Index == 1..Len(Links)
Linked == {i \in Index : Links[i] # NoURL}

(* An item has its article, as the extractor gave it, or falls back to the
   description that the feed itself carries. *)
NoItem == [at |-> 0, page |-> NoURL]
WithArticle(i, u) == [at |-> i, page |-> u]
WithDescription(i) == [at |-> i, page |-> NoURL]
Item == [at : 0..Len(Links), page : Keys \cup {NoURL}]

EnrichTypeOK ==
  /\ ExtractorTypeOK
  /\ phase \in {"loop", "go", "wait"}
  /\ next \in 1..(Len(Links) + 1)
  /\ item \in [Callers -> 0..Len(Links)]
  /\ made \in [Index -> Item]
  /\ expired \in BOOLEAN /\ groupDone \in BOOLEAN
  /\ gained \in BOOLEAN /\ hasty \in BOOLEAN
  /\ cut \subseteq Index
  /\ published \in Seq(Item)
  /\ \A p \in Callers : pc[p] # "idle" => item[p] \in Index

EnrichInit ==
  /\ ExtractorInit
  /\ phase = "loop"
  /\ next = 1
  /\ item = [p \in Callers |-> 0]
  /\ made = [i \in Index |-> NoItem]
  /\ expired = FALSE /\ groupDone = FALSE
  /\ cut = {} /\ gained = FALSE /\ hasty = FALSE
  /\ published = <<>>

-----------------------------------------------------------------------------
\* The loop goes on to Wait after the last item, or if gctx is done ...
Loop ==
  /\ phase = "loop"
  /\ phase' = IF next > Len(Links) \/ groupDone THEN "wait" ELSE "go"
  /\ UNCHANGED <<xvars, next, item, made, expired, groupDone, cut, gained,
                 hasty, published>>

(* ... and may block in g.Go until a goroutine is free, whether or not gctx
   gets done meanwhile.  An item without a link is over at once. *)
Go(p) ==
  /\ phase = "go"
  /\ pc[p] = "idle"
  /\ IF Links[next] = NoURL
     THEN UNCHANGED <<xvars, item>>
     ELSE /\ Call(p, Links[next])
          /\ item' = [item EXCEPT ![p] = next]
  /\ phase' = "loop"
  /\ next' = next + 1
  /\ UNCHANGED <<made, expired, groupDone, cut, gained, hasty, published>>

(* A step of Extract.  With its context done a request is interrupted,
   unless its answer was there before; the cache does not look at it. *)
Extracting(p) ==
  /\ ExtractStep(p)
  /\ cut' = IF groupDone /\ pc[p] = "fetch" /\ pc'[p] = "done"
            THEN cut \cup {item[p]} ELSE cut
  /\ gained' = (gained \/ (pc[p] = "store" /\ entry[p] \notin Large /\ store'[url[p]] = entry[p]))
  /\ UNCHANGED <<phase, next, item, made, expired, groupDone, hasty, published>>

FaultyOutcome(p) ==
  IF outcome[p] = "ok" THEN WithArticle(next - 1, entry[p].page)
  ELSE IF outcome[p] = "cache_hit" THEN WithArticle(next - 1, got[p][2].page)
  ELSE WithDescription(item[p])

\* What itemFor makes of the result of Extract.
Outcome(p) ==
  IF outcome[p] = "ok" THEN WithArticle(item[p], entry[p].page)
  ELSE IF outcome[p] = "cache_hit" THEN WithArticle(item[p], got[p][2].page)
  ELSE WithDescription(item[p])

FaultyItemDone(p) ==
  /\ Return(p)
  /\ made' = [made EXCEPT ![item[p]] = Outcome(p)]
  /\ item' = [item EXCEPT ![p] = 0]
  /\ groupDone' = (groupDone \/ Outcome(p) = WithDescription(item[p]))
  /\ UNCHANGED <<phase, next, expired, cut, gained, hasty, published>>

\* The goroutine returns nil, also when Extract failed: gctx stays as it is.
ItemDone(p) ==
  /\ Return(p)
  /\ made' = [made EXCEPT ![item[p]] = Outcome(p)]
  /\ item' = [item EXCEPT ![p] = 0]
  /\ UNCHANGED <<phase, next, expired, groupDone, cut, gained, hasty, published>>

\* FEED_TIMEOUT, or the worker is cancelled: ctx is done and gctx with it.
Expires ==
  /\ ~expired
  /\ expired' = TRUE /\ groupDone' = TRUE
  /\ hasty' = (hasty \/ ~gained)
  /\ UNCHANGED <<xvars, phase, next, item, made, cut, gained, published>>

\* What becomes of the cache on its own.
Ages ==
  /\ Decay
  /\ hasty' = TRUE
  /\ UNCHANGED <<local, published>>

\* The loop over the results, as far as item i.
Gathered[i \in 0..Len(Links)] ==
  IF i = 0 THEN <<>>
  ELSE IF made[i] = NoItem THEN Gathered[i - 1]
  ELSE Append(Gathered[i - 1], made[i])

Collected == Gathered[Len(Links)]

(* g.Wait returns; enrich collects what there is and returns ctx.Err().  The
   next refresh begins with a context and an errgroup of its own. *)
Collect ==
  /\ phase = "wait"
  /\ \A p \in Callers : pc[p] = "idle"
  /\ published' = IF expired \/ Collected = <<>> THEN published ELSE Collected
  /\ phase' = "loop"
  /\ next' = 1
  /\ made' = [i \in Index |-> NoItem]
  /\ expired' = FALSE /\ groupDone' = FALSE
  /\ cut' = {} /\ gained' = FALSE
  /\ UNCHANGED <<xvars, item, hasty>>

-----------------------------------------------------------------------------
EnrichNext ==
  \/ Loop \/ Collect \/ Expires \/ Ages
  \/ \E p \in Callers : Go(p) \/ Extracting(p) \/ ItemDone(p)

EnrichSpec == EnrichInit /\ [][EnrichNext]_evars

(* The goroutines are scheduled, and REQUEST_TIMEOUT ends a request that
   upstream does not answer. *)
EnrichFairness ==
  /\ WF_evars(Loop) /\ WF_evars(Collect)
  /\ \A p \in Callers :
       /\ WF_evars(Go(p)) /\ WF_evars(ItemDone(p))
       /\ WF_evars(Transient(p, "fetch_error") /\ Extracting(p))
       /\ WF_evars(pc[p] # "fetch" /\ Extracting(p))

-----------------------------------------------------------------------------
(* What is published is the whole feed: every item that has a link, in the
   order of the feed though the goroutines finish in any order, and never one
   that shows the description only because the deadline or a sibling
   interrupted its request. *)
PublishedWhole ==
  [][published' # published =>
       /\ {published'[j].at : j \in DOMAIN published'} = Linked
       /\ \A j \in DOMAIN published' : published'[j] = made[published'[j].at]
       /\ \A j, k \in DOMAIN published' : j < k => published'[j].at < published'[k].at
       /\ cut = {}]_evars

(* An item shows the article its link leads to, not that of another one. *)
RightArticle ==
  \A j \in DOMAIN published :
    published[j].page # NoURL =>
      \E u \in Keys : /\ <<u, published[j].page>> \in Leads
                      /\ Links[published[j].at] \in {u, published[j].page}

(* A feed too long for its FEED_TIMEOUT is published all the same, after a
   few refreshes that fail: each leaves its articles in the cache, so that
   the next one gets further - unless a deadline leaves no time for a single
   article that the cache can keep, or the cache loses some.  By default it does leave time: 50
   articles at 4 a time that all hang for REQUEST_TIMEOUT take 13 times 20
   seconds, less than the 5 minutes. *)
PublishedInTheEnd == <>(published # <<>> \/ hasty)

=============================================================================
