------------------------------ MODULE MCEnrich ------------------------------
(* Instances of Enrich, and with it of Extractor, for TLC. *)
EXTENDS Enrich

CONSTANTS u1, u2, bad

AllEntries == {Body(u) : u \in Keys} \cup {Negative(c) : c \in Classes}

(* u1 has moved to u2, at times; a request for u2 may also be refused, and
   one for u1 may find no article. *)
SomeLeads == {<<u1, u1>>, <<u1, u2>>, <<u2, u2>>}
SomeFails == {<<u1, "empty">>, <<u2, "upstream">>}

\* What u1 has, when it has not moved, is too large for the cache.
HugeBody == {Body(u1)}

FourLinks == <<u1, NoURL, bad, u2>>

LiveSpec == EnrichSpec /\ EnrichFairness

=============================================================================
