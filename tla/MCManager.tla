----------------------------- MODULE MCManager ------------------------------
(* Instances of Manager for TLC. *)
EXTENDS Manager

CONSTANTS n1, n2, d1, d2

a1 == [name |-> n1, def |-> d1]
a2 == [name |-> n1, def |-> d2]
b1 == [name |-> n2, def |-> d1]

MCFeeds == {a1, a2, b1}
\* A feed is changed next to one that is added, and removed and added again.
Edits == {<<a1>>, <<b1, a2>>, <<b1>>}

\* A feed is added next to a running one, and removed.
Growth == {<<a1>>, <<b1, a1>>}

LiveSpec == ManagerSpec /\ ManagerFairness

=============================================================================
