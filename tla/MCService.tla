------------------------------ MODULE MCService -----------------------------
(* Instances of Service, and with it of System and Server, for TLC. *)
EXTENDS Service, TLC

CONSTANTS n1, n2, d0, d1, d2

a1 == [name |-> n1, def |-> d1]
a2 == [name |-> n1, def |-> d2]
b == [name |-> n2, def |-> d0]

MCFeeds == {a1, a2, b}

\* A feed is changed, or exchanged for another one.
Changes == {<<a1>>, <<a2>>, <<b>>}

\* The two definitions of the first feed are used alike.
Symmetry == Permutations({d1, d2})

=============================================================================
