------------------------------- MODULE MCWatch ------------------------------
(* Instances of Watch for TLC. *)
EXTENDS Watch

CONSTANTS old, new, half

AllLists == {old, new, half}
SavedLists == {old, new}

\* The first half of new is a valid list without the feeds of the second.
HalfReads == [l \in SavedLists |-> IF l = new THEN {half} ELSE {}]

=============================================================================
