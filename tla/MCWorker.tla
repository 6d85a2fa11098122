------------------------------ MODULE MCWorker ------------------------------
(* Instances of Worker for TLC. *)
EXTENDS Worker

CONSTANTS n1, d1

OneFeed == {[name |-> n1, def |-> d1]}

=============================================================================
