---------------------------- MODULE MCFileCache -----------------------------
(* Instances of FileCache for TLC. *)
EXTENDS FileCache

LiveSpec == Spec /\ Fairness

=============================================================================
