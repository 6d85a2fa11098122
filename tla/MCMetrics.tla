----------------------------- MODULE MCMetrics ------------------------------
(* Instances of Metrics for TLC. *)
EXTENDS Metrics

LiveSpec == Spec /\ Fairness

=============================================================================
