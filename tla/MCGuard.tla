------------------------------ MODULE MCGuard -------------------------------
(* Instances of Guard for TLC. *)
EXTENDS Guard

=============================================================================
