------------------------------ MODULE MCRetention ------------------------------
(* Constants for the runs of Retention. *)
EXTENDS Retention, TLC

MCSymmetry == Permutations(Forms)
=============================================================================
