------------------------------- MODULE MCNotify -------------------------------
(* Constants for the runs of Notify. *)
EXTENDS Notify, TLC

MCSymmetry == Permutations(Submissions) \cup Permutations(Handlers)
=============================================================================
