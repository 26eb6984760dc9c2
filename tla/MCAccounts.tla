------------------------------ MODULE MCAccounts ------------------------------
(* Constants for the runs of Accounts. *)
EXTENDS Accounts, TLC
=============================================================================
