-------------------------------- MODULE MCGate --------------------------------
(* Constants for the run of Gate. *)
EXTENDS Gate

CONSTANTS f1, f2, a, b

MCHomeOf == [f \in Forms |-> IF f = f1 THEN a ELSE b]
=============================================================================
