------------------------------- MODULE MCCalls -------------------------------
(***************************************************************************)
(* An instance of Calls for TLC: two of the three names of targets share a *)
(* namespace.                                                              *)
(***************************************************************************)
EXTENDS Calls

CONSTANTS f1, f2, f3
TwoShare == [f \in {f1, f2, f3} |-> IF f = f3 THEN f2 ELSE f]
=============================================================================
