----------------------------- MODULE MCEvaluator -----------------------------
(***************************************************************************)
(* Instances of Evaluator for TLC.  The symmetric sets are used only in    *)
(* runs that check safety.                                                 *)
(***************************************************************************)
EXTENDS Evaluator, TLC

Symmetry == Permutations(Contents) \cup Permutations(Clients)
=============================================================================
