------------------------------- MODULE MCFence -------------------------------
(***************************************************************************)
(* Instances of Fence for TLC: a daemon, and one or two commands at a      *)
(* time.  The symmetric sets are used only in runs that check safety.      *)
(***************************************************************************)
EXTENDS Fence, TLC

Symmetry == Permutations(Contents) \cup Permutations(Clients) \cup Permutations(Users)
=============================================================================
