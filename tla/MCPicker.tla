------------------------------- MODULE MCPicker -------------------------------
(***************************************************************************)
(* Instances of Picker, and with it of Manifest, for TLC.                  *)
(***************************************************************************)
EXTENDS Picker

Symmetry == Permutations(Hashes)
=============================================================================
