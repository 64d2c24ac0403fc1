------------------------------ MODULE MCDrain -------------------------------
(***************************************************************************)
(* A small instance of NodeDrain for TLC.                                  *)
(***************************************************************************)
EXTENDS NodeDrain, TLC

DrainerSymmetry == Permutations(Drainers)
=============================================================================
