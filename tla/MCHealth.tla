------------------------------ MODULE MCHealth ------------------------------
(***************************************************************************)
(* A small instance of HealthTracker for TLC.                              *)
(***************************************************************************)
EXTENDS HealthTracker

ProberSymmetry == Permutations(Probers)
=============================================================================
