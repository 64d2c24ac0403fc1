---------------------------- MODULE MCKubernetes ----------------------------
(***************************************************************************)
(* A small instance of KubernetesWorkload for TLC.                         *)
(***************************************************************************)
EXTENDS KubernetesWorkload, TLC

CallerSymmetry == Permutations(Callers)
=============================================================================
