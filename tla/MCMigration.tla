---------------------------- MODULE MCMigration ----------------------------
(***************************************************************************)
(* Small instances of MigrationOrchestrator for TLC.                       *)
(***************************************************************************)
EXTENDS MigrationOrchestrator, TLC

\* What the next steps depend on: how a migration ended does not matter to the
\* next one of its caller, nor, without compose, whether a spec was passed once
\* the status is loaded.
Relevant ==
    << inst, cancelled,
       [m \in Migrations |->
            << IF m \in Ended THEN "idle" ELSE pc[m],
               IF req[m] = None THEN None ELSE <<req[m].source, req[m].target, req[m].zero>> >>] >>

MigrationSymmetry == Permutations(Migrations)
=============================================================================
