--------------------------- MODULE MCExecutionStages ---------------------------
(***************************************************************************)
(* Small instances of ExecutionStages for TLC.                             *)
(***************************************************************************)
EXTENDS ExecutionStages, TLC

RepositorySymmetry == Permutations(Repositories)
===============================================================================
