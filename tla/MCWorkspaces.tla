----------------------------- MODULE MCWorkspaces -----------------------------
(***************************************************************************)
(* Small instances of Workspaces for TLC: all tasks use one branch name.   *)
(***************************************************************************)
EXTENDS Workspaces

OneBranch == [t \in Tasks |-> CHOOSE b \in Branches : TRUE]
===============================================================================
