--------------------------- MODULE MCDeployManager ---------------------------
(* Instances of DeployManager for TLC. *)
EXTENDS DeployManager, TLC

IdSymmetry == Permutations(Ids)
=============================================================================
