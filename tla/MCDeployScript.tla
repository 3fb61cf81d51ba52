--------------------------- MODULE MCDeployScript ----------------------------
(* Instances of DeployScript for TLC. *)
EXTENDS DeployScript, TLC

\* Each process has an artifact of its own.
OwnArtifact == [p \in Processes |-> p]

RunSymmetry == Permutations(Runs)
=============================================================================
