--------------------------- MODULE MCDeployQueue ---------------------------
(* Small instances of DeployQueue for TLC. *)
EXTENDS DeployQueue, TLC
=============================================================================
