---------------------------- MODULE MCDeployEvents ----------------------------
(* Instances of DeployEvents for TLC. *)
EXTENDS DeployEvents, TLC

CONSTANTS a1, d1
===============================================================================
