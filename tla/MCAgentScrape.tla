---------------------------- MODULE MCAgentScrape ----------------------------
(* Instances of AgentScrape for TLC. *)
EXTENDS AgentScrape, TLC

CONSTANTS f1, f2, f3, c1, c2

\* All keys in one bucket, or f1 in a bucket before the others'.
MCHash == {[f \in Flow |-> 1], [f \in Flow |-> IF f = f1 THEN 1 ELSE 2]}
===============================================================================
