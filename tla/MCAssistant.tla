------------------------------ MODULE MCAssistant ------------------------------
(* An instance of Assistant for TLC. *)
EXTENDS Assistant, TLC

CONSTANTS n1, n2
================================================================================
