--------------------------- MODULE MCProvisioning ---------------------------
(* An instance of Provisioning for TLC. *)
EXTENDS Provisioning, TLC

CONSTANTS i1, i2, e1, adm, r1, r2

\* An account deleted and created again in Supabase: a new id, the old email.
MCEmailOfSame == (i1 :> e1) @@ (i2 :> e1)
===============================================================================
