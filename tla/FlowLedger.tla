------------------------------ MODULE FlowLedger ------------------------------
(***************************************************************************)
(* What the flow store promises, whatever its tables look like: a row of a *)
(* snapshot that was accepted is kept for ever, first at raw granularity   *)
(* and later as part of a daily rollup.  A snapshot becomes visible as a   *)
(* whole, ages as a whole, and never un-ages.                              *)
(***************************************************************************)

CONSTANTS
  Post,       \* the snapshots agents may post
  Finding     \* the findings a snapshot may carry

VARIABLE tier \* tier[<<p, f>>] is where finding f of snapshot p is kept

Row  == Post \X Finding
Tier == {"absent", "raw", "rolled"}

Init == tier = [r \in Row |-> "absent"]

\* Snapshot p, carrying exactly the findings fs, becomes visible.
Record(p, fs) ==
  /\ \A f \in Finding : tier[<<p, f>>] = "absent"
  /\ tier' = [r \in Row |->
                IF r[1] = p /\ r[2] \in fs THEN "raw" ELSE tier[r]]

\* The raw rows of the snapshots ps move to the daily rollup.
Roll(ps) ==
  tier' = [r \in Row |->
             IF r[1] \in ps /\ tier[r] = "raw" THEN "rolled" ELSE tier[r]]

Next ==
  \/ \E p \in Post, fs \in SUBSET Finding : Record(p, fs)
  \/ \E ps \in SUBSET Post : Roll(ps)

Spec == Init /\ [][Next]_tier
===============================================================================
