-------------------------------- MODULE MCJiq --------------------------------
(* Jiq on small instances: two readers, and a single one without signals.  *)
(* Reads may follow one another for ever, but no more than MaxReads begin  *)
(* before jiq_data is at rest again.                                       *)
EXTENDS Jiq

CONSTANTS r1, r2, MaxReads

VARIABLE reads   \* the reads begun since jiq_data was last at rest

Begins == \E r \in Readers : pc[r] = "idle" /\ pc'[r] # "idle"

MCInit == JiqStart /\ reads = 0
MCNext ==
  /\ JiqNext
  /\ reads' = IF ~Begins THEN reads ELSE IF AtRest THEN 1 ELSE reads + 1
  /\ reads' <= MaxReads
MCSpec == MCInit /\ [][MCNext]_<<jiq_vars, reads>> /\ JiqFairness
=============================================================================
