------------------------------ MODULE MCPltDrv ------------------------------
(* PltDrv on small instances. *)
EXTENDS PltDrv, TLC

CONSTANTS p1, p2

Interchange == Permutations(Procs)
=============================================================================
