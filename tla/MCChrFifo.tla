------------------------------ MODULE MCChrFifo ------------------------------
(* ChrFifo on a small instance. *)
EXTENDS ChrFifo, TLC

CONSTANTS p1, p2, p3, d1

\* Processes are interchangeable.
Interchange == Permutations(Procs)
=============================================================================
