------------------------------ MODULE MCPciDrv ------------------------------
(* Words of one bit and a number outside their range.                     *)
EXTENDS PciDrv

MCLongs == {-1, 0}
=============================================================================
