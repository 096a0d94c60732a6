----------------------------- MODULE MCCharDrvs -----------------------------
(* CharDrvs on a small instance. *)
EXTENDS CharDrvs

CONSTANTS p1, p2

Nobody      == {}
OneAdmin    == {p1}
OneKillable == {p1}
=============================================================================
