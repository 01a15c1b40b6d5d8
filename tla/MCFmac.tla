------------------------------- MODULE MCFmac -------------------------------
(* Model checking instance of Fmac: a host that only reconfigures a quiet  *)
(* station.                                                                *)
EXTENDS Fmac
=============================================================================
