------------------------------- MODULE MCAir -------------------------------
(* Model checking instance of Air with the table of the code. *)
EXTENDS Air
K3 == optimalK(3)
=============================================================================
