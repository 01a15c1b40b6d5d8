------------------------------- MODULE MCFifo -------------------------------
(* Model checking instance of Fifo. *)
EXTENDS Fifo
=============================================================================
