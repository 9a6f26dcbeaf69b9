------------------------------ MODULE MCQueue ------------------------------
(* Instances of the queue; liveness is checked, so there is no symmetry. *)
EXTENDS Queue
===========================================================================
