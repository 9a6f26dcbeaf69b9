------------------------------ MODULE MCLatch ------------------------------
(* Instances of the latch; liveness is checked, so there is no symmetry. *)
EXTENDS Latch
===========================================================================
