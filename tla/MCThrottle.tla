------------------------------ MODULE MCThrottle ------------------------------
(* Throttle on small instances. *)
EXTENDS Throttle
=============================================================================
