----------------------------- MODULE MCSmartClient ----------------------------
(* SmartClient on small instances. *)
EXTENDS SmartClient
=============================================================================
