------------------------------ MODULE MCHqClient ------------------------------
(* HqClient on small instances. *)
EXTENDS HqClient, TLC

\* The identities of connections, heartbeats and users are interchangeable.
Symmetric == Permutations(ConnIds) \cup Permutations(Beats) \cup Permutations(Users)
=============================================================================
