----------------------------- MODULE MCAsyncClient ----------------------------
(* AsyncClient on small instances. *)
EXTENDS AsyncClient, TLC

\* The identities of connections, heartbeats, callers and servers are interchangeable.
Symmetric == Permutations(ConnIds) \cup Permutations(Beats) \cup Permutations(Users)
             \cup Permutations(Servers)
=============================================================================
