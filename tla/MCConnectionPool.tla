--------------------------- MODULE MCConnectionPool -------------------------
(* ConnectionPool on a small instance. *)
EXTENDS ConnectionPool, TLC

\* Connection ids are interchangeable, and so are threads.
Symmetric == Permutations(ConnIds) \cup Permutations(Threads)
=============================================================================
