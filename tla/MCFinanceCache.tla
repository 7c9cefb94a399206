---------------------------- MODULE MCFinanceCache ----------------------------
(* FinanceCache on small instances. *)
EXTENDS FinanceCache

\* A first version longer than MaxPages chunks, and one that is shorter.
MCSizes == <<5, 3>>

MCLong == <<5>>
=============================================================================
