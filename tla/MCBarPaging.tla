------------------------------ MODULE MCBarPaging -----------------------------
(* BarPaging on small instances. *)
EXTENDS BarPaging

CONSTANTS s1, s2, s3
MCServers == {s1, s2, s3}
MCPrimary == <<s1, s2>>
MCLists == {<<>>, <<s3>>}
MCBlockable == {s2, s3}
MCAllKnown == <<s1, s2, s3>>
=============================================================================
