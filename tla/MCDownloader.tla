----------------------------- MODULE MCDownloader -----------------------------
(* Downloader: two stocks, a category of days and one of two bars a day, and, where     *)
(* stocks are named (MCGiven), a caller who names them the other way round.            *)
EXTENDS Downloader

CONSTANTS c1, c2, j1, j2
MCList == <<c1, c2>>
MCLists == {<<j1>>, <<j1, j2>>}
MCPerDay == [job \in {j1, j2} |-> IF job = j1 THEN 1 ELSE 2]
MCGiven == {<<c2, c1>>}
=============================================================================
