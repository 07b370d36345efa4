---------------------------- MODULE MCMergeWindow ----------------------------
(* MergeWindow on two small trees, merged by one or by two threads. *)
EXTENDS MergeWindow

MCLeftOf == [m \in Mergers |-> IF m = "m1" THEN "A" ELSE "B"]
MCRightOf == [m \in Mergers |-> IF m = "m1" THEN "B" ELSE "A"]
MCContributing == [n \in 1 .. 2 |-> IF n = 1 THEN {11, 12} ELSE {12}]
=============================================================================
