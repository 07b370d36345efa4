------------------------------ MODULE MCPipeline ------------------------------
(* Pipeline with two connections: two searches, each on its own, or one     *)
(* search reported over both.                                               *)
EXTENDS Pipeline

CONSTANTS c1, c2, Shared

TwoSearches == [c \in Conns |-> c]
OneSearch == [c \in Conns |-> Shared]

DistinctIds == [c \in Conns |-> IF c = c1 THEN 7 ELSE 8]
OneId == [c \in Conns |-> 7]
NoInfos == [c \in Conns |-> NoInfo]
Unnumbereds == [c \in Conns |-> Unnumbered]
=============================================================================
