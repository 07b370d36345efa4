------------------------------ MODULE MCNodeTree ------------------------------
(* NodeTree on small trees. *)
EXTENDS NodeTree
=============================================================================
