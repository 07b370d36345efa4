-------------------------------- MODULE MCView --------------------------------
(* View on small trees. *)
EXTENDS View
=============================================================================
