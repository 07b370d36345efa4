----------------------------- MODULE MCDatabase -----------------------------
(* Database on small trees. *)
EXTENDS Database
=============================================================================
