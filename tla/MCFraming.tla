------------------------------ MODULE MCFraming ------------------------------
(* Framing on three short messages. *)
EXTENDS Framing
=============================================================================
