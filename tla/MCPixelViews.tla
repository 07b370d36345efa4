----------------------------- MODULE MCPixelViews -----------------------------
(* Values of the constants of PixelViews for TLC. *)
EXTENDS PixelViews

\* the root has no label, the others one that says which child they are
MCLabelOf(n) == IF n = Root THEN NoLabel ELSE Last(n)
=============================================================================
