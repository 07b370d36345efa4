---------------------------- MODULE MCTreeBuilder ----------------------------
(* TreeBuilder with solver identifiers that are interchangeable. *)
EXTENDS TreeBuilder, TLC

Symmetry == Permutations(Uids)
=============================================================================
