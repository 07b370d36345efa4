----------------------------- MODULE Subsequences -----------------------------
(***************************************************************************)
(* What is left of a sequence.  SelectSeq takes an operator; this takes a  *)
(* set, so that facts about it can be stated for all of them.              *)
(***************************************************************************)
EXTENDS Integers, Sequences

\* The subsequence of s of what is in S, as SelectSeq.
Those(s, S) ==
  LET Upto[n \in 0 .. Len(s)] ==
        IF n = 0 THEN <<>>
        ELSE IF s[n] \in S THEN Append(Upto[n - 1], s[n]) ELSE Upto[n - 1]
  IN Upto[Len(s)]
=============================================================================
