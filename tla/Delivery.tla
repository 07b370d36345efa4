------------------------------- MODULE Delivery -------------------------------
(***************************************************************************)
(* What the pipeline promises to a solver: whatever it sends over a        *)
(* connection is applied in the order it was sent, once, and eventually.   *)
(***************************************************************************)
EXTENDS Naturals, Sequences

CONSTANT Conns

VARIABLES
  sent,   \* what has been sent over each connection
  got     \* what has been applied of it

vars == <<sent, got>>

Init ==
  /\ sent = [c \in Conns |-> <<>>]
  /\ got = [c \in Conns |-> <<>>]

Send(c) ==
  /\ Len(sent'[c]) = Len(sent[c]) + 1
  /\ sent' = [sent EXCEPT ![c] = Append(@, sent'[c][Len(sent[c]) + 1])]
  /\ UNCHANGED got

Deliver(c) ==
  /\ Len(got[c]) < Len(sent[c])
  /\ got' = [got EXCEPT ![c] = Append(@, sent[c][Len(@) + 1])]
  /\ UNCHANGED sent

Next == \E c \in Conns : Send(c) \/ Deliver(c)

Spec == Init /\ [][Next]_vars /\ \A c \in Conns : WF_vars(Deliver(c))
=============================================================================
