----------------------------- MODULE ChildLists -----------------------------
(***************************************************************************)
(* What tree::Structure promises: every node has a list of children.       *)
(* Places are added to the end of a list and filled from left to right,    *)
(* each with the next new node; a child may be dropped from a list of two, *)
(* and what is in a place stays there until then.                          *)
(***************************************************************************)
EXTENDS Integers, Sequences

CONSTANT Vacant   \* what a place holds before a child is put into it

VARIABLE lists    \* the lists of children, the list of node n is lists[n + 1]

Places(k) == [i \in 1 .. k |-> Vacant]

Init == lists = <<>>

NewRoot ==
  /\ lists = <<>>
  /\ Len(lists') = 1
  /\ lists'[1] = Places(Len(lists'[1]))

AddPlaces ==
  \E i \in DOMAIN lists :
    lists' = [lists EXCEPT ![i] = @ \o Places(Len(lists'[i]) - Len(@))]

FirstVacant(list, p) ==
  /\ p \in DOMAIN list
  /\ list[p] = Vacant
  /\ \A q \in 1 .. p - 1 : list[q] # Vacant

FillPlace ==
  \E i \in DOMAIN lists : \E p \in DOMAIN lists[i] :
    /\ FirstVacant(lists[i], p)
    /\ lists' = Append([lists EXCEPT ![i][p] = Len(lists)], <<>>)

DropChild ==
  \E i \in DOMAIN lists : \E p \in 1 .. 2 :
    /\ Len(lists[i]) = 2
    /\ lists' = [lists EXCEPT ![i] = <<@[3 - p]>>]

Next == NewRoot \/ AddPlaces \/ FillPlace \/ DropChild

Spec == Init /\ [][Next]_lists
=============================================================================
