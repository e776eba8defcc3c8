------------------------------ MODULE NodeList ------------------------------
(* A list of distinct nodes: a node that is not in it can be inserted       *)
(* anywhere, one that is in it can be removed.                              *)
EXTENDS Sequences, SequencesExt

CONSTANT Nodes

VARIABLE list

Init == list = <<>>

Insert(e) ==
  /\ ~Contains(list, e)
  /\ \E k \in 1 .. Len(list) + 1 : list' = InsertAt(list, k, e)

Delete(e) ==
  /\ Contains(list, e)
  /\ list' = Remove(list, e)

Next == \E e \in Nodes : Insert(e) \/ Delete(e)

Spec == Init /\ [][Next]_list
=============================================================================
