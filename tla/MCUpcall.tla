------------------------------ MODULE MCUpcall -------------------------------
(* Upcall for TLC: one flow, of whose umap one revalidator takes care; the    *)
(* leader's slice is empty, as it is if there are more revalidators than      *)
(* umaps in use.                                                              *)
EXTENDS Upcall

MCSlice == [r \in Revalidators |-> IF r = Leader THEN {} ELSE Flows]
=============================================================================
