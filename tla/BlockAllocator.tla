--------------------------- MODULE BlockAllocator ---------------------------
(***************************************************************************)
(* What the buffer pools promise their users: a block belongs to nobody or *)
(* to one thread; a thread is only ever given a block that belongs to      *)
(* nobody, and keeps it until it passes it on or frees it.                 *)
(***************************************************************************)
CONSTANTS Blocks, Callers, Nobody

VARIABLE owner

Init == owner = [b \in Blocks |-> Nobody]

Alloc(t, b) ==
  /\ owner[b] = Nobody
  /\ owner' = [owner EXCEPT ![b] = t]

Pass(t, u, b) ==
  /\ owner[b] = t
  /\ owner' = [owner EXCEPT ![b] = u]

Free(t, b) ==
  /\ owner[b] = t
  /\ owner' = [owner EXCEPT ![b] = Nobody]

Next ==
  \E t \in Callers, b \in Blocks :
    \/ Alloc(t, b)
    \/ \E u \in Callers : Pass(t, u, b)
    \/ Free(t, b)

Spec == Init /\ [][Next]_owner
=============================================================================
