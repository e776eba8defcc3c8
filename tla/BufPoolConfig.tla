--------------------------- MODULE BufPoolConfig ---------------------------
(* The parameters of the buffer pools (BufPool). *)
EXTENDS Integers, Sequences

CONSTANTS
  Callers,       \* the threads that allocate and free blocks
  Sizes,         \* the sizes they ask for
  Pools          \* <<[blocksize, blocknr], ...>>, as in docker_config.c

ASSUME BufPoolAssumption ==
  /\ Pools \in Seq([blocksize : Nat, blocknr : Nat])
  /\ Sizes \subseteq Nat
=============================================================================
