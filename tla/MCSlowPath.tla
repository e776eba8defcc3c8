----------------------------- MODULE MCSlowPath ------------------------------
(* SlowPath for TLC: the task table takes one block; two or three are left    *)
(* for packets.                                                               *)
EXTENDS SlowPath

MCPools == <<[blocksize |-> 1, blocknr |-> 2], [blocksize |-> 2, blocknr |-> 2]>>

\* A task without a queue, the receiver, and a row whose index is taken.
MCTable == <<[tid |-> 0, msq |-> FALSE], [tid |-> 1, msq |-> TRUE],
             [tid |-> 1, msq |-> TRUE]>>
=============================================================================
