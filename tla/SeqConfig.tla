----------------------------- MODULE SeqConfig -----------------------------
(* The parameters of the sequence numbers (Seq). *)
EXTENDS Integers

CONSTANTS
  Threads,
  Seqs,      \* the addresses at which a struct seq can be allocated
  MaxValue   \* bound on the sequence numbers handed out

ASSUME SeqAssumption == MaxValue \in Nat
=============================================================================
