------------------------------ MODULE MCSwitch -------------------------------
(***************************************************************************)
(* The safety of the threads of ovs-vswitchd, for TLC: those that read and *)
(* write RCU protected versions, and the handlers and revalidators with    *)
(* their flow cache.  They are models of their own, so a behaviour is one  *)
(* of either.  RCU goes by its own names, the flow cache is an instance.   *)
(***************************************************************************)
EXTENDS MCRcu

CONSTANTS
  Flows, Handlers, Revalidators, Main, NULL, Leader, Ukeys, MaxPackets, MaxPolicy, Misses

VARIABLES
  part,
  dp, miss, left, misses, forwarded, pushed, policy, reval_seq, umap, ukey, upcall,
  thread, exit_latch, reval_exit

\* The leader's slice is empty, as it is if there are more revalidators than
\* umaps in use.
MCSlice == [r \in Revalidators |-> IF r = Leader THEN {} ELSE Flows]

Cache == INSTANCE Upcall WITH Slice <- MCSlice

cacheVars == <<dp, miss, left, misses, forwarded, pushed, policy, reval_seq, umap, ukey,
               upcall, thread, exit_latch, reval_exit>>

SwitchInit ==
  /\ part \in {"rcu", "cache"}
  /\ Init /\ Cache!Init

SwitchNext ==
  \/ part = "rcu" /\ RankedNext /\ UNCHANGED <<part, cacheVars>>
  \/ part = "cache" /\ Cache!Next /\ UNCHANGED <<part, vars>>

SwitchSpec == SwitchInit /\ [][SwitchNext]_<<part, vars, cacheVars>>

-----------------------------------------------------------------------------

\* No ukey is taken out of its umap twice.
RemovedOnce == Cache!RemovedOnce

\* The ukeys and the flows of the datapath mirror each other.
UkeysMirrorDatapath == Cache!UkeysMirrorDatapath

\* Statistics count no packet twice if every dump is complete.
CountedOnceIfComplete == Cache!CountedOnceIfComplete
=============================================================================
