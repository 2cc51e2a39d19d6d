------------------------------- MODULE MCFork -------------------------------
(* A fork attempt.  Replica 3 has the power of a quorum and leads views    *)
(* 4-6 and 9-11; replica 1 follows it in views 4-6; replica 2 joins for    *)
(* view 8, which it leads, and may know nothing of the chain built so far: *)
(* then it proposes a block "b" on genesis.                                *)
EXTENDS HotStuff, TLC

MCPowers     == <<1, 1, 5>>
MCNoUpdates  == <<>>
MCProduces   == <<{"a"}, {"b"}, {"a"}>>
MCEntryViews == <<{4, 5, 6}, {8}, {4, 5, 6, 8, 9, 10}>>

\* Bound: replicas enter their views in the order of views, then of keys.
InLockstep ==
  \A r \in Replicas : view'[r] # view[r] =>
    \A s \in Replicas : \A v \in EntryViews[s] :
      v > view[s] => view'[r] < v \/ (view'[r] = v /\ r <= s)

NextInStep == NextWithoutRollback /\ InLockstep
SpecInStep == Init /\ [][NextInStep]_vars
=============================================================================
