----------------------------- MODULE MCLagging -----------------------------
(* A fork by replicas that all follow the code.  Replica 4 has the power   *)
(* of a quorum.  Replicas 1 to 3 follow it for some views, lag behind, and *)
(* lead a later view with what they know.                                  *)
EXTENDS HotStuff, TLC

MCPowers     == [r \in Replicas |-> IF r = 4 THEN 7 ELSE 1]
MCNoUpdates  == <<>>
MCProduces   == [r \in Replicas |-> IF r = 4 THEN {"a"} ELSE {"b"}]
MCEntryViews == <<{7, 8, 9}, {7, 8, 11}, {12}, {7, 8, 9, 11, 12, 13, 14}>>

ToEnter(r) == {v \in EntryViews[r] : v > view[r]}

\* Bound: views are entered in their order, then in that of the replicas, and
\* only when every replica has handled the proposals of the view it is in.
InRounds ==
  \A r \in Replicas : view'[r] # view[r] =>
    /\ \A s \in Replicas : \A v \in ToEnter(s) : view'[r] < v \/ (view'[r] = v /\ r <= s)
    /\ \A s \in Replicas : \A m \in msgs :
         m.type = "Proposal" /\ m.view = view[s] /\ m.view < view'[r] => m.from \in proposed[s]

NextInRounds == Next /\ InRounds
SpecInRounds == Init /\ [][NextInRounds]_vars
=============================================================================
