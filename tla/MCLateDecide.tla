---------------------------- MODULE MCLateDecide ----------------------------
(* Replica 1 has most of the power and leads views 2, 3, 4 and 6 whether   *)
(* or not replica 2 has joined, so that the phases of the block that adds  *)
(* replica 2 complete while replica 2 may have missed the Commit PC.       *)
EXTENDS HotStuff, TLC

MCPowers   == 1 :> 3
MCUpdates  == "join" :> [inserts |-> 2 :> 1, deletes |-> {}]
MCProduces == [r \in Replicas |-> AppData]

\* Bound: five views, what the four phases take.
MCEntryViews == [r \in Replicas |-> 2 .. 6]
=============================================================================
