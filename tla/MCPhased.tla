------------------------------ MODULE MCPhased ------------------------------
(* The phased mode.  Replica 1 is the only validator; every block adds     *)
(* replica 2, which leads every other view once it has joined.             *)
EXTENDS HotStuff, TLC

MCPowers   == 1 :> 1
MCUpdates  == "join" :> [inserts |-> 2 :> 1, deletes |-> {}]
MCProduces == [r \in Replicas |-> AppData]

\* Bound: five views, what Prepare, Precommit, Commit, Decide and the proposal
\* after them take.
MCEntryViews == [r \in Replicas |-> 1 .. 5]
=============================================================================
