------------------------------- MODULE MCGap -------------------------------
(* Commits of several blocks at once.  Replica 2 has the power of a quorum *)
(* and leads views 1-3 and 8-10; replica 1 follows it.  The views between  *)
(* were left without progress, so that the three certificates of views     *)
(* 8-10 commit, besides the block of view 8, those of views 2 and 3.       *)
EXTENDS HotStuff, TLC

MCPowers     == <<1, 5>>
MCNoUpdates  == <<>>
MCProduces   == [r \in Replicas |-> AppData]
MCEntryViews == <<{1, 2, 3}, {1, 2, 3, 8, 9, 10}>>
=============================================================================
