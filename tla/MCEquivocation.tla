--------------------------- MODULE MCEquivocation ---------------------------
(* Replica 2, the leader of view 1, is faulty: it proposes two blocks to   *)
(* different replicas and votes for both.  The votes of view 1 go to       *)
(* replica 3, the leader of view 2.                                        *)
EXTENDS HotStuff, TLC

MCPowers     == <<2, 1, 1>>
MCNoUpdates  == <<>>
MCProduces   == <<{"a"}, {"a", "b", "invalid"}, {"a"}>>
MCEntryViews == <<{1}, {1}, {1, 2}>>
=============================================================================
