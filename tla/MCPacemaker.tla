---------------------------- MODULE MCPacemaker ----------------------------
(* Two validators that both have to vote, over two epochs: the epoch-      *)
(* change views are 0 and 2.                                               *)
EXTENDS Pacemaker, TLC

MCValidators == (1 :> 1) @@ (2 :> 1)
MCHistory    == <<[cvs |-> MCValidators, pvs |-> MCValidators, update_decided |-> TRUE]>>
=============================================================================
