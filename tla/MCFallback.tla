----------------------------- MODULE MCFallback -----------------------------
(* Replica 1 has the power of a quorum; replica 2 follows.  The epoch-     *)
(* change views are 0 and 3.                                               *)
EXTENDS Pacemaker, TLC

MCValidators == (1 :> 3) @@ (2 :> 1)
MCHistory    == <<[cvs |-> MCValidators, pvs |-> MCValidators, update_decided |-> TRUE]>>
=============================================================================
