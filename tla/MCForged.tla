------------------------------ MODULE MCForged ------------------------------
(* Replica 2 is faulty and joins the validator set that replica 1 is alone *)
(* in at first: while the update is undecided both sets are active.        *)
EXTENDS Pacemaker, TLC

MCAlone   == 1 :> 1
MCBoth    == (1 :> 1) @@ (2 :> 1)
MCHistory == <<[cvs |-> MCAlone, pvs |-> MCAlone, update_decided |-> TRUE],
               [cvs |-> MCBoth,  pvs |-> MCAlone, update_decided |-> FALSE],
               [cvs |-> MCBoth,  pvs |-> MCAlone, update_decided |-> TRUE]>>
=============================================================================
