----------------------------- MODULE MCThreads -----------------------------
(* A replica with logging and a user's handler for one type of events.     *)
EXTENDS ReplicaThreads
=============================================================================
