------------------------------ MODULE MCStore ------------------------------
(***************************************************************************)
(* A chain with a validator set update, a fork that the update's commit    *)
(* prunes, and a chain of three blocks on top.                             *)
(***************************************************************************)
EXTENDS PersistentReplica

MCPowers  == <<1>>
MCUpdates == [d \in {"join"} |-> [inserts |-> <<1, 1>>, deletes |-> {}]]
MCJoined  == <<1, 1>>

PC(v, b, phase, vs) ==
  [view |-> v, block |-> b, phase |-> phase, signatures |-> signature_set(vs, DOMAIN vs)]

Block(h, pc, d) == [height |-> h, justify |-> pc, data |-> d]

\* 1 <- 2 (join) <- 5, and 1 <- 3 <- 4.
MCContents ==
  << Block(0, Tree!genesis_pc, "a"),
     Block(1, PC(1, 1, "Generic", MCPowers), "join"),
     Block(1, PC(1, 1, "Generic", MCPowers), "b"),
     Block(2, PC(2, 3, "Generic", MCPowers), "a"),
     Block(2, PC(7, 2, "Decide", MCJoined), "c") >>

MCCertificates ==
  {MCContents[i].justify : i \in DOMAIN MCContents} \cup
  { PC(3, 4, "Generic", MCPowers),
    PC(4, 2, "Prepare", MCPowers),
    PC(5, 2, "Precommit", MCPowers),
    PC(6, 2, "Commit", MCPowers) }

MCDatums ==
  [d \in {"a", "b", "c", "join"} |-> IF d = "a" THEN <<"x", "y">> ELSE IF d = "b" THEN <<"x">> ELSE <<>>]

NoInserts == [k \in {} |-> 0]

MCAppUpdates ==
  [d \in {"a", "b", "c", "join"} |->
     CASE d = "a"    -> [inserts |-> [k \in {"k1"} |-> 1], deletes |-> {"k2"}]
       [] d = "b"    -> [inserts |-> [k \in {"k1", "k2"} |-> 2], deletes |-> {}]
       [] d = "c"    -> [inserts |-> NoInserts, deletes |-> {"k1"}]
       [] d = "join" -> [inserts |-> [k \in {"k2"} |-> 3], deletes |-> {}]]

MCInitialAppState == [inserts |-> [k \in {"k2"} |-> 0], deletes |-> {}]
=============================================================================
