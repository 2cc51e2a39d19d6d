------------------------------- MODULE MCSync -------------------------------
(***************************************************************************)
(* Replica 1 syncs from replica 2, which is honest, and from replica 3,    *)
(* which is not and serves a block of the chain, a block beside it that    *)
(* nobody certified, and a chain of four blocks whose certificates have no *)
(* quorum behind them.                                                     *)
(***************************************************************************)
EXTENDS BlockSync

MCPowers  == <<1, 1, 1, 1>>
MCUpdates == [d \in {"join"} |-> [inserts |-> [k \in {5} |-> 1], deletes |-> {}]]

\* Before and after the update.
MCValidatorSets == {<<1, 1, 1, 1>>, <<1, 1, 1, 1, 1>>}

PC(v, b, signers) ==
  [view |-> v, block |-> b, phase |-> "Generic", signatures |-> signature_set(MCPowers, signers)]

Block(h, pc, d) == [height |-> h, justify |-> pc, data |-> d]

Quorum == {1, 2, 4}

\* 1 to 5: the main chain; 6: the block beside it; 7 to 10: the forged chain.
MCContents ==
  << Block(0, genesis_pc, "a"),
     Block(1, PC(1, 1, Quorum), "a"),
     Block(2, PC(2, 2, Quorum), "a"),
     Block(3, PC(3, 3, Quorum), "a"),
     Block(4, PC(4, 4, Quorum), "join"),
     Block(1, PC(1, 1, Quorum), "b"),
     Block(0, genesis_pc, "b"),
     Block(1, PC(5, 7, {3}), "b"),
     Block(2, PC(6, 8, {3}), "b"),
     Block(3, PC(7, 9, {3}), "b") >>

MCResponses == {<<1, 6, 7, 8, 9, 10>>}
=============================================================================
