---------------------------- MODULE BlockTreeSpec ----------------------------
(***************************************************************************)
(* What the block tree of one replica promises to the subprotocols: each   *)
(* of its updaters takes the whole tree from one state to the next in one  *)
(* step, as the operators of BlockTree say, and nothing else changes it.   *)
(* The modules HotStuff and BlockSync rely on exactly this.                *)
(***************************************************************************)
EXTENDS BlockTree

CONSTANTS
  Certificates,         \* the certificates that may arrive
  Views                 \* the views that may be entered

VARIABLE
  bt                    \* the block tree

Insert(b) ==
  /\ is_correct(block_justify(b), bt)
  /\ safe_block(b, bt)
  /\ data(b) \in ValidData
  /\ bt' = insert(b, bt)

Update(pc) ==
  /\ safe_pc(pc, bt)
  /\ bt' = update(pc, bt)

Enter(v) ==
  /\ v > bt.highest_view_entered
  /\ bt' = [bt EXCEPT !.highest_view_entered = v]

Vote(v) ==
  /\ v > bt.highest_view_voted
  /\ bt' = [bt EXCEPT !.highest_view_voted = v]

Init == bt = initialize

Next ==
  /\ \/ \E b \in DOMAIN preimage : Insert(b)
     \/ \E pc \in Certificates : Update(pc)
     \/ \E v \in Views : Enter(v) \/ Vote(v)
  /\ UNCHANGED preimage

Spec == Init /\ [][Next]_<<preimage, bt>>
=============================================================================
