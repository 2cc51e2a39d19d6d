----------------------------- MODULE BlockTree -----------------------------
(***************************************************************************)
(* The block tree of one replica: its persistent state, the predicates     *)
(* that decide what may enter it and what is locked and committed          *)
(* (src/block_tree/invariants.rs), and its two top-level updaters insert   *)
(* and update (src/block_tree/accessors/internal.rs).                      *)
(*                                                                         *)
(* A block tree is a record `bt`; the operators below read one or return   *)
(* the next one.  Each of insert and update writes one atomic batch, so    *)
(* each is one operator.                                                   *)
(*                                                                         *)
(* Block hashes are natural numbers given out by an ideal hash function:   *)
(* `preimage` lists the contents hashed so far, in order, and the hash of  *)
(* a content is its place in that list.  Equal contents have equal hashes  *)
(* (a leader that proposes the same data on the same justify proposes the  *)
(* same block), different contents never collide.                          *)
(***************************************************************************)
EXTENDS VoteCollectors

CONSTANTS
  AppData,              \* what the app may put in a block
  ValidData,            \* what the app's validate_block accepts
  UpdatingData,         \* blocks with this data update the validator set
  UpdatesOf,            \* ... in this way: [UpdatingData -> updates]
  InitialValidatorSet

VARIABLE
  preimage              \* the contents of blocks hashed so far

ASSUME DataAssumption ==
  /\ ValidData \subseteq AppData
  /\ UpdatingData \subseteq AppData

Phases == {"Generic", "Prepare", "Precommit", "Commit", "Decide"}

Genesis == 0            \* the all-zero hash that the genesis PC certifies
NoBlock == -1
None    == -1           \* an absent view or height

genesis_pc ==
  [view |-> 0, block |-> Genesis, phase |-> "Generic", signatures |-> <<>>]

is_genesis_pc(pc) == pc = genesis_pc

\* Seeded fault: a block may also follow a Precommit PC.
is_block_justify_early(pc) == pc.phase \in {"Generic", "Precommit", "Decide"}

is_block_justify(pc) == pc.phase \in {"Generic", "Decide"}
is_nudge_justify(pc) == pc.phase \in {"Prepare", "Precommit", "Commit"}

\* Fields of a block, by its hash.
height(b)        == preimage[b].height
block_justify(b) == preimage[b].justify
data(b)          == preimage[b].data

-----------------------------------------------------------------------------
(* The state of a block tree.                                              *)

initialize ==
  [ blocks                 |-> {},
    children               |-> {},          \* pairs <<parent, child>>
    pending_app_updates    |-> {},          \* blocks whose app updates wait
    app_state              |-> <<>>,        \* blocks whose app updates were applied, a set per commit
    pending_updates        |-> {},          \* blocks with status Pending(updates)
    committed_updates      |-> {},          \* blocks with status Committed
    block_at_height        |-> {},          \* pairs <<height, committed block>>
    highest_committed_block |-> NoBlock,
    locked_pc              |-> genesis_pc,
    highest_pc             |-> genesis_pc,
    highest_view_entered   |-> 0,
    highest_view_voted     |-> None,
    cvs                    |-> InitialValidatorSet,
    pvs                    |-> InitialValidatorSet,
    update_height          |-> None,
    update_decided         |-> TRUE ]

highest_committed_block_height(bt) ==
  IF bt.highest_committed_block = NoBlock THEN None
  ELSE height(bt.highest_committed_block)

contains_updates(bt, b) == b \in bt.pending_updates \cup bt.committed_updates

-----------------------------------------------------------------------------
(* PhaseCertificate::is_correct: which validator set must have signed.     *)

is_correct(pc, bt) ==
  LET h == IF pc.block \in bt.blocks THEN height(pc.block) ELSE None
      phased == contains_updates(bt, pc.block)
      committed == pc.block \in bt.committed_updates
  IN  \/ is_genesis_pc(pc)
      \/ /\ h = None \/ bt.update_height = None \/ h > bt.update_height
         /\ is_correctly_signed(pc, bt.cvs)
      \/ /\ h # None /\ h < bt.update_height
         /\ is_correctly_signed(pc, bt.pvs)
      \/ /\ h # None /\ h = bt.update_height /\ phased
         /\ \/ /\ pc.phase = "Decide" /\ committed
               /\ is_correctly_signed(pc, bt.cvs)
            \/ /\ pc.phase = "Decide" /\ ~committed
               /\ is_correctly_signed(pc, apply_updates(bt.cvs, UpdatesOf[data(pc.block)]))
            \/ /\ is_nudge_justify(pc)
               /\ is_correctly_signed(pc, IF committed THEN bt.pvs ELSE bt.cvs)

-----------------------------------------------------------------------------
(* What may enter the tree.                                                *)

\* The block a block's justify certifies, if the block is in the tree.
justified_by(b, bt) == IF b \in bt.blocks THEN block_justify(b).block ELSE NoBlock

extends_locked_pc_block(pc, bt) ==
  LET parent      == justified_by(pc.block, bt)
      grandparent == justified_by(parent, bt)
  IN  bt.locked_pc.block \in {pc.block, parent, grandparent}

\* Seeded fault: the lock is not checked.
safe_pc_unlocked(pc, bt) ==
  /\ pc.block \in bt.blocks \/ is_genesis_pc(pc)
  /\ contains_updates(bt, pc.block) <=> pc.phase # "Generic"

safe_pc(pc, bt) ==
  /\ pc.block \in bt.blocks \/ is_genesis_pc(pc)
  /\ pc.view > bt.locked_pc.view \/ extends_locked_pc_block(pc, bt)
  /\ contains_updates(bt, pc.block) <=> pc.phase # "Generic"

safe_block(b, bt) ==
  /\ safe_pc(block_justify(b), bt)
  /\ is_block_justify(block_justify(b))

safe_nudge(justify, current_view, bt) ==
  /\ safe_pc(justify, bt)
  /\ is_nudge_justify(justify)
  /\ justify.phase = "Commit" \/ justify.view = current_view - 1

\* The block that a leader must propose again, if there is one.
repropose_block(current_view, bt) ==
  IF /\ bt.highest_pc.phase \in {"Prepare", "Precommit"}
     /\ current_view # bt.highest_pc.view + 1
  THEN {bt.highest_pc.block}
  ELSE {}

-----------------------------------------------------------------------------
(* What is locked and committed: each is the set of the one PC or block,   *)
(* or empty.                                                               *)

pc_to_lock(justify, bt) ==
  LET candidate ==
        CASE justify.phase = "Generic"   -> {block_justify(justify.block)}
          [] justify.phase = "Prepare"   -> {}
          [] justify.phase = "Precommit" -> {justify}
          [] OTHER -> IF bt.locked_pc.block # justify.block THEN {justify} ELSE {}
  IN  IF is_genesis_pc(justify) THEN {} ELSE candidate \ {bt.locked_pc}

\* Seeded fault: two certificates of consecutive views commit a block.
block_to_commit_two_chain(justify, bt) ==
  LET parent_justify == block_justify(justify.block)
  IN  IF /\ ~is_genesis_pc(justify)
         /\ ~is_genesis_pc(parent_justify)
         /\ justify.view = parent_justify.view + 1
         /\ height(parent_justify.block) > highest_committed_block_height(bt)
      THEN {parent_justify.block} ELSE {}

block_to_commit(justify, bt) ==
  LET parent_justify      == block_justify(justify.block)
      grandparent_justify == block_justify(parent_justify.block)
      not_committed_yet(b) == height(b) > highest_committed_block_height(bt)
  IN  IF is_genesis_pc(justify) THEN {}
      ELSE CASE justify.phase = "Generic" ->
                  IF /\ ~is_genesis_pc(parent_justify)
                     /\ ~is_genesis_pc(grandparent_justify)
                     /\ justify.view = parent_justify.view + 1
                     /\ parent_justify.view = grandparent_justify.view + 1
                     /\ not_committed_yet(grandparent_justify.block)
                  THEN {grandparent_justify.block} ELSE {}
             [] justify.phase \in {"Prepare", "Precommit"} -> {}
             [] OTHER -> IF not_committed_yet(justify.block) THEN {justify.block} ELSE {}

-----------------------------------------------------------------------------
(* Updaters.                                                               *)

insert(b, bt) ==
  [bt EXCEPT !.blocks = @ \cup {b},
             !.children = @ \cup {<<block_justify(b).block, b>>},
             !.pending_app_updates = @ \cup {b},
             !.pending_updates = IF data(b) \in UpdatingData THEN @ \cup {b} ELSE @,
             !.committed_updates = IF data(b) \in UpdatingData THEN @ \ {b} ELSE @]

children(b, bt) == {edge[2] : edge \in {e \in bt.children : e[1] = b}}

\* root and its descendants along the children lists.
blocks_in_branch(root, bt) ==
  LET within[n \in Nat] ==
        IF n = 0 THEN {root}
        ELSE within[n - 1] \cup UNION {children(b, bt) : b \in within[n - 1]}
  IN  within[Cardinality(bt.children)]

\* A block and its ancestors up to, and without, genesis.
ancestry[b \in 0 .. Len(preimage)] ==
  IF b = Genesis THEN {} ELSE {b} \cup ancestry[block_justify(b).block]

\* Seeded fault: the ancestors of the block are not committed.
uncommitted_blocks_only_last(b, bt) == {b}

\* The blocks that committing b commits (ancestors are lower than b).
uncommitted_blocks(b, bt) ==
  {a \in bt.blocks : /\ a \in ancestry[b]
                     /\ height(a) \in highest_committed_block_height(bt) + 1 .. height(b)}

\* Seeded fault: the committed block is not excepted from its siblings.
pruned_by_with_self(committing, bt) ==
  UNION { UNION { blocks_in_branch(s, bt) :
                    s \in children(block_justify(b).block, bt) } : b \in committing }

\* Seeded fault: the branches of siblings are not deleted.
pruned_by_none(committing, bt) == {}

\* What delete_siblings deletes for each block of a set of blocks.
pruned_by(committing, bt) ==
  UNION { UNION { blocks_in_branch(s, bt) :
                    s \in children(block_justify(b).block, bt) \ {b} } : b \in committing }

\* Seeded fault: only the last block's app state updates are applied.
commit_applying_last(block, bt) ==
  LET committing == uncommitted_blocks(block, bt)
  IN  [bt EXCEPT !.pending_app_updates = @ \ {block},
                 !.app_state = Append(@, {block}),
                 !.block_at_height = @ \cup {<<height(b), b>> : b \in committing},
                 !.highest_committed_block = block]

\* Seeded fault: the heights of committed blocks start over in every commit.
commit_counting_from_zero(block, bt) ==
  LET committing == uncommitted_blocks(block, bt)
      index(b)   == Cardinality({a \in committing : height(a) < height(b)})
  IN  [bt EXCEPT !.block_at_height = {p \in @ : p[1] >= Cardinality(committing)}
                                     \cup {<<index(b), b>> : b \in committing},
                 !.highest_committed_block = block]

\* Seeded fault: the updates of the validator set stay pending.
commit_leaving_pending(block, bt) ==
  [bt EXCEPT !.block_at_height = @ \cup {<<height(b), b>> : b \in uncommitted_blocks(block, bt)},
             !.highest_committed_block = block,
             !.cvs = apply_updates(bt.cvs, UpdatesOf[data(block)]),
             !.pvs = bt.cvs,
             !.update_height = height(block),
             !.update_decided = FALSE]

commit(block, bt) ==
  LET committing == uncommitted_blocks(block, bt)
      pruned     == pruned_by(committing, bt)
      updating   == committing \cap bt.pending_updates
      marked     == IF updating = {} THEN {} ELSE {block}
      tree == [bt EXCEPT
        !.blocks = @ \ pruned,
        !.children = {e \in @ : e[1] \notin pruned \cup {block_justify(b).block : b \in committing}}
                     \cup {<<block_justify(b).block, b>> : b \in committing},
        !.pending_app_updates = @ \ (pruned \cup committing),
        !.app_state = Append(@, committing \cap bt.pending_app_updates),
        !.pending_updates = (@ \ pruned) \ marked,
        !.committed_updates = (@ \ pruned) \cup marked,
        !.block_at_height = {p \in @ : \A b \in committing : p[1] # height(b)}
                            \cup {<<height(b), b>> : b \in committing},
        !.highest_committed_block = block]
  IN  IF updating = {} THEN tree
      ELSE LET last == CHOOSE b \in updating : \A a \in updating : height(a) <= height(b)
           IN  [tree EXCEPT !.cvs = apply_updates(bt.cvs, UpdatesOf[data(last)]),
                            !.pvs = bt.cvs,
                            !.update_height = height(last),
                            !.update_decided = FALSE]

update(justify, bt) ==
  LET to_commit == block_to_commit(justify, bt)
      committed == IF to_commit = {} THEN bt
                   ELSE commit(CHOOSE b \in to_commit : TRUE, bt)
      to_lock   == pc_to_lock(justify, bt)
  IN  [committed EXCEPT
         !.highest_pc = IF justify.view > @.view THEN justify ELSE @,
         !.locked_pc  = IF to_lock = {} THEN @ ELSE CHOOSE pc \in to_lock : TRUE,
         !.update_decided = @ \/ justify.phase = "Decide"]
=============================================================================
