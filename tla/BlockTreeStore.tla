--------------------------- MODULE BlockTreeStore ---------------------------
(***************************************************************************)
(* How the block tree is kept in a key-value store: the state variables    *)
(* and their keys (src/block_tree/variables.rs), the getters of KVGet      *)
(* (pluggables.rs), the setters of BlockTreeWriteBatch and the updaters    *)
(* that fill one write batch each (accessors/internal.rs), the app's view  *)
(* (accessors/app.rs) and the snapshot that the sync server reads          *)
(* (accessors/public.rs).                                                  *)
(*                                                                         *)
(* A store is a function from keys to values.  A key is a tuple: the       *)
(* variable's prefix, then what the code concatenates to it.  A write      *)
(* batch is a function from the keys it writes to the set of the value, or *)
(* to {} for a delete; a later write of a key replaces an earlier one.     *)
(* Getters read the store, never the batch being filled.  An optional      *)
(* value is a set of at most one element.                                  *)
(*                                                                         *)
(* Tree is the block tree as the subprotocols see it; it has the           *)
(* predicates of invariants.rs.  Data hashes are ideal: the hash of some   *)
(* data is the data.                                                       *)
(***************************************************************************)
EXTENDS VoteCollectors, SequencesExt

CONSTANTS
  AppData, ValidData, UpdatingData, UpdatesOf, InitialValidatorSet,
  DatumsOf,             \* DatumsOf[d]: the datums that data d consists of
  AppUpdatesOf,         \* AppUpdatesOf[d]: what a block of data d does to the app state
  InitialAppState       \* the updates that initialize applies

VARIABLE
  preimage

Tree == INSTANCE BlockTree

ASSUME StoreAssumption ==
  /\ DOMAIN DatumsOf = AppData
  /\ DOMAIN AppUpdatesOf = AppData
  /\ \A d \in AppData : Len(DatumsOf[d]) \in Nat
  /\ \A d \in AppData : DOMAIN AppUpdatesOf[d].inserts \cap AppUpdatesOf[d].deletes = {}
  /\ \A d \in AppData : IsFiniteSet(DOMAIN AppUpdatesOf[d].inserts)
  /\ IsFiniteSet(DOMAIN InitialAppState.inserts)

the(option) == CHOOSE x \in option : TRUE

get(kv, key) == IF key \in DOMAIN kv THEN {kv[key]} ELSE {}

-----------------------------------------------------------------------------
(* Getters.                                                                *)

block_height(kv, b)    == get(kv, <<"BLOCKS", b, "HEIGHT">>)
block_justify(kv, b)   == get(kv, <<"BLOCKS", b, "JUSTIFY">>)
block_data_hash(kv, b) == get(kv, <<"BLOCKS", b, "DATA_HASH">>)
block_data_len(kv, b)  == get(kv, <<"BLOCKS", b, "DATA_LEN">>)
block_datum(kv, b, i)  == get(kv, <<"BLOCKS", b, "DATA", i>>)

\* Looking for a missing datum uses up the iterator over the datums, so that
\* nothing is left of it to collect.
block_data(kv, b) ==
  IF \E len \in block_data_len(kv, b) : \A i \in 0 .. len - 1 : block_datum(kv, b, i) # {}
  THEN {<<>>} ELSE {}

\* A block is read if its height is found; the other fields are unwrapped.
block(kv, b) ==
  {[height |-> h, justify |-> the(block_justify(kv, b)), data_hash |-> the(block_data_hash(kv, b)),
    data |-> the(block_data(kv, b))] : h \in block_height(kv, b)}

block_at_height(kv, h)           == get(kv, <<"BLOCK_AT_HEIGHT", h>>)
children(kv, b)                  == get(kv, <<"BLOCK_TO_CHILDREN", b>>)
committed_app_state(kv, key)     == get(kv, <<"COMMITTED_APP_STATE", key>>)
pending_app_state_updates(kv, b) == get(kv, <<"PENDING_APP_STATE_UPDATES", b>>)
committed_validator_set(kv)      == the(get(kv, <<"COMMITTED_VALIDATOR_SET">>))
previous_validator_set(kv)       == the(get(kv, <<"PREVIOUS_VALIDATOR_SET">>))
update_block_height(kv)          == get(kv, <<"VALIDATOR_SET_UPDATE_BLOCK_HEIGHT">>)
update_decided(kv)               == the(get(kv, <<"VALIDATOR_SET_UPDATE_DECIDED">>))
locked_pc(kv)                    == the(get(kv, <<"LOCKED_PC">>))
highest_pc(kv)                   == the(get(kv, <<"HIGHEST_PC">>))
highest_tc(kv)                   == get(kv, <<"HIGHEST_TC">>)
highest_view_entered(kv)         == the(get(kv, <<"HIGHEST_VIEW_ENTERED">>))
highest_view_phase_voted(kv)     == get(kv, <<"HIGHEST_VIEW_PHASE_VOTED">>)
highest_committed_block(kv)      == get(kv, <<"HIGHEST_COMMITTED_BLOCK">>)
newest_block(kv)                 == get(kv, <<"NEWEST_BLOCK">>)

\* Pending with the updates, committed, or none.
validator_set_updates_status(kv, b) == get(kv, <<"VALIDATOR_SET_UPDATES_STATUS", b>>)
pending_validator_set_updates(kv, b) ==
  UNION {s.updates : s \in validator_set_updates_status(kv, b)}

highest_committed_block_height(kv) ==
  UNION {block_height(kv, b) : b \in highest_committed_block(kv)}

\* Seeded fault: the views entered are left out.
highest_view_certified(kv) ==
  CHOOSE v \in {highest_pc(kv).view} \cup highest_tc(kv) :
    \A w \in {highest_pc(kv).view} \cup highest_tc(kv) : w <= v

\* What a TC is told apart by here is its view.
highest_view_with_progress(kv) ==
  LET views == {highest_view_entered(kv), highest_pc(kv).view} \cup highest_tc(kv)
  IN  CHOOSE v \in views : \A w \in views : w <= v

-----------------------------------------------------------------------------
(* Write batches.                                                          *)

EmptyBatch == <<>>

set(key, value) == [k \in {key} |-> {value}]
delete(keys)    == [k \in keys |-> {}]

\* The writes of first, then those of next.
Then(first, next) ==
  [k \in DOMAIN first \cup DOMAIN next |-> IF k \in DOMAIN next THEN next[k] ELSE first[k]]

\* The writes of a sequence of batches: the last one of each key counts.
InOrder(batches) ==
  [k \in UNION {DOMAIN batches[i] : i \in DOMAIN batches} |->
     batches[Max({i \in DOMAIN batches : k \in DOMAIN batches[i]})][k]]

\* The writes for the value of an option, if there is one.
IfSome(option, writes(_)) == IF option = {} THEN EmptyBatch ELSE writes(the(option))

\* The store after an atomic write.
write(kv, wb) ==
  [k \in (DOMAIN kv \cup DOMAIN wb) \ {w \in DOMAIN wb : wb[w] = {}} |->
     IF k \in DOMAIN wb THEN the(wb[k]) ELSE kv[k]]

datum_keys(b, len) == {<<"BLOCKS", b, "DATA", i>> : i \in 0 .. len - 1}

set_block(b) ==
  LET datums == DatumsOf[preimage[b].data] IN
  InOrder(<<set(<<"BLOCKS", b, "HEIGHT">>, preimage[b].height),
            set(<<"BLOCKS", b, "JUSTIFY">>, preimage[b].justify),
            set(<<"BLOCKS", b, "DATA_HASH">>, preimage[b].data),
            set(<<"BLOCKS", b, "DATA_LEN">>, Len(datums)),
            [k \in datum_keys(b, Len(datums)) |-> {datums[k[4] + 1]}]>>)

\* Seeded fault: the first datum is left behind.
delete_block_from_second(b, len) ==
  delete({<<"BLOCKS", b, f>> : f \in {"HEIGHT", "JUSTIFY", "DATA_HASH", "DATA_LEN"}}
         \cup {<<"BLOCKS", b, "DATA", i>> : i \in 1 .. len - 1})

delete_block(b, len) ==
  delete({<<"BLOCKS", b, f>> : f \in {"HEIGHT", "JUSTIFY", "DATA_HASH", "DATA_LEN"}}
         \cup datum_keys(b, len))

set_block_at_height(h, b)       == set(<<"BLOCK_AT_HEIGHT", h>>, b)
set_children(b, list)           == set(<<"BLOCK_TO_CHILDREN", b>>, list)
delete_children(b)              == delete({<<"BLOCK_TO_CHILDREN", b>>})
set_committed_app_state(k, v)   == set(<<"COMMITTED_APP_STATE", k>>, v)
delete_committed_app_state(k)   == delete({<<"COMMITTED_APP_STATE", k>>})
set_pending_app_state_updates(b, updates) == set(<<"PENDING_APP_STATE_UPDATES", b>>, updates)
delete_pending_app_state_updates(b) == delete({<<"PENDING_APP_STATE_UPDATES", b>>})
set_committed_validator_set(vs) == set(<<"COMMITTED_VALIDATOR_SET">>, vs)
set_previous_validator_set(vs)  == set(<<"PREVIOUS_VALIDATOR_SET">>, vs)
set_pending_validator_set_updates(b, updates) ==
  set(<<"VALIDATOR_SET_UPDATES_STATUS", b>>, [updates |-> {updates}])
set_committed_validator_set_updates(b) ==
  set(<<"VALIDATOR_SET_UPDATES_STATUS", b>>, [updates |-> {}])
delete_block_validator_set_updates(b) == delete({<<"VALIDATOR_SET_UPDATES_STATUS", b>>})
set_validator_set_update_block_height(h) == set(<<"VALIDATOR_SET_UPDATE_BLOCK_HEIGHT">>, h)
set_validator_set_update_decided(d) == set(<<"VALIDATOR_SET_UPDATE_DECIDED">>, d)
set_locked_pc(pc)               == set(<<"LOCKED_PC">>, pc)
set_highest_pc(pc)              == set(<<"HIGHEST_PC">>, pc)
set_highest_tc(v)               == set(<<"HIGHEST_TC">>, v)
set_highest_view_entered(v)     == set(<<"HIGHEST_VIEW_ENTERED">>, v)
set_highest_view_phase_voted(v) == set(<<"HIGHEST_VIEW_PHASE_VOTED">>, v)
set_highest_committed_block(b)  == set(<<"HIGHEST_COMMITTED_BLOCK">>, b)
set_newest_block(b)             == set(<<"NEWEST_BLOCK">>, b)

\* Insertions, then deletions.
apply_app_state_updates(updates) ==
  Then([k \in {<<"COMMITTED_APP_STATE", key>> : key \in DOMAIN updates.inserts} |->
          set_committed_app_state(k[2], updates.inserts[k[2]])[k]],
       [k \in {<<"COMMITTED_APP_STATE", key>> : key \in updates.deletes} |->
          delete_committed_app_state(k[2])[k]])

-----------------------------------------------------------------------------
(* Updaters: each is the one batch that it writes.                         *)

initialize ==
  InOrder(<<apply_app_state_updates(InitialAppState),
            set_committed_validator_set(InitialValidatorSet),
            set_previous_validator_set(InitialValidatorSet),
            set_validator_set_update_decided(TRUE),
            set_locked_pc(Tree!genesis_pc),
            set_highest_view_entered(0),
            set_highest_pc(Tree!genesis_pc)>>)

insert(kv, b) ==
  LET d        == preimage[b].data
      parent   == preimage[b].justify.block
      siblings == IF children(kv, parent) = {} THEN <<>> ELSE the(children(kv, parent))
  IN  InOrder(<<set_block(b),
                set_newest_block(b),
                set_pending_app_state_updates(b, AppUpdatesOf[d]),
                IF d \in UpdatingData THEN set_pending_validator_set_updates(b, UpdatesOf[d])
                ELSE EmptyBatch,
                set_children(parent, Append(siblings, b))>>)

\* b and its ancestors, from newest to oldest, until genesis or a block that
\* is not found.
ancestors(kv, b) ==
  LET parents(c) == {pc.block : pc \in block_justify(kv, c) \ {Tree!genesis_pc}}
      from[c \in Nat] == IF parents(c) = {} THEN <<c>> ELSE <<c>> \o from[the(parents(c))]
  IN  from[b]

\* b and its ancestors, newest first, until one that is not above the highest
\* committed block.
uncommitted_ancestors(kv, b) ==
  LET chain == ancestors(kv, b)
      ends  == {i \in DOMAIN chain : \E h \in highest_committed_block_height(kv) :
                  the(block_height(kv, chain[i])) <= h}
  IN  IF ends = {} THEN chain ELSE SubSeq(chain, 1, Min(ends) - 1)

\* root and its descendants along the children lists.
blocks_in_branch(kv, root) ==
  LET next(S) == S \cup UNION {ToSet(list) : list \in UNION {children(kv, b) : b \in S}}
      within[n \in Nat] == IF n = 0 THEN {root} ELSE next(within[n - 1])
  IN  within[Cardinality(DOMAIN kv)]

\* Seeded fault: the lists of children of the deleted blocks stay.
delete_branch_only_blocks(kv, root) ==
  delete(UNION {DOMAIN Then(delete_pending_app_state_updates(b),
                            Then(delete_block_validator_set_updates(b),
                                 delete_block(b, the(block_data_len(kv, b)))))
                  : b \in blocks_in_branch(kv, root)})

\* All its writes are deletes, so that their order does not matter.
delete_branch(kv, root) ==
  LET delete_one(b) ==
        InOrder(<<delete_children(b),
                  delete_pending_app_state_updates(b),
                  delete_block_validator_set_updates(b),
                  IfSome(block_data_len(kv, b), LAMBDA len : delete_block(b, len))>>)
  IN  delete(UNION {DOMAIN delete_one(b) : b \in blocks_in_branch(kv, root)})

delete_siblings(kv, b) ==
  LET parent   == the(block_justify(kv, b)).block
      siblings == ToSet(the(children(kv, parent))) \ {b}
  IN  Then(delete(UNION {DOMAIN delete_branch(kv, s) : s \in siblings}),
           set_children(parent, <<b>>))

\* What committing b adds to the batch when `committing` is being committed.
commit_one(kv, committing, b) ==
  LET h == the(block_height(kv, b))
      apply(updates) ==
        InOrder(<<set_committed_validator_set(apply_updates(committed_validator_set(kv), updates)),
                  set_previous_validator_set(committed_validator_set(kv)),
                  set_validator_set_update_block_height(h),
                  set_validator_set_update_decided(FALSE),
                  set_committed_validator_set_updates(committing)>>)
  IN  InOrder(<<set_block_at_height(h, b),
                delete_siblings(kv, b),
                IfSome(pending_app_state_updates(kv, b), LAMBDA updates :
                         Then(apply_app_state_updates(updates), delete_pending_app_state_updates(b))),
                IfSome(pending_validator_set_updates(kv, b), apply),
                set_highest_committed_block(b)>>)

\* Seeded fault: the blocks are committed from the newest to the oldest.
commit_newest_first(kv, b) ==
  LET chain == uncommitted_ancestors(kv, b)
  IN  InOrder([i \in DOMAIN chain |-> commit_one(kv, b, chain[i])])

commit(kv, b) ==
  LET chain == Reverse(uncommitted_ancestors(kv, b))
  IN  InOrder([i \in DOMAIN chain |-> commit_one(kv, b, chain[i])])

\* The batch of update, given the tree that pc_to_lock and block_to_commit
\* read.
update(kv, tree, justify) ==
  InOrder(<<IF justify.view > highest_pc(kv).view THEN set_highest_pc(justify) ELSE EmptyBatch,
            IfSome(Tree!pc_to_lock(justify, tree), set_locked_pc),
            IfSome(Tree!block_to_commit(justify, tree), LAMBDA b : commit(kv, b)),
            IF justify.phase = "Decide" THEN set_validator_set_update_decided(TRUE) ELSE EmptyBatch>>)

-----------------------------------------------------------------------------
(* The app's view: the pending updates of the parent and its uncommitted   *)
(* ancestors, newest first, over the committed app state.                  *)

app_view(kv, parent) ==
  LET pending == IF parent = Tree!Genesis THEN <<>> ELSE uncommitted_ancestors(kv, parent)
  IN  FlattenSeq([i \in DOMAIN pending |-> SetToSeq(pending_app_state_updates(kv, pending[i]))])

app_state(kv, view, key) ==
  LET touching == SelectSeq(view, LAMBDA u : key \in u.deletes \cup DOMAIN u.inserts)
  IN  IF touching = <<>> THEN committed_app_state(kv, key)
      ELSE IF key \in Head(touching).deletes THEN {} ELSE {Head(touching).inserts[key]}

-----------------------------------------------------------------------------
(* What a snapshot gives to the sync server: a sequence of blocks, or an   *)
(* error.                                                                  *)

Missing == -1           \* BlockExpectedButNotFound

\* Seeded fault: the walk goes on to the highest committed block itself.
stops_after(kv, b) ==
  \/ b \in highest_committed_block(kv)
  \/ the(block_justify(kv, b)) = Tree!genesis_pc

\* The walk from the newest block stops at a block on top of the highest
\* committed block, or of genesis.
stops_at(kv, b) ==
  \/ the(block_justify(kv, b)).block \in highest_committed_block(kv)
  \/ the(block_justify(kv, b)) = Tree!genesis_pc

blocks_from_newest_to_committed(kv) ==
  LET from[b \in Nat] ==
        IF block_height(kv, b) = {} THEN <<Missing>>
        ELSE IF stops_at(kv, b) THEN <<b>>
        ELSE <<b>> \o from[the(block_justify(kv, b)).block]
  IN  IF newest_block(kv) = {} THEN <<>> ELSE from[the(newest_block(kv))]

blocks_from_height_to_newest(kv, height, limit) ==
  LET committed[h \in Nat] ==
        IF block_at_height(kv, h) = {} THEN <<>>
        ELSE <<the(block_at_height(kv, h))>> \o committed[h + 1]
      low  == committed[height]
      high == blocks_from_newest_to_committed(kv)
  IN  IF Len(low) >= limit THEN SubSeq(low, 1, limit)
      ELSE IF Missing \in ToSet(high) THEN <<Missing>>
      ELSE LET all == low \o Reverse(high)
           IN  SubSeq(all, 1, IF limit < Len(all) THEN limit ELSE Len(all))
=============================================================================
