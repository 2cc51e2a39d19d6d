---------------------------- MODULE ReplicaProofs ----------------------------
(***************************************************************************)
(* What holds of a replica however often it crashes between two writes.    *)
(*                                                                         *)
(* Its votes: it never votes for an earlier view than before, and only     *)
(* once in a view that it entered.                                         *)
(*                                                                         *)
(* Its store: the blocks in it are whole, and it implements the abstract   *)
(* block tree.  A store that holds a tree (StoreOK) is read as the record  *)
(* DecodedOf(store, app); the write batches of insert and update are shown *)
(* to take it to the record that Tree!insert and Tree!update give, by what *)
(* each batch writes to each key and what the walks along the justifies    *)
(* and the children lists come across.                                     *)
(***************************************************************************)
EXTENDS PersistentReplica, FiniteTheorems, TLAPS

-----------------------------------------------------------------------------
(* What a write batch changes.                                             *)

\* A key that a batch does not write keeps its value.
LEMMA Unwritten ==
  ASSUME NEW store, NEW wb, NEW key, key \notin DOMAIN wb
  PROVE  get(write(store, wb), key) = get(store, key)
  BY DEF get, write

\* A key that a batch sets has the value set.
LEMMA Written ==
  ASSUME NEW store, NEW wb, NEW key \in DOMAIN wb, NEW x, wb[key] = {x}
  PROVE  get(write(store, wb), key) = {x}
  <1>1. wb[key] # {} /\ the(wb[key]) = x
    BY DEF the
  <1>2. QED
    BY <1>1 DEF get, write

\* A sequence of batches writes what one of them writes.
LEMMA InOrderKeys ==
  ASSUME NEW batches, NEW k \in DOMAIN InOrder(batches)
  PROVE  \E i \in DOMAIN batches : k \in DOMAIN batches[i]
  BY DEF InOrder

\* The only batch that writes a key decides on it.
LEMMA InOrderValue ==
  ASSUME NEW batches, NEW i \in DOMAIN batches, i \in Int, NEW k \in DOMAIN batches[i],
         \A j \in DOMAIN batches : k \in DOMAIN batches[j] => j = i
  PROVE  k \in DOMAIN InOrder(batches) /\ InOrder(batches)[k] = batches[i][k]
  <1>1. {j \in DOMAIN batches : k \in DOMAIN batches[j]} = {i}
    OBVIOUS
  <1>2. Max({i}) = i
    BY DEF Max
  <1>3. QED
    BY <1>1, <1>2 DEF InOrder

\* The variables that a restart, and the check before a vote, read.
ViewVariables == {"HIGHEST_PC", "HIGHEST_TC", "HIGHEST_VIEW_ENTERED", "HIGHEST_VIEW_PHASE_VOTED"}

\* A batch that writes none of them.
SparesViews(wb) == \A k \in DOMAIN wb : k[1] \notin ViewVariables

\* Two of them in a row.
LEMMA ThenSpares ==
  ASSUME NEW first, NEW next, SparesViews(first), SparesViews(next)
  PROVE  SparesViews(Then(first, next))
  BY DEF SparesViews, Then

\* Any sequence of them.
LEMMA InOrderSpares ==
  ASSUME NEW batches, \A i \in DOMAIN batches : SparesViews(batches[i])
  PROVE  SparesViews(InOrder(batches))
  BY InOrderKeys DEF SparesViews

\* A sequence of four or five of them.
LEMMA AllSpare ==
  ASSUME NEW a, NEW b, NEW c, NEW d, SparesViews(a), SparesViews(b), SparesViews(c), SparesViews(d)
  PROVE  /\ SparesViews(InOrder(<<a, b, c, d>>))
         /\ \A e : SparesViews(e) => SparesViews(InOrder(<<a, b, c, d, e>>))
  <1>1. \A i \in DOMAIN <<a, b, c, d>> : SparesViews(<<a, b, c, d>>[i])
    OBVIOUS
  <1>2. ASSUME NEW e, SparesViews(e)
        PROVE  \A i \in DOMAIN <<a, b, c, d, e>> : SparesViews(<<a, b, c, d, e>>[i])
    BY <1>2
  <1>3. QED
    BY <1>1, <1>2, InOrderSpares

\* The batch that writes nothing.
LEMMA EmptySpares == SparesViews(EmptyBatch)
  BY DEF SparesViews, EmptyBatch

\* Blocks and what belongs to them are other variables.
LEMMA SettersSpare ==
  /\ \A b : \A len : SparesViews(delete_block(b, len))
  /\ \A b : SparesViews(set_block(b))
  /\ \A h, b : SparesViews(set_block_at_height(h, b))
  /\ \A b, list : SparesViews(set_children(b, list))
  /\ \A b : SparesViews(delete_children(b))
  /\ \A b, u : SparesViews(set_pending_app_state_updates(b, u))
  /\ \A b : SparesViews(delete_pending_app_state_updates(b))
  /\ \A b, u : SparesViews(set_pending_validator_set_updates(b, u))
  /\ \A b : SparesViews(set_committed_validator_set_updates(b))
  /\ \A b : SparesViews(delete_block_validator_set_updates(b))
  /\ \A vs : SparesViews(set_committed_validator_set(vs))
  /\ \A vs : SparesViews(set_previous_validator_set(vs))
  /\ \A h : SparesViews(set_validator_set_update_block_height(h))
  /\ \A d : SparesViews(set_validator_set_update_decided(d))
  /\ \A pc : SparesViews(set_locked_pc(pc))
  /\ \A b : SparesViews(set_highest_committed_block(b))
  /\ \A b : SparesViews(set_newest_block(b))
  /\ \A u : SparesViews(apply_app_state_updates(u))
  <1>1. \A b : \A len : SparesViews(delete_block(b, len))
    BY DEF SparesViews, ViewVariables, delete_block, delete, datum_keys
  <1>2. ASSUME NEW b PROVE SparesViews(set_block(b))
    <2> DEFINE datums == DatumsOf[preimage[b].data]
    <2>1. SparesViews([k \in datum_keys(b, Len(datums)) |-> {datums[k[4] + 1]}])
      BY DEF SparesViews, ViewVariables, datum_keys
    <2>2. /\ \A x : SparesViews(set(<<"BLOCKS", b, "HEIGHT">>, x))
          /\ \A x : SparesViews(set(<<"BLOCKS", b, "JUSTIFY">>, x))
          /\ \A x : SparesViews(set(<<"BLOCKS", b, "DATA_HASH">>, x))
          /\ \A x : SparesViews(set(<<"BLOCKS", b, "DATA_LEN">>, x))
      BY DEF SparesViews, ViewVariables, set
    <2>3. QED
      BY <2>1, <2>2, AllSpare DEF set_block
  <1>3. /\ \A h, b : SparesViews(set_block_at_height(h, b))
        /\ \A b, list : SparesViews(set_children(b, list))
        /\ \A b : SparesViews(delete_children(b))
        /\ \A b, u : SparesViews(set_pending_app_state_updates(b, u))
        /\ \A b : SparesViews(delete_pending_app_state_updates(b))
        /\ \A b, u : SparesViews(set_pending_validator_set_updates(b, u))
        /\ \A b : SparesViews(set_committed_validator_set_updates(b))
        /\ \A b : SparesViews(delete_block_validator_set_updates(b))
    BY DEF SparesViews, ViewVariables, set, delete, set_block_at_height, set_children,
           delete_children, set_pending_app_state_updates, delete_pending_app_state_updates,
           set_pending_validator_set_updates, set_committed_validator_set_updates,
           delete_block_validator_set_updates
  <1>4. /\ \A vs : SparesViews(set_committed_validator_set(vs))
        /\ \A vs : SparesViews(set_previous_validator_set(vs))
        /\ \A h : SparesViews(set_validator_set_update_block_height(h))
        /\ \A d : SparesViews(set_validator_set_update_decided(d))
        /\ \A pc : SparesViews(set_locked_pc(pc))
        /\ \A b : SparesViews(set_highest_committed_block(b))
        /\ \A b : SparesViews(set_newest_block(b))
    BY DEF SparesViews, ViewVariables, set, set_committed_validator_set,
           set_previous_validator_set, set_validator_set_update_block_height,
           set_validator_set_update_decided, set_locked_pc, set_highest_committed_block,
           set_newest_block
  <1>5. ASSUME NEW u PROVE SparesViews(apply_app_state_updates(u))
    BY ThenSpares DEF apply_app_state_updates, SparesViews, ViewVariables, Then
  <1>6. QED
    BY <1>1, <1>2, <1>3, <1>4, <1>5

\* Deleting branches leaves them alone.
LEMMA DeleteSiblingsSpares ==
  ASSUME NEW store, NEW b
  PROVE  SparesViews(delete_siblings(store, b))
  <1>1. ASSUME NEW root PROVE SparesViews(delete_branch(store, root))
    <2> DEFINE DeleteOne(c) ==
          InOrder(<<delete_children(c),
                    delete_pending_app_state_updates(c),
                    delete_block_validator_set_updates(c),
                    IfSome(block_data_len(store, c), LAMBDA len : delete_block(c, len))>>)
    <2>1. ASSUME NEW c PROVE SparesViews(DeleteOne(c))
      <3>1. SparesViews(IfSome(block_data_len(store, c), LAMBDA len : delete_block(c, len)))
        BY SettersSpare, EmptySpares DEF IfSome
      <3>2. QED
        BY <3>1, SettersSpare, AllSpare
    <2>2. delete_branch(store, root) =
            delete(UNION {DOMAIN DeleteOne(c) : c \in blocks_in_branch(store, root)})
      BY DEF delete_branch
    <2> HIDE DEF DeleteOne
    <2>3. QED
      BY <2>1, <2>2 DEF SparesViews, delete
  <1> DEFINE siblings == ToSet(the(children(store, the(block_justify(store, b)).block))) \ {b}
             doomed == UNION {DOMAIN delete_branch(store, s) : s \in siblings}
  <1>2. SparesViews(delete(doomed))
    <2> HIDE DEF siblings
    <2>1. QED
      BY <1>1 DEF SparesViews, delete
  <1> HIDE DEF doomed
  <1>3. QED
    BY <1>2, SettersSpare, ThenSpares DEF delete_siblings, doomed

\* So does committing.
LEMMA CommitSpares ==
  ASSUME NEW store, NEW last
  PROVE  SparesViews(commit(store, last))
  <1>1. ASSUME NEW b PROVE SparesViews(commit_one(store, last, b))
    <2> DEFINE h == the(block_height(store, b))
               apply(updates) ==
                 InOrder(<<set_committed_validator_set(apply_updates(committed_validator_set(store), updates)),
                           set_previous_validator_set(committed_validator_set(store)),
                           set_validator_set_update_block_height(h),
                           set_validator_set_update_decided(FALSE),
                           set_committed_validator_set_updates(last)>>)
    <2>1. \A u : SparesViews(apply(u))
      BY SettersSpare, AllSpare
    <2>2. \A u : SparesViews(Then(apply_app_state_updates(u), delete_pending_app_state_updates(b)))
      BY SettersSpare, ThenSpares
    <2> HIDE DEF apply
    <2>3. SparesViews(IfSome(pending_validator_set_updates(store, b), apply))
      BY <2>1, EmptySpares DEF IfSome
    <2>4. SparesViews(IfSome(pending_app_state_updates(store, b), LAMBDA updates :
                         Then(apply_app_state_updates(updates), delete_pending_app_state_updates(b))))
      BY <2>2, EmptySpares DEF IfSome
    <2>5. SparesViews(set_block_at_height(h, b)) /\ SparesViews(delete_siblings(store, b))
          /\ SparesViews(set_highest_committed_block(b))
      BY SettersSpare, DeleteSiblingsSpares
    <2>6. QED
      BY <2>3, <2>4, <2>5, AllSpare DEF commit_one, apply
  <1> DEFINE chain == Reverse(uncommitted_ancestors(store, last))
             batches == [i \in DOMAIN chain |-> commit_one(store, last, chain[i])]
  <1>2. commit(store, last) = InOrder(batches)
    BY DEF commit
  <1> HIDE DEF chain
  <1>3. \A i \in DOMAIN batches : SparesViews(batches[i])
    BY <1>1
  <1> HIDE DEF batches
  <1>4. QED
    BY <1>2, <1>3, InOrderSpares

\* And inserting a block.
LEMMA InsertSpares ==
  ASSUME NEW store, NEW b
  PROVE  SparesViews(insert(store, b))
  <1> DEFINE d == preimage[b].data
             parent == preimage[b].justify.block
             siblings == IF children(store, parent) = {} THEN <<>> ELSE the(children(store, parent))
             updating == IF d \in UpdatingData THEN set_pending_validator_set_updates(b, UpdatesOf[d])
                         ELSE EmptyBatch
  <1>1. SparesViews(updating)
    BY SettersSpare, EmptySpares
  <1> HIDE DEF updating
  <1>2. /\ SparesViews(set_block(b)) /\ SparesViews(set_newest_block(b))
        /\ SparesViews(set_pending_app_state_updates(b, AppUpdatesOf[d]))
        /\ SparesViews(set_children(parent, Append(siblings, b)))
    BY SettersSpare
  <1>3. QED
    BY <1>1, <1>2, AllSpare DEF insert, updating

\* Update may replace the highest PC, and leaves the others alone.
LEMMA UpdateWrites ==
  ASSUME NEW store, NEW tree, NEW justify
  PROVE  /\ \A k \in DOMAIN update(store, tree, justify) :
              k[1] \in ViewVariables => k = <<"HIGHEST_PC">>
         /\ IF justify.view > highest_pc(store).view
            THEN /\ <<"HIGHEST_PC">> \in DOMAIN update(store, tree, justify)
                 /\ update(store, tree, justify)[<<"HIGHEST_PC">>] = {justify}
            ELSE <<"HIGHEST_PC">> \notin DOMAIN update(store, tree, justify)
  <1> DEFINE higher == justify.view > highest_pc(store).view
             a == IF higher THEN set_highest_pc(justify) ELSE EmptyBatch
             b == IfSome(Tree!pc_to_lock(justify, tree), set_locked_pc)
             c == IfSome(Tree!block_to_commit(justify, tree), LAMBDA x : commit(store, x))
             d == IF justify.phase = "Decide" THEN set_validator_set_update_decided(TRUE) ELSE EmptyBatch
  <1>1. update(store, tree, justify) = InOrder(<<a, b, c, d>>)
    BY DEF update
  <1>2. SparesViews(b)
    BY SettersSpare, EmptySpares DEF IfSome
  <1>3. SparesViews(c)
    BY CommitSpares, EmptySpares DEF IfSome
  <1>4. SparesViews(d)
    BY SettersSpare, EmptySpares
  <1>5. IF higher THEN DOMAIN a = {<<"HIGHEST_PC">>} /\ a[<<"HIGHEST_PC">>] = {justify}
        ELSE DOMAIN a = {}
    BY DEF set_highest_pc, set, EmptyBatch
  <1> HIDE DEF a, b, c, d, higher
  <1> DEFINE batches == <<a, b, c, d>>
             key == <<"HIGHEST_PC">>
  <1>6. /\ DOMAIN batches = 1 .. 4
        /\ batches[1] = a /\ batches[2] = b /\ batches[3] = c /\ batches[4] = d
    OBVIOUS
  <1>7. key[1] = "HIGHEST_PC" /\ key[1] \in ViewVariables
    BY DEF ViewVariables
  <1> HIDE DEF batches, key
  <1>8. \A i \in 2 .. 4 : SparesViews(batches[i])
    BY <1>2, <1>3, <1>4, <1>6
  <1>9. ASSUME NEW k \in DOMAIN InOrder(batches), k[1] \in ViewVariables
        PROVE  k = key /\ higher
    <2>1. PICK i \in 1 .. 4 : k \in DOMAIN batches[i]
      BY <1>6, <1>9, InOrderKeys
    <2>2. i = 1
      BY <1>8, <1>9, <2>1 DEF SparesViews
    <2>3. QED
      BY <1>5, <1>6, <2>1, <2>2 DEF key
  <1>10. ASSUME higher PROVE key \in DOMAIN InOrder(batches) /\ InOrder(batches)[key] = {justify}
    <2>1. key \in DOMAIN batches[1] /\ batches[1][key] = {justify} /\ 1 \in DOMAIN batches
      BY <1>5, <1>6, <1>10 DEF key
    <2>2. \A j \in DOMAIN batches : key \in DOMAIN batches[j] => j = 1
      BY <1>6, <1>7, <1>8 DEF SparesViews
    <2>3. QED
      BY <2>1, <2>2, InOrderValue
  <1>11. QED
    BY <1>1, <1>7, <1>9, <1>10 DEF higher, batches, key

-----------------------------------------------------------------------------
(* The views that the store keeps.                                         *)

\* The store has the views that a restart reads.
KeepsViews(store) ==
  /\ get(store, <<"HIGHEST_PC">>) = {highest_pc(store)}
  /\ get(store, <<"HIGHEST_VIEW_ENTERED">>) = {highest_view_entered(store)}
  /\ highest_pc(store).view \in Nat
  /\ highest_view_entered(store) \in Nat
  /\ highest_tc(store) \subseteq Nat
  /\ highest_view_phase_voted(store) \subseteq Nat

\* The value of an option that has one.
LEMMA TheOnly == \A x : the({x}) = x
  BY DEF the

\* Optional values are one or none.
LEMMA OneOrNone ==
  ASSUME NEW store, NEW key
  PROVE  get(store, key) = {} \/ \E x : get(store, key) = {x}
  BY DEF get

\* The highest view with progress is the maximum of three views.
LEMMA ProgressIsMaximum ==
  ASSUME NEW store, KeepsViews(store)
  PROVE  /\ highest_view_with_progress(store) \in Nat
         /\ highest_view_entered(store) <= highest_view_with_progress(store)
         /\ highest_pc(store).view <= highest_view_with_progress(store)
         /\ \A w \in highest_tc(store) : w <= highest_view_with_progress(store)
         /\ \A n \in Nat : /\ highest_view_entered(store) <= n
                           /\ highest_pc(store).view <= n
                           /\ \A w \in highest_tc(store) : w <= n
                           => highest_view_with_progress(store) <= n
  <1> DEFINE x == highest_view_entered(store)
             y == highest_pc(store).view
             views == {x, y} \cup highest_tc(store)
             v == CHOOSE u \in views : \A w \in views : w <= u
  <1>1. highest_view_with_progress(store) = v
    BY DEF highest_view_with_progress
  <1>2. x \in Nat /\ y \in Nat /\ highest_tc(store) \subseteq Nat
    BY DEF KeepsViews
  <1>3. highest_tc(store) = {} \/ \E z : highest_tc(store) = {z}
    BY OneOrNone DEF highest_tc
  <1> HIDE DEF x, y
  <1>4. \E u \in views : \A w \in views : w <= u
    <2>1. CASE highest_tc(store) = {}
      <3>1. views = {x, y}
        BY <2>1
      <3>2. QED
        BY <1>2, <3>1
    <2>2. CASE highest_tc(store) # {}
      <3>1. PICK z : highest_tc(store) = {z}
        BY <1>3, <2>2
      <3>2. views = {x, y, z} /\ z \in Nat
        BY <1>2, <3>1
      <3> HIDE DEF views
      <3>3. QED
        BY <1>2, <3>2
    <2>3. QED
      BY <2>1, <2>2
  <1>5. v \in views /\ \A w \in views : w <= v
    BY <1>4
  <1> HIDE DEF v
  <1>6. v \in Nat /\ x <= v /\ y <= v /\ \A w \in highest_tc(store) : w <= v
    BY <1>2, <1>5
  <1>7. ASSUME NEW n \in Nat, x <= n, y <= n, \A w \in highest_tc(store) : w <= n
        PROVE  v <= n
    BY <1>2, <1>5, <1>7
  <1>8. QED
    BY <1>1, <1>6, <1>7 DEF x, y

\* A store that has lost none of the views of another.
Reaches(store, next) ==
  /\ highest_view_entered(store) <= highest_view_entered(next)
  /\ highest_pc(store).view <= highest_pc(next).view
  /\ \A w \in highest_tc(store) : \E u \in highest_tc(next) : w <= u

\* The view that a replica starts in never goes back, and is above the views
\* entered.
LEMMA StartsHigher ==
  ASSUME NEW store, KeepsViews(store)
  PROVE  /\ init_view(store) \in Nat
         /\ highest_view_entered(store) <= init_view(store)
         /\ highest_view_entered(store) > 0 => highest_view_entered(store) < init_view(store)
         /\ \A next : KeepsViews(next) /\ Reaches(store, next) => init_view(store) <= init_view(next)
  <1> DEFINE p == highest_view_with_progress(store)
             e == highest_view_entered(store)
  <1>1. p \in Nat /\ e \in Nat /\ e <= p
    BY ProgressIsMaximum DEF KeepsViews
  <1>2. init_view(store) = IF p = 0 THEN 0 ELSE p + 1
    BY DEF init_view
  <1>3. ASSUME NEW next, KeepsViews(next), Reaches(store, next)
        PROVE  init_view(store) <= init_view(next)
    <2> DEFINE q == highest_view_with_progress(next)
    <2>1. /\ q \in Nat /\ highest_view_entered(next) <= q /\ highest_pc(next).view <= q
          /\ \A w \in highest_tc(next) : w <= q
      BY <1>3, ProgressIsMaximum
    <2>2. init_view(next) = IF q = 0 THEN 0 ELSE q + 1
      BY DEF init_view
    <2> HIDE DEF q
    <2>3. /\ highest_view_entered(store) <= q /\ highest_pc(store).view <= q
          /\ \A w \in highest_tc(store) : w <= q
      <3>1. highest_view_entered(store) <= q /\ highest_pc(store).view <= q
        BY <1>3, <2>1 DEF Reaches, KeepsViews
      <3>2. ASSUME NEW w \in highest_tc(store) PROVE w <= q
        <4>1. PICK u \in highest_tc(next) : w <= u
          BY <1>3 DEF Reaches
        <4>2. w \in Nat /\ u \in Nat
          BY <1>3 DEF KeepsViews
        <4>3. QED
          BY <2>1, <4>1, <4>2
      <3>3. QED
        BY <3>1, <3>2
    <2>4. p <= q
      BY <2>1, <2>3, ProgressIsMaximum
    <2> HIDE DEF p
    <2>5. QED
      BY <1>1, <1>2, <2>1, <2>2, <2>4
  <1> HIDE DEF p, e
  <1>4. init_view(store) \in Nat /\ e <= init_view(store) /\ (e > 0 => e < init_view(store))
    BY <1>1, <1>2
  <1>5. QED
    BY <1>3, <1>4 DEF e

\* A batch that spares the views.
LEMMA SparedViews ==
  ASSUME NEW store, KeepsViews(store), NEW wb, SparesViews(wb)
  PROVE  /\ KeepsViews(write(store, wb)) /\ Reaches(store, write(store, wb))
         /\ highest_view_entered(write(store, wb)) = highest_view_entered(store)
         /\ highest_view_phase_voted(write(store, wb)) = highest_view_phase_voted(store)
  <1> DEFINE next == write(store, wb)
  <1>1. /\ <<"HIGHEST_PC">> \notin DOMAIN wb /\ <<"HIGHEST_TC">> \notin DOMAIN wb
        /\ <<"HIGHEST_VIEW_ENTERED">> \notin DOMAIN wb
        /\ <<"HIGHEST_VIEW_PHASE_VOTED">> \notin DOMAIN wb
    BY DEF SparesViews, ViewVariables
  <1>2. /\ get(next, <<"HIGHEST_PC">>) = get(store, <<"HIGHEST_PC">>)
        /\ get(next, <<"HIGHEST_TC">>) = get(store, <<"HIGHEST_TC">>)
        /\ get(next, <<"HIGHEST_VIEW_ENTERED">>) = get(store, <<"HIGHEST_VIEW_ENTERED">>)
        /\ get(next, <<"HIGHEST_VIEW_PHASE_VOTED">>) = get(store, <<"HIGHEST_VIEW_PHASE_VOTED">>)
    BY <1>1, Unwritten
  <1> HIDE DEF next
  <1>3. /\ highest_pc(next) = highest_pc(store) /\ highest_tc(next) = highest_tc(store)
        /\ highest_view_entered(next) = highest_view_entered(store)
        /\ highest_view_phase_voted(next) = highest_view_phase_voted(store)
    BY <1>2 DEF highest_pc, highest_tc, highest_view_entered, highest_view_phase_voted
  <1>4. KeepsViews(next)
    BY <1>2, <1>3 DEF KeepsViews
  <1>5. Reaches(store, next)
    <2>1. \A w \in highest_tc(store) : w <= w
      BY DEF KeepsViews
    <2>2. QED
      BY <1>3, <2>1 DEF Reaches, KeepsViews
  <1>6. QED
    BY <1>3, <1>4, <1>5 DEF next

\* A batch that sets one of the views leaves the others alone.
LEMMA SetView ==
  ASSUME NEW store, NEW key, NEW value
  PROVE  /\ get(write(store, set(key, value)), key) = {value}
         /\ \A other : other # key => get(write(store, set(key, value)), other) = get(store, other)
  <1>1. DOMAIN set(key, value) = {key} /\ set(key, value)[key] = {value}
    BY DEF set
  <1>2. QED
    BY <1>1, Written, Unwritten

\* Entering a view.
LEMMA EntersView ==
  ASSUME NEW store, KeepsViews(store), NEW v \in Nat, highest_view_entered(store) <= v
  PROVE  LET next == write(store, set_highest_view_entered(v))
         IN  /\ KeepsViews(next) /\ Reaches(store, next)
             /\ highest_view_entered(next) = v
             /\ highest_view_phase_voted(next) = highest_view_phase_voted(store)
  <1> DEFINE next == write(store, set_highest_view_entered(v))
  <1>1. /\ get(next, <<"HIGHEST_VIEW_ENTERED">>) = {v}
        /\ get(next, <<"HIGHEST_PC">>) = get(store, <<"HIGHEST_PC">>)
        /\ get(next, <<"HIGHEST_TC">>) = get(store, <<"HIGHEST_TC">>)
        /\ get(next, <<"HIGHEST_VIEW_PHASE_VOTED">>) = get(store, <<"HIGHEST_VIEW_PHASE_VOTED">>)
    BY SetView DEF set_highest_view_entered
  <1> HIDE DEF next
  <1>2. /\ highest_pc(next) = highest_pc(store) /\ highest_tc(next) = highest_tc(store)
        /\ highest_view_entered(next) = v
        /\ highest_view_phase_voted(next) = highest_view_phase_voted(store)
    BY <1>1, TheOnly DEF highest_pc, highest_tc, highest_view_entered, highest_view_phase_voted
  <1>3. KeepsViews(next)
    BY <1>1, <1>2 DEF KeepsViews
  <1>4. \A w \in highest_tc(store) : w <= w
    BY DEF KeepsViews
  <1>5. Reaches(store, next)
    BY <1>2, <1>4 DEF Reaches, KeepsViews
  <1>6. QED
    BY <1>2, <1>3, <1>5 DEF next

\* Recording a timeout certificate of a higher view.
LEMMA RecordsTimeout ==
  ASSUME NEW store, KeepsViews(store), NEW v \in Nat, \A w \in highest_tc(store) : w < v
  PROVE  LET next == write(store, set_highest_tc(v))
         IN  /\ KeepsViews(next) /\ Reaches(store, next)
             /\ highest_view_entered(next) = highest_view_entered(store)
             /\ highest_view_phase_voted(next) = highest_view_phase_voted(store)
  <1> DEFINE next == write(store, set_highest_tc(v))
  <1>1. /\ get(next, <<"HIGHEST_VIEW_ENTERED">>) = get(store, <<"HIGHEST_VIEW_ENTERED">>)
        /\ get(next, <<"HIGHEST_PC">>) = get(store, <<"HIGHEST_PC">>)
        /\ get(next, <<"HIGHEST_TC">>) = {v}
        /\ get(next, <<"HIGHEST_VIEW_PHASE_VOTED">>) = get(store, <<"HIGHEST_VIEW_PHASE_VOTED">>)
    BY SetView DEF set_highest_tc
  <1> HIDE DEF next
  <1>2. /\ highest_pc(next) = highest_pc(store) /\ highest_tc(next) = {v}
        /\ highest_view_entered(next) = highest_view_entered(store)
        /\ highest_view_phase_voted(next) = highest_view_phase_voted(store)
    BY <1>1 DEF highest_pc, highest_tc, highest_view_entered, highest_view_phase_voted
  <1>3. KeepsViews(next)
    BY <1>1, <1>2 DEF KeepsViews
  <1>4. \A w \in highest_tc(store) : w <= v
    BY DEF KeepsViews
  <1>5. Reaches(store, next)
    BY <1>2, <1>4 DEF Reaches, KeepsViews
  <1>6. QED
    BY <1>2, <1>3, <1>5 DEF next

\* Recording a vote.
LEMMA RecordsVote ==
  ASSUME NEW store, KeepsViews(store), NEW v \in Nat
  PROVE  LET next == write(store, set_highest_view_phase_voted(v))
         IN  /\ KeepsViews(next) /\ Reaches(store, next)
             /\ highest_view_entered(next) = highest_view_entered(store)
             /\ highest_view_phase_voted(next) = {v}
  <1> DEFINE next == write(store, set_highest_view_phase_voted(v))
  <1>1. /\ get(next, <<"HIGHEST_VIEW_ENTERED">>) = get(store, <<"HIGHEST_VIEW_ENTERED">>)
        /\ get(next, <<"HIGHEST_PC">>) = get(store, <<"HIGHEST_PC">>)
        /\ get(next, <<"HIGHEST_TC">>) = get(store, <<"HIGHEST_TC">>)
        /\ get(next, <<"HIGHEST_VIEW_PHASE_VOTED">>) = {v}
    BY SetView DEF set_highest_view_phase_voted
  <1> HIDE DEF next
  <1>2. /\ highest_pc(next) = highest_pc(store) /\ highest_tc(next) = highest_tc(store)
        /\ highest_view_entered(next) = highest_view_entered(store)
        /\ highest_view_phase_voted(next) = {v}
    BY <1>1 DEF highest_pc, highest_tc, highest_view_entered, highest_view_phase_voted
  <1>3. KeepsViews(next)
    BY <1>1, <1>2 DEF KeepsViews
  <1>4. \A w \in highest_tc(store) : w <= w
    BY DEF KeepsViews
  <1>5. Reaches(store, next)
    BY <1>2, <1>4 DEF Reaches, KeepsViews
  <1>6. QED
    BY <1>2, <1>3, <1>5 DEF next

\* Updating the tree for a justify: the highest PC only rises.
LEMMA UpdatesViews ==
  ASSUME NEW store, KeepsViews(store), NEW tree, NEW justify, justify.view \in Nat
  PROVE  LET next == write(store, update(store, tree, justify))
         IN  /\ KeepsViews(next) /\ Reaches(store, next)
             /\ highest_view_entered(next) = highest_view_entered(store)
             /\ highest_view_phase_voted(next) = highest_view_phase_voted(store)
  <1> DEFINE wb == update(store, tree, justify)
             next == write(store, wb)
  <1>1. /\ \A k \in DOMAIN wb : k[1] \in ViewVariables => k = <<"HIGHEST_PC">>
        /\ IF justify.view > highest_pc(store).view
           THEN <<"HIGHEST_PC">> \in DOMAIN wb /\ wb[<<"HIGHEST_PC">>] = {justify}
           ELSE <<"HIGHEST_PC">> \notin DOMAIN wb
    BY UpdateWrites
  <1> HIDE DEF wb
  <1>2. /\ <<"HIGHEST_TC">> \notin DOMAIN wb
        /\ <<"HIGHEST_VIEW_ENTERED">> \notin DOMAIN wb
        /\ <<"HIGHEST_VIEW_PHASE_VOTED">> \notin DOMAIN wb
    BY <1>1 DEF ViewVariables
  <1>3. /\ get(next, <<"HIGHEST_VIEW_ENTERED">>) = get(store, <<"HIGHEST_VIEW_ENTERED">>)
        /\ get(next, <<"HIGHEST_TC">>) = get(store, <<"HIGHEST_TC">>)
        /\ get(next, <<"HIGHEST_VIEW_PHASE_VOTED">>) = get(store, <<"HIGHEST_VIEW_PHASE_VOTED">>)
    BY <1>2, Unwritten
  <1>4. get(next, <<"HIGHEST_PC">>) = IF justify.view > highest_pc(store).view
                                      THEN {justify} ELSE get(store, <<"HIGHEST_PC">>)
    <2>1. CASE justify.view > highest_pc(store).view
      BY <1>1, <2>1, Written
    <2>2. CASE ~(justify.view > highest_pc(store).view)
      BY <1>1, <2>2, Unwritten
    <2>3. QED
      BY <2>1, <2>2
  <1> HIDE DEF next
  <1>5. /\ highest_tc(next) = highest_tc(store)
        /\ highest_view_entered(next) = highest_view_entered(store)
        /\ highest_view_phase_voted(next) = highest_view_phase_voted(store)
    BY <1>3 DEF highest_tc, highest_view_entered, highest_view_phase_voted
  <1>6. /\ get(next, <<"HIGHEST_PC">>) = {highest_pc(next)}
        /\ highest_pc(next).view \in Nat /\ highest_pc(store).view <= highest_pc(next).view
    <2>1. CASE justify.view > highest_pc(store).view
      <3>1. highest_pc(next) = justify
        BY <1>4, <2>1, TheOnly DEF highest_pc
      <3>2. QED
        BY <1>4, <2>1, <3>1 DEF KeepsViews
    <2>2. CASE ~(justify.view > highest_pc(store).view)
      <3>1. highest_pc(next) = highest_pc(store)
        BY <1>4, <2>2 DEF highest_pc
      <3>2. QED
        BY <1>4, <2>2, <3>1 DEF KeepsViews
    <2>3. QED
      BY <2>1, <2>2
  <1>7. KeepsViews(next)
    BY <1>3, <1>5, <1>6 DEF KeepsViews
  <1>8. \A w \in highest_tc(store) : w <= w
    BY DEF KeepsViews
  <1>9. Reaches(store, next)
    BY <1>5, <1>6, <1>8 DEF Reaches, KeepsViews
  <1>10. QED
    BY <1>5, <1>7, <1>9 DEF next, wb

\* The store that initialize writes.
LEMMA InitialViews ==
  LET store == write(<<>>, initialize)
  IN  /\ KeepsViews(store)
      /\ highest_view_entered(store) = 0
      /\ highest_view_phase_voted(store) = {}
  <1> DEFINE a == apply_app_state_updates(InitialAppState)
             b == set_committed_validator_set(InitialValidatorSet)
             c == set_previous_validator_set(InitialValidatorSet)
             d == set_validator_set_update_decided(TRUE)
             e == set_locked_pc(Tree!genesis_pc)
             f == set_highest_view_entered(0)
             g == set_highest_pc(Tree!genesis_pc)
             batches == <<a, b, c, d, e, f, g>>
             entered_key == <<"HIGHEST_VIEW_ENTERED">>
             pc_key == <<"HIGHEST_PC">>
             store == write(<<>>, initialize)
  <1>1. initialize = InOrder(batches)
    BY DEF initialize
  <1>2. SparesViews(a) /\ SparesViews(b) /\ SparesViews(c) /\ SparesViews(d) /\ SparesViews(e)
    BY SettersSpare
  <1>3. /\ DOMAIN f = {entered_key} /\ f[entered_key] = {0}
        /\ DOMAIN g = {pc_key} /\ g[pc_key] = {Tree!genesis_pc}
    BY DEF set_highest_view_entered, set_highest_pc, set
  <1> HIDE DEF a, b, c, d, e, f, g
  <1>4. /\ DOMAIN batches = 1 .. 7
        /\ batches[1] = a /\ batches[2] = b /\ batches[3] = c /\ batches[4] = d /\ batches[5] = e
        /\ batches[6] = f /\ batches[7] = g
    OBVIOUS
  <1> HIDE DEF batches
  <1>5. \A i \in 1 .. 5 : SparesViews(batches[i])
    BY <1>2, <1>4
  <1>6. /\ entered_key[1] = "HIGHEST_VIEW_ENTERED" /\ pc_key[1] = "HIGHEST_PC"
        /\ entered_key[1] \in ViewVariables /\ pc_key[1] \in ViewVariables /\ entered_key # pc_key
    BY DEF ViewVariables
  <1> HIDE DEF entered_key, pc_key
  <1>7. ASSUME NEW j \in DOMAIN batches, NEW k \in DOMAIN batches[j], k[1] \in ViewVariables
        PROVE  (j = 6 /\ k = entered_key) \/ (j = 7 /\ k = pc_key)
    <2>1. j = 6 \/ j = 7
      BY <1>4, <1>5, <1>7 DEF SparesViews
    <2>2. QED
      BY <1>3, <1>4, <1>7, <2>1
  <1>8. entered_key \in DOMAIN initialize /\ initialize[entered_key] = {0}
    <2>1. 6 \in DOMAIN batches /\ entered_key \in DOMAIN batches[6] /\ batches[6][entered_key] = {0}
      BY <1>3, <1>4
    <2>2. \A j \in DOMAIN batches : entered_key \in DOMAIN batches[j] => j = 6
      BY <1>6, <1>7
    <2>3. QED
      BY <1>1, <2>1, <2>2, InOrderValue
  <1>9. pc_key \in DOMAIN initialize /\ initialize[pc_key] = {Tree!genesis_pc}
    <2>1. 7 \in DOMAIN batches /\ pc_key \in DOMAIN batches[7] /\ batches[7][pc_key] = {Tree!genesis_pc}
      BY <1>3, <1>4
    <2>2. \A j \in DOMAIN batches : pc_key \in DOMAIN batches[j] => j = 7
      BY <1>6, <1>7
    <2>3. QED
      BY <1>1, <2>1, <2>2, InOrderValue
  <1>10. <<"HIGHEST_TC">> \notin DOMAIN initialize /\ <<"HIGHEST_VIEW_PHASE_VOTED">> \notin DOMAIN initialize
    <2>1. ASSUME NEW k \in DOMAIN initialize, k[1] \in ViewVariables PROVE k = entered_key \/ k = pc_key
      <3>1. PICK j \in DOMAIN batches : k \in DOMAIN batches[j]
        BY <1>1, <2>1, InOrderKeys
      <3>2. QED
        BY <1>7, <2>1, <3>1
    <2>2. QED
      BY <2>1 DEF entered_key, pc_key, ViewVariables
  <1>11. /\ get(store, entered_key) = {0} /\ get(store, pc_key) = {Tree!genesis_pc}
         /\ get(store, <<"HIGHEST_TC">>) = {} /\ get(store, <<"HIGHEST_VIEW_PHASE_VOTED">>) = {}
    <2>1. get(store, entered_key) = {0}
      <3>1. PICK x : x = 0
        OBVIOUS
      <3>2. entered_key \in DOMAIN initialize /\ initialize[entered_key] = {x}
        BY <1>8, <3>1
      <3>3. get(store, entered_key) = {x}
        BY <3>2, Written
      <3>4. QED
        BY <3>1, <3>3
    <2>2. get(store, pc_key) = {Tree!genesis_pc}
      BY <1>9, Written
    <2>3. get(<<>>, <<"HIGHEST_TC">>) = {} /\ get(<<>>, <<"HIGHEST_VIEW_PHASE_VOTED">>) = {}
      BY DEF get
    <2>4. QED
      BY <1>10, <2>1, <2>2, <2>3, Unwritten
  <1> HIDE DEF store
  <1>12. /\ highest_view_entered(store) = 0 /\ highest_pc(store) = Tree!genesis_pc
         /\ highest_tc(store) = {} /\ highest_view_phase_voted(store) = {}
    BY <1>11, TheOnly DEF entered_key, pc_key, highest_view_entered, highest_pc, highest_tc,
                          highest_view_phase_voted
  <1>13. Tree!genesis_pc.view = 0
    BY DEF Tree!genesis_pc
  <1>14. KeepsViews(store)
    BY <1>11, <1>12, <1>13 DEF KeepsViews, entered_key, pc_key
  <1>15. QED
    BY <1>12, <1>14 DEF store

-----------------------------------------------------------------------------
(* The inductive invariant.                                                *)

\* The calls that a handler may have left to make.
PendingCalls ==
  [call : {"insert"}, block : DOMAIN Contents]
  \cup [call : {"update", "vote"}, justify : Justifies]
  \cup [call : {"record"}]

\* The variables have their types.
ReplicaTypes ==
  /\ preimage = Contents
  /\ KeepsViews(kv)
  /\ view \in Nat
  /\ entered \in BOOLEAN
  /\ todo \in Seq(PendingCalls)
  /\ votes \in Seq([view : Nat, entered : BOOLEAN])

\* The view of the replica, between what its store says it entered and where
\* a restart would take it: a view entered is the one in the store, and a
\* restart would leave it.
ViewIsKept ==
  /\ highest_view_entered(kv) <= view
  /\ view <= init_view(kv)
  /\ entered => view > 0 /\ view = highest_view_entered(kv)

\* The votes sent are not of later views; one sent in a view entered is at or
\* below the view that the store says was entered, and is recorded before the
\* next one may be sent in that view.
VotesAreKept ==
  \A i \in DOMAIN votes :
    /\ votes[i].view <= view
    /\ votes[i].entered => votes[i].view > 0 /\ votes[i].view <= highest_view_entered(kv)
    /\ votes[i].view = view /\ entered => votes[i].entered
    /\ votes[i].view = view /\ votes[i].entered =>
         todo = <<Record>> \/ \E w \in highest_view_phase_voted(kv) : w >= view

ReplicaInv ==
  /\ ReplicaTypes
  /\ ViewIsKept
  /\ VotesAreKept
  /\ VotesNeverGoBack
  /\ EnteredViewsVotedOnce

\* What is in the sequences.
LEMMA VoteTypes ==
  ASSUME ReplicaTypes, NEW i \in DOMAIN votes
  PROVE  votes[i].view \in Nat /\ votes[i].entered \in BOOLEAN
  <1> DEFINE Sent == [view : Nat, entered : BOOLEAN]
  <1>1. votes \in Seq(Sent)
    BY DEF ReplicaTypes
  <1> HIDE DEF Sent
  <1>2. votes[i] \in Sent
    BY <1>1
  <1>3. QED
    BY <1>2 DEF Sent

\* The empty sequence.
LEMMA EmptySequence == \A S : <<>> \in Seq(S)
  OBVIOUS

\* The invariant holds of the initial store.
LEMMA ReplicaStarts ==
  Init => ReplicaInv
  <1> SUFFICES ASSUME Init PROVE ReplicaInv
    OBVIOUS
  <1>1. /\ KeepsViews(kv) /\ highest_view_entered(kv) = 0
    BY InitialViews DEF Init
  <1>2. init_view(kv) \in Nat
    BY <1>1, StartsHigher
  <1>3. preimage = Contents /\ view = 0 /\ entered = FALSE /\ todo = <<>> /\ votes = <<>> /\ DOMAIN votes = {}
    BY DEF Init
  <1>4. ReplicaTypes
    BY <1>1, <1>3, EmptySequence DEF ReplicaTypes
  <1>5. ViewIsKept
    BY <1>1, <1>2, <1>3 DEF ViewIsKept
  <1>6. VotesAreKept /\ VotesNeverGoBack /\ EnteredViewsVotedOnce
    BY <1>3 DEF VotesAreKept, VotesNeverGoBack, EnteredViewsVotedOnce
  <1>7. QED
    BY <1>4, <1>5, <1>6 DEF ReplicaInv

\* A step that stays in the view, sends nothing and loses nothing of the store.
LEMMA StayingStep ==
  ASSUME ReplicaInv,
         UNCHANGED <<preimage, view, entered, votes>>,
         todo' \in Seq(PendingCalls),
         KeepsViews(kv)', init_view(kv) <= init_view(kv)',
         highest_view_entered(kv)' = highest_view_entered(kv),
         todo = <<Record>> => \E w \in highest_view_phase_voted(kv)' : w >= view,
         \A w \in highest_view_phase_voted(kv) :
           w >= view => \E u \in highest_view_phase_voted(kv)' : u >= view
  PROVE  ReplicaInv'
  <1>1. ReplicaTypes'
    BY DEF ReplicaInv, ReplicaTypes
  <1>2. ViewIsKept'
    <2>1. init_view(kv) \in Nat /\ init_view(kv)' \in Nat /\ view \in Nat
      BY <1>1, StartsHigher DEF ReplicaInv, ReplicaTypes
    <2>2. QED
      BY <2>1 DEF ReplicaInv, ViewIsKept
  <1>3. VotesAreKept'
    <2> SUFFICES ASSUME NEW i \in DOMAIN votes
                 PROVE  /\ votes[i].view <= view
                        /\ votes[i].entered => votes[i].view > 0 /\ votes[i].view <= highest_view_entered(kv)'
                        /\ votes[i].view = view /\ entered => votes[i].entered
                        /\ votes[i].view = view /\ votes[i].entered =>
                             \E w \in highest_view_phase_voted(kv)' : w >= view
      BY DEF VotesAreKept
    <2>1. /\ votes[i].view <= view
          /\ votes[i].entered => votes[i].view > 0 /\ votes[i].view <= highest_view_entered(kv)
          /\ votes[i].view = view /\ entered => votes[i].entered
          /\ votes[i].view = view /\ votes[i].entered =>
               todo = <<Record>> \/ \E w \in highest_view_phase_voted(kv) : w >= view
      BY DEF ReplicaInv, VotesAreKept
    <2>2. QED
      BY <2>1
  <1>4. QED
    BY <1>1, <1>2, <1>3 DEF ReplicaInv, VotesNeverGoBack, EnteredViewsVotedOnce

\* A handler begins.
LEMMA HandlesStep ==
  ASSUME ReplicaInv, NEW calls \in Seq(PendingCalls), Handles(calls)
  PROVE  ReplicaInv'
  <1>1. UNCHANGED <<preimage, kv, view, entered, votes>> /\ todo = <<>> /\ todo' = calls
    BY DEF Handles
  <1>2. KeepsViews(kv) /\ init_view(kv) \in Nat /\ todo # <<Record>>
    BY <1>1, StartsHigher DEF ReplicaInv, ReplicaTypes
  <1>3. \A w \in highest_view_phase_voted(kv) : w >= w
    BY <1>2 DEF KeepsViews
  <1>4. /\ init_view(kv) <= init_view(kv)' /\ KeepsViews(kv)'
        /\ highest_view_entered(kv)' = highest_view_entered(kv)
        /\ highest_view_phase_voted(kv)' = highest_view_phase_voted(kv)
    BY <1>1, <1>2, <1>3
  <1>5. QED
    BY <1>1, <1>2, <1>4, StayingStep

\* The calls that handlers begin with are of the right type.
LEMMA CallTypes ==
  /\ \A b \in DOMAIN Contents : Insert(b) \in PendingCalls
  /\ \A pc \in Justifies : Update(pc) \in PendingCalls /\ Vote(pc) \in PendingCalls
  /\ Record \in PendingCalls
  BY DEF Insert, Update, Vote, Record, PendingCalls

\* A call that a handler makes next is of the right type.
LEMMA NextCall ==
  ASSUME ReplicaInv, todo # <<>>
  PROVE  /\ Tail(todo) \in Seq(PendingCalls)
         /\ todo = <<Record>> => Head(todo).call = "record"
         /\ Head(todo).call = "update" => Head(todo).justify.view \in Nat
  <1>1. Head(todo) \in PendingCalls /\ Tail(todo) \in Seq(PendingCalls)
    BY DEF ReplicaInv, ReplicaTypes
  <1>2. Head(todo).call = "update" => Head(todo).justify \in Justifies
    BY <1>1 DEF PendingCalls
  <1>3. todo = <<Record>> => Head(todo).call = "record"
    BY DEF Record
  <1>4. QED
    BY <1>1, <1>2, <1>3, ReplicaAssumption

\* The handlers.
LEMMA HandlersStep ==
  ASSUME ReplicaInv,
         \/ \E b \in DOMAIN preimage : OnReceiveProposal(b, Decoded)
         \/ \E pc \in Certificates : OnReceiveNudge(pc, Decoded) \/ OnCertificate(pc, Decoded)
  PROVE  ReplicaInv'
  <1>1. ASSUME NEW b \in DOMAIN preimage, OnReceiveProposal(b, Decoded) PROVE ReplicaInv'
    <2> DEFINE justify == preimage[b].justify
    <2>1. b \in DOMAIN Contents /\ justify \in Justifies
      BY DEF ReplicaInv, ReplicaTypes, Justifies
    <2>2. Handles(<<Insert(b), Update(justify), Vote(justify)>>)
      BY <1>1 DEF OnReceiveProposal
    <2>3. <<Insert(b), Update(justify), Vote(justify)>> \in Seq(PendingCalls)
      BY <2>1, CallTypes
    <2>4. QED
      BY <2>2, <2>3, HandlesStep
  <1>2. ASSUME NEW pc \in Certificates PROVE <<Update(pc)>> \in Seq(PendingCalls) /\ <<Update(pc), Vote(pc)>> \in Seq(PendingCalls)
    BY CallTypes DEF Justifies
  <1>3. ASSUME NEW pc \in Certificates, OnReceiveNudge(pc, Decoded) PROVE ReplicaInv'
    BY <1>2, <1>3, HandlesStep DEF OnReceiveNudge
  <1>4. ASSUME NEW pc \in Certificates, OnCertificate(pc, Decoded) PROVE ReplicaInv'
    BY <1>2, <1>4, HandlesStep DEF OnCertificate
  <1>5. QED
    BY <1>1, <1>3, <1>4

\* The calls that write the tree, and the vote that is not sent.
LEMMA WritesStep ==
  ASSUME ReplicaInv, CallInsert \/ CallUpdate \/ CallVoteNot
  PROVE  ReplicaInv'
  <1>1. /\ UNCHANGED <<preimage, view, entered, votes>> /\ todo # <<>> /\ todo' = Tail(todo)
        /\ Head(todo).call \in {"insert", "update", "vote"}
    BY DEF CallInsert, CallUpdate, CallVoteNot, Calls
  <1>2. KeepsViews(kv) /\ todo' \in Seq(PendingCalls) /\ todo # <<Record>>
    BY <1>1, NextCall DEF ReplicaInv, ReplicaTypes
  <1> DEFINE Kept(next) ==
        /\ KeepsViews(next) /\ Reaches(kv, next)
        /\ highest_view_entered(next) = highest_view_entered(kv)
        /\ highest_view_phase_voted(next) = highest_view_phase_voted(kv)
  <1>3. \E next : next = kv' /\ Kept(next)
    <2>1. CASE CallInsert
      BY <1>2, <2>1, InsertSpares, SparedViews DEF CallInsert
    <2>2. CASE CallUpdate
      <3>1. kv' = write(kv, update(kv, Decoded, Head(todo).justify)) /\ Head(todo).justify.view \in Nat
        BY <1>1, <2>2, NextCall DEF CallUpdate, Calls
      <3>2. QED
        BY <1>2, <3>1, UpdatesViews
    <2>3. CASE CallVoteNot
      <3>1. kv' = kv
        BY <2>3 DEF CallVoteNot
      <3>2. \A w \in highest_tc(kv) : w <= w
        BY <1>2 DEF KeepsViews
      <3>3. Reaches(kv, kv)
        BY <1>2, <3>2 DEF Reaches, KeepsViews
      <3>4. QED
        BY <1>2, <3>1, <3>3
    <2>4. QED
      BY <2>1, <2>2, <2>3
  <1>4. PICK next : next = kv' /\ Kept(next)
    BY <1>3
  <1>5. init_view(kv) <= init_view(next)
    BY <1>2, <1>4, StartsHigher
  <1>6. \A w \in highest_view_phase_voted(kv) : w >= w
    BY <1>2 DEF KeepsViews
  <1>7. /\ KeepsViews(kv)' /\ init_view(kv) <= init_view(kv)'
        /\ highest_view_entered(kv)' = highest_view_entered(kv)
        /\ highest_view_phase_voted(kv)' = highest_view_phase_voted(kv)
    BY <1>4, <1>5, <1>6
  <1>8. QED
    BY <1>1, <1>2, <1>7, StayingStep

\* A timeout certificate is recorded.
LEMMA TimeoutStep ==
  ASSUME ReplicaInv, NEW v \in TimeoutViews, OnTimeoutCertificate(v)
  PROVE  ReplicaInv'
  <1>1. /\ UNCHANGED <<preimage, view, entered, votes>> /\ todo = <<>> /\ todo' = todo
        /\ kv' = write(kv, set_highest_tc(v)) /\ \A w \in highest_tc(kv) : w < v
        /\ v \in Nat
    BY ReplicaAssumption DEF OnTimeoutCertificate
  <1>2. KeepsViews(kv) /\ todo' \in Seq(PendingCalls) /\ todo # <<Record>>
    BY <1>1 DEF ReplicaInv, ReplicaTypes
  <1>3. PICK next : /\ next = kv' /\ KeepsViews(next) /\ Reaches(kv, next)
                    /\ highest_view_entered(next) = highest_view_entered(kv)
                    /\ highest_view_phase_voted(next) = highest_view_phase_voted(kv)
    BY <1>1, <1>2, RecordsTimeout
  <1>4. init_view(kv) <= init_view(next)
    BY <1>2, <1>3, StartsHigher
  <1>5. \A w \in highest_view_phase_voted(kv) : w >= w
    BY <1>2 DEF KeepsViews
  <1>6. /\ KeepsViews(kv)' /\ init_view(kv) <= init_view(kv)'
        /\ highest_view_entered(kv)' = highest_view_entered(kv)
        /\ highest_view_phase_voted(kv)' = highest_view_phase_voted(kv)
    BY <1>3, <1>4, <1>5
  <1>7. QED
    BY <1>1, <1>2, <1>6, StayingStep

\* A vote is recorded.
LEMMA RecordStep ==
  ASSUME ReplicaInv, CallRecord
  PROVE  ReplicaInv'
  <1>1. /\ UNCHANGED <<preimage, view, entered, votes>> /\ todo # <<>> /\ todo' = Tail(todo)
        /\ kv' = write(kv, set_highest_view_phase_voted(view))
    BY DEF CallRecord, Calls
  <1>2. KeepsViews(kv) /\ todo' \in Seq(PendingCalls) /\ view \in Nat
    BY <1>1, NextCall DEF ReplicaInv, ReplicaTypes
  <1>3. PICK next : /\ next = kv' /\ KeepsViews(next) /\ Reaches(kv, next)
                    /\ highest_view_entered(next) = highest_view_entered(kv)
                    /\ highest_view_phase_voted(next) = {view}
    BY <1>1, <1>2, RecordsVote
  <1>4. init_view(kv) <= init_view(next)
    BY <1>2, <1>3, StartsHigher
  <1>5. \E u \in highest_view_phase_voted(next) : u >= view
    BY <1>2, <1>3
  <1>6. /\ KeepsViews(kv)' /\ init_view(kv) <= init_view(kv)'
        /\ highest_view_entered(kv)' = highest_view_entered(kv)
        /\ \E u \in highest_view_phase_voted(kv)' : u >= view
    BY <1>3, <1>4, <1>5
  <1>7. QED
    BY <1>1, <1>2, <1>6, StayingStep

\* A vote is sent.
LEMMA VoteStep ==
  ASSUME ReplicaInv, CallVote
  PROVE  ReplicaInv'
  <1> DEFINE vote == [view |-> view, entered |-> entered]
             n == Len(votes)
  <1>1. /\ UNCHANGED <<preimage, kv, view, entered>>
        /\ votes' = Append(votes, vote)
        /\ todo # <<>> /\ Head(todo).call = "vote" /\ todo' = <<Record>>
        /\ \A w \in highest_view_phase_voted(kv) : w < view
    BY DEF CallVote, Calls, MayVote
  <1>2. /\ votes \in Seq([view : Nat, entered : BOOLEAN]) /\ view \in Nat /\ entered \in BOOLEAN
        /\ KeepsViews(kv)
    BY DEF ReplicaInv, ReplicaTypes
  <1>3. /\ n \in Nat /\ DOMAIN votes = 1 .. n /\ DOMAIN votes' = 1 .. n + 1
        /\ votes'[n + 1] = vote
        /\ \A i \in 1 .. n : votes'[i] = votes[i]
        /\ \A i \in 1 .. n : votes[i].view \in Nat /\ votes[i].entered \in BOOLEAN
        /\ vote.view = view /\ vote.entered = entered
    <2>1. n \in Nat /\ DOMAIN votes = 1 .. n
      BY <1>2
    <2>2. \A i \in 1 .. n : votes[i].view \in Nat /\ votes[i].entered \in BOOLEAN
      BY <2>1, VoteTypes DEF ReplicaInv
    <2>3. vote.view = view /\ vote.entered = entered /\ vote \in [view : Nat, entered : BOOLEAN]
      BY <1>2
    <2> HIDE DEF vote
    <2>4. DOMAIN votes' = 1 .. n + 1 /\ votes'[n + 1] = vote /\ \A i \in 1 .. n : votes'[i] = votes[i]
      BY <1>1, <1>2, <2>3
    <2>5. QED
      BY <2>1, <2>2, <2>3, <2>4
  <1>4. ReplicaTypes'
    <2>1. votes' \in Seq([view : Nat, entered : BOOLEAN])
      BY <1>1, <1>2
    <2>2. todo' \in Seq(PendingCalls)
      BY <1>1, CallTypes
    <2>3. QED
      BY <1>1, <2>1, <2>2 DEF ReplicaInv, ReplicaTypes
  <1>5. ViewIsKept'
    BY <1>1 DEF ReplicaInv, ViewIsKept
  <1>6. \A i \in 1 .. n :
          /\ votes[i].view <= view
          /\ votes[i].entered => votes[i].view > 0 /\ votes[i].view <= highest_view_entered(kv)
          /\ votes[i].view = view /\ entered => votes[i].entered
          /\ ~(votes[i].view = view /\ votes[i].entered)
    <2> TAKE i \in 1 .. n
    <2>1. /\ votes[i].view <= view
          /\ votes[i].entered => votes[i].view > 0 /\ votes[i].view <= highest_view_entered(kv)
          /\ votes[i].view = view /\ entered => votes[i].entered
          /\ votes[i].view = view /\ votes[i].entered =>
               todo = <<Record>> \/ \E w \in highest_view_phase_voted(kv) : w >= view
      BY <1>3 DEF ReplicaInv, VotesAreKept
    <2>2. todo # <<Record>>
      BY <1>1, NextCall
    <2>3. \A w \in highest_view_phase_voted(kv) : ~(w >= view)
      BY <1>1, <1>2 DEF KeepsViews
    <2>4. QED
      BY <2>1, <2>2, <2>3
  <1>7. VotesAreKept'
    <2> SUFFICES ASSUME NEW i \in 1 .. n + 1
                 PROVE  /\ votes'[i].view <= view
                        /\ votes'[i].entered =>
                             votes'[i].view > 0 /\ votes'[i].view <= highest_view_entered(kv)
                        /\ votes'[i].view = view /\ entered => votes'[i].entered
      BY <1>1, <1>3 DEF VotesAreKept
    <2>1. CASE i = n + 1
      BY <1>2, <1>3, <2>1 DEF ReplicaInv, ViewIsKept
    <2>2. CASE i # n + 1
      <3>1. i \in 1 .. n
        BY <1>3, <2>2
      <3>2. QED
        BY <1>3, <1>6, <3>1
    <2>3. QED
      BY <2>1, <2>2
  <1>8. \A i \in 1 .. n + 1 : i \in 1 .. n \/ i = n + 1
    BY <1>3
  <1>9. VotesNeverGoBack'
    <2> SUFFICES ASSUME NEW i \in 1 .. n + 1, NEW j \in 1 .. n + 1, i < j
                 PROVE  votes'[i].view <= votes'[j].view
      BY <1>3 DEF VotesNeverGoBack
    <2>1. i \in 1 .. n
      BY <1>3
    <2>2. CASE j = n + 1
      BY <1>3, <1>6, <2>1, <2>2
    <2>3. CASE j \in 1 .. n
      BY <1>3, <2>1, <2>3 DEF ReplicaInv, VotesNeverGoBack
    <2>4. QED
      BY <1>8, <2>2, <2>3
  <1>10. EnteredViewsVotedOnce'
    <2> SUFFICES ASSUME NEW i \in 1 .. n + 1, NEW j \in 1 .. n + 1,
                        votes'[i].view = votes'[j].view, votes'[i].entered
                 PROVE  i = j
      BY <1>3 DEF EnteredViewsVotedOnce
    <2>1. CASE i \in 1 .. n /\ j \in 1 .. n
      BY <1>3, <2>1 DEF ReplicaInv, EnteredViewsVotedOnce
    <2>2. CASE i \in 1 .. n /\ j = n + 1
      BY <1>3, <1>6, <2>2
    <2>3. CASE i = n + 1 /\ j \in 1 .. n
      BY <1>3, <1>6, <2>3
    <2>4. QED
      BY <1>8, <2>1, <2>2, <2>3
  <1>11. QED
    BY <1>4, <1>5, <1>7, <1>9, <1>10 DEF ReplicaInv

\* A step to a later view: no vote has been sent in it, or in a view entered.
LEMMA MovingStep ==
  ASSUME ReplicaInv, ReplicaTypes', ViewIsKept', votes' = votes,
         \A i \in DOMAIN votes :
           /\ votes[i].view <= view'
           /\ votes[i].entered => votes[i].view < view' /\ votes[i].view <= highest_view_entered(kv)'
           /\ votes[i].view = view' => ~entered'
  PROVE  ReplicaInv'
  <1>1. ASSUME NEW i \in DOMAIN votes
        PROVE  votes[i].view \in Nat /\ view' \in Nat /\ (votes[i].entered => votes[i].view > 0)
    BY VoteTypes DEF ReplicaInv, ReplicaTypes, VotesAreKept
  <1>2. VotesAreKept'
    BY <1>1 DEF VotesAreKept
  <1>3. QED
    BY <1>2 DEF ReplicaInv, VotesNeverGoBack, EnteredViewsVotedOnce

\* A view is entered.
LEMMA EnterViewStep ==
  ASSUME ReplicaInv, NEW v \in Views, EnterView(v)
  PROVE  ReplicaInv'
  <1>1. /\ UNCHANGED <<preimage, todo, votes>> /\ v > view /\ view' = v /\ entered' = TRUE
        /\ kv' = write(kv, set_highest_view_entered(v))
    BY DEF EnterView
  <1>2. /\ KeepsViews(kv) /\ view \in Nat /\ v \in Nat
        /\ highest_view_entered(kv) \in Nat /\ highest_view_entered(kv) <= view
    BY ReplicaAssumption DEF ReplicaInv, ReplicaTypes, ViewIsKept, KeepsViews
  <1>3. PICK next : next = kv' /\ KeepsViews(next) /\ highest_view_entered(next) = v
    BY <1>1, <1>2, EntersView
  <1>4. v < init_view(next) /\ init_view(next) \in Nat
    BY <1>1, <1>2, <1>3, StartsHigher
  <1>5. ReplicaTypes'
    BY <1>1, <1>2, <1>3 DEF ReplicaInv, ReplicaTypes
  <1>6. ViewIsKept'
    BY <1>1, <1>2, <1>3, <1>4 DEF ViewIsKept
  <1>7. ASSUME NEW i \in DOMAIN votes
        PROVE  votes[i].view < view' /\ votes[i].view <= highest_view_entered(kv)'
    <2>1. votes[i].view \in Nat /\ votes[i].view <= view
      BY VoteTypes DEF ReplicaInv, VotesAreKept
    <2>2. highest_view_entered(kv)' = v
      BY <1>3
    <2>3. QED
      BY <1>1, <1>2, <2>1, <2>2
  <1>8. \A i \in DOMAIN votes : votes[i].view \in Nat /\ view' \in Nat
    BY <1>5, VoteTypes DEF ReplicaInv, ReplicaTypes
  <1>9. QED
    BY <1>1, <1>5, <1>6, <1>7, <1>8, MovingStep

\* The replica crashes and starts again from its store.
LEMMA RestartStep ==
  ASSUME ReplicaInv, CrashAndRestart
  PROVE  ReplicaInv'
  <1>1. /\ UNCHANGED <<preimage, kv, votes>> /\ view' = init_view(kv) /\ entered' = FALSE /\ todo' = <<>>
    BY DEF CrashAndRestart
  <1>2. /\ KeepsViews(kv) /\ init_view(kv) \in Nat /\ highest_view_entered(kv) \in Nat /\ view \in Nat
        /\ highest_view_entered(kv) <= init_view(kv)
        /\ highest_view_entered(kv) > 0 => highest_view_entered(kv) < init_view(kv)
    BY StartsHigher DEF ReplicaInv, ReplicaTypes, KeepsViews
  <1>3. ReplicaTypes'
    BY <1>1, <1>2, EmptySequence DEF ReplicaInv, ReplicaTypes
  <1>4. ViewIsKept'
    BY <1>1, <1>2 DEF ViewIsKept
  <1>5. ASSUME NEW i \in DOMAIN votes
        PROVE  /\ votes[i].view <= view'
               /\ votes[i].entered => votes[i].view < view' /\ votes[i].view <= highest_view_entered(kv)'
               /\ votes[i].view = view' => ~entered'
    <2>1. /\ votes[i].view \in Nat /\ votes[i].view <= view /\ view <= init_view(kv)
          /\ votes[i].entered => votes[i].view > 0 /\ votes[i].view <= highest_view_entered(kv)
      BY VoteTypes DEF ReplicaInv, ViewIsKept, VotesAreKept
    <2>2. QED
      BY <1>1, <1>2, <2>1
  <1>6. QED
    BY <1>1, <1>3, <1>4, <1>5, MovingStep

\* The invariant is inductive.
LEMMA ReplicaInvStep ==
  ReplicaInv /\ [Next]_vars => ReplicaInv'
  <1> SUFFICES ASSUME ReplicaInv, [Next]_vars PROVE ReplicaInv'
    OBVIOUS
  <1>1. CASE \/ \E b \in DOMAIN preimage : OnReceiveProposal(b, Decoded)
             \/ \E pc \in Certificates : OnReceiveNudge(pc, Decoded) \/ OnCertificate(pc, Decoded)
    BY <1>1, HandlersStep
  <1>2. CASE Calling
    BY <1>2, WritesStep, VoteStep, RecordStep DEF Calling
  <1>3. CASE Living
    BY <1>3, EnterViewStep, TimeoutStep, RestartStep DEF Living
  <1>4. CASE UNCHANGED vars
    BY <1>4 DEF vars, ReplicaInv, ReplicaTypes, ViewIsKept, VotesAreKept, VotesNeverGoBack,
                EnteredViewsVotedOnce
  <1>5. QED
    BY <1>1, <1>2, <1>3, <1>4 DEF Next

-----------------------------------------------------------------------------
(* Blocks and their lineage.                                               *)

Blocks == DOMAIN Contents

Parent(b) == Contents[b].justify.block

\* A block and its ancestors, as `ancestry`.
lineage[b \in 0 .. Len(Contents)] ==
  IF b = 0 THEN {} ELSE {b} \cup lineage[Parent(b)]

\* What a block is, and where its parent is.
LEMMA BlockFacts ==
  ASSUME NEW b \in Blocks
  PROVE  /\ b \in 1 .. Len(Contents) /\ b \in Nat /\ b # 0
         /\ Contents[b].height \in Nat
         /\ Contents[b].data \in AppData
         /\ Contents[b].justify \in Certificates
         /\ Parent(b) \in Blocks \cup {0}
         /\ Parent(b) \in Nat /\ Parent(b) < b
         /\ Parent(b) = 0 <=> Tree!is_genesis_pc(Contents[b].justify)
         /\ Parent(b) \in Blocks => Contents[b].height = Contents[Parent(b)].height + 1
         /\ Parent(b) = 0 => Contents[b].height = 0
  <1>1. Contents \in Seq(BlockContents)
    BY ContentsAssumption
  <1>2. b \in 1 .. Len(Contents) /\ Len(Contents) \in Nat /\ Blocks = 1 .. Len(Contents)
    BY <1>1 DEF Blocks
  <1>3. Contents[b].height \in Nat /\ Contents[b].data \in AppData /\ Contents[b].justify \in Certificates
    <2>1. Contents[b] \in BlockContents
      BY <1>1, <1>2
    <2>2. QED
      BY <2>1 DEF BlockContents
  <1>4. IF Tree!is_genesis_pc(Contents[b].justify) THEN Contents[b].height = 0
        ELSE Parent(b) \in 1 .. b - 1 /\ Contents[b].height = Contents[Parent(b)].height + 1
    BY ContentsAssumption DEF Blocks, Parent
  <1>5. Tree!is_genesis_pc(Contents[b].justify) => Parent(b) = 0
    BY DEF Parent, Tree!is_genesis_pc, Tree!genesis_pc, Tree!Genesis
  <1>6. QED
    BY <1>2, <1>3, <1>4, <1>5

\* The blocks as nodes of a forest.
Up == [b \in Blocks |-> Parent(b)]
Level == [b \in Blocks |-> Contents[b].height]

\* The parents of the blocks form a forest, with the heights as levels.
LEMMA BlocksAreForest ==
  /\ Len(Contents) \in Nat /\ Blocks = 1 .. Len(Contents)
  /\ Descends(Up, Len(Contents))
  /\ Levels(Level, Up, Len(Contents))
  <1>1. Len(Contents) \in Nat /\ Blocks = 1 .. Len(Contents)
    BY ContentsAssumption DEF Blocks
  <1>2. \A b \in Blocks : Up[b] = Parent(b) /\ Level[b] = Contents[b].height
    BY DEF Up, Level
  <1>3. Descends(Up, Len(Contents))
    BY <1>1, <1>2, BlockFacts DEF Descends
  <1>4. ASSUME NEW b \in Blocks
        PROVE  /\ Level[b] \in Nat
               /\ IF Up[b] = 0 THEN Level[b] = 0 ELSE Level[b] = Level[Up[b]] + 1
    BY <1>2, BlockFacts
  <1>5. QED
    BY <1>1, <1>3, <1>4 DEF Levels

\* `lineage` is what its definition says.
LEMMA LineageIsLine == Lines(lineage, Up, Len(Contents))
  <1> DEFINE n == Len(Contents)
  <1>1. n \in Nat /\ Blocks = 1 .. n /\ Descends(Up, n)
    BY BlocksAreForest
  <1>2. \A b \in 0 .. n : b # 0 => Up[b] = Parent(b)
    BY <1>1 DEF Up
  <1> HIDE DEF n
  <1>3. PICK f : f = [b \in 0 .. n |-> IF b = 0 THEN {} ELSE {b} \cup f[Up[b]]]
    BY <1>1, LinesExist
  <1>4. f = [b \in 0 .. n |-> IF b = 0 THEN {} ELSE {b} \cup f[Parent(b)]]
    BY <1>2, <1>3
  <1>5. lineage = [b \in 0 .. n |-> IF b = 0 THEN {} ELSE {b} \cup lineage[Parent(b)]]
    BY <1>4 DEF lineage, n
  <1>6. lineage[0] = {} /\ \A b \in 1 .. n : lineage[b] = {b} \cup lineage[Parent(b)]
    <2>1. \A b \in 0 .. n : lineage[b] = IF b = 0 THEN {} ELSE {b} \cup lineage[Parent(b)]
      BY <1>5
    <2>2. 0 \in 0 .. n /\ \A b \in 1 .. n : b \in 0 .. n /\ b # 0
      BY <1>1
    <2>3. lineage[0] = {}
      BY <2>1, <2>2
    <2>4. QED
      BY <2>1, <2>2, <2>3
  <1>7. QED
    BY <1>1, <1>2, <1>6 DEF Lines, n

\* What a lineage is: the block and the lineage of its parent, blocks of one
\* height each, all those of an ancestor included.
LEMMA LineageFacts ==
  ASSUME NEW b \in Blocks
  PROVE  /\ b \in lineage[b]
         /\ lineage[b] = {b} \cup lineage[Parent(b)]
         /\ \A a \in lineage[b] :
              /\ a \in Blocks
              /\ a = b \/ (a < b /\ Contents[a].height < Contents[b].height)
              /\ lineage[a] \subseteq lineage[b]
              /\ Parent(a) \in lineage[b] \cup {0}
         /\ \A a, c \in lineage[b] : Contents[a].height <= Contents[c].height => a \in lineage[c]
         /\ \A a, c \in lineage[b] : Contents[a].height = Contents[c].height => a = c
         /\ \A k \in 0 .. Contents[b].height : \E a \in lineage[b] : Contents[a].height = k
         /\ IsFiniteSet(lineage[b]) /\ Cardinality(lineage[b]) = Contents[b].height + 1
         /\ lineage[0] = {}
  <1>1. \A c \in Blocks : Up[c] = Parent(c) /\ Level[c] = Contents[c].height
    BY DEF Up, Level
  <1>2. b \in lineage[b] /\ lineage[b] = {b} \cup lineage[Parent(b)] /\ lineage[0] = {}
    BY <1>1, BlocksAreForest, LineageIsLine DEF Lines
  <1>3. ASSUME NEW a \in lineage[b]
        PROVE  a \in Blocks /\ (a = b \/ (a < b /\ Contents[a].height < Contents[b].height))
    <2>1. a \in Blocks /\ (a = b \/ (a < b /\ Level[a] < Level[b]))
      BY BlocksAreForest, LineageIsLine, LineLower
    <2>2. QED
      BY <1>1, <2>1
  <1>4. ASSUME NEW a \in lineage[b]
        PROVE  lineage[a] \subseteq lineage[b] /\ Parent(a) \in lineage[b] \cup {0}
    <2>1. lineage[a] \subseteq lineage[b]
      BY BlocksAreForest, LineageIsLine, LineTransitive
    <2>2. Up[a] # 0 => Up[a] \in lineage[b]
      BY <1>3, BlocksAreForest, LineageIsLine, LineUp
    <2>3. QED
      BY <1>1, <1>3, <2>1, <2>2
  <1>5. ASSUME NEW a \in lineage[b], NEW c \in lineage[b], Contents[a].height <= Contents[c].height
        PROVE  a \in lineage[c]
    <2>1. Level[a] <= Level[c]
      BY <1>1, <1>3, <1>5
    <2>2. QED
      BY <2>1, BlocksAreForest, LineageIsLine, LineOrdered
  <1>6. ASSUME NEW a \in lineage[b], NEW c \in lineage[b], Contents[a].height = Contents[c].height
        PROVE  a = c
    <2>1. Level[a] = Level[c]
      BY <1>1, <1>3, <1>6
    <2>2. QED
      BY <2>1, BlocksAreForest, LineageIsLine, LineAtLevel
  <1>7. ASSUME NEW k \in 0 .. Contents[b].height
        PROVE  \E a \in lineage[b] : Contents[a].height = k
    <2>1. \E a \in lineage[b] : Level[a] = k
      BY <1>1, BlocksAreForest, LineageIsLine, LineFull
    <2>2. QED
      BY <1>1, <1>3, <2>1
  <1>8. IsFiniteSet(lineage[b]) /\ Cardinality(lineage[b]) = Contents[b].height + 1
    BY <1>1, BlocksAreForest, LineageIsLine, LineSize
  <1>9. QED
    BY <1>2, <1>3, <1>4, <1>5, <1>6, <1>7, <1>8

-----------------------------------------------------------------------------
(* What is read after a batch was written.                                 *)

\* A batch sets or deletes.
WellFormed(wb) == \A k \in DOMAIN wb : wb[k] = {} \/ \E x : wb[k] = {x}

\* What a key has after a batch, if it had `old` before.
After(wb, k, old) == IF k \in DOMAIN wb THEN wb[k] ELSE old

\* What is read of a key after a well-formed batch was written.
LEMMA WriteReads ==
  ASSUME NEW store, NEW wb, WellFormed(wb), NEW k
  PROVE  get(write(store, wb), k) = After(wb, k, get(store, k))
  <1>1. CASE k \notin DOMAIN wb
    BY <1>1, Unwritten DEF After
  <1>2. CASE k \in DOMAIN wb /\ wb[k] = {}
    BY <1>2 DEF After, get, write
  <1>3. CASE k \in DOMAIN wb /\ \E x : wb[k] = {x}
    BY <1>3, Written DEF After
  <1>4. QED
    BY <1>1, <1>2, <1>3 DEF WellFormed

\* A key is in the store if it has a value.
LEMMA InStore ==
  ASSUME NEW store, NEW k
  PROVE  k \in DOMAIN store <=> get(store, k) # {}
  BY DEF get

\* Batches one after the other.
LEMMA ThenReads ==
  ASSUME NEW first, NEW next, NEW k, NEW old
  PROVE  After(Then(first, next), k, old) = After(next, k, After(first, k, old))
  BY DEF Then, After

\* Two well-formed batches make one.
LEMMA ThenWellFormed ==
  ASSUME NEW first, NEW next, WellFormed(first), WellFormed(next)
  PROVE  WellFormed(Then(first, next))
  BY DEF Then, WellFormed

\* The last batch that writes a key decides on it.
LEMMA InOrderLast ==
  ASSUME NEW m \in Nat, NEW batches, DOMAIN batches = 1 .. m,
         NEW i \in 1 .. m, NEW k \in DOMAIN batches[i],
         \A j \in 1 .. m : k \in DOMAIN batches[j] => j <= i
  PROVE  k \in DOMAIN InOrder(batches) /\ InOrder(batches)[k] = batches[i][k]
  <1> DEFINE I == {j \in DOMAIN batches : k \in DOMAIN batches[j]}
  <1>1. i \in I /\ \A j \in I : i >= j
    OBVIOUS
  <1>2. \A j \in I : j \in Int
    OBVIOUS
  <1>3. Max(I) = i
    <2> HIDE DEF I
    <2>1. \A x \in I : (\A y \in I : x >= y) => x = i
      BY <1>1, <1>2
    <2>2. QED
      BY <1>1, <2>1 DEF Max
  <1>4. k \in DOMAIN InOrder(batches) /\ InOrder(batches)[k] = batches[Max(I)][k]
    BY DEF InOrder
  <1>5. QED
    BY <1>3, <1>4

\* Some batch that writes a key decides on it.
LEMMA InOrderSome ==
  ASSUME NEW m \in Nat, NEW batches, DOMAIN batches = 1 .. m,
         NEW k, \E j \in 1 .. m : k \in DOMAIN batches[j]
  PROVE  \E i \in 1 .. m : /\ k \in DOMAIN batches[i]
                           /\ \A j \in 1 .. m : k \in DOMAIN batches[j] => j <= i
                           /\ k \in DOMAIN InOrder(batches) /\ InOrder(batches)[k] = batches[i][k]
  <1> DEFINE J == {m - j : j \in {i \in 1 .. m : k \in DOMAIN batches[i]}}
  <1>1. J \subseteq Nat /\ J # {}
    OBVIOUS
  <1>2. PICK d \in J : \A e \in J : d <= e
    <2> HIDE DEF J
    <2>1. QED
      BY <1>1, Minimum
  <1>3. PICK i \in 1 .. m : k \in DOMAIN batches[i] /\ d = m - i
    OBVIOUS
  <1>4. \A j \in 1 .. m : k \in DOMAIN batches[j] => j <= i
    <2>1. \A j \in 1 .. m : k \in DOMAIN batches[j] => m - j \in J
      OBVIOUS
    <2> HIDE DEF J
    <2>2. QED
      BY <1>2, <1>3, <2>1
  <1>5. QED
    BY <1>3, <1>4, InOrderLast

\* A sequence of well-formed batches makes one.
LEMMA InOrderWellFormed ==
  ASSUME NEW m \in Nat, NEW batches, DOMAIN batches = 1 .. m,
         \A i \in 1 .. m : WellFormed(batches[i])
  PROVE  WellFormed(InOrder(batches))
  <1>1. ASSUME NEW k \in DOMAIN InOrder(batches)
        PROVE  \E i \in 1 .. m : k \in DOMAIN batches[i] /\ InOrder(batches)[k] = batches[i][k]
    <2>1. \E i \in 1 .. m : k \in DOMAIN batches[i]
      BY <1>1, InOrderKeys
    <2>2. QED
      BY <2>1, InOrderSome
  <1>2. ASSUME NEW k \in DOMAIN InOrder(batches)
        PROVE  InOrder(batches)[k] = {} \/ \E x : InOrder(batches)[k] = {x}
    <2>1. PICK i \in 1 .. m : k \in DOMAIN batches[i] /\ InOrder(batches)[k] = batches[i][k]
      BY <1>1
    <2>2. WellFormed(batches[i])
      OBVIOUS
    <2>3. QED
      BY <2>1, <2>2 DEF WellFormed
  <1>3. QED
    BY <1>2 DEF WellFormed

\* Batches that agree on a key.
LEMMA InOrderAgree ==
  ASSUME NEW m \in Nat, NEW batches, DOMAIN batches = 1 .. m,
         NEW k, NEW new, \E j \in 1 .. m : k \in DOMAIN batches[j],
         \A j \in 1 .. m : k \in DOMAIN batches[j] => batches[j][k] = new
  PROVE  k \in DOMAIN InOrder(batches) /\ InOrder(batches)[k] = new
  BY InOrderSome

\* A key that no batch writes.
LEMMA InOrderNone ==
  ASSUME NEW m \in Nat, NEW batches, DOMAIN batches = 1 .. m,
         NEW k, \A j \in 1 .. m : k \notin DOMAIN batches[j]
  PROVE  k \notin DOMAIN InOrder(batches)
  BY InOrderKeys

-----------------------------------------------------------------------------
(* A store that holds a block tree.                                        *)

BlockFields == {"HEIGHT", "JUSTIFY", "DATA_HASH", "DATA_LEN"}
Datums(b) == DatumsOf[Contents[b].data]

\* The keys that a block is kept under.
BlockKeys(b) == {<<"BLOCKS", b, f>> : f \in BlockFields} \cup datum_keys(b, Len(Datums(b)))

\* Variables with one key for each block, or height.
Indexed == {"BLOCK_TO_CHILDREN", "PENDING_APP_STATE_UPDATES", "VALIDATOR_SET_UPDATES_STATUS",
            "BLOCK_AT_HEIGHT"}

\* k is formed as the variable that it begins with prescribes.
IsKey(k) ==
  /\ k[1] = "BLOCKS" => k[2] \in Blocks /\ k \in BlockKeys(k[2])
  /\ k[1] \in Indexed => k = <<k[1], k[2]>>

Stored(store) == {b \in Blocks : block_height(store, b) # {}}

\* A block is in the store with all that belongs to it.
HoldsBlock(store, b) ==
  /\ block_height(store, b) = {Contents[b].height}
  /\ block_justify(store, b) = {Contents[b].justify}
  /\ block_data_hash(store, b) = {Contents[b].data}
  /\ block_data_len(store, b) = {Len(Datums(b))}
  /\ \A i \in 0 .. Len(Datums(b)) - 1 : block_datum(store, b, i) # {}

\* The children lists are those of the blocks in the store, and of genesis.
ChildrenOK(store) ==
  \A p : \/ /\ children(store, p) = {}
            /\ \A b \in Stored(store) : Parent(b) # p
         \/ \E list \in Seq(Blocks) :
              /\ children(store, p) = {list}
              /\ ToSet(list) = {b \in Stored(store) : Parent(b) = p}
              /\ p \in Stored(store) \cup {0}

\* Updates are pending, or marked as committed, of blocks in the store.
UpdatesOK(store) ==
  \A b : /\ \/ pending_app_state_updates(store, b) = {}
            \/ /\ pending_app_state_updates(store, b) = {AppUpdatesOf[Contents[b].data]}
               /\ b \in Stored(store)
         /\ \/ validator_set_updates_status(store, b) = {}
            \/ /\ validator_set_updates_status(store, b) = {[updates |-> {}]}
               /\ b \in Stored(store)
            \/ /\ validator_set_updates_status(store, b) = {[updates |-> {UpdatesOf[Contents[b].data]}]}
               /\ b \in Stored(store)

\* The store is that of a block tree: whole blocks, whose parents are there.
StoreOK(store) ==
  /\ IsFiniteSet(DOMAIN store)
  /\ \A k \in DOMAIN store : IsKey(k)
  /\ \A b \in Stored(store) : HoldsBlock(store, b) /\ Parent(b) \in Stored(store) \cup {0}
  /\ \A b \in Blocks \ Stored(store) : \A k \in BlockKeys(b) : get(store, k) = {}
  /\ ChildrenOK(store)
  /\ UpdatesOK(store)
  /\ \/ highest_committed_block(store) = {}
     \/ \E b \in Stored(store) : highest_committed_block(store) = {b}

\* What is stored is closed upwards.
LEMMA StoredLineage ==
  ASSUME NEW store, StoreOK(store), NEW x \in Stored(store)
  PROVE  lineage[x] \subseteq Stored(store)
  <1> DEFINE n == Len(Contents)
             T == {b \in Blocks : b \in Stored(store) => lineage[b] \subseteq Stored(store)}
  <1>1. n \in Nat /\ Blocks = 1 .. n /\ Descends(Up, n) /\ \A b \in Blocks : Up[b] = Parent(b)
    BY BlocksAreForest DEF Up
  <1>2. ASSUME NEW b \in Blocks, Up[b] # 0 => Up[b] \in T
        PROVE  b \in T
    <2>1. lineage[b] = {b} \cup lineage[Parent(b)] /\ lineage[0] = {} /\ Up[b] = Parent(b)
      BY <1>1, LineageFacts
    <2>2. b \in Stored(store) => Parent(b) \in Stored(store) \cup {0}
      BY DEF StoreOK
    <2>3. QED
      BY <1>2, <2>1, <2>2
  <1>3. T \in SUBSET (1 .. n)
    BY <1>1
  <1> HIDE DEF T, n
  <1>4. T = 1 .. n
    BY <1>1, <1>2, <1>3, ForestInduction
  <1>5. x \in Blocks
    BY DEF Stored
  <1>6. QED
    BY <1>1, <1>4, <1>5 DEF T

\* The store has more keys than a block has ancestors.
LEMMA StoreIsLarge ==
  ASSUME NEW store, StoreOK(store), NEW x \in Stored(store)
  PROVE  Cardinality(DOMAIN store) \in Nat /\ Contents[x].height <= Cardinality(DOMAIN store)
  <1> DEFINE f == [y \in lineage[x] |-> <<"BLOCKS", y, "HEIGHT">>]
  <1>1. x \in Blocks /\ IsFiniteSet(DOMAIN store)
    BY DEF Stored, StoreOK
  <1>2. \A y \in lineage[x] : f[y] \in DOMAIN store
    BY StoredLineage DEF Stored, block_height, get
  <1>3. f \in Injection(lineage[x], DOMAIN store)
    <2>1. \A y, z \in lineage[x] : f[y] = f[z] => y = z
      OBVIOUS
    <2>2. f \in [lineage[x] -> DOMAIN store]
      BY <1>2
    <2> HIDE DEF f
    <2>3. QED
      BY <2>1, <2>2 DEF Injection, IsInjective
  <1>4. Cardinality(lineage[x]) <= Cardinality(DOMAIN store)
    <2> HIDE DEF f
    <2>1. QED
      BY <1>1, <1>3, FS_Injection
  <1>5. Cardinality(lineage[x]) = Contents[x].height + 1 /\ Contents[x].height \in Nat
    BY <1>1, LineageFacts, BlockFacts
  <1>6. Cardinality(DOMAIN store) \in Nat
    BY <1>1, FS_CardinalityType
  <1>7. QED
    BY <1>4, <1>5, <1>6

\* What lies below root in the store.
Descendants(store, root) == {x \in Stored(store) : root \in lineage[x]}

\* What spreads along the edges of a set of blocks, closed upwards, reaches
\* the blocks below the root.
LEMMA LineageSpreads ==
  ASSUME NEW S, ClosedUpwards(S, Up, Len(Contents)), NEW root \in S,
         NEW f, Spreads(f, root, S, Up), NEW k \in Nat, \A x \in S : Level[x] <= k
  PROVE  f[k] = {x \in S : root \in lineage[x]}
  BY BlocksAreForest, LineageIsLine, SpreadIsBelow

\* One step further down among such blocks.
LEMMA LineageBelow ==
  ASSUME NEW S, ClosedUpwards(S, Up, Len(Contents)), NEW root \in S, NEW k \in Nat
  PROVE  Below(root, S, lineage, Level, k)
         = IF k = 0 THEN {root}
           ELSE Below(root, S, lineage, Level, k - 1)
                \cup {x \in S : Up[x] \in Below(root, S, lineage, Level, k - 1)}
  BY BlocksAreForest, LineageIsLine, BelowSpreads

\* The walk along the children lists collects the descendants, all of them.
LEMMA BranchIsDescendants ==
  ASSUME NEW store, StoreOK(store), NEW root \in Stored(store)
  PROVE  blocks_in_branch(store, root) = Descendants(store, root)
  <1> DEFINE n == Len(Contents)
             S == Stored(store)
             next(T) == T \cup UNION {ToSet(list) : list \in UNION {children(store, b) : b \in T}}
             IsWalk(f) == f = [k \in Nat |-> IF k = 0 THEN {root} ELSE next(f[k - 1])]
             within == CHOOSE f : IsWalk(f)
             g == [k \in Nat |-> Below(root, S, lineage, Level, k)]
  <1>1. /\ n \in Nat /\ Blocks = 1 .. n /\ Descends(Up, n) /\ Levels(Level, Up, n) /\ Lines(lineage, Up, n)
        /\ \A b \in Blocks : Up[b] = Parent(b) /\ Level[b] = Contents[b].height
    BY BlocksAreForest, LineageIsLine DEF Up, Level
  <1>2. S \in SUBSET (1 .. n)
    BY <1>1 DEF Stored
  <1>12. root \in S
    OBVIOUS
  <1>13. \A x \in S : Up[x] \in S \cup {0}
    BY <1>1 DEF Stored, StoreOK
  <1>3. ASSUME NEW T
        PROVE  next(T) = T \cup {x \in S : Up[x] \in T}
    <2>1. ASSUME NEW b \in T, NEW list \in children(store, b), NEW x \in ToSet(list)
          PROVE  x \in S /\ Up[x] \in T
      <3>1. ToSet(list) = {y \in Stored(store) : Parent(y) = b}
        BY DEF StoreOK, ChildrenOK
      <3>2. QED
        BY <1>1, <1>2, <1>12, <1>13, <3>1
    <2>2. ASSUME NEW x \in S, Up[x] \in T
          PROVE  \E list \in children(store, Up[x]) : x \in ToSet(list)
      <3>1. Parent(x) = Up[x] /\ x \in Stored(store)
        BY <1>1, <1>2
      <3>2. PICK list : children(store, Up[x]) = {list}
                        /\ ToSet(list) = {y \in Stored(store) : Parent(y) = Up[x]}
        BY <3>1 DEF StoreOK, ChildrenOK
      <3>3. QED
        BY <3>1, <3>2
    <2>3. QED
      BY <2>1, <2>2
  <1> HIDE DEF n, S, next
  <1>15. ClosedUpwards(S, Up, Len(Contents))
    BY <1>2, <1>13 DEF ClosedUpwards, n
  <1>4. \A k \in Nat : g[k] = IF k = 0 THEN {root} ELSE next(g[k - 1])
    <2>1. SUFFICES ASSUME NEW k \in Nat
                   PROVE  g[k] = IF k = 0 THEN {root} ELSE next(g[k - 1])
      OBVIOUS
    <2>2. Below(root, S, lineage, Level, k)
          = IF k = 0 THEN {root}
            ELSE Below(root, S, lineage, Level, k - 1)
                 \cup {x \in S : Up[x] \in Below(root, S, lineage, Level, k - 1)}
      BY ONLY <1>12, <1>15, k \in Nat, LineageBelow
    <2>3. k # 0 => g[k - 1] = Below(root, S, lineage, Level, k - 1)
      OBVIOUS
    <2>4. g[k] = Below(root, S, lineage, Level, k)
      OBVIOUS
    <2> HIDE DEF g
    <2>5. QED
      BY <1>3, <2>2, <2>3, <2>4
  <1>5. IsWalk(g)
    <2>1. g = [k \in Nat |-> g[k]]
      OBVIOUS
    <2> HIDE DEF g
    <2>2. QED
      BY <1>4, <2>1
  <1>6. IsWalk(within)
    <2> HIDE DEF g, IsWalk
    <2>1. QED
      BY <1>5
  <1>7. Spreads(within, root, S, Up)
    <2>1. \A k \in Nat : within[k] = IF k = 0 THEN {root} ELSE next(within[k - 1])
      <3> HIDE DEF within
      <3>1. QED
        BY <1>6
    <2> HIDE DEF within
    <2>2. QED
      BY <1>3, <2>1 DEF Spreads
  <1>8. blocks_in_branch(store, root) = within[Cardinality(DOMAIN store)]
    BY Zenon DEF blocks_in_branch, next
  <1> DEFINE m == Cardinality(DOMAIN store)
  <1>9. m \in Nat
    BY StoreIsLarge
  <1>14. \A x \in S : Level[x] <= m
    BY <1>1, <1>2, StoreIsLarge DEF S
  <1> HIDE DEF m, within, IsWalk, g
  <1>10. within[m] = {x \in S : root \in lineage[x]}
    BY ONLY <1>7, <1>9, <1>12, <1>14, <1>15, LineageSpreads
  <1>11. QED
    BY <1>8, <1>10 DEF m, S, Descendants

-----------------------------------------------------------------------------
(* The walk from a block to the highest committed one.                     *)

\* The block at a height of a lineage.
At(b, h) == CHOOSE a \in lineage[b] : Contents[a].height = h

\* A lineage, from the block to the oldest one.
Line(b) == [i \in 1 .. Contents[b].height + 1 |-> At(b, Contents[b].height + 1 - i)]

\* A lineage has one block at every height up to its own.
LEMMA AtFacts ==
  ASSUME NEW b \in Blocks, NEW h \in 0 .. Contents[b].height
  PROVE  /\ At(b, h) \in lineage[b] /\ Contents[At(b, h)].height = h
         /\ \A a \in lineage[b] : Contents[a].height = h => a = At(b, h)
  <1>1. \E a \in lineage[b] : Contents[a].height = h
    BY LineageFacts
  <1>2. At(b, h) \in lineage[b] /\ Contents[At(b, h)].height = h
    BY <1>1 DEF At
  <1>3. QED
    BY <1>2, LineageFacts

\* Functions that agree on their domain are the same.
LEMMA SameFunction ==
  ASSUME NEW S, NEW T, NEW f \in [S -> T], NEW g \in [S -> T], \A x \in S : f[x] = g[x]
  PROVE  f = g
  OBVIOUS

\* The line of a block begins with the block and goes on with the line of its
\* parent.
LEMMA LineFacts ==
  ASSUME NEW b \in Blocks
  PROVE  /\ Line(b) \in Seq(Blocks) /\ Len(Line(b)) = Contents[b].height + 1
         /\ \A i \in 1 .. Contents[b].height + 1 :
              Line(b)[i] \in lineage[b] /\ Contents[Line(b)[i]].height = Contents[b].height + 1 - i
         /\ Line(b)[1] = b
         /\ Line(b) = IF Parent(b) = 0 THEN <<b>> ELSE <<b>> \o Line(Parent(b))
  <1> DEFINE h == Contents[b].height
             p == Parent(b)
  <1>1. h \in Nat /\ b \in lineage[b] /\ \A a \in lineage[b] : a \in Blocks
    BY BlockFacts, LineageFacts
  <1>2. ASSUME NEW i \in 1 .. h + 1
        PROVE  /\ Line(b)[i] = At(b, h + 1 - i) /\ h + 1 - i \in 0 .. h
               /\ Line(b)[i] \in lineage[b] /\ Contents[Line(b)[i]].height = h + 1 - i
    <2>1. Line(b)[i] = At(b, h + 1 - i)
      BY DEF Line
    <2>2. h + 1 - i \in 0 .. h
      BY <1>1
    <2>3. QED
      BY <2>1, <2>2, AtFacts
  <1>3. Line(b) \in Seq(Blocks) /\ Len(Line(b)) = h + 1
    <2>1. Line(b) = [i \in 1 .. h + 1 |-> Line(b)[i]]
      BY DEF Line
    <2>2. \A i \in 1 .. h + 1 : Line(b)[i] \in Blocks
      BY <1>1, <1>2
    <2> HIDE DEF h
    <2>3. Line(b) \in [1 .. h + 1 -> Blocks]
      BY <2>1, <2>2
    <2>4. QED
      BY <1>1, <2>3
  <1>4. Line(b)[1] = b
    <2>1. 1 \in 1 .. h + 1 /\ h + 1 - 1 = h
      BY <1>1
    <2>2. Line(b)[1] \in lineage[b] /\ Contents[Line(b)[1]].height = h
      BY <1>2, <2>1
    <2>3. QED
      BY <1>1, <2>2, LineageFacts
  <1>5. CASE p = 0
    <2>1. h = 0
      BY <1>5, BlockFacts
    <2>2. Line(b) = <<b>>
      BY <1>3, <1>4, <2>1
    <2>3. QED
      BY <1>2, <1>3, <1>4, <1>5, <2>2
  <1>6. CASE p # 0
    <2>1. p \in Blocks /\ h = Contents[p].height + 1 /\ Contents[p].height \in Nat
      BY <1>6, BlockFacts
    <2>2. lineage[b] = {b} \cup lineage[p]
      BY LineageFacts
    <2>3. ASSUME NEW i \in 1 .. h
          PROVE  Line(p)[i] = Line(b)[i + 1]
      <3>1. Line(p)[i] = At(p, h - i) /\ h - i \in 0 .. Contents[p].height
        BY <2>1 DEF Line
      <3>2. At(p, h - i) \in lineage[b] /\ Contents[At(p, h - i)].height = h - i
        BY <2>1, <2>2, <3>1, AtFacts
      <3>3. i + 1 \in 1 .. h + 1 /\ h + 1 - (i + 1) = h - i /\ h - i \in 0 .. h
        BY <1>1
      <3>4. Line(b)[i + 1] = At(b, h - i)
        BY <1>2, <3>3
      <3>5. At(p, h - i) = At(b, h - i)
        BY <3>2, <3>3, AtFacts
      <3>6. QED
        BY <3>1, <3>4, <3>5
    <2>4. DOMAIN Line(p) = 1 .. h
      BY <2>1 DEF Line
    <2>5. Line(p) \in Seq(Blocks) /\ Len(Line(p)) = h
      <3>1. \A i \in 1 .. h : Line(p)[i] \in Blocks
        <4>1. \A i \in 1 .. h : i + 1 \in 1 .. h + 1
          BY <1>1
        <4>2. QED
          BY <1>1, <1>2, <2>3, <4>1
      <3>2. Line(p) = [i \in 1 .. h |-> Line(p)[i]]
        BY <2>1 DEF Line
      <3> HIDE DEF h, p
      <3>3. Line(p) \in [1 .. h -> Blocks]
        BY <3>1, <3>2
      <3>4. QED
        BY <1>1, <3>3
    <2>6. Line(b) = <<b>> \o Line(p)
      <3>1. <<b>> \o Line(p) \in Seq(Blocks) /\ Len(<<b>> \o Line(p)) = h + 1
        BY <1>1, <2>5
      <3>2. ASSUME NEW i \in 1 .. h + 1
            PROVE  (<<b>> \o Line(p))[i] = Line(b)[i]
        <4>1. CASE i = 1
          BY <1>4, <2>5, <4>1
        <4>2. CASE i # 1
          <5>1. i - 1 \in 1 .. h /\ (i - 1) + 1 = i
            BY <1>1, <4>2
          <5>2. (<<b>> \o Line(p))[i] = Line(p)[i - 1]
            BY <2>5, <4>2, <5>1
          <5>3. QED
            BY <2>3, <5>1, <5>2
        <4>3. QED
          BY <4>1, <4>2
      <3> DEFINE longer == <<b>> \o Line(p)
      <3>3. Line(b) \in [1 .. h + 1 -> Blocks] /\ longer \in [1 .. h + 1 -> Blocks]
        <4> HIDE DEF h, longer
        <4>1. \A s \in Seq(Blocks) : Len(s) = h + 1 => s \in [1 .. h + 1 -> Blocks]
          OBVIOUS
        <4>2. QED
          BY <1>3, <3>1, <4>1 DEF longer
      <3>4. \A i \in 1 .. h + 1 : longer[i] = Line(b)[i]
        BY <3>2
      <3> HIDE DEF h, p, longer
      <3>5. Line(b) = longer
        <4> DEFINE S == 1 .. h + 1
        <4>1. Line(b) \in [S -> Blocks] /\ longer \in [S -> Blocks] /\ \A i \in S : longer[i] = Line(b)[i]
          BY <3>3, <3>4
        <4> HIDE DEF S
        <4>2. QED
          BY <4>1, SameFunction
      <3>6. QED
        BY <3>5 DEF longer
    <2>7. QED
      BY <1>2, <1>3, <1>4, <1>6, <2>6
  <1>7. QED
    BY <1>5, <1>6

\* What the getters find of a block in the store.
LEMMA StoredBlock ==
  ASSUME NEW store, StoreOK(store), NEW b \in Stored(store)
  PROVE  /\ b \in Blocks
         /\ the(block_height(store, b)) = Contents[b].height
         /\ the(block_justify(store, b)) = Contents[b].justify
         /\ block_height(store, b) = {Contents[b].height}
         /\ block_justify(store, b) = {Contents[b].justify}
         /\ block_data_len(store, b) = {Len(Datums(b))}
         /\ Parent(b) \in Stored(store) \cup {0}
  <1>1. b \in Blocks /\ HoldsBlock(store, b) /\ Parent(b) \in Stored(store) \cup {0}
    BY DEF Stored, StoreOK
  <1>2. QED
    BY <1>1, TheOnly DEF HoldsBlock

\* The walk over the justifies passes the lineage.
LEMMA AncestorsAreLine ==
  ASSUME NEW store, StoreOK(store), NEW b \in Stored(store)
  PROVE  ancestors(store, b) = Line(b)
  <1> DEFINE parents(c) == {pc.block : pc \in block_justify(store, c) \ {Tree!genesis_pc}}
             IsWalk(f) == f = [c \in Nat |-> IF parents(c) = {} THEN <<c>> ELSE <<c>> \o f[the(parents(c))]]
             from == CHOOSE f : IsWalk(f)
             g == [c \in Nat |-> IF c \in Stored(store) THEN Line(c) ELSE <<c>>]
  <1>1. \A c \in Stored(store) : c \in Blocks /\ c \in Nat
    BY BlockFacts DEF Stored
  <1>2. ASSUME NEW c \in Stored(store)
        PROVE  /\ Parent(c) = 0 => parents(c) = {}
               /\ Parent(c) # 0 => /\ parents(c) = {Parent(c)} /\ the(parents(c)) = Parent(c)
                                   /\ Parent(c) \in Stored(store)
    <2>1. block_justify(store, c) = {Contents[c].justify} /\ Parent(c) \in Stored(store) \cup {0}
      BY StoredBlock
    <2>2. Parent(c) = 0 <=> Contents[c].justify = Tree!genesis_pc
      BY <1>1, BlockFacts DEF Tree!is_genesis_pc
    <2>3. Parent(c) # 0 => parents(c) = {Parent(c)}
      BY <2>1, <2>2 DEF Parent
    <2>4. QED
      BY <2>1, <2>2, <2>3, TheOnly
  <1>3. ASSUME NEW c \in Nat, c \notin Stored(store)
        PROVE  parents(c) = {}
    <2>1. CASE c \in Blocks
      <3>1. <<"BLOCKS", c, "JUSTIFY">> \in BlockKeys(c)
        BY DEF BlockKeys, BlockFields
      <3>2. block_justify(store, c) = {}
        BY <1>3, <2>1, <3>1 DEF StoreOK, block_justify
      <3>3. QED
        BY <3>2
    <2>2. CASE c \notin Blocks
      <3> DEFINE key == <<"BLOCKS", c, "JUSTIFY">>
      <3>1. key \notin DOMAIN store
        <4>1. key[1] = "BLOCKS" /\ key[2] = c
          OBVIOUS
        <4> HIDE DEF key
        <4>2. QED
          BY <2>2, <4>1 DEF StoreOK, IsKey
      <3>2. block_justify(store, c) = {}
        BY <3>1 DEF block_justify, get
      <3>3. QED
        BY <3>2
    <2>3. QED
      BY <2>1, <2>2
  <1> HIDE DEF parents
  <1>4. ASSUME NEW c \in Nat
        PROVE  g[c] = IF parents(c) = {} THEN <<c>> ELSE <<c>> \o g[the(parents(c))]
    <2>1. CASE c \notin Stored(store)
      BY <1>3, <2>1
    <2>2. CASE c \in Stored(store) /\ Parent(c) = 0
      BY <1>1, <1>2, <2>2, LineFacts
    <2>3. CASE c \in Stored(store) /\ Parent(c) # 0
      <3>1. g[c] = Line(c) /\ g[Parent(c)] = Line(Parent(c))
        BY <1>1, <1>2, <2>3
      <3>2. Line(c) = <<c>> \o Line(Parent(c))
        BY <1>1, <2>3, LineFacts
      <3> HIDE DEF g
      <3>3. QED
        BY <1>2, <2>3, <3>1, <3>2
    <2>4. QED
      BY <2>1, <2>2, <2>3
  <1>5. IsWalk(g)
    <2>1. g = [c \in Nat |-> g[c]]
      OBVIOUS
    <2> HIDE DEF g
    <2>2. QED
      BY <1>4, <2>1
  <1>6. IsWalk(from)
    <2> HIDE DEF g, IsWalk
    <2>1. QED
      BY <1>5
  <1>7. \A c \in Nat : from[c] = IF parents(c) = {} THEN <<c>> ELSE <<c>> \o from[the(parents(c))]
    <2> HIDE DEF from
    <2>1. QED
      BY <1>6
  <1>8. ancestors(store, b) = from[b]
    BY Zenon DEF ancestors, parents
  <1> HIDE DEF from, g, IsWalk
  <1> DEFINE n == Len(Contents)
             T == {c \in Blocks : c \in Stored(store) => from[c] = Line(c)}
  <1>9. n \in Nat /\ Blocks = 1 .. n /\ Descends(Up, n) /\ \A c \in Blocks : Up[c] = Parent(c)
    BY BlocksAreForest DEF Up
  <1>10. ASSUME NEW c \in Blocks, Up[c] # 0 => Up[c] \in T
         PROVE  c \in T
    <2>1. CASE c \in Stored(store)
      <3>1. from[c] = IF parents(c) = {} THEN <<c>> ELSE <<c>> \o from[the(parents(c))]
        BY <1>1, <1>7, <2>1
      <3>2. Line(c) = IF Parent(c) = 0 THEN <<c>> ELSE <<c>> \o Line(Parent(c))
        BY LineFacts
      <3>3. Parent(c) # 0 => from[Parent(c)] = Line(Parent(c))
        BY <1>2, <1>9, <1>10, <2>1
      <3>4. from[c] = Line(c)
        BY <1>2, <2>1, <3>1, <3>2, <3>3
      <3>5. QED
        BY <3>4
    <2>2. QED
      BY <2>1
  <1>11. T \in SUBSET (1 .. n)
    BY <1>9
  <1> HIDE DEF T, n
  <1>12. T = 1 .. n
    BY <1>9, <1>10, <1>11, ForestInduction
  <1>13. from[b] = Line(b)
    BY <1>1, <1>9, <1>12 DEF T
  <1>14. QED
    BY <1>8, <1>13

\* The blocks that committing b commits.
Uncommitted(store, b) ==
  {a \in lineage[b] : \A h \in highest_committed_block_height(store) : h < Contents[a].height}

\* The walk until the highest committed block passes exactly these.
LEMMA ChainFacts ==
  ASSUME NEW store, StoreOK(store), NEW b \in Stored(store),
         \A h \in highest_committed_block_height(store) : h < Contents[b].height
  PROVE  \E m \in Nat :
           /\ m > 0 /\ m <= Contents[b].height + 1
           /\ uncommitted_ancestors(store, b) \in Seq(Blocks)
           /\ Len(uncommitted_ancestors(store, b)) = m
           /\ \A i \in 1 .. m : /\ uncommitted_ancestors(store, b)[i] \in Uncommitted(store, b)
                                /\ Contents[uncommitted_ancestors(store, b)[i]].height
                                   = Contents[b].height + 1 - i
           /\ uncommitted_ancestors(store, b)[1] = b
           /\ \A a \in Uncommitted(store, b) : \E i \in 1 .. m : uncommitted_ancestors(store, b)[i] = a
  <1> DEFINE H == Contents[b].height
             chain == Line(b)
             committed == highest_committed_block_height(store)
             ends == {i \in DOMAIN chain : \E h \in committed : the(block_height(store, chain[i])) <= h}
             s == uncommitted_ancestors(store, b)
  <1>1. b \in Blocks /\ H \in Nat /\ \A a \in lineage[b] : a \in Blocks /\ Contents[a].height \in Nat
                                                          /\ Contents[a].height <= H
    <2>1. b \in Blocks /\ H \in Nat
      BY BlockFacts DEF Stored
    <2>2. \A a \in lineage[b] : a \in Blocks /\ (a = b \/ Contents[a].height < H)
      BY <2>1, LineageFacts
    <2>3. QED
      BY <2>1, <2>2, BlockFacts
  <1>2. /\ chain \in Seq(Blocks) /\ Len(chain) = H + 1 /\ DOMAIN chain = 1 .. H + 1 /\ chain[1] = b
        /\ \A i \in 1 .. H + 1 : chain[i] \in lineage[b] /\ Contents[chain[i]].height = H + 1 - i
    <2>1. /\ chain \in Seq(Blocks) /\ Len(chain) = H + 1 /\ chain[1] = b
          /\ \A i \in 1 .. H + 1 : chain[i] \in lineage[b] /\ Contents[chain[i]].height = H + 1 - i
      BY <1>1, LineFacts
    <2> HIDE DEF chain, H
    <2>2. QED
      BY <2>1
  <1>3. \A i \in 1 .. H + 1 : the(block_height(store, chain[i])) = H + 1 - i
    BY <1>1, <1>2, StoredLineage, StoredBlock
  <1>4. s = IF ends = {} THEN chain ELSE SubSeq(chain, 1, Min(ends) - 1)
    BY AncestorsAreLine DEF uncommitted_ancestors
  <1>5. \A i : i \in ends <=> i \in 1 .. H + 1 /\ \E h \in committed : H + 1 - i <= h
    BY <1>2, <1>3
  <1>6. committed = {} \/ \E h \in Nat : committed = {h} /\ h < H
    <2>1. CASE highest_committed_block(store) = {}
      BY <2>1 DEF highest_committed_block_height
    <2>2. CASE \E c \in Stored(store) : highest_committed_block(store) = {c}
      <3>1. PICK c \in Stored(store) : highest_committed_block(store) = {c}
        BY <2>2
      <3>2. committed = block_height(store, c)
        BY <3>1 DEF highest_committed_block_height
      <3>3. committed = {Contents[c].height} /\ Contents[c].height \in Nat
        BY <3>2, StoredBlock, BlockFacts
      <3>4. QED
        BY <3>3
    <2>3. QED
      BY <2>1, <2>2 DEF StoreOK
  <1> HIDE DEF chain, committed, ends, s, H
  <1>7. \E m \in Nat : /\ m > 0 /\ m <= H + 1 /\ s = SubSeq(chain, 1, m)
                       /\ \A i \in 1 .. H + 1 : i <= m <=> \A h \in committed : h < H + 1 - i
    <2>1. CASE committed = {}
      <3>1. ends = {}
        BY <1>5, <2>1
      <3>2. s = chain /\ SubSeq(chain, 1, H + 1) = chain
        BY <1>1, <1>2, <1>4, <3>1
      <3>3. H + 1 \in Nat /\ H + 1 > 0 /\ \A i \in 1 .. H + 1 : i <= H + 1
        BY <1>1
      <3>4. QED
        BY <2>1, <3>2, <3>3
    <2>2. CASE committed # {}
      <3>1. PICK h \in Nat : committed = {h} /\ h < H
        BY <1>6, <2>2
      <3>2. H + 1 - h \in ends /\ \A i \in ends : H + 1 - h <= i
        BY <1>1, <1>5, <3>1
      <3>3. Min(ends) = H + 1 - h
        <4>1. \A i \in ends : i \in Int
          BY <1>5
        <4>2. \A x \in ends : (\A y \in ends : x <= y) => x = H + 1 - h
          BY <1>1, <3>1, <3>2, <4>1
        <4>3. QED
          BY <3>2, <4>2 DEF Min
      <3>4. s = SubSeq(chain, 1, H - h)
        <4>1. ends # {}
          BY <3>2
        <4>2. Min(ends) - 1 = H - h
          BY <1>1, <3>1, <3>3
        <4>3. QED
          BY <1>4, <4>1, <4>2
      <3>5. /\ H - h \in Nat /\ H - h > 0 /\ H - h <= H + 1
            /\ \A i \in 1 .. H + 1 : i <= H - h <=> h < H + 1 - i
        BY <1>1, <3>1
      <3>6. QED
        BY <3>1, <3>4, <3>5
    <2>3. QED
      BY <2>1, <2>2
  <1>8. PICK m \in Nat : /\ m > 0 /\ m <= H + 1 /\ s = SubSeq(chain, 1, m)
                         /\ \A i \in 1 .. H + 1 : i <= m <=> \A h \in committed : h < H + 1 - i
    BY <1>7
  <1>9. s \in Seq(Blocks) /\ Len(s) = m /\ \A i \in 1 .. m : s[i] = chain[i] /\ i \in 1 .. H + 1
    BY <1>1, <1>2, <1>8
  <1>10. ASSUME NEW i \in 1 .. m
         PROVE  s[i] \in Uncommitted(store, b) /\ Contents[s[i]].height = H + 1 - i
    <2>1. s[i] \in lineage[b] /\ Contents[s[i]].height = H + 1 - i /\ \A h \in committed : h < H + 1 - i
      BY <1>2, <1>8, <1>9
    <2>2. QED
      BY <2>1 DEF Uncommitted, committed
  <1>11. ASSUME NEW a \in Uncommitted(store, b)
         PROVE  \E i \in 1 .. m : s[i] = a
    <2> DEFINE i == H + 1 - Contents[a].height
    <2>1. /\ a \in lineage[b] /\ Contents[a].height \in Nat /\ Contents[a].height <= H
          /\ \A h \in committed : h < Contents[a].height
      BY <1>1 DEF Uncommitted, committed
    <2>2. i \in 1 .. H + 1 /\ H + 1 - i = Contents[a].height
      BY <1>1, <2>1
    <2>3. chain[i] \in lineage[b] /\ Contents[chain[i]].height = Contents[a].height
      BY <1>2, <2>2
    <2>4. chain[i] = a
      BY <1>1, <2>1, <2>3, LineageFacts
    <2>5. i \in 1 .. m
      BY <1>8, <2>1, <2>2
    <2>6. QED
      BY <1>9, <2>4, <2>5
  <1>12. s[1] = b
    BY <1>2, <1>8, <1>9
  <1>13. QED
    BY <1>8, <1>9, <1>10, <1>11, <1>12 DEF s, H

-----------------------------------------------------------------------------
(* What is deleted.                                                        *)

\* All that is kept of a block.
KeysOf(x) ==
  BlockKeys(x) \cup {<<"BLOCK_TO_CHILDREN", x>>, <<"PENDING_APP_STATE_UPDATES", x>>,
                     <<"VALIDATOR_SET_UPDATES_STATUS", x>>}

Siblings(store, c) == {s \in Stored(store) : Parent(s) = Parent(c) /\ s # c}

\* The blocks below the siblings of a block.
Pruned(store, c) == UNION {Descendants(store, s) : s \in Siblings(store, c)}

\* Deleting a branch deletes all that is kept of what lies below its root.
LEMMA DeletesBranch ==
  ASSUME NEW store, StoreOK(store), NEW root \in Stored(store)
  PROVE  DOMAIN delete_branch(store, root) = UNION {KeysOf(x) : x \in Descendants(store, root)}
  <1> DEFINE DeleteOne(c) ==
        InOrder(<<delete_children(c),
                  delete_pending_app_state_updates(c),
                  delete_block_validator_set_updates(c),
                  IfSome(block_data_len(store, c), LAMBDA len : delete_block(c, len))>>)
  <1>1. ASSUME NEW c \in Stored(store)
        PROVE  DOMAIN DeleteOne(c) = KeysOf(c)
    <2> DEFINE x == delete_children(c)
               y == delete_pending_app_state_updates(c)
               z == delete_block_validator_set_updates(c)
               w == IfSome(block_data_len(store, c), LAMBDA len : delete_block(c, len))
               batches == <<x, y, z, w>>
    <2>1. /\ DOMAIN x = {<<"BLOCK_TO_CHILDREN", c>>}
          /\ DOMAIN y = {<<"PENDING_APP_STATE_UPDATES", c>>}
          /\ DOMAIN z = {<<"VALIDATOR_SET_UPDATES_STATUS", c>>}
      BY DEF delete_children, delete_pending_app_state_updates, delete_block_validator_set_updates, delete
    <2>2. DOMAIN w = BlockKeys(c)
      <3>1. block_data_len(store, c) = {Len(Datums(c))}
        BY StoredBlock
      <3>2. w = delete_block(c, Len(Datums(c)))
        BY <3>1, TheOnly DEF IfSome
      <3>3. DOMAIN delete_block(c, Len(Datums(c))) = BlockKeys(c)
        BY DEF delete_block, delete, BlockKeys, BlockFields
      <3>4. QED
        BY <3>2, <3>3
    <2> HIDE DEF x, y, z, w
    <2>3. /\ DOMAIN batches = 1 .. 4
          /\ batches[1] = x /\ batches[2] = y /\ batches[3] = z /\ batches[4] = w
      OBVIOUS
    <2>4. DeleteOne(c) = InOrder(batches)
      BY DEF x, y, z, w
    <2> HIDE DEF batches, DeleteOne
    <2>5. DOMAIN InOrder(batches) = DOMAIN x \cup DOMAIN y \cup DOMAIN z \cup DOMAIN w
      <3>1. DOMAIN InOrder(batches) = UNION {DOMAIN batches[i] : i \in 1 .. 4}
        BY <2>3 DEF InOrder
      <3>2. QED
        BY <2>3, <3>1
    <2>6. QED
      BY <2>1, <2>2, <2>4, <2>5 DEF KeysOf
  <1>2. delete_branch(store, root) =
          delete(UNION {DOMAIN DeleteOne(c) : c \in blocks_in_branch(store, root)})
    BY DEF delete_branch
  <1>3. blocks_in_branch(store, root) = Descendants(store, root) /\ Descendants(store, root) \subseteq Stored(store)
    BY BranchIsDescendants DEF Descendants
  <1> HIDE DEF DeleteOne
  <1>4. QED
    BY <1>1, <1>2, <1>3 DEF delete

\* The children of the parent of a block in the store.
LEMMA StoredSiblings ==
  ASSUME NEW store, StoreOK(store), NEW c \in Stored(store)
  PROVE  ToSet(the(children(store, the(block_justify(store, c)).block))) \ {c} = Siblings(store, c)
  <1>1. the(block_justify(store, c)).block = Parent(c)
    BY StoredBlock DEF Parent
  <1>2. PICK list : /\ children(store, Parent(c)) = {list}
                    /\ ToSet(list) = {b \in Stored(store) : Parent(b) = Parent(c)}
    BY DEF StoreOK, ChildrenOK
  <1>3. QED
    BY <1>1, <1>2, TheOnly DEF Siblings

\* Deleting the siblings of a block: what is pruned is deleted, and the parent
\* is left with the one child.
LEMMA DeletesSiblings ==
  ASSUME NEW store, StoreOK(store), NEW c \in Stored(store)
  PROVE  LET wb     == delete_siblings(store, c)
             doomed == UNION {KeysOf(x) : x \in Pruned(store, c)}
             key    == <<"BLOCK_TO_CHILDREN", Parent(c)>>
         IN  /\ DOMAIN wb = doomed \cup {key}
             /\ wb[key] = {<<c>>}
             /\ \A k \in doomed : k # key => wb[k] = {}
  <1> DEFINE parent == the(block_justify(store, c)).block
             siblings == ToSet(the(children(store, parent))) \ {c}
             keys == UNION {DOMAIN delete_branch(store, s) : s \in siblings}
             doomed == UNION {KeysOf(x) : x \in Pruned(store, c)}
             key == <<"BLOCK_TO_CHILDREN", Parent(c)>>
  <1>1. parent = Parent(c) /\ siblings = Siblings(store, c)
    BY StoredSiblings, StoredBlock DEF Parent
  <1>2. delete_siblings(store, c) = Then(delete(keys), set_children(parent, <<c>>))
    BY DEF delete_siblings
  <1>3. keys = doomed
    <2>1. \A s \in Siblings(store, c) :
            DOMAIN delete_branch(store, s) = UNION {KeysOf(x) : x \in Descendants(store, s)}
      BY DeletesBranch DEF Siblings
    <2> HIDE DEF siblings
    <2>2. keys = UNION {DOMAIN delete_branch(store, s) : s \in Siblings(store, c)}
      BY <1>1
    <2> HIDE DEF keys
    <2>3. ASSUME NEW k \in keys PROVE k \in doomed
      <3>1. PICK s \in Siblings(store, c) : k \in DOMAIN delete_branch(store, s)
        BY <2>2
      <3>5. k \in UNION {KeysOf(x) : x \in Descendants(store, s)}
        BY <2>1, <3>1
      <3>2. PICK x \in Descendants(store, s) : k \in KeysOf(x)
        BY <3>5
      <3>3. x \in Pruned(store, c)
        BY <3>1, <3>2 DEF Pruned
      <3>4. QED
        BY <3>2, <3>3
    <2>4. ASSUME NEW k \in doomed PROVE k \in keys
      <3>1. PICK x \in Pruned(store, c) : k \in KeysOf(x)
        BY <2>4
      <3>2. PICK s \in Siblings(store, c) : x \in Descendants(store, s)
        BY <3>1 DEF Pruned
      <3>3. k \in DOMAIN delete_branch(store, s)
        BY <2>1, <3>1, <3>2
      <3>4. QED
        BY <2>2, <3>2, <3>3
    <2> HIDE DEF doomed
    <2>5. QED
      BY <2>3, <2>4
  <1>4. /\ DOMAIN delete(keys) = keys /\ \A k \in keys : delete(keys)[k] = {}
        /\ DOMAIN set_children(parent, <<c>>) = {key} /\ set_children(parent, <<c>>)[key] = {<<c>>}
    <2> HIDE DEF keys, parent
    <2>1. QED
      BY <1>1 DEF delete, set_children, set
  <1> HIDE DEF keys, parent, siblings, doomed, key
  <1>5. QED
    BY <1>2, <1>3, <1>4 DEF Then, doomed, key

\* What is pruned is stored, below its siblings, and with all below it.
LEMMA PrunedFacts ==
  ASSUME NEW store, StoreOK(store), NEW b \in Stored(store), NEW c \in lineage[b]
  PROVE  /\ Pruned(store, c) \subseteq Stored(store)
         /\ Pruned(store, c) \cap lineage[b] = {}
         /\ 0 \notin Pruned(store, c)
         /\ Parent(c) \notin Pruned(store, c)
         /\ \A x \in Stored(store) : Parent(x) \in Pruned(store, c) => x \in Pruned(store, c)
         /\ \A x \in Stored(store) : Parent(x) = Parent(c) /\ x # c => x \in Pruned(store, c)
  <1>1. b \in Blocks /\ c \in Blocks /\ c \in Stored(store) /\ Parent(c) \in lineage[b] \cup {0}
    BY StoredLineage, LineageFacts DEF Stored
  <1>2. Pruned(store, c) \subseteq Stored(store) /\ \A x \in Stored(store) : x \in Blocks /\ x # 0
    BY BlockFacts DEF Pruned, Descendants, Stored
  <1>3. ASSUME NEW x \in Pruned(store, c), x \in lineage[b]
        PROVE  FALSE
    <2>1. PICK s \in Siblings(store, c) : s \in lineage[x]
      BY DEF Pruned, Descendants
    <2>2. s \in Blocks /\ Parent(s) = Parent(c) /\ s # c
      BY <1>2 DEF Siblings
    <2>3. Contents[s].height = Contents[c].height
      BY <1>1, <2>2, BlockFacts
    <2>4. s \in lineage[b]
      BY <1>1, <1>3, <2>1, LineageFacts
    <2>5. QED
      BY <1>1, <2>2, <2>3, <2>4, LineageFacts
  <1>4. ASSUME NEW x \in Stored(store), Parent(x) \in Pruned(store, c)
        PROVE  x \in Pruned(store, c)
    <2>1. PICK s \in Siblings(store, c) : s \in lineage[Parent(x)]
      BY <1>4 DEF Pruned, Descendants
    <2>2. s \in lineage[x]
      BY <1>2, <2>1, LineageFacts
    <2>3. QED
      BY <2>1, <2>2 DEF Pruned, Descendants
  <1>5. ASSUME NEW x \in Stored(store), Parent(x) = Parent(c), x # c
        PROVE  x \in Pruned(store, c)
    <2>1. x \in Siblings(store, c)
      BY <1>5 DEF Siblings
    <2>2. x \in lineage[x]
      BY <1>2, LineageFacts
    <2>3. QED
      BY <2>1, <2>2 DEF Pruned, Descendants
  <1>6. QED
    BY <1>1, <1>2, <1>3, <1>4, <1>5

-----------------------------------------------------------------------------
(* What committing one block writes.                                       *)

\* What a batch writes to a key: one value, a delete, or nothing.
Writes(wb, k) == IF k \in DOMAIN wb THEN {wb[k]} ELSE {}

\* A batch writes only keys of these variables.
WritesOnly(wb, variables) == \A k \in DOMAIN wb : k[1] \in variables

\* A set writes one value to one key.
LEMMA WritesSet ==
  ASSUME NEW key, NEW value, NEW k
  PROVE  /\ Writes(set(key, value), k) = IF k = key THEN {{value}} ELSE {}
         /\ WellFormed(set(key, value))
  BY DEF Writes, set, WellFormed

\* The empty batch writes nothing.
LEMMA WritesNothing ==
  ASSUME NEW k
  PROVE  Writes(EmptyBatch, k) = {} /\ WellFormed(EmptyBatch)
  BY DEF Writes, EmptyBatch, WellFormed

\* The batches of a sequence that do not write a key do not matter.
LEMMA WritesOne ==
  ASSUME NEW m \in Nat, NEW batches, DOMAIN batches = 1 .. m, NEW i \in 1 .. m, NEW k,
         \A j \in 1 .. m : j # i => k \notin DOMAIN batches[j]
  PROVE  Writes(InOrder(batches), k) = Writes(batches[i], k)
  <1>1. CASE k \in DOMAIN batches[i]
    <2>1. \A j \in DOMAIN batches : k \in DOMAIN batches[j] => j = i
      OBVIOUS
    <2>2. i \in DOMAIN batches /\ i \in Int
      OBVIOUS
    <2>3. QED
      BY <1>1, <2>1, <2>2, InOrderValue DEF Writes
  <1>2. CASE k \notin DOMAIN batches[i]
    <2>1. \A j \in 1 .. m : k \notin DOMAIN batches[j]
      BY <1>2
    <2>2. QED
      BY <1>2, <2>1, InOrderNone DEF Writes
  <1>3. QED
    BY <1>1, <1>2

\* Five batches, no two of which write a key.
LEMMA FiveApart ==
  ASSUME NEW a, NEW b, NEW c, NEW d, NEW e, NEW k,
         k \in DOMAIN a => k \notin DOMAIN b \cup DOMAIN c \cup DOMAIN d \cup DOMAIN e,
         k \in DOMAIN b => k \notin DOMAIN c \cup DOMAIN d \cup DOMAIN e,
         k \in DOMAIN c => k \notin DOMAIN d \cup DOMAIN e,
         k \in DOMAIN d => k \notin DOMAIN e
  PROVE  Writes(InOrder(<<a, b, c, d, e>>), k)
         = Writes(a, k) \cup Writes(b, k) \cup Writes(c, k) \cup Writes(d, k) \cup Writes(e, k)
  <1> DEFINE batches == <<a, b, c, d, e>>
  <1>1. /\ DOMAIN batches = 1 .. 5
        /\ batches[1] = a /\ batches[2] = b /\ batches[3] = c /\ batches[4] = d /\ batches[5] = e
    OBVIOUS
  <1> HIDE DEF batches
  <1>2. /\ k \notin DOMAIN a => Writes(a, k) = {}
        /\ k \notin DOMAIN b => Writes(b, k) = {}
        /\ k \notin DOMAIN c => Writes(c, k) = {}
        /\ k \notin DOMAIN d => Writes(d, k) = {}
        /\ k \notin DOMAIN e => Writes(e, k) = {}
    BY DEF Writes
  <1>3. ASSUME NEW i \in 1 .. 5, \A j \in 1 .. 5 : j # i => k \notin DOMAIN batches[j]
        PROVE  Writes(InOrder(batches), k) = Writes(batches[i], k)
    <2> DEFINE m == 5
    <2>1. /\ m \in Nat /\ DOMAIN batches = 1 .. m /\ i \in 1 .. m
          /\ \A j \in 1 .. m : j # i => k \notin DOMAIN batches[j]
      BY <1>1, <1>3
    <2> HIDE DEF m
    <2>2. QED
      BY <2>1, WritesOne
  <1>4. CASE k \notin DOMAIN b \cup DOMAIN c \cup DOMAIN d \cup DOMAIN e
    <2>1. \A j \in 1 .. 5 : j # 1 => k \notin DOMAIN batches[j]
      BY <1>1, <1>4
    <2>2. Writes(InOrder(batches), k) = Writes(a, k)
      BY <1>1, <1>3, <2>1
    <2>3. QED
      BY <1>2, <1>4, <2>2 DEF batches
  <1>5. CASE k \in DOMAIN b
    <2>1. \A j \in 1 .. 5 : j # 2 => k \notin DOMAIN batches[j]
      BY <1>1, <1>5
    <2>2. Writes(InOrder(batches), k) = Writes(b, k)
      BY <1>1, <1>3, <2>1
    <2>3. QED
      BY <1>2, <1>5, <2>2 DEF batches
  <1>6. CASE k \in DOMAIN c
    <2>1. \A j \in 1 .. 5 : j # 3 => k \notin DOMAIN batches[j]
      BY <1>1, <1>6
    <2>2. Writes(InOrder(batches), k) = Writes(c, k)
      BY <1>1, <1>3, <2>1
    <2>3. QED
      BY <1>2, <1>6, <2>2 DEF batches
  <1>7. CASE k \in DOMAIN d
    <2>1. \A j \in 1 .. 5 : j # 4 => k \notin DOMAIN batches[j]
      BY <1>1, <1>7
    <2>2. Writes(InOrder(batches), k) = Writes(d, k)
      BY <1>1, <1>3, <2>1
    <2>3. QED
      BY <1>2, <1>7, <2>2 DEF batches
  <1>8. CASE k \in DOMAIN e
    <2>1. \A j \in 1 .. 5 : j # 5 => k \notin DOMAIN batches[j]
      BY <1>1, <1>8
    <2>2. Writes(InOrder(batches), k) = Writes(e, k)
      BY <1>1, <1>3, <2>1
    <2>3. QED
      BY <1>2, <1>8, <2>2 DEF batches
  <1>9. QED
    BY <1>4, <1>5, <1>6, <1>7, <1>8

\* Five well-formed batches make one.
LEMMA FiveWellFormed ==
  ASSUME NEW a, NEW b, NEW c, NEW d, NEW e,
         WellFormed(a), WellFormed(b), WellFormed(c), WellFormed(d), WellFormed(e)
  PROVE  WellFormed(InOrder(<<a, b, c, d, e>>))
  <1> DEFINE batches == <<a, b, c, d, e>>
  <1>1. DOMAIN batches = 1 .. 5 /\ \A i \in 1 .. 5 : WellFormed(batches[i])
    OBVIOUS
  <1> HIDE DEF batches
  <1>2. WellFormed(InOrder(batches))
    BY <1>1, InOrderWellFormed
  <1>3. QED
    BY <1>2 DEF batches

\* The updates of the app state.
AppWrites(store, c) ==
  IfSome(pending_app_state_updates(store, c), LAMBDA updates :
           Then(apply_app_state_updates(updates), delete_pending_app_state_updates(c)))

\* They write the committed app state, and delete the pending updates of the
\* block alone.
LEMMA AppBatch ==
  ASSUME NEW store, StoreOK(store), NEW c \in Stored(store)
  PROVE  /\ WellFormed(AppWrites(store, c))
         /\ WritesOnly(AppWrites(store, c), {"COMMITTED_APP_STATE", "PENDING_APP_STATE_UPDATES"})
         /\ \A x : Writes(AppWrites(store, c), <<"PENDING_APP_STATE_UPDATES", x>>)
                   = IF x = c /\ pending_app_state_updates(store, c) # {} THEN {{}} ELSE {}
         /\ \A k \in DOMAIN AppWrites(store, c) : k[1] = "PENDING_APP_STATE_UPDATES" =>
                                                   k = <<"PENDING_APP_STATE_UPDATES", c>>
  <1> DEFINE pending == pending_app_state_updates(store, c)
             updates == the(pending)
             sets == [k \in {<<"COMMITTED_APP_STATE", key>> : key \in DOMAIN updates.inserts} |->
                        set_committed_app_state(k[2], updates.inserts[k[2]])[k]]
             deletes == [k \in {<<"COMMITTED_APP_STATE", key>> : key \in updates.deletes} |->
                           delete_committed_app_state(k[2])[k]]
             last == delete_pending_app_state_updates(c)
             some == Then(Then(sets, deletes), last)
             wb == IF pending = {} THEN EmptyBatch ELSE some
  <1>1. wb = AppWrites(store, c)
    BY DEF AppWrites, IfSome, apply_app_state_updates
  <1> HIDE DEF pending, updates
  <1>2. WellFormed(sets) /\ WritesOnly(sets, {"COMMITTED_APP_STATE"})
    <2>1. ASSUME NEW k \in DOMAIN sets
          PROVE  k[1] = "COMMITTED_APP_STATE" /\ \E x : sets[k] = {x}
      <3>1. PICK key \in DOMAIN updates.inserts : k = <<"COMMITTED_APP_STATE", key>>
        OBVIOUS
      <3>2. k[1] = "COMMITTED_APP_STATE" /\ k[2] = key
        BY <3>1
      <3>3. set_committed_app_state(key, updates.inserts[key])[k] = {updates.inserts[key]}
        BY <3>1 DEF set_committed_app_state, set
      <3>4. sets[k] = set_committed_app_state(k[2], updates.inserts[k[2]])[k]
        OBVIOUS
      <3> HIDE DEF sets
      <3>5. QED
        BY <3>2, <3>3, <3>4
    <2> HIDE DEF sets
    <2>2. QED
      BY <2>1 DEF WellFormed, WritesOnly
  <1>3. WellFormed(deletes) /\ WritesOnly(deletes, {"COMMITTED_APP_STATE"})
    BY DEF WellFormed, WritesOnly, delete_committed_app_state, delete
  <1>4. /\ WellFormed(last) /\ WritesOnly(last, {"PENDING_APP_STATE_UPDATES"})
        /\ \A x : Writes(last, <<"PENDING_APP_STATE_UPDATES", x>>) = IF x = c THEN {{}} ELSE {}
        /\ \A k \in DOMAIN last : k = <<"PENDING_APP_STATE_UPDATES", c>>
    BY DEF WellFormed, WritesOnly, Writes, delete_pending_app_state_updates, delete
  <1> HIDE DEF sets, deletes, last
  <1>5. WellFormed(Then(sets, deletes)) /\ WritesOnly(Then(sets, deletes), {"COMMITTED_APP_STATE"})
    BY <1>2, <1>3, ThenWellFormed DEF WritesOnly, Then
  <1> DEFINE both == Then(sets, deletes)
  <1> HIDE DEF both
  <1>6. WellFormed(Then(both, last))
    BY <1>4, <1>5, ThenWellFormed DEF both
  <1>7. WritesOnly(Then(both, last), {"COMMITTED_APP_STATE", "PENDING_APP_STATE_UPDATES"})
    BY <1>4, <1>5 DEF WritesOnly, Then, both
  <1>8. ASSUME NEW x
        PROVE  Writes(Then(both, last), <<"PENDING_APP_STATE_UPDATES", x>>) = IF x = c THEN {{}} ELSE {}
    <2> DEFINE k == <<"PENDING_APP_STATE_UPDATES", x>>
    <2>1. k \notin DOMAIN both
      <3>1. k[1] = "PENDING_APP_STATE_UPDATES"
        OBVIOUS
      <3> HIDE DEF k
      <3>2. QED
        BY <1>5, <3>1 DEF WritesOnly, both
    <2>2. Writes(last, k) = IF x = c THEN {{}} ELSE {}
      BY <1>4
    <2> HIDE DEF k
    <2>3. QED
      BY <2>1, <2>2 DEF Writes, Then, k
  <1>11. \A k \in DOMAIN Then(both, last) : k[1] = "PENDING_APP_STATE_UPDATES" =>
                                              k = <<"PENDING_APP_STATE_UPDATES", c>>
    BY <1>4, <1>5 DEF WritesOnly, Then, both
  <1>9. /\ WellFormed(wb)
        /\ WritesOnly(wb, {"COMMITTED_APP_STATE", "PENDING_APP_STATE_UPDATES"})
        /\ \A x : Writes(wb, <<"PENDING_APP_STATE_UPDATES", x>>)
                  = IF x = c /\ pending # {} THEN {{}} ELSE {}
        /\ \A k \in DOMAIN wb : k[1] = "PENDING_APP_STATE_UPDATES" =>
                                  k = <<"PENDING_APP_STATE_UPDATES", c>>
    <2>1. CASE pending = {}
      <3>1. wb = EmptyBatch
        BY <2>1
      <3> HIDE DEF wb
      <3>2. /\ WritesOnly(EmptyBatch, {"COMMITTED_APP_STATE", "PENDING_APP_STATE_UPDATES"})
            /\ DOMAIN EmptyBatch = {}
        BY DEF WritesOnly, EmptyBatch
      <3>3. QED
        BY <2>1, <3>1, <3>2, WritesNothing
    <2>2. CASE pending # {}
      <3>1. wb = Then(both, last)
        BY <2>2 DEF both
      <3> HIDE DEF wb
      <3>2. QED
        BY <1>6, <1>7, <1>8, <1>11, <2>2, <3>1
    <2>3. QED
      BY <2>1, <2>2
  <1> HIDE DEF wb
  <1>10. QED
    BY <1>1, <1>9 DEF pending

\* The updates that a block in the store has pending for the validator set.
LEMMA PendingOfBlock ==
  ASSUME NEW store, StoreOK(store), NEW c
  PROVE  \/ pending_validator_set_updates(store, c) = {}
         \/ /\ c \in Stored(store)
            /\ pending_validator_set_updates(store, c) = {UpdatesOf[Contents[c].data]}
            /\ the(pending_validator_set_updates(store, c)) = UpdatesOf[Contents[c].data]
  <1> DEFINE status == validator_set_updates_status(store, c)
             u == UpdatesOf[Contents[c].data]
  <1>1. pending_validator_set_updates(store, c) = UNION {s.updates : s \in status}
    BY DEF pending_validator_set_updates
  <1>2. \/ status = {} \/ status = {[updates |-> {}]}
        \/ status = {[updates |-> {u}]} /\ c \in Stored(store)
    BY DEF StoreOK, UpdatesOK
  <1> HIDE DEF status, u
  <1>3. CASE status = {}
    BY <1>1, <1>3
  <1>4. CASE status = {[updates |-> {}]}
    <2>1. {s.updates : s \in status} = {{}}
      BY <1>4
    <2>2. QED
      BY <1>1, <2>1
  <1>5. CASE status = {[updates |-> {u}]} /\ c \in Stored(store)
    <2>1. {s.updates : s \in status} = {{u}}
      BY <1>5
    <2>2. UNION {s.updates : s \in status} = {u}
      BY <2>1
    <2>3. QED
      BY <1>1, <1>5, <2>2, TheOnly DEF u
  <1>6. QED
    BY <1>2, <1>3, <1>4, <1>5

\* The updates of the validator set.
ValidatorVariables ==
  {"COMMITTED_VALIDATOR_SET", "PREVIOUS_VALIDATOR_SET", "VALIDATOR_SET_UPDATE_BLOCK_HEIGHT",
   "VALIDATOR_SET_UPDATE_DECIDED", "VALIDATOR_SET_UPDATES_STATUS"}

ValidatorWrites(cvs, pvs, h, b) ==
  InOrder(<<set_committed_validator_set(cvs),
            set_previous_validator_set(pvs),
            set_validator_set_update_block_height(h),
            set_validator_set_update_decided(FALSE),
            set_committed_validator_set_updates(b)>>)

\* What these writes are.
LEMMA ValidatorBatch ==
  ASSUME NEW cvs, NEW pvs, NEW h, NEW b
  PROVE  LET wb == ValidatorWrites(cvs, pvs, h, b)
         IN  /\ WellFormed(wb)
             /\ WritesOnly(wb, ValidatorVariables)
             /\ Writes(wb, <<"COMMITTED_VALIDATOR_SET">>) = {{cvs}}
             /\ Writes(wb, <<"PREVIOUS_VALIDATOR_SET">>) = {{pvs}}
             /\ Writes(wb, <<"VALIDATOR_SET_UPDATE_BLOCK_HEIGHT">>) = {{h}}
             /\ Writes(wb, <<"VALIDATOR_SET_UPDATE_DECIDED">>) = {{FALSE}}
             /\ \A x : Writes(wb, <<"VALIDATOR_SET_UPDATES_STATUS", x>>)
                       = IF x = b THEN {{[updates |-> {}]}} ELSE {}
             /\ \A k \in DOMAIN wb : k[1] = "VALIDATOR_SET_UPDATES_STATUS" =>
                                       k = <<"VALIDATOR_SET_UPDATES_STATUS", b>>
  <1> DEFINE v1 == set_committed_validator_set(cvs)
             v2 == set_previous_validator_set(pvs)
             v3 == set_validator_set_update_block_height(h)
             v4 == set_validator_set_update_decided(FALSE)
             v5 == set_committed_validator_set_updates(b)
             wb == InOrder(<<v1, v2, v3, v4, v5>>)
             k1 == <<"COMMITTED_VALIDATOR_SET">>
             k2 == <<"PREVIOUS_VALIDATOR_SET">>
             k3 == <<"VALIDATOR_SET_UPDATE_BLOCK_HEIGHT">>
             k4 == <<"VALIDATOR_SET_UPDATE_DECIDED">>
             k5 == <<"VALIDATOR_SET_UPDATES_STATUS", b>>
             done == [updates |-> {}]
  <1>1. /\ k1[1] = "COMMITTED_VALIDATOR_SET" /\ k2[1] = "PREVIOUS_VALIDATOR_SET"
        /\ k3[1] = "VALIDATOR_SET_UPDATE_BLOCK_HEIGHT" /\ k4[1] = "VALIDATOR_SET_UPDATE_DECIDED"
        /\ k5[1] = "VALIDATOR_SET_UPDATES_STATUS"
        /\ \A x : x # b => k5 # <<"VALIDATOR_SET_UPDATES_STATUS", x>>
        /\ \A x : <<"VALIDATOR_SET_UPDATES_STATUS", x>>[1] = "VALIDATOR_SET_UPDATES_STATUS"
    OBVIOUS
  <1>2. /\ v1 = set(k1, cvs) /\ v2 = set(k2, pvs) /\ v3 = set(k3, h) /\ v4 = set(k4, FALSE)
        /\ v5 = set(k5, done)
    BY DEF set_committed_validator_set, set_previous_validator_set,
           set_validator_set_update_block_height, set_validator_set_update_decided,
           set_committed_validator_set_updates
  <1> HIDE DEF v1, v2, v3, v4, v5, k1, k2, k3, k4, k5, done
  <1>3. /\ DOMAIN v1 = {k1} /\ DOMAIN v2 = {k2} /\ DOMAIN v3 = {k3} /\ DOMAIN v4 = {k4} /\ DOMAIN v5 = {k5}
    BY <1>2 DEF set
  <1>4. ASSUME NEW k
        PROVE  /\ Writes(v1, k) = IF k = k1 THEN {{cvs}} ELSE {}
               /\ Writes(v2, k) = IF k = k2 THEN {{pvs}} ELSE {}
               /\ Writes(v3, k) = IF k = k3 THEN {{h}} ELSE {}
               /\ Writes(v4, k) = IF k = k4 THEN {{FALSE}} ELSE {}
               /\ Writes(v5, k) = IF k = k5 THEN {{done}} ELSE {}
    BY <1>2, WritesSet, Zenon
  <1>5. WellFormed(v1) /\ WellFormed(v2) /\ WellFormed(v3) /\ WellFormed(v4) /\ WellFormed(v5)
    BY <1>2, WritesSet
  <1>6. ASSUME NEW k
        PROVE  Writes(wb, k) = Writes(v1, k) \cup Writes(v2, k) \cup Writes(v3, k) \cup Writes(v4, k)
                               \cup Writes(v5, k)
    <2>1. /\ k \in DOMAIN v1 => k \notin DOMAIN v2 \cup DOMAIN v3 \cup DOMAIN v4 \cup DOMAIN v5
          /\ k \in DOMAIN v2 => k \notin DOMAIN v3 \cup DOMAIN v4 \cup DOMAIN v5
          /\ k \in DOMAIN v3 => k \notin DOMAIN v4 \cup DOMAIN v5
          /\ k \in DOMAIN v4 => k \notin DOMAIN v5
      BY <1>1, <1>3
    <2>2. QED
      BY <2>1, FiveApart
  <1> HIDE DEF wb
  <1>7. WellFormed(wb)
    BY <1>5, FiveWellFormed DEF wb
  <1>8. ASSUME NEW k \in DOMAIN wb
        PROVE  k \in {k1, k2, k3, k4, k5}
    <2>1. Writes(wb, k) # {}
      BY DEF Writes
    <2>2. QED
      BY <1>4, <1>6, <2>1
  <1>9. /\ Writes(wb, k1) = {{cvs}} /\ Writes(wb, k2) = {{pvs}} /\ Writes(wb, k3) = {{h}}
        /\ Writes(wb, k4) = {{FALSE}}
    BY <1>1, <1>4, <1>6
  <1>10. ASSUME NEW x
         PROVE  Writes(wb, <<"VALIDATOR_SET_UPDATES_STATUS", x>>) = IF x = b THEN {{done}} ELSE {}
    <2> DEFINE k == <<"VALIDATOR_SET_UPDATES_STATUS", x>>
    <2>1. k[1] = "VALIDATOR_SET_UPDATES_STATUS" /\ (k = k5 <=> x = b)
      BY <1>1 DEF k5
    <2> HIDE DEF k
    <2>2. k # k1 /\ k # k2 /\ k # k3 /\ k # k4
      BY <1>1, <2>1
    <2>3. /\ Writes(v1, k) = {} /\ Writes(v2, k) = {} /\ Writes(v3, k) = {} /\ Writes(v4, k) = {}
          /\ Writes(v5, k) = IF k = k5 THEN {{done}} ELSE {}
      BY <1>4, <2>2
    <2>4. Writes(wb, k) = IF k = k5 THEN {{done}} ELSE {}
      BY <1>6, <2>3
    <2>5. QED
      BY <2>1, <2>4 DEF k
  <1>11. WritesOnly(wb, ValidatorVariables)
    BY <1>1, <1>8 DEF WritesOnly, ValidatorVariables
  <1>12. \A k \in DOMAIN wb : k[1] = "VALIDATOR_SET_UPDATES_STATUS" => k = k5
    BY <1>1, <1>8
  <1>13. QED
    BY <1>7, <1>9, <1>10, <1>11, <1>12
       DEF ValidatorWrites, wb, v1, v2, v3, v4, v5, k1, k2, k3, k4, k5, done

\* The keys of a block.
LEMMA KeysOfFacts ==
  ASSUME NEW x
  PROVE  /\ \A k \in BlockKeys(x) : k[1] = "BLOCKS" /\ k[2] = x
         /\ \A k \in KeysOf(x) : \/ k[1] = "BLOCKS" /\ k \in BlockKeys(x)
                                 \/ k = <<"BLOCK_TO_CHILDREN", x>>
                                 \/ k = <<"PENDING_APP_STATE_UPDATES", x>>
                                 \/ k = <<"VALIDATOR_SET_UPDATES_STATUS", x>>
         /\ \A k \in KeysOf(x) : k[1] \in {"BLOCKS", "BLOCK_TO_CHILDREN", "PENDING_APP_STATE_UPDATES",
                                           "VALIDATOR_SET_UPDATES_STATUS"}
         /\ \A k \in KeysOf(x) : k[1] = "BLOCKS" => k \in BlockKeys(x)
         /\ BlockKeys(x) \subseteq KeysOf(x)
         /\ \A p : <<"BLOCK_TO_CHILDREN", p>> \in KeysOf(x) <=> p = x
         /\ \A p : <<"PENDING_APP_STATE_UPDATES", p>> \in KeysOf(x) <=> p = x
         /\ \A p : <<"VALIDATOR_SET_UPDATES_STATUS", p>> \in KeysOf(x) <=> p = x
         /\ x \in Blocks => \A k \in KeysOf(x) : IsKey(k)
  <1>1. \A k \in BlockKeys(x) : k[1] = "BLOCKS" /\ k[2] = x
    BY DEF BlockKeys, datum_keys
  <1>2. ASSUME NEW k \in KeysOf(x)
        PROVE  \/ k[1] = "BLOCKS" /\ k[2] = x /\ k \in BlockKeys(x)
               \/ k = <<"BLOCK_TO_CHILDREN", x>>
               \/ k = <<"PENDING_APP_STATE_UPDATES", x>>
               \/ k = <<"VALIDATOR_SET_UPDATES_STATUS", x>>
    BY <1>1 DEF KeysOf
  <1>3. ASSUME NEW p
        PROVE  /\ <<"BLOCK_TO_CHILDREN", p>> \in KeysOf(x) <=> p = x
               /\ <<"PENDING_APP_STATE_UPDATES", p>> \in KeysOf(x) <=> p = x
               /\ <<"VALIDATOR_SET_UPDATES_STATUS", p>> \in KeysOf(x) <=> p = x
    <2>1. /\ <<"BLOCK_TO_CHILDREN", p>> \notin BlockKeys(x)
          /\ <<"PENDING_APP_STATE_UPDATES", p>> \notin BlockKeys(x)
          /\ <<"VALIDATOR_SET_UPDATES_STATUS", p>> \notin BlockKeys(x)
      BY <1>1
    <2>2. QED
      BY <2>1 DEF KeysOf
  <1>4. ASSUME NEW k \in KeysOf(x), x \in Blocks
        PROVE  IsKey(k)
    <2>1. CASE k[1] = "BLOCKS" /\ k[2] = x /\ k \in BlockKeys(x)
      BY <1>4, <2>1 DEF IsKey, Indexed
    <2>2. CASE k \in {<<"BLOCK_TO_CHILDREN", x>>, <<"PENDING_APP_STATE_UPDATES", x>>,
                      <<"VALIDATOR_SET_UPDATES_STATUS", x>>}
      BY <2>2 DEF IsKey, Indexed
    <2>3. QED
      BY <1>2, <2>1, <2>2
  <1>5. BlockKeys(x) \subseteq KeysOf(x)
    BY DEF KeysOf
  <1>6. ASSUME NEW k \in KeysOf(x)
        PROVE  /\ k[1] \in {"BLOCKS", "BLOCK_TO_CHILDREN", "PENDING_APP_STATE_UPDATES",
                            "VALIDATOR_SET_UPDATES_STATUS"}
               /\ k[1] = "BLOCKS" => k \in BlockKeys(x)
    BY <1>2
  <1>7. \A k \in KeysOf(x) : \/ k[1] = "BLOCKS" /\ k \in BlockKeys(x)
                             \/ k = <<"BLOCK_TO_CHILDREN", x>>
                             \/ k = <<"PENDING_APP_STATE_UPDATES", x>>
                             \/ k = <<"VALIDATOR_SET_UPDATES_STATUS", x>>
    BY <1>2
  <1>8. QED
    BY <1>1, <1>3, <1>4, <1>5, <1>6, <1>7

\* What deleting the siblings of a block writes.
SiblingVariables ==
  {"BLOCKS", "BLOCK_TO_CHILDREN", "PENDING_APP_STATE_UPDATES", "VALIDATOR_SET_UPDATES_STATUS"}

\* They delete all that is kept of the pruned blocks, and leave the block as
\* the only child of its parent.
LEMMA SiblingsBatch ==
  ASSUME NEW store, StoreOK(store), NEW c \in Stored(store)
  PROVE  LET wb == delete_siblings(store, c)
             P  == Pruned(store, c)
         IN  /\ WellFormed(wb)
             /\ WritesOnly(wb, SiblingVariables)
             /\ \A k \in DOMAIN wb : IsKey(k)
             /\ \A k : k[1] = "BLOCKS" =>
                  Writes(wb, k) = IF \E x \in P : k \in BlockKeys(x) THEN {{}} ELSE {}
             /\ \A p : Writes(wb, <<"BLOCK_TO_CHILDREN", p>>)
                       = IF p = Parent(c) THEN {{<<c>>}} ELSE IF p \in P THEN {{}} ELSE {}
             /\ \A x : Writes(wb, <<"PENDING_APP_STATE_UPDATES", x>>) = IF x \in P THEN {{}} ELSE {}
             /\ \A x : Writes(wb, <<"VALIDATOR_SET_UPDATES_STATUS", x>>) = IF x \in P THEN {{}} ELSE {}
  <1> DEFINE wb == delete_siblings(store, c)
             P == Pruned(store, c)
             doomed == UNION {KeysOf(x) : x \in P}
             key == <<"BLOCK_TO_CHILDREN", Parent(c)>>
  <1>1. /\ DOMAIN wb = doomed \cup {key} /\ wb[key] = {<<c>>}
        /\ \A k \in doomed : k # key => wb[k] = {}
    BY DeletesSiblings
  <1>2. P \subseteq Blocks
    BY DEF Pruned, Descendants, Stored
  <1>3. /\ key[1] = "BLOCK_TO_CHILDREN" /\ IsKey(key)
        /\ \A p : <<"BLOCK_TO_CHILDREN", p>> = key <=> p = Parent(c)
        /\ \A p : <<"PENDING_APP_STATE_UPDATES", p>> # key
        /\ \A p : <<"VALIDATOR_SET_UPDATES_STATUS", p>> # key
    BY DEF IsKey, Indexed
  <1> HIDE DEF wb, P, key
  <1>4. \A k : k \in doomed <=> \E x \in P : k \in KeysOf(x)
    OBVIOUS
  <1> HIDE DEF doomed
  <1>5. ASSUME NEW k
        PROVE  Writes(wb, k) = IF k = key THEN {{<<c>>}} ELSE IF k \in doomed THEN {{}} ELSE {}
    BY <1>1 DEF Writes
  <1>6. WellFormed(wb)
    BY <1>1 DEF WellFormed
  <1>7. WritesOnly(wb, SiblingVariables)
    BY <1>1, <1>3, <1>4, KeysOfFacts DEF WritesOnly, SiblingVariables
  <1>8. \A k \in DOMAIN wb : IsKey(k)
    BY <1>1, <1>2, <1>3, <1>4, KeysOfFacts
  <1>9. ASSUME NEW k, k[1] = "BLOCKS"
        PROVE  Writes(wb, k) = IF \E x \in P : k \in BlockKeys(x) THEN {{}} ELSE {}
    <2>1. k # key
      BY <1>3, <1>9
    <2>2. k \in doomed <=> \E x \in P : k \in BlockKeys(x)
      BY <1>4, <1>9, KeysOfFacts
    <2>3. QED
      BY <1>5, <2>1, <2>2
  <1>10. ASSUME NEW p
         PROVE  /\ <<"BLOCK_TO_CHILDREN", p>> \in doomed <=> p \in P
                /\ <<"PENDING_APP_STATE_UPDATES", p>> \in doomed <=> p \in P
                /\ <<"VALIDATOR_SET_UPDATES_STATUS", p>> \in doomed <=> p \in P
    BY <1>4, KeysOfFacts
  <1>11. ASSUME NEW p
         PROVE  /\ Writes(wb, <<"BLOCK_TO_CHILDREN", p>>)
                   = IF p = Parent(c) THEN {{<<c>>}} ELSE IF p \in P THEN {{}} ELSE {}
                /\ Writes(wb, <<"PENDING_APP_STATE_UPDATES", p>>) = IF p \in P THEN {{}} ELSE {}
                /\ Writes(wb, <<"VALIDATOR_SET_UPDATES_STATUS", p>>) = IF p \in P THEN {{}} ELSE {}
    BY <1>3, <1>5, <1>10
  <1>12. QED
    BY <1>6, <1>7, <1>8, <1>9, <1>11 DEF wb, P

\* The variables that a commit may write.
CommitVariables ==
  SiblingVariables \cup ValidatorVariables
  \cup {"BLOCK_AT_HEIGHT", "COMMITTED_APP_STATE", "HIGHEST_COMMITTED_BLOCK"}

HasUpdates(store, c) == pending_validator_set_updates(store, c) # {}

\* The validator set that committing a block makes the committed one.
NextValidatorSet(store, c) ==
  apply_updates(committed_validator_set(store), UpdatesOf[Contents[c].data])

\* What committing c on the way to b writes.
WritesBlock(wb, store, b, c) ==
  /\ WellFormed(wb)
  /\ WritesOnly(wb, CommitVariables)
  /\ \A k \in DOMAIN wb : IsKey(k)
  /\ \A k : k[1] = "BLOCKS" =>
       Writes(wb, k) = IF \E x \in Pruned(store, c) : k \in BlockKeys(x) THEN {{}} ELSE {}
  /\ \A p : Writes(wb, <<"BLOCK_TO_CHILDREN", p>>)
            = IF p = Parent(c) THEN {{<<c>>}} ELSE IF p \in Pruned(store, c) THEN {{}} ELSE {}
  /\ \A x : Writes(wb, <<"PENDING_APP_STATE_UPDATES", x>>)
            = IF x \in Pruned(store, c) \/ (x = c /\ pending_app_state_updates(store, c) # {})
              THEN {{}} ELSE {}
  /\ \A x : Writes(wb, <<"VALIDATOR_SET_UPDATES_STATUS", x>>)
            = IF x \in Pruned(store, c) THEN {{}}
              ELSE IF x = b /\ HasUpdates(store, c) THEN {{[updates |-> {}]}} ELSE {}
  /\ \A h : Writes(wb, <<"BLOCK_AT_HEIGHT", h>>) = IF h = Contents[c].height THEN {{c}} ELSE {}
  /\ Writes(wb, <<"COMMITTED_VALIDATOR_SET">>)
     = IF HasUpdates(store, c) THEN {{NextValidatorSet(store, c)}} ELSE {}
  /\ Writes(wb, <<"PREVIOUS_VALIDATOR_SET">>)
     = IF HasUpdates(store, c) THEN {{committed_validator_set(store)}} ELSE {}
  /\ Writes(wb, <<"VALIDATOR_SET_UPDATE_BLOCK_HEIGHT">>)
     = IF HasUpdates(store, c) THEN {{Contents[c].height}} ELSE {}
  /\ Writes(wb, <<"VALIDATOR_SET_UPDATE_DECIDED">>)
     = IF HasUpdates(store, c) THEN {{FALSE}} ELSE {}
  /\ Writes(wb, <<"HIGHEST_COMMITTED_BLOCK">>) = {{c}}

\* The writes of commit_one.
LEMMA CommitOneWrites ==
  ASSUME NEW store, StoreOK(store), NEW b \in Stored(store), NEW c \in lineage[b]
  PROVE  WritesBlock(commit_one(store, b, c), store, b, c)
  <1> DEFINE h == the(block_height(store, c))
             apply(updates) ==
               ValidatorWrites(apply_updates(committed_validator_set(store), updates),
                               committed_validator_set(store), h, b)
             wa == set_block_at_height(h, c)
             wd == delete_siblings(store, c)
             wu == AppWrites(store, c)
             wv == IfSome(pending_validator_set_updates(store, c), apply)
             we == set_highest_committed_block(c)
             wb == InOrder(<<wa, wd, wu, wv, we>>)
             P == Pruned(store, c)
  <1>1. c \in Stored(store) /\ c \in Blocks /\ b \in Blocks /\ h = Contents[c].height
    BY StoredLineage, StoredBlock DEF Stored
  <1>2. commit_one(store, b, c) = wb
    BY DEF commit_one, AppWrites, ValidatorWrites
  <1>3. P \cap lineage[b] = {} /\ b \in lineage[b] /\ P \subseteq Blocks
    BY <1>1, PrunedFacts, LineageFacts DEF Stored
  \* The heights.
  <1>4. /\ WellFormed(wa) /\ WritesOnly(wa, {"BLOCK_AT_HEIGHT"}) /\ \A k \in DOMAIN wa : IsKey(k)
        /\ \A x : Writes(wa, <<"BLOCK_AT_HEIGHT", x>>) = IF x = Contents[c].height THEN {{c}} ELSE {}
    <2> DEFINE key == <<"BLOCK_AT_HEIGHT", Contents[c].height>>
    <2>1. key[1] = "BLOCK_AT_HEIGHT" /\ IsKey(key)
          /\ \A x : <<"BLOCK_AT_HEIGHT", x>> = key <=> x = Contents[c].height
      BY DEF IsKey, Indexed
    <2>2. wa = set(key, c)
      BY <1>1 DEF set_block_at_height
    <2>3. DOMAIN set(key, c) = {key}
      BY DEF set
    <2> HIDE DEF wa, key
    <2>4. /\ \A x : Writes(wa, <<"BLOCK_AT_HEIGHT", x>>)
                    = IF <<"BLOCK_AT_HEIGHT", x>> = key THEN {{c}} ELSE {}
          /\ WellFormed(wa)
      BY <2>2, WritesSet
    <2>5. WritesOnly(wa, {"BLOCK_AT_HEIGHT"}) /\ \A k \in DOMAIN wa : IsKey(k)
      BY <2>1, <2>2, <2>3 DEF WritesOnly
    <2>6. QED
      BY <2>1, <2>4, <2>5
  \* The highest committed block.
  <1>5. /\ WellFormed(we) /\ WritesOnly(we, {"HIGHEST_COMMITTED_BLOCK"}) /\ \A k \in DOMAIN we : IsKey(k)
        /\ Writes(we, <<"HIGHEST_COMMITTED_BLOCK">>) = {{c}}
    <2> DEFINE key == <<"HIGHEST_COMMITTED_BLOCK">>
    <2>1. key[1] = "HIGHEST_COMMITTED_BLOCK" /\ IsKey(key)
      BY DEF IsKey, Indexed
    <2>2. we = set(key, c)
      BY DEF set_highest_committed_block
    <2>3. DOMAIN set(key, c) = {key}
      BY DEF set
    <2> HIDE DEF we, key
    <2>4. QED
      BY <2>1, <2>2, <2>3, WritesSet DEF WritesOnly, key
  \* The siblings, and the updates of the app state.
  <1>6. /\ WellFormed(wd) /\ WritesOnly(wd, SiblingVariables) /\ \A k \in DOMAIN wd : IsKey(k)
        /\ \A k : k[1] = "BLOCKS" =>
             Writes(wd, k) = IF \E x \in P : k \in BlockKeys(x) THEN {{}} ELSE {}
        /\ \A p : Writes(wd, <<"BLOCK_TO_CHILDREN", p>>)
                  = IF p = Parent(c) THEN {{<<c>>}} ELSE IF p \in P THEN {{}} ELSE {}
        /\ \A x : Writes(wd, <<"PENDING_APP_STATE_UPDATES", x>>) = IF x \in P THEN {{}} ELSE {}
        /\ \A x : Writes(wd, <<"VALIDATOR_SET_UPDATES_STATUS", x>>) = IF x \in P THEN {{}} ELSE {}
    BY <1>1, SiblingsBatch
  <1>7. /\ WellFormed(wu)
        /\ WritesOnly(wu, {"COMMITTED_APP_STATE", "PENDING_APP_STATE_UPDATES"})
        /\ \A x : Writes(wu, <<"PENDING_APP_STATE_UPDATES", x>>)
                  = IF x = c /\ pending_app_state_updates(store, c) # {} THEN {{}} ELSE {}
        /\ \A k \in DOMAIN wu : k[1] = "PENDING_APP_STATE_UPDATES" =>
                                  k = <<"PENDING_APP_STATE_UPDATES", c>>
    BY <1>1, AppBatch
  \* The updates of the validator set.
  <1>8. /\ WellFormed(wv) /\ WritesOnly(wv, ValidatorVariables)
        /\ \A x : Writes(wv, <<"VALIDATOR_SET_UPDATES_STATUS", x>>)
                  = IF x = b /\ HasUpdates(store, c) THEN {{[updates |-> {}]}} ELSE {}
        /\ \A k \in DOMAIN wv : k[1] = "VALIDATOR_SET_UPDATES_STATUS" =>
                                  k = <<"VALIDATOR_SET_UPDATES_STATUS", b>>
        /\ Writes(wv, <<"COMMITTED_VALIDATOR_SET">>)
           = IF HasUpdates(store, c) THEN {{NextValidatorSet(store, c)}} ELSE {}
        /\ Writes(wv, <<"PREVIOUS_VALIDATOR_SET">>)
           = IF HasUpdates(store, c) THEN {{committed_validator_set(store)}} ELSE {}
        /\ Writes(wv, <<"VALIDATOR_SET_UPDATE_BLOCK_HEIGHT">>)
           = IF HasUpdates(store, c) THEN {{Contents[c].height}} ELSE {}
        /\ Writes(wv, <<"VALIDATOR_SET_UPDATE_DECIDED">>)
           = IF HasUpdates(store, c) THEN {{FALSE}} ELSE {}
    <2>1. CASE ~HasUpdates(store, c)
      <3>1. wv = EmptyBatch
        BY <2>1 DEF HasUpdates, IfSome
      <3>2. WritesOnly(EmptyBatch, ValidatorVariables) /\ DOMAIN EmptyBatch = {}
        BY DEF WritesOnly, EmptyBatch
      <3> HIDE DEF wv
      <3>3. QED
        BY <2>1, <3>1, <3>2, WritesNothing
    <2>2. CASE HasUpdates(store, c)
      <3> DEFINE cvs == NextValidatorSet(store, c)
      <3>1. the(pending_validator_set_updates(store, c)) = UpdatesOf[Contents[c].data]
        BY <2>2, PendingOfBlock DEF HasUpdates
      <3>2. wv = apply(the(pending_validator_set_updates(store, c)))
        BY <2>2 DEF HasUpdates, IfSome
      <3>3. wv = ValidatorWrites(cvs, committed_validator_set(store), Contents[c].height, b)
        BY <1>1, <3>1, <3>2 DEF NextValidatorSet
      <3> DEFINE pvs == committed_validator_set(store)
                 at == Contents[c].height
                 vb == ValidatorWrites(cvs, pvs, at, b)
      <3> HIDE DEF cvs, pvs, at
      <3>4. /\ WellFormed(vb)
            /\ WritesOnly(vb, ValidatorVariables)
            /\ Writes(vb, <<"COMMITTED_VALIDATOR_SET">>) = {{cvs}}
            /\ Writes(vb, <<"PREVIOUS_VALIDATOR_SET">>) = {{pvs}}
            /\ Writes(vb, <<"VALIDATOR_SET_UPDATE_BLOCK_HEIGHT">>) = {{at}}
            /\ Writes(vb, <<"VALIDATOR_SET_UPDATE_DECIDED">>) = {{FALSE}}
            /\ \A x : Writes(vb, <<"VALIDATOR_SET_UPDATES_STATUS", x>>)
                      = IF x = b THEN {{[updates |-> {}]}} ELSE {}
            /\ \A k \in DOMAIN vb : k[1] = "VALIDATOR_SET_UPDATES_STATUS" =>
                                      k = <<"VALIDATOR_SET_UPDATES_STATUS", b>>
        BY ONLY ValidatorBatch
      <3>6. wv = vb
        BY <3>3 DEF cvs, pvs, at
      <3> HIDE DEF wv, vb
      <3>5. QED
        BY <2>2, <3>4, <3>6 DEF cvs, pvs, at
    <2>3. QED
      BY <2>1, <2>2
  <1> HIDE DEF wa, wd, wu, wv, we, h, P
  \* No key is written twice.
  <1>9. ASSUME NEW k
        PROVE  /\ k \in DOMAIN wa => k[1] = "BLOCK_AT_HEIGHT"
               /\ k \in DOMAIN wd => k[1] \in SiblingVariables
               /\ k \in DOMAIN wu => k[1] \in {"COMMITTED_APP_STATE", "PENDING_APP_STATE_UPDATES"}
               /\ k \in DOMAIN wv => k[1] \in ValidatorVariables
               /\ k \in DOMAIN we => k[1] = "HIGHEST_COMMITTED_BLOCK"
    BY <1>4, <1>5, <1>6, <1>7, <1>8 DEF WritesOnly
  <1>10. \A k : k \in DOMAIN wd /\ k \in DOMAIN wv => FALSE
    <2>1. SUFFICES ASSUME NEW k, k \in DOMAIN wd, k \in DOMAIN wv PROVE FALSE
      OBVIOUS
    <2>2. k[1] = "VALIDATOR_SET_UPDATES_STATUS"
      BY <1>9, <2>1 DEF SiblingVariables, ValidatorVariables
    <2>3. k = <<"VALIDATOR_SET_UPDATES_STATUS", b>>
      BY <1>8, <2>1, <2>2
    <2>4. Writes(wd, k) = {}
      BY <1>3, <1>6, <2>3
    <2>5. QED
      BY <2>1, <2>4 DEF Writes
  <1>11. c \notin P
    BY <1>3
  <1>12. \A k : k \in DOMAIN wd /\ k \in DOMAIN wu => FALSE
    <2>1. SUFFICES ASSUME NEW k, k \in DOMAIN wd, k \in DOMAIN wu PROVE FALSE
      OBVIOUS
    <2>2. k[1] = "PENDING_APP_STATE_UPDATES"
      BY <1>9, <2>1 DEF SiblingVariables
    <2>3. IsKey(k)
      BY <1>6, <2>1
    <2>4. k = <<"PENDING_APP_STATE_UPDATES", k[2]>>
      BY <2>2, <2>3 DEF IsKey, Indexed
    <2> DEFINE x == k[2]
    <2> HIDE DEF x
    <2>5. k = <<"PENDING_APP_STATE_UPDATES", x>>
      BY <2>4 DEF x
    <2>6. Writes(wd, k) # {} /\ Writes(wu, k) # {}
      BY <2>1 DEF Writes
    <2>7. x \in P /\ x = c
      BY <1>6, <1>7, <2>5, <2>6
    <2>8. QED
      BY <1>11, <2>7
  <1>13. ASSUME NEW k
         PROVE  Writes(wb, k) = Writes(wa, k) \cup Writes(wd, k) \cup Writes(wu, k) \cup Writes(wv, k)
                                \cup Writes(we, k)
    <2>1. /\ k \in DOMAIN wa => k \notin DOMAIN wd \cup DOMAIN wu \cup DOMAIN wv \cup DOMAIN we
          /\ k \in DOMAIN wd => k \notin DOMAIN wu \cup DOMAIN wv \cup DOMAIN we
          /\ k \in DOMAIN wu => k \notin DOMAIN wv \cup DOMAIN we
          /\ k \in DOMAIN wv => k \notin DOMAIN we
      BY <1>9, <1>10, <1>12 DEF SiblingVariables, ValidatorVariables
    <2>2. QED
      BY <2>1, FiveApart
  <1>14. ASSUME NEW k
         PROVE  /\ k[1] = "BLOCKS" => Writes(wb, k) = Writes(wd, k)
                /\ k[1] = "BLOCK_TO_CHILDREN" => Writes(wb, k) = Writes(wd, k)
                /\ k[1] = "PENDING_APP_STATE_UPDATES" => Writes(wb, k) = Writes(wd, k) \cup Writes(wu, k)
                /\ k[1] = "VALIDATOR_SET_UPDATES_STATUS" => Writes(wb, k) = Writes(wd, k) \cup Writes(wv, k)
                /\ k[1] = "BLOCK_AT_HEIGHT" => Writes(wb, k) = Writes(wa, k)
                /\ k[1] \in {"COMMITTED_VALIDATOR_SET", "PREVIOUS_VALIDATOR_SET",
                             "VALIDATOR_SET_UPDATE_BLOCK_HEIGHT", "VALIDATOR_SET_UPDATE_DECIDED"}
                   => Writes(wb, k) = Writes(wv, k)
                /\ k[1] = "HIGHEST_COMMITTED_BLOCK" => Writes(wb, k) = Writes(we, k)
    <2>1. /\ k[1] # "BLOCK_AT_HEIGHT" => Writes(wa, k) = {}
          /\ k[1] \notin SiblingVariables => Writes(wd, k) = {}
          /\ k[1] \notin {"COMMITTED_APP_STATE", "PENDING_APP_STATE_UPDATES"} => Writes(wu, k) = {}
          /\ k[1] \notin ValidatorVariables => Writes(wv, k) = {}
          /\ k[1] # "HIGHEST_COMMITTED_BLOCK" => Writes(we, k) = {}
      BY <1>9 DEF Writes
    <2>2. QED
      BY <1>13, <2>1 DEF SiblingVariables, ValidatorVariables
  <1>15. \A k \in DOMAIN wb : \/ k \in DOMAIN wa \/ k \in DOMAIN wd \/ k \in DOMAIN wu
                             \/ k \in DOMAIN wv \/ k \in DOMAIN we
    BY <1>13 DEF Writes
  <1>16. WellFormed(wb)
    BY <1>4, <1>5, <1>6, <1>7, <1>8, FiveWellFormed
  <1> HIDE DEF wb
  <1>17. WritesOnly(wb, CommitVariables)
    BY <1>9, <1>15 DEF WritesOnly, CommitVariables, SiblingVariables, ValidatorVariables
  <1>18. \A k \in DOMAIN wb : IsKey(k)
    <2>1. ASSUME NEW k \in DOMAIN wu PROVE IsKey(k)
      <3>1. CASE k[1] = "COMMITTED_APP_STATE"
        BY <3>1 DEF IsKey, Indexed
      <3>2. CASE k[1] = "PENDING_APP_STATE_UPDATES"
        <4>1. k = <<"PENDING_APP_STATE_UPDATES", c>>
          BY <1>7, <2>1, <3>2
        <4>2. QED
          BY <4>1 DEF IsKey, Indexed
      <3>3. QED
        BY <1>9, <2>1, <3>1, <3>2
    <2>2. ASSUME NEW k \in DOMAIN wv PROVE IsKey(k)
      <3>1. k = <<"VALIDATOR_SET_UPDATES_STATUS", b>> => k[1] = "VALIDATOR_SET_UPDATES_STATUS" /\ k[2] = b
        OBVIOUS
      <3>2. k[1] \in Indexed => k = <<"VALIDATOR_SET_UPDATES_STATUS", b>>
        BY <1>8, <1>9, <2>2 DEF Indexed, ValidatorVariables
      <3>3. k[1] # "BLOCKS"
        BY <1>9, <2>2 DEF ValidatorVariables
      <3>4. QED
        BY <3>1, <3>2, <3>3 DEF IsKey
    <2>3. QED
      BY <1>4, <1>5, <1>6, <1>15, <2>1, <2>2
  <1>19. \A k : k[1] = "BLOCKS" =>
            Writes(wb, k) = IF \E x \in P : k \in BlockKeys(x) THEN {{}} ELSE {}
    BY <1>6, <1>14
  <1>20. ASSUME NEW x
         PROVE  /\ Writes(wb, <<"BLOCK_TO_CHILDREN", x>>) = Writes(wd, <<"BLOCK_TO_CHILDREN", x>>)
                /\ Writes(wb, <<"PENDING_APP_STATE_UPDATES", x>>)
                   = Writes(wd, <<"PENDING_APP_STATE_UPDATES", x>>) \cup Writes(wu, <<"PENDING_APP_STATE_UPDATES", x>>)
                /\ Writes(wb, <<"VALIDATOR_SET_UPDATES_STATUS", x>>)
                   = Writes(wd, <<"VALIDATOR_SET_UPDATES_STATUS", x>>)
                     \cup Writes(wv, <<"VALIDATOR_SET_UPDATES_STATUS", x>>)
                /\ Writes(wb, <<"BLOCK_AT_HEIGHT", x>>) = Writes(wa, <<"BLOCK_AT_HEIGHT", x>>)
    <2>1. /\ <<"BLOCK_TO_CHILDREN", x>>[1] = "BLOCK_TO_CHILDREN"
          /\ <<"PENDING_APP_STATE_UPDATES", x>>[1] = "PENDING_APP_STATE_UPDATES"
          /\ <<"VALIDATOR_SET_UPDATES_STATUS", x>>[1] = "VALIDATOR_SET_UPDATES_STATUS"
          /\ <<"BLOCK_AT_HEIGHT", x>>[1] = "BLOCK_AT_HEIGHT"
      OBVIOUS
    <2>2. QED
      BY <1>14, <2>1, Zenon
  <1>21. /\ Writes(wb, <<"COMMITTED_VALIDATOR_SET">>) = Writes(wv, <<"COMMITTED_VALIDATOR_SET">>)
         /\ Writes(wb, <<"PREVIOUS_VALIDATOR_SET">>) = Writes(wv, <<"PREVIOUS_VALIDATOR_SET">>)
         /\ Writes(wb, <<"VALIDATOR_SET_UPDATE_BLOCK_HEIGHT">>)
            = Writes(wv, <<"VALIDATOR_SET_UPDATE_BLOCK_HEIGHT">>)
         /\ Writes(wb, <<"VALIDATOR_SET_UPDATE_DECIDED">>) = Writes(wv, <<"VALIDATOR_SET_UPDATE_DECIDED">>)
         /\ Writes(wb, <<"HIGHEST_COMMITTED_BLOCK">>) = Writes(we, <<"HIGHEST_COMMITTED_BLOCK">>)
    <2>1. /\ <<"COMMITTED_VALIDATOR_SET">>[1] = "COMMITTED_VALIDATOR_SET"
          /\ <<"PREVIOUS_VALIDATOR_SET">>[1] = "PREVIOUS_VALIDATOR_SET"
          /\ <<"VALIDATOR_SET_UPDATE_BLOCK_HEIGHT">>[1] = "VALIDATOR_SET_UPDATE_BLOCK_HEIGHT"
          /\ <<"VALIDATOR_SET_UPDATE_DECIDED">>[1] = "VALIDATOR_SET_UPDATE_DECIDED"
          /\ <<"HIGHEST_COMMITTED_BLOCK">>[1] = "HIGHEST_COMMITTED_BLOCK"
      OBVIOUS
    <2>2. QED
      BY <1>14, <2>1
  <1>22. ASSUME NEW x
         PROVE  /\ Writes(wb, <<"PENDING_APP_STATE_UPDATES", x>>)
                   = IF x \in P \/ (x = c /\ pending_app_state_updates(store, c) # {}) THEN {{}} ELSE {}
                /\ Writes(wb, <<"VALIDATOR_SET_UPDATES_STATUS", x>>)
                   = IF x \in P THEN {{}}
                     ELSE IF x = b /\ HasUpdates(store, c) THEN {{[updates |-> {}]}} ELSE {}
    <2>1. b \notin P
      BY <1>3
    <2>2. QED
      BY <1>6, <1>7, <1>8, <1>20, <2>1
  <1>23. WritesBlock(wb, store, b, c)
    BY <1>4, <1>5, <1>6, <1>8, <1>16, <1>17, <1>18, <1>19, <1>20, <1>21, <1>22 DEF WritesBlock, P
  <1>24. QED
    BY <1>2, <1>23

-----------------------------------------------------------------------------
(* What committing a block and its uncommitted ancestors writes.           *)

\* Batches that agree on what they write to a key.
LEMMA WritesAgree ==
  ASSUME NEW m \in Nat, NEW batches, DOMAIN batches = 1 .. m, NEW k, NEW new,
         \A i \in 1 .. m : Writes(batches[i], k) \subseteq {new}
  PROVE  Writes(InOrder(batches), k)
         = IF \E i \in 1 .. m : Writes(batches[i], k) # {} THEN {new} ELSE {}
  <1>1. \A i \in 1 .. m : k \in DOMAIN batches[i] <=> Writes(batches[i], k) # {}
    BY DEF Writes
  <1>2. \A i \in 1 .. m : k \in DOMAIN batches[i] => batches[i][k] = new
    BY DEF Writes
  <1>3. CASE \E i \in 1 .. m : k \in DOMAIN batches[i]
    <2>1. PICK i \in 1 .. m : /\ k \in DOMAIN batches[i]
                             /\ k \in DOMAIN InOrder(batches) /\ InOrder(batches)[k] = batches[i][k]
      <3>1. \E j \in 1 .. m : k \in DOMAIN batches[j]
        BY <1>3
      <3>2. QED
        BY <3>1, InOrderSome
    <2>2. InOrder(batches)[k] = new
      BY <1>2, <2>1
    <2>3. QED
      BY <1>1, <1>3, <2>1, <2>2 DEF Writes
  <1>4. CASE \A i \in 1 .. m : k \notin DOMAIN batches[i]
    <2>1. k \notin DOMAIN InOrder(batches)
      BY <1>4, InOrderNone
    <2>2. QED
      BY <1>1, <1>4, <2>1 DEF Writes
  <1>5. QED
    BY <1>3, <1>4

\* The last batch that writes a key.
LEMMA WritesLast ==
  ASSUME NEW m \in Nat, NEW batches, DOMAIN batches = 1 .. m, NEW k, NEW i \in 1 .. m,
         Writes(batches[i], k) # {},
         \A j \in 1 .. m : Writes(batches[j], k) # {} => j <= i
  PROVE  Writes(InOrder(batches), k) = Writes(batches[i], k)
  <1>1. k \in DOMAIN batches[i] /\ \A j \in 1 .. m : k \in DOMAIN batches[j] => j <= i
    BY DEF Writes
  <1>2. k \in DOMAIN InOrder(batches) /\ InOrder(batches)[k] = batches[i][k]
    BY <1>1, InOrderLast
  <1>3. QED
    BY <1>1, <1>2 DEF Writes

\* The blocks that a commit commits, from the oldest to the newest.
LEMMA CommitChain ==
  ASSUME NEW store, StoreOK(store), NEW b \in Stored(store),
         \A h \in highest_committed_block_height(store) : h < Contents[b].height
  PROVE  \E m \in Nat : \E chain :
           /\ m > 0 /\ DOMAIN chain = 1 .. m /\ chain[m] = b
           /\ \A i \in 1 .. m : chain[i] \in Uncommitted(store, b)
           /\ \A i, j \in 1 .. m : Contents[chain[i]].height <= Contents[chain[j]].height <=> i <= j
           /\ \A a \in Uncommitted(store, b) : \E i \in 1 .. m : chain[i] = a
           /\ commit(store, b) = InOrder([i \in 1 .. m |-> commit_one(store, b, chain[i])])
  <1> DEFINE s == uncommitted_ancestors(store, b)
             H == Contents[b].height
             chain == Reverse(s)
  <1>1. PICK m \in Nat :
          /\ m > 0 /\ m <= H + 1 /\ s \in Seq(Blocks) /\ Len(s) = m
          /\ \A i \in 1 .. m : s[i] \in Uncommitted(store, b) /\ Contents[s[i]].height = H + 1 - i
          /\ s[1] = b
          /\ \A a \in Uncommitted(store, b) : \E i \in 1 .. m : s[i] = a
    BY ChainFacts
  <1>2. H \in Nat
    BY BlockFacts DEF Stored
  <1>3. commit(store, b) = InOrder([i \in DOMAIN chain |-> commit_one(store, b, chain[i])])
    BY DEF commit
  <1> HIDE DEF s, H
  <1>4. DOMAIN chain = 1 .. m /\ \A i \in 1 .. m : chain[i] = s[m - i + 1] /\ m - i + 1 \in 1 .. m
    BY <1>1 DEF Reverse
  <1> HIDE DEF chain
  <1>5. ASSUME NEW i \in 1 .. m
        PROVE  chain[i] \in Uncommitted(store, b) /\ Contents[chain[i]].height = H - m + i
    <2>1. m - i + 1 \in 1 .. m /\ chain[i] = s[m - i + 1] /\ H + 1 - (m - i + 1) = H - m + i
      BY <1>2, <1>4
    <2>2. QED
      BY <1>1, <2>1
  <1>6. \A i, j \in 1 .. m : Contents[chain[i]].height <= Contents[chain[j]].height <=> i <= j
    BY <1>2, <1>5
  <1>7. ASSUME NEW a \in Uncommitted(store, b)
        PROVE  \E i \in 1 .. m : chain[i] = a
    <2>1. PICK j \in 1 .. m : s[j] = a
      BY <1>1
    <2>2. m - j + 1 \in 1 .. m /\ m - (m - j + 1) + 1 = j
      OBVIOUS
    <2>3. chain[m - j + 1] = a
      BY <1>4, <2>1, <2>2
    <2>4. QED
      BY <2>2, <2>3
  <1>8. chain[m] = b
    <2>1. m \in 1 .. m /\ m - m + 1 = 1
      BY <1>1
    <2>2. QED
      BY <1>1, <1>4, <2>1
  <1>9. commit(store, b) = InOrder([i \in 1 .. m |-> commit_one(store, b, chain[i])])
    BY <1>3, <1>4
  <1>10. QED
    BY <1>1, <1>4, <1>5, <1>6, <1>7, <1>8, <1>9

\* What a commit of b deletes.
Doomed(store, b) == UNION {Pruned(store, c) : c \in Uncommitted(store, b)}

\* The blocks whose commit updates the validator set.
Updating(store, b) == {c \in Uncommitted(store, b) : HasUpdates(store, c)}

\* The one of them whose updates count.
IsLastUpdating(store, b, c) ==
  c \in Updating(store, b) /\ \A a \in Updating(store, b) : Contents[a].height <= Contents[c].height

\* What a commit of b writes.
WritesCommit(wb, store, b) ==
  /\ WellFormed(wb)
  /\ WritesOnly(wb, CommitVariables)
  /\ \A k \in DOMAIN wb : IsKey(k)
  /\ \A k : k[1] = "BLOCKS" =>
       Writes(wb, k) = IF \E x \in Doomed(store, b) : k \in BlockKeys(x) THEN {{}} ELSE {}
  /\ \A c \in Uncommitted(store, b) : Writes(wb, <<"BLOCK_TO_CHILDREN", Parent(c)>>) = {{<<c>>}}
  /\ \A p : (\A c \in Uncommitted(store, b) : Parent(c) # p) =>
       Writes(wb, <<"BLOCK_TO_CHILDREN", p>>) = IF p \in Doomed(store, b) THEN {{}} ELSE {}
  /\ \A x : Writes(wb, <<"PENDING_APP_STATE_UPDATES", x>>)
            = IF \/ x \in Doomed(store, b)
                 \/ x \in Uncommitted(store, b) /\ pending_app_state_updates(store, x) # {}
              THEN {{}} ELSE {}
  /\ \A x : Writes(wb, <<"VALIDATOR_SET_UPDATES_STATUS", x>>)
            = IF x \in Doomed(store, b) THEN {{}}
              ELSE IF x = b /\ Updating(store, b) # {} THEN {{[updates |-> {}]}} ELSE {}
  /\ \A c \in Uncommitted(store, b) : Writes(wb, <<"BLOCK_AT_HEIGHT", Contents[c].height>>) = {{c}}
  /\ \A h : (\A c \in Uncommitted(store, b) : Contents[c].height # h) =>
       Writes(wb, <<"BLOCK_AT_HEIGHT", h>>) = {}
  /\ Updating(store, b) = {} =>
       /\ Writes(wb, <<"COMMITTED_VALIDATOR_SET">>) = {}
       /\ Writes(wb, <<"PREVIOUS_VALIDATOR_SET">>) = {}
       /\ Writes(wb, <<"VALIDATOR_SET_UPDATE_BLOCK_HEIGHT">>) = {}
       /\ Writes(wb, <<"VALIDATOR_SET_UPDATE_DECIDED">>) = {}
  /\ \A c : IsLastUpdating(store, b, c) =>
       /\ Writes(wb, <<"COMMITTED_VALIDATOR_SET">>) = {{NextValidatorSet(store, c)}}
       /\ Writes(wb, <<"PREVIOUS_VALIDATOR_SET">>) = {{committed_validator_set(store)}}
       /\ Writes(wb, <<"VALIDATOR_SET_UPDATE_BLOCK_HEIGHT">>) = {{Contents[c].height}}
       /\ Writes(wb, <<"VALIDATOR_SET_UPDATE_DECIDED">>) = {{FALSE}}
  /\ Writes(wb, <<"HIGHEST_COMMITTED_BLOCK">>) = {{b}}

\* Committing writes that, and no more.
LEMMA CommitWrites ==
  ASSUME NEW store, StoreOK(store), NEW b \in Stored(store),
         \A h \in highest_committed_block_height(store) : h < Contents[b].height
  PROVE  WritesCommit(commit(store, b), store, b)
  <1> DEFINE C == Uncommitted(store, b)
             P == Doomed(store, b)
             U == Updating(store, b)
  <1>0. PICK m \in Nat : \E chain :
           /\ m > 0 /\ DOMAIN chain = 1 .. m /\ chain[m] = b
           /\ \A i \in 1 .. m : chain[i] \in C
           /\ \A i, j \in 1 .. m : Contents[chain[i]].height <= Contents[chain[j]].height <=> i <= j
           /\ \A a \in C : \E i \in 1 .. m : chain[i] = a
           /\ commit(store, b) = InOrder([i \in 1 .. m |-> commit_one(store, b, chain[i])])
    BY CommitChain
  <1>1. PICK chain :
           /\ m > 0 /\ DOMAIN chain = 1 .. m /\ chain[m] = b
           /\ \A i \in 1 .. m : chain[i] \in C
           /\ \A i, j \in 1 .. m : Contents[chain[i]].height <= Contents[chain[j]].height <=> i <= j
           /\ \A a \in C : \E i \in 1 .. m : chain[i] = a
           /\ commit(store, b) = InOrder([i \in 1 .. m |-> commit_one(store, b, chain[i])])
    BY <1>0
  <1> DEFINE batches == [i \in 1 .. m |-> commit_one(store, b, chain[i])]
             wb == InOrder(batches)
  <1>2. C \subseteq lineage[b] /\ b \in Blocks /\ \A c \in C : c \in Blocks
    BY LineageFacts DEF Uncommitted, Stored
  <1>3. DOMAIN batches = 1 .. m /\ \A i \in 1 .. m : WritesBlock(batches[i], store, b, chain[i])
    BY <1>1, <1>2, CommitOneWrites
  <1>4. \A c \in C : /\ Pruned(store, c) \cap lineage[b] = {} /\ 0 \notin Pruned(store, c)
                     /\ Pruned(store, c) \subseteq Stored(store)
    BY <1>2, PrunedFacts
  <1>5. \A x : x \in P <=> \E i \in 1 .. m : x \in Pruned(store, chain[i])
    BY <1>1 DEF Doomed
  <1>6. \A x : x \in U <=> \E i \in 1 .. m : x = chain[i] /\ HasUpdates(store, chain[i])
    BY <1>1 DEF Updating
  <1>7. b \in C /\ m \in 1 .. m
    BY <1>1
  <1>8. \A i \in 1 .. m : chain[i] \in C /\ chain[i] \in Blocks /\ Contents[chain[i]].height \in Nat
    BY <1>1, <1>2, BlockFacts
  <1>9. \A i, j \in 1 .. m : Contents[chain[i]].height = Contents[chain[j]].height => i = j
    <2>1. \A i, j \in 1 .. m : i <= j /\ j <= i => i = j
      OBVIOUS
    <2>2. QED
      BY <1>1, <1>8, <2>1
  <1>10. \A i, j \in 1 .. m : Parent(chain[i]) = Parent(chain[j]) => i = j
    <2>1. \A i, j \in 1 .. m : Parent(chain[i]) = Parent(chain[j]) =>
                                 Contents[chain[i]].height = Contents[chain[j]].height
      BY <1>8, BlockFacts
    <2>2. QED
      BY <1>9, <2>1
  <1>11. \A i \in 1 .. m : Parent(chain[i]) \in lineage[b] \cup {0}
    BY <1>2, <1>8, LineageFacts
  <1>12. P \cap lineage[b] = {} /\ 0 \notin P
    BY <1>4, <1>5, <1>8
  <1>13. \A i \in 1 .. m : Parent(chain[i]) \notin P /\ chain[i] \notin P
    BY <1>2, <1>8, <1>11, <1>12
  <1> HIDE DEF batches, C, P, U
  <1>14. ASSUME NEW k, NEW new, \A i \in 1 .. m : Writes(batches[i], k) \subseteq {new}
         PROVE  Writes(wb, k) = IF \E i \in 1 .. m : Writes(batches[i], k) # {} THEN {new} ELSE {}
    BY <1>3, <1>14, WritesAgree
  <1>15. WellFormed(wb)
    BY <1>3, InOrderWellFormed DEF WritesBlock
  <1>16. \A k \in DOMAIN wb : k[1] \in CommitVariables /\ IsKey(k)
    <2>1. \A k \in DOMAIN wb : \E i \in 1 .. m : k \in DOMAIN batches[i]
      BY <1>3, InOrderKeys
    <2>2. QED
      BY <1>3, <2>1 DEF WritesBlock, WritesOnly
  <1> HIDE DEF wb
  <1>17. ASSUME NEW k, k[1] = "BLOCKS"
         PROVE  Writes(wb, k) = IF \E x \in P : k \in BlockKeys(x) THEN {{}} ELSE {}
    <2>1. \A i \in 1 .. m : Writes(batches[i], k)
                            = IF \E x \in Pruned(store, chain[i]) : k \in BlockKeys(x) THEN {{}} ELSE {}
      BY <1>3, <1>17 DEF WritesBlock
    <2>2. Writes(wb, k) = IF \E i \in 1 .. m : Writes(batches[i], k) # {} THEN {{}} ELSE {}
      BY <1>14, <2>1
    <2>3. (\E i \in 1 .. m : Writes(batches[i], k) # {}) <=> \E x \in P : k \in BlockKeys(x)
      BY <1>5, <2>1
    <2>4. QED
      BY <2>2, <2>3
  <1>18. ASSUME NEW p
         PROVE  \A i \in 1 .. m : Writes(batches[i], <<"BLOCK_TO_CHILDREN", p>>)
                  = IF p = Parent(chain[i]) THEN {{<<chain[i]>>}}
                    ELSE IF p \in Pruned(store, chain[i]) THEN {{}} ELSE {}
    BY <1>3 DEF WritesBlock
  <1>19. ASSUME NEW c \in C
         PROVE  Writes(wb, <<"BLOCK_TO_CHILDREN", Parent(c)>>) = {{<<c>>}}
    <2>1. PICK j \in 1 .. m : chain[j] = c
      BY <1>1
    <2> DEFINE k == <<"BLOCK_TO_CHILDREN", Parent(c)>>
    <2>2. \A i \in 1 .. m : Writes(batches[i], k) = IF i = j THEN {{<<c>>}} ELSE {}
      <3>1. \A i \in 1 .. m : Parent(c) \notin Pruned(store, chain[i])
        BY <1>5, <1>13, <2>1
      <3>2. \A i \in 1 .. m : Parent(c) = Parent(chain[i]) <=> i = j
        BY <1>10, <2>1
      <3>3. \A i \in 1 .. m : Writes(batches[i], k)
                  = IF Parent(c) = Parent(chain[i]) THEN {{<<chain[i]>>}}
                    ELSE IF Parent(c) \in Pruned(store, chain[i]) THEN {{}} ELSE {}
        BY <1>18
      <3> HIDE DEF k
      <3>4. QED
        BY <2>1, <3>1, <3>2, <3>3
    <2> HIDE DEF k
    <2>3. Writes(wb, k) = {{<<c>>}}
      BY <1>14, <2>2
    <2>4. QED
      BY <2>3 DEF k
  <1>20. ASSUME NEW p, \A c \in C : Parent(c) # p
         PROVE  Writes(wb, <<"BLOCK_TO_CHILDREN", p>>) = IF p \in P THEN {{}} ELSE {}
    <2> DEFINE k == <<"BLOCK_TO_CHILDREN", p>>
    <2>1. \A i \in 1 .. m : Writes(batches[i], k) = IF p \in Pruned(store, chain[i]) THEN {{}} ELSE {}
      BY <1>8, <1>18, <1>20
    <2> HIDE DEF k
    <2>2. Writes(wb, k) = IF \E i \in 1 .. m : Writes(batches[i], k) # {} THEN {{}} ELSE {}
      BY <1>14, <2>1
    <2>3. (\E i \in 1 .. m : Writes(batches[i], k) # {}) <=> p \in P
      BY <1>5, <2>1
    <2>4. QED
      BY <2>2, <2>3 DEF k
  <1>21. ASSUME NEW x
         PROVE  Writes(wb, <<"PENDING_APP_STATE_UPDATES", x>>)
                = IF x \in P \/ (x \in C /\ pending_app_state_updates(store, x) # {}) THEN {{}} ELSE {}
    <2> DEFINE k == <<"PENDING_APP_STATE_UPDATES", x>>
    <2>1. \A i \in 1 .. m : Writes(batches[i], k)
            = IF \/ x \in Pruned(store, chain[i])
                 \/ x = chain[i] /\ pending_app_state_updates(store, chain[i]) # {} THEN {{}} ELSE {}
      BY <1>3 DEF WritesBlock
    <2> HIDE DEF k
    <2>2. Writes(wb, k) = IF \E i \in 1 .. m : Writes(batches[i], k) # {} THEN {{}} ELSE {}
      BY <1>14, <2>1
    <2>3. (\E i \in 1 .. m : Writes(batches[i], k) # {})
          <=> x \in P \/ (x \in C /\ pending_app_state_updates(store, x) # {})
      BY <1>1, <1>5, <2>1
    <2>4. QED
      BY <2>2, <2>3 DEF k
  <1>22. ASSUME NEW x
         PROVE  Writes(wb, <<"VALIDATOR_SET_UPDATES_STATUS", x>>)
                = IF x \in P THEN {{}} ELSE IF x = b /\ U # {} THEN {{[updates |-> {}]}} ELSE {}
    <2> DEFINE k == <<"VALIDATOR_SET_UPDATES_STATUS", x>>
               done == [updates |-> {}]
    <2>1. \A i \in 1 .. m : Writes(batches[i], k)
            = IF x \in Pruned(store, chain[i]) THEN {{}}
              ELSE IF x = b /\ HasUpdates(store, chain[i]) THEN {{done}} ELSE {}
      BY <1>3 DEF WritesBlock
    <2> HIDE DEF k, done
    <2>2. CASE x = b
      <3>1. x \notin P /\ \A i \in 1 .. m : x \notin Pruned(store, chain[i])
        BY <1>1, <1>5, <1>7, <1>13, <2>2
      <3>2. \A i \in 1 .. m : Writes(batches[i], k) = IF HasUpdates(store, chain[i]) THEN {{done}} ELSE {}
        BY <2>1, <2>2, <3>1
      <3>3. Writes(wb, k) = IF \E i \in 1 .. m : Writes(batches[i], k) # {} THEN {{done}} ELSE {}
        BY <1>14, <3>2
      <3>4. (\E i \in 1 .. m : Writes(batches[i], k) # {}) <=> U # {}
        BY <1>6, <3>2
      <3>5. QED
        BY <2>2, <3>1, <3>3, <3>4 DEF k, done
    <2>3. CASE x # b
      <3>1. \A i \in 1 .. m : Writes(batches[i], k) = IF x \in Pruned(store, chain[i]) THEN {{}} ELSE {}
        BY <2>1, <2>3
      <3>2. Writes(wb, k) = IF \E i \in 1 .. m : Writes(batches[i], k) # {} THEN {{}} ELSE {}
        BY <1>14, <3>1
      <3>3. (\E i \in 1 .. m : Writes(batches[i], k) # {}) <=> x \in P
        BY <1>5, <3>1
      <3>4. QED
        BY <2>3, <3>2, <3>3 DEF k
    <2>4. QED
      BY <2>2, <2>3
  <1>23. ASSUME NEW h
         PROVE  \A i \in 1 .. m : Writes(batches[i], <<"BLOCK_AT_HEIGHT", h>>)
                                  = IF h = Contents[chain[i]].height THEN {{chain[i]}} ELSE {}
    BY <1>3 DEF WritesBlock
  <1>24. ASSUME NEW c \in C
         PROVE  Writes(wb, <<"BLOCK_AT_HEIGHT", Contents[c].height>>) = {{c}}
    <2>1. PICK j \in 1 .. m : chain[j] = c
      BY <1>1
    <2> DEFINE h == Contents[c].height
               k == <<"BLOCK_AT_HEIGHT", h>>
    <2>2. \A i \in 1 .. m : Writes(batches[i], k) = IF h = Contents[chain[i]].height THEN {{chain[i]}} ELSE {}
      BY <1>23
    <2>3. \A i \in 1 .. m : h = Contents[chain[i]].height <=> i = j
      BY <1>9, <2>1
    <2> HIDE DEF k, h
    <2>4. \A i \in 1 .. m : Writes(batches[i], k) = IF i = j THEN {{c}} ELSE {}
      BY <2>1, <2>2, <2>3
    <2>5. Writes(wb, k) = {{c}}
      BY <1>14, <2>4
    <2>6. QED
      BY <2>5 DEF k, h
  <1>25. ASSUME NEW h, \A c \in C : Contents[c].height # h
         PROVE  Writes(wb, <<"BLOCK_AT_HEIGHT", h>>) = {}
    <2> DEFINE k == <<"BLOCK_AT_HEIGHT", h>>
    <2>1. \A i \in 1 .. m : Writes(batches[i], k) = {}
      BY <1>8, <1>23, <1>25
    <2> HIDE DEF k
    <2>2. Writes(wb, k) = {}
      BY <1>14, <2>1
    <2>3. QED
      BY <2>2 DEF k
  <1>26. \A i \in 1 .. m :
           LET w == batches[i]
               c == chain[i]
           IN  /\ Writes(w, <<"COMMITTED_VALIDATOR_SET">>)
                  = IF HasUpdates(store, c) THEN {{NextValidatorSet(store, c)}} ELSE {}
               /\ Writes(w, <<"PREVIOUS_VALIDATOR_SET">>)
                  = IF HasUpdates(store, c) THEN {{committed_validator_set(store)}} ELSE {}
               /\ Writes(w, <<"VALIDATOR_SET_UPDATE_BLOCK_HEIGHT">>)
                  = IF HasUpdates(store, c) THEN {{Contents[c].height}} ELSE {}
               /\ Writes(w, <<"VALIDATOR_SET_UPDATE_DECIDED">>)
                  = IF HasUpdates(store, c) THEN {{FALSE}} ELSE {}
               /\ Writes(w, <<"HIGHEST_COMMITTED_BLOCK">>) = {{c}}
    BY <1>3 DEF WritesBlock
  <1>27. ASSUME U = {}
         PROVE  /\ Writes(wb, <<"COMMITTED_VALIDATOR_SET">>) = {}
                /\ Writes(wb, <<"PREVIOUS_VALIDATOR_SET">>) = {}
                /\ Writes(wb, <<"VALIDATOR_SET_UPDATE_BLOCK_HEIGHT">>) = {}
                /\ Writes(wb, <<"VALIDATOR_SET_UPDATE_DECIDED">>) = {}
    <2>1. \A i \in 1 .. m : ~HasUpdates(store, chain[i])
      BY <1>6, <1>27
    <2>2. ASSUME NEW k, \A i \in 1 .. m : Writes(batches[i], k) = {}
          PROVE  Writes(wb, k) = {}
      BY <1>14, <2>2
    <2>3. QED
      BY <1>26, <2>1, <2>2
  <1>28. ASSUME NEW c, IsLastUpdating(store, b, c)
         PROVE  /\ Writes(wb, <<"COMMITTED_VALIDATOR_SET">>) = {{NextValidatorSet(store, c)}}
                /\ Writes(wb, <<"PREVIOUS_VALIDATOR_SET">>) = {{committed_validator_set(store)}}
                /\ Writes(wb, <<"VALIDATOR_SET_UPDATE_BLOCK_HEIGHT">>) = {{Contents[c].height}}
                /\ Writes(wb, <<"VALIDATOR_SET_UPDATE_DECIDED">>) = {{FALSE}}
    <2>1. c \in U /\ \A a \in U : Contents[a].height <= Contents[c].height
      BY <1>28 DEF IsLastUpdating, U
    <2>2. PICK i \in 1 .. m : c = chain[i] /\ HasUpdates(store, chain[i])
      BY <1>6, <2>1
    <2>3. \A j \in 1 .. m : HasUpdates(store, chain[j]) => j <= i
      BY <1>1, <1>6, <2>1, <2>2
    <2>4. ASSUME NEW k, \A j \in 1 .. m : Writes(batches[j], k) # {} => HasUpdates(store, chain[j]),
                 Writes(batches[i], k) # {}
          PROVE  Writes(wb, k) = Writes(batches[i], k)
      <3>1. \A j \in 1 .. m : Writes(batches[j], k) # {} => j <= i
        BY <2>3, <2>4
      <3>2. QED
        BY <1>3, <2>4, <3>1, WritesLast DEF wb
    <2>5. QED
      BY <1>26, <2>2, <2>4
  <1>29. Writes(wb, <<"HIGHEST_COMMITTED_BLOCK">>) = {{b}}
    <2> DEFINE k == <<"HIGHEST_COMMITTED_BLOCK">>
    <2>1. \A j \in 1 .. m : Writes(batches[j], k) = {{chain[j]}}
      BY <1>26
    <2> HIDE DEF k
    <2>2. Writes(batches[m], k) # {} /\ \A j \in 1 .. m : Writes(batches[j], k) # {} => j <= m
      <3>1. Writes(batches[m], k) = {{chain[m]}}
        BY <1>7, <2>1
      <3>2. \A j \in 1 .. m : j <= m
        OBVIOUS
      <3>3. QED
        BY <3>1, <3>2
    <2>3. Writes(wb, k) = Writes(batches[m], k)
      BY <1>3, <1>7, <2>2, WritesLast DEF wb
    <2>4. QED
      BY <1>1, <1>7, <2>1, <2>3 DEF k
  <1>30. commit(store, b) = wb
    BY <1>1 DEF wb, batches
  <1>31. WritesCommit(wb, store, b)
    BY <1>15, <1>16, <1>17, <1>19, <1>20, <1>21, <1>22, <1>24, <1>25, <1>27, <1>28, <1>29
       DEF WritesCommit, WritesOnly, C, P, U
  <1>32. QED
    BY <1>30, <1>31

-----------------------------------------------------------------------------
(* A store has finitely many keys.                                         *)

\* A batch adds finitely many keys.
AddsFinitely(wb) == IsFiniteSet({k \in DOMAIN wb : wb[k] # {}})

\* The image of a finite set.
LEMMA ImageFinite ==
  ASSUME NEW S, IsFiniteSet(S), NEW f
  PROVE  IsFiniteSet({f[x] : x \in S})
  <1> DEFINE T == {f[x] : x \in S}
  <1>1. PICK n \in Nat : ExistsSurjection(1 .. n, S)
    BY FS_NatSurjection
  <1>2. PICK g : g \in Surjection(1 .. n, S)
    BY <1>1 DEF ExistsSurjection
  <1> DEFINE h == [i \in 1 .. n |-> f[g[i]]]
  <1>3. g \in [1 .. n -> S] /\ \A x \in S : \E i \in 1 .. n : g[i] = x
    BY <1>2 DEF Surjection
  <1>4. h \in [1 .. n -> T] /\ \A t \in T : \E i \in 1 .. n : h[i] = t
    BY <1>3
  <1> HIDE DEF h, T
  <1>5. ExistsSurjection(1 .. n, T)
    BY <1>4 DEF ExistsSurjection, Surjection
  <1>6. IsFiniteSet(T)
    BY <1>5, FS_NatSurjection
  <1>7. QED
    BY <1>6 DEF T

\* A finite store stays finite.
LEMMA WriteFinite ==
  ASSUME NEW store, NEW wb, IsFiniteSet(DOMAIN store), AddsFinitely(wb)
  PROVE  IsFiniteSet(DOMAIN write(store, wb))
  <1> DEFINE added == {k \in DOMAIN wb : wb[k] # {}}
             old == DOMAIN store
  <1>1. IsFiniteSet(added) /\ IsFiniteSet(old)
    BY DEF AddsFinitely
  <1>2. DOMAIN write(store, wb) \subseteq old \cup added
    BY DEF write
  <1> HIDE DEF added, old
  <1>3. IsFiniteSet(old \cup added)
    BY <1>1, FS_Union
  <1>4. QED
    BY <1>2, <1>3, FS_Subset

\* Setting one key, deleting many, and one batch after the other.
LEMMA FewAddFinitely ==
  /\ \A key, value : AddsFinitely(set(key, value))
  /\ \A keys : AddsFinitely(delete(keys))
  /\ AddsFinitely(EmptyBatch)
  /\ \A first, next : AddsFinitely(first) /\ AddsFinitely(next) => AddsFinitely(Then(first, next))
  <1>1. ASSUME NEW key, NEW value PROVE AddsFinitely(set(key, value))
    <2>1. {k \in DOMAIN set(key, value) : set(key, value)[k] # {}} \subseteq {key}
      BY DEF set
    <2>2. IsFiniteSet({key})
      BY FS_Singleton
    <2>3. QED
      BY <2>1, <2>2, FS_Subset DEF AddsFinitely
  <1>2. ASSUME NEW keys PROVE AddsFinitely(delete(keys))
    <2>1. {k \in DOMAIN delete(keys) : delete(keys)[k] # {}} = {}
      BY DEF delete
    <2>2. QED
      BY <2>1, FS_EmptySet DEF AddsFinitely
  <1>3. AddsFinitely(EmptyBatch)
    <2>1. {k \in DOMAIN EmptyBatch : EmptyBatch[k] # {}} = {}
      BY DEF EmptyBatch
    <2>2. QED
      BY <2>1, FS_EmptySet DEF AddsFinitely
  <1>4. ASSUME NEW first, NEW next, AddsFinitely(first), AddsFinitely(next)
        PROVE  AddsFinitely(Then(first, next))
    <2> DEFINE A == {k \in DOMAIN first : first[k] # {}}
               B == {k \in DOMAIN next : next[k] # {}}
               T == {k \in DOMAIN Then(first, next) : Then(first, next)[k] # {}}
    <2>1. T \subseteq A \cup B
      BY DEF Then
    <2>2. IsFiniteSet(A) /\ IsFiniteSet(B)
      BY <1>4 DEF AddsFinitely
    <2>3. IsFiniteSet(T) => AddsFinitely(Then(first, next))
      BY DEF AddsFinitely
    <2> HIDE DEF A, B, T
    <2>4. IsFiniteSet(A \cup B)
      BY <2>2, FS_Union
    <2>5. QED
      BY <2>1, <2>3, <2>4, FS_Subset
  <1>5. QED
    BY <1>1, <1>2, <1>3, <1>4

\* Batches in order.
LEMMA InOrderAddsFinitely ==
  ASSUME NEW m \in Nat, NEW batches, DOMAIN batches = 1 .. m,
         \A i \in 1 .. m : AddsFinitely(batches[i])
  PROVE  AddsFinitely(InOrder(batches))
  <1> DEFINE Adds(i) == {k \in DOMAIN batches[i] : batches[i][k] # {}}
             all == {Adds(i) : i \in 1 .. m}
             T == {k \in DOMAIN InOrder(batches) : InOrder(batches)[k] # {}}
  <1>1. \A k \in T : \E i \in 1 .. m : k \in Adds(i)
    <2>1. ASSUME NEW k \in T
          PROVE  \E i \in 1 .. m : k \in Adds(i)
      <3>1. \E i \in 1 .. m : k \in DOMAIN batches[i]
        BY InOrderKeys
      <3>2. PICK i \in 1 .. m : k \in DOMAIN batches[i] /\ InOrder(batches)[k] = batches[i][k]
        BY <3>1, InOrderSome
      <3>3. QED
        BY <3>2
    <2>2. QED
      BY <2>1
  <1>2. T \subseteq UNION all
    BY <1>1
  <1>3. IsFiniteSet(all)
    <2>1. IsFiniteSet(1 .. m)
      BY FS_Interval
    <2> DEFINE S == 1 .. m
               f == [i \in S |-> Adds(i)]
    <2>2. all = {f[i] : i \in S}
      OBVIOUS
    <2> HIDE DEF S, f, all
    <2>3. QED
      BY <2>1, <2>2, ImageFinite DEF S
  <1>4. \A A \in all : IsFiniteSet(A)
    BY DEF AddsFinitely
  <1>5. IsFiniteSet(T) => AddsFinitely(InOrder(batches))
    BY DEF AddsFinitely
  <1> HIDE DEF T, all
  <1>6. IsFiniteSet(UNION all)
    BY <1>3, <1>4, FS_UNION
  <1>7. QED
    BY <1>2, <1>5, <1>6, FS_Subset

\* Five of them.
LEMMA FiveAddFinitely ==
  ASSUME NEW a, NEW b, NEW c, NEW d, NEW e,
         AddsFinitely(a), AddsFinitely(b), AddsFinitely(c), AddsFinitely(d), AddsFinitely(e)
  PROVE  AddsFinitely(InOrder(<<a, b, c, d, e>>))
  <1> DEFINE batches == <<a, b, c, d, e>>
  <1>1. DOMAIN batches = 1 .. 5 /\ \A i \in 1 .. 5 : AddsFinitely(batches[i])
    OBVIOUS
  <1> HIDE DEF batches
  <1>2. AddsFinitely(InOrder(batches))
    BY <1>1, InOrderAddsFinitely
  <1>3. QED
    BY <1>2 DEF batches

\* The updates of an app state.
LEMMA AppAddsFinitely ==
  ASSUME NEW updates, IsFiniteSet(DOMAIN updates.inserts)
  PROVE  AddsFinitely(apply_app_state_updates(updates))
  <1> DEFINE S == DOMAIN updates.inserts
             K == {<<"COMMITTED_APP_STATE", key>> : key \in S}
             first == [k \in K |-> set_committed_app_state(k[2], updates.inserts[k[2]])[k]]
             D == {<<"COMMITTED_APP_STATE", key>> : key \in updates.deletes}
             next == [k \in D |-> delete_committed_app_state(k[2])[k]]
  <1>1. IsFiniteSet(K)
    <2> DEFINE f == [key \in S |-> <<"COMMITTED_APP_STATE", key>>]
    <2>1. K = {f[key] : key \in S}
      OBVIOUS
    <2>2. IsFiniteSet(S)
      OBVIOUS
    <2> HIDE DEF S, f, K
    <2>3. QED
      BY <2>1, <2>2, ImageFinite
  <1>2. AddsFinitely(first)
    <2> HIDE DEF K
    <2>1. {k \in DOMAIN first : first[k] # {}} \subseteq K
      OBVIOUS
    <2> HIDE DEF first
    <2>2. QED
      BY <1>1, <2>1, FS_Subset DEF AddsFinitely
  <1>3. AddsFinitely(next)
    <2>1. \A k \in D : next[k] = {}
      BY DEF delete_committed_app_state, delete
    <2>2. DOMAIN next = D
      OBVIOUS
    <2> HIDE DEF next, D
    <2>3. {k \in DOMAIN next : next[k] # {}} = {}
      BY <2>1, <2>2
    <2>4. QED
      BY <2>3, FS_EmptySet DEF AddsFinitely
  <1>4. apply_app_state_updates(updates) = Then(first, next)
    BY DEF apply_app_state_updates
  <1> HIDE DEF first, next
  <1>5. QED
    BY <1>2, <1>3, <1>4, FewAddFinitely

\* A commit.
LEMMA CommitAddsFinitely ==
  ASSUME NEW store, StoreOK(store), NEW b \in Stored(store),
         \A h \in highest_committed_block_height(store) : h < Contents[b].height
  PROVE  AddsFinitely(commit(store, b))
  <1>1. ASSUME NEW c \in lineage[b]
        PROVE  AddsFinitely(commit_one(store, b, c))
    <2> DEFINE h == the(block_height(store, c))
               apply(updates) ==
                 ValidatorWrites(apply_updates(committed_validator_set(store), updates),
                                 committed_validator_set(store), h, b)
               wa == set_block_at_height(h, c)
               wd == delete_siblings(store, c)
               wu == AppWrites(store, c)
               wv == IfSome(pending_validator_set_updates(store, c), apply)
               we == set_highest_committed_block(c)
    <2>1. commit_one(store, b, c) = InOrder(<<wa, wd, wu, wv, we>>)
      BY DEF commit_one, AppWrites, ValidatorWrites
    <2>2. AddsFinitely(wa) /\ AddsFinitely(we)
      BY FewAddFinitely DEF set_block_at_height, set_highest_committed_block
    <2>3. AddsFinitely(wd)
      <3>1. \A keys : AddsFinitely(delete(keys))
        BY FewAddFinitely
      <3>2. \A p, list : AddsFinitely(set_children(p, list))
        BY FewAddFinitely DEF set_children
      <3>3. QED
        BY <3>1, <3>2, FewAddFinitely DEF delete_siblings
    <2>4. AddsFinitely(wu)
      <3>1. CASE pending_app_state_updates(store, c) = {}
        BY <3>1, FewAddFinitely DEF AppWrites, IfSome
      <3>2. CASE pending_app_state_updates(store, c) # {}
        <4> DEFINE updates == AppUpdatesOf[Contents[c].data]
        <4>1. pending_app_state_updates(store, c) = {updates} /\ c \in Blocks
          BY <3>2 DEF StoreOK, UpdatesOK, Stored
        <4>2. IsFiniteSet(DOMAIN updates.inserts)
          BY <4>1, BlockFacts, StoreAssumption
        <4>3. wu = Then(apply_app_state_updates(updates), delete_pending_app_state_updates(c))
          BY <4>1, TheOnly DEF AppWrites, IfSome
        <4> HIDE DEF updates
        <4>4. AddsFinitely(delete_pending_app_state_updates(c))
          BY FewAddFinitely DEF delete_pending_app_state_updates
        <4>5. QED
          BY <4>2, <4>3, <4>4, AppAddsFinitely, FewAddFinitely
      <3>3. QED
        BY <3>1, <3>2
    <2>5. ASSUME NEW cvs, NEW pvs, NEW k
          PROVE  AddsFinitely(ValidatorWrites(cvs, pvs, k, b))
      BY FewAddFinitely, FiveAddFinitely
         DEF ValidatorWrites, set_committed_validator_set, set_previous_validator_set,
             set_validator_set_update_block_height, set_validator_set_update_decided,
             set_committed_validator_set_updates
    <2>6. AddsFinitely(wv)
      <3>1. \A updates : AddsFinitely(apply(updates))
        BY <2>5
      <3> HIDE DEF apply
      <3>2. QED
        BY <3>1, FewAddFinitely DEF IfSome
    <2> HIDE DEF wa, wd, wu, wv, we
    <2>7. QED
      BY <2>1, <2>2, <2>3, <2>4, <2>6, FiveAddFinitely
  <1>0. PICK m \in Nat : \E chain :
           /\ m > 0 /\ DOMAIN chain = 1 .. m /\ chain[m] = b
           /\ \A i \in 1 .. m : chain[i] \in Uncommitted(store, b)
           /\ \A i, j \in 1 .. m : Contents[chain[i]].height <= Contents[chain[j]].height <=> i <= j
           /\ \A a \in Uncommitted(store, b) : \E i \in 1 .. m : chain[i] = a
           /\ commit(store, b) = InOrder([i \in 1 .. m |-> commit_one(store, b, chain[i])])
    BY CommitChain
  <1>2. PICK chain :
           /\ m > 0 /\ DOMAIN chain = 1 .. m /\ chain[m] = b
           /\ \A i \in 1 .. m : chain[i] \in Uncommitted(store, b)
           /\ \A i, j \in 1 .. m : Contents[chain[i]].height <= Contents[chain[j]].height <=> i <= j
           /\ \A a \in Uncommitted(store, b) : \E i \in 1 .. m : chain[i] = a
           /\ commit(store, b) = InOrder([i \in 1 .. m |-> commit_one(store, b, chain[i])])
    BY <1>0
  <1> DEFINE batches == [i \in 1 .. m |-> commit_one(store, b, chain[i])]
  <1>3. DOMAIN batches = 1 .. m /\ \A i \in 1 .. m : AddsFinitely(batches[i])
    BY <1>1, <1>2 DEF Uncommitted
  <1> HIDE DEF batches
  <1>4. AddsFinitely(InOrder(batches))
    BY <1>3, InOrderAddsFinitely
  <1>5. QED
    BY <1>2, <1>4 DEF batches

-----------------------------------------------------------------------------
(* The store after a commit.                                               *)

\* What is read after what a batch writes.
LEMMA ReadAfter ==
  ASSUME NEW wb, NEW k, NEW old
  PROVE  /\ Writes(wb, k) = {} => After(wb, k, old) = old
         /\ \A v : Writes(wb, k) = {v} => After(wb, k, old) = v
  BY DEF Writes, After

\* The variables that hold the block tree.
TreeVariables == {"BLOCKS", "HIGHEST_COMMITTED_BLOCK"} \cup Indexed

\* The store `next` is `store` after the writes of a batch to the tree.
TreeAfter(next, store, wb) ==
  /\ IsFiniteSet(DOMAIN next)
  /\ \A k \in DOMAIN next : IsKey(k)
  /\ \A k : k[1] \in TreeVariables => get(next, k) = After(wb, k, get(store, k))

\* The tree in the store after a commit.
TreeCommitted(next, store, b) ==
  LET C == Uncommitted(store, b)
      P == Doomed(store, b)
  IN  /\ \A k : k[1] = "BLOCKS" =>
           get(next, k) = IF \E x \in P : k \in BlockKeys(x) THEN {} ELSE get(store, k)
      /\ \A c \in C : children(next, Parent(c)) = {<<c>>}
      /\ \A p : (\A c \in C : Parent(c) # p) =>
           children(next, p) = IF p \in P THEN {} ELSE children(store, p)
      /\ \A x : pending_app_state_updates(next, x)
                = IF x \in P \cup C THEN {} ELSE pending_app_state_updates(store, x)
      /\ \A x : validator_set_updates_status(next, x)
                = IF x \in P THEN {}
                  ELSE IF x = b /\ Updating(store, b) # {} THEN {[updates |-> {}]}
                  ELSE validator_set_updates_status(store, x)
      /\ \A c \in C : block_at_height(next, Contents[c].height) = {c}
      /\ \A h : (\A c \in C : Contents[c].height # h) => block_at_height(next, h) = block_at_height(store, h)
      /\ highest_committed_block(next) = {b}

\* What is read after the writes of a commit.
LEMMA CommitReads ==
  ASSUME NEW store, NEW b, NEW wb, WritesCommit(wb, store, b),
         NEW next, TreeAfter(next, store, wb)
  PROVE  TreeCommitted(next, store, b)
  <1> DEFINE C == Uncommitted(store, b)
             P == Doomed(store, b)
             U == Updating(store, b)
  <1>1. ASSUME NEW k, k[1] \in TreeVariables
        PROVE  /\ Writes(wb, k) = {} => get(next, k) = get(store, k)
               /\ \A v : Writes(wb, k) = {v} => get(next, k) = v
    BY <1>1, ReadAfter DEF TreeAfter
  <1>2. {"BLOCKS", "BLOCK_TO_CHILDREN", "PENDING_APP_STATE_UPDATES", "VALIDATOR_SET_UPDATES_STATUS",
         "BLOCK_AT_HEIGHT", "HIGHEST_COMMITTED_BLOCK"} \subseteq TreeVariables
    BY DEF TreeVariables, Indexed
  <1>3. ASSUME NEW k, k[1] = "BLOCKS"
        PROVE  get(next, k) = IF \E x \in P : k \in BlockKeys(x) THEN {} ELSE get(store, k)
    <2>1. Writes(wb, k) = IF \E x \in P : k \in BlockKeys(x) THEN {{}} ELSE {}
      BY <1>3 DEF WritesCommit
    <2> HIDE DEF P
    <2>2. QED
      BY <1>1, <1>2, <1>3, <2>1
  <1>4. ASSUME NEW v, NEW x, v \in TreeVariables
        PROVE  /\ Writes(wb, <<v, x>>) = {} => get(next, <<v, x>>) = get(store, <<v, x>>)
               /\ \A w : Writes(wb, <<v, x>>) = {w} => get(next, <<v, x>>) = w
    BY <1>1, <1>4
  <1>5. ASSUME NEW c \in C PROVE children(next, Parent(c)) = {<<c>>}
    <2>1. Writes(wb, <<"BLOCK_TO_CHILDREN", Parent(c)>>) = {{<<c>>}}
      BY DEF WritesCommit
    <2>2. QED
      BY <1>2, <1>4, <2>1 DEF children
  <1>6. ASSUME NEW p, \A c \in C : Parent(c) # p
        PROVE  children(next, p) = IF p \in P THEN {} ELSE children(store, p)
    <2>1. Writes(wb, <<"BLOCK_TO_CHILDREN", p>>) = IF p \in P THEN {{}} ELSE {}
      BY <1>6 DEF WritesCommit
    <2> HIDE DEF P
    <2>2. QED
      BY <1>2, <1>4, <2>1 DEF children
  <1>7. ASSUME NEW x
        PROVE  pending_app_state_updates(next, x)
               = IF x \in P \cup C THEN {} ELSE pending_app_state_updates(store, x)
    <2>1. Writes(wb, <<"PENDING_APP_STATE_UPDATES", x>>)
          = IF x \in P \/ (x \in C /\ pending_app_state_updates(store, x) # {}) THEN {{}} ELSE {}
      BY DEF WritesCommit
    <2> HIDE DEF P, C
    <2>2. QED
      BY <1>2, <1>4, <2>1 DEF pending_app_state_updates
  <1>8. ASSUME NEW x
        PROVE  validator_set_updates_status(next, x)
               = IF x \in P THEN {}
                 ELSE IF x = b /\ U # {} THEN {[updates |-> {}]}
                 ELSE validator_set_updates_status(store, x)
    <2>1. Writes(wb, <<"VALIDATOR_SET_UPDATES_STATUS", x>>)
          = IF x \in P THEN {{}} ELSE IF x = b /\ U # {} THEN {{[updates |-> {}]}} ELSE {}
      BY DEF WritesCommit
    <2> HIDE DEF P, U
    <2>2. QED
      BY <1>2, <1>4, <2>1 DEF validator_set_updates_status
  <1>9. ASSUME NEW c \in C PROVE block_at_height(next, Contents[c].height) = {c}
    <2>1. Writes(wb, <<"BLOCK_AT_HEIGHT", Contents[c].height>>) = {{c}}
      BY DEF WritesCommit
    <2>2. QED
      BY <1>2, <1>4, <2>1 DEF block_at_height
  <1>10. ASSUME NEW h, \A c \in C : Contents[c].height # h
         PROVE  block_at_height(next, h) = block_at_height(store, h)
    BY <1>2, <1>4, <1>10 DEF WritesCommit, block_at_height
  <1>11. highest_committed_block(next) = {b}
    <2>1. <<"HIGHEST_COMMITTED_BLOCK">>[1] = "HIGHEST_COMMITTED_BLOCK"
      OBVIOUS
    <2>2. Writes(wb, <<"HIGHEST_COMMITTED_BLOCK">>) = {{b}}
      BY DEF WritesCommit
    <2>3. QED
      BY <1>1, <1>2, <2>1, <2>2 DEF highest_committed_block
  <1>12. QED
    BY <1>3, <1>5, <1>6, <1>7, <1>8, <1>9, <1>10, <1>11 DEF TreeCommitted

\* What is deleted are stored blocks that are not committed, with all below
\* them, and the siblings of committed blocks.
LEMMA DoomedFacts ==
  ASSUME NEW store, StoreOK(store), NEW b \in Stored(store)
  PROVE  LET C == Uncommitted(store, b)
             P == Doomed(store, b)
         IN  /\ P \subseteq Stored(store) /\ P \subseteq Blocks
             /\ P \cap lineage[b] = {} /\ 0 \notin P
             /\ C \subseteq lineage[b] /\ C \subseteq Stored(store)
             /\ \A c \in C : Parent(c) \notin P
             /\ \A x \in Stored(store) : Parent(x) \in P => x \in P
             /\ \A x \in Stored(store), c \in C : Parent(x) = Parent(c) /\ x # c => x \in P
             /\ \A x \in P : Parent(x) \in P \/ \E c \in C : Parent(x) = Parent(c)
  <1> DEFINE C == Uncommitted(store, b)
             P == Doomed(store, b)
  <1>1. C \subseteq lineage[b] /\ C \subseteq Stored(store)
    BY StoredLineage DEF Uncommitted
  <1>2. \A x : x \in P <=> \E c \in C : x \in Pruned(store, c)
    BY DEF Doomed
  <1>3. \A x \in Stored(store) : x \in Blocks
    BY DEF Stored
  <1>4. ASSUME NEW x \in P
        PROVE  Parent(x) \in P \/ \E c \in C : Parent(x) = Parent(c)
    <2>1. PICK c \in C : x \in Pruned(store, c)
      BY <1>2
    <2>2. PICK s \in Siblings(store, c) : x \in Descendants(store, s)
      BY <2>1 DEF Pruned
    <2>3. Parent(s) = Parent(c) /\ x \in Stored(store) /\ s \in lineage[x]
      BY <2>2 DEF Siblings, Descendants
    <2>4. CASE x = s
      BY <2>3, <2>4
    <2>5. CASE x # s
      <3>1. s \in lineage[Parent(x)] /\ Parent(x) \in Stored(store) \cup {0} /\ lineage[0] = {}
        BY <1>3, <2>3, <2>5, LineageFacts, StoredBlock
      <3>2. Parent(x) \in Descendants(store, s)
        BY <3>1 DEF Descendants
      <3>3. Parent(x) \in Pruned(store, c)
        BY <2>2, <3>2 DEF Pruned
      <3>4. QED
        BY <1>2, <3>3
    <2>6. QED
      BY <2>4, <2>5
  <1> HIDE DEF P, C
  <1>5. ASSUME NEW c \in C
        PROVE  /\ Pruned(store, c) \subseteq Stored(store) /\ Pruned(store, c) \cap lineage[b] = {}
               /\ 0 \notin Pruned(store, c)
               /\ \A x \in Stored(store) : Parent(x) \in Pruned(store, c) => x \in Pruned(store, c)
               /\ \A x \in Stored(store) : Parent(x) = Parent(c) /\ x # c => x \in Pruned(store, c)
    BY <1>1, PrunedFacts
  <1>6. P \subseteq Stored(store) /\ P \cap lineage[b] = {} /\ 0 \notin P
    BY <1>2, <1>5
  <1>7. \A c \in C : Parent(c) \in lineage[b] \cup {0}
    BY <1>1, <1>3, LineageFacts
  <1>8. \A x \in Stored(store) : Parent(x) \in P => x \in P
    BY <1>2, <1>5
  <1>9. ASSUME NEW x \in Stored(store), NEW c \in C, Parent(x) = Parent(c), x # c
        PROVE  x \in P
    <2>1. c \in lineage[b]
      BY <1>1
    <2>2. x \in Siblings(store, c)
      BY <1>9 DEF Siblings
    <2>3. x \in Descendants(store, x)
      BY <1>3, LineageFacts DEF Descendants
    <2>4. x \in Pruned(store, c)
      BY <2>2, <2>3 DEF Pruned
    <2>5. QED
      BY <1>2, <2>4
  <1>10. QED
    BY <1>1, <1>3, <1>4, <1>6, <1>7, <1>8, <1>9 DEF P, C

\* A commit leaves a tree without what it deletes.
LEMMA CommitKeepsTree ==
  ASSUME NEW store, StoreOK(store), NEW b \in Stored(store),
         NEW next, IsFiniteSet(DOMAIN next), \A k \in DOMAIN next : IsKey(k),
         TreeCommitted(next, store, b),
         \A h \in highest_committed_block_height(store) : h < Contents[b].height
  PROVE  /\ Stored(next) = Stored(store) \ Doomed(store, b)
         /\ StoreOK(next)
  <1> DEFINE C == Uncommitted(store, b)
             P == Doomed(store, b)
             S == Stored(store)
             N == Stored(next)
  <1>1. /\ P \subseteq S /\ P \subseteq Blocks
        /\ P \cap lineage[b] = {} /\ 0 \notin P
        /\ C \subseteq lineage[b] /\ C \subseteq S
        /\ \A c \in C : Parent(c) \notin P
        /\ \A x \in S : Parent(x) \in P => x \in P
        /\ \A x \in S, c \in C : Parent(x) = Parent(c) /\ x # c => x \in P
        /\ \A x \in P : Parent(x) \in P \/ \E c \in C : Parent(x) = Parent(c)
    BY DoomedFacts
  <1>2. b \in C /\ b \in lineage[b]
    BY LineageFacts DEF Uncommitted, Stored
  <1>3. S \subseteq Blocks /\ \A x \in S : HoldsBlock(store, x) /\ Parent(x) \in S \cup {0}
    BY DEF StoreOK, Stored
  <1>4. ASSUME NEW x \in Blocks, NEW k \in BlockKeys(x)
        PROVE  get(next, k) = IF x \in P THEN {} ELSE get(store, k)
    <2>1. k[1] = "BLOCKS" /\ \A y : k \in BlockKeys(y) => y = x
      BY <1>4, KeysOfFacts
    <2>2. get(next, k) = IF \E y \in P : k \in BlockKeys(y) THEN {} ELSE get(store, k)
      BY <2>1 DEF TreeCommitted
    <2> HIDE DEF P
    <2>3. QED
      BY <2>1, <2>2
  <1>5. ASSUME NEW x \in Blocks
        PROVE  /\ <<"BLOCKS", x, "HEIGHT">> \in BlockKeys(x)
               /\ <<"BLOCKS", x, "JUSTIFY">> \in BlockKeys(x)
               /\ <<"BLOCKS", x, "DATA_HASH">> \in BlockKeys(x)
               /\ <<"BLOCKS", x, "DATA_LEN">> \in BlockKeys(x)
               /\ \A i \in 0 .. Len(Datums(x)) - 1 : <<"BLOCKS", x, "DATA", i>> \in BlockKeys(x)
    BY DEF BlockKeys, BlockFields, datum_keys
  <1>6. ASSUME NEW x \in Blocks
        PROVE  block_height(next, x) = IF x \in P THEN {} ELSE block_height(store, x)
    BY <1>4, <1>5 DEF block_height
  <1>7. N = S \ P
    <2>1. \A x : x \in N <=> x \in Blocks /\ block_height(next, x) # {}
      BY DEF Stored
    <2>2. \A x : x \in S <=> x \in Blocks /\ block_height(store, x) # {}
      BY DEF Stored
    <2> HIDE DEF N, S, P
    <2>3. QED
      BY <1>6, <2>1, <2>2
  <1>8. ASSUME NEW x \in N
        PROVE  HoldsBlock(next, x) /\ Parent(x) \in N \cup {0}
    <2>1. x \in S /\ x \notin P /\ x \in Blocks /\ Parent(x) \in N \cup {0}
      BY <1>1, <1>3, <1>7
    <2>2. \A k \in BlockKeys(x) : get(next, k) = get(store, k)
      BY <1>4, <2>1
    <2>3. HoldsBlock(next, x)
      <3>1. HoldsBlock(store, x)
        BY <1>3, <2>1
      <3> HIDE DEF P, S, N
      <3>2. QED
        BY <1>5, <2>1, <2>2, <3>1
           DEF HoldsBlock, block_height, block_justify, block_data_hash, block_data_len, block_datum
    <2>4. QED
      BY <2>1, <2>3
  <1>9. ASSUME NEW x \in Blocks \ N, NEW k \in BlockKeys(x)
        PROVE  get(next, k) = {}
    <2>1. x \in P \/ x \in Blocks \ S
      BY <1>7
    <2>2. x \in Blocks \ S => get(store, k) = {}
      BY DEF StoreOK
    <2> HIDE DEF P, S, N
    <2>3. QED
      BY <1>4, <2>1, <2>2
  <1>10. ChildrenOK(next)
    <2>1. ASSUME NEW c \in C
          PROVE  \E list \in Seq(Blocks) :
                   /\ children(next, Parent(c)) = {list}
                   /\ ToSet(list) = {x \in N : Parent(x) = Parent(c)}
                   /\ Parent(c) \in N \cup {0}
      <3>1. children(next, Parent(c)) = {<<c>>} /\ c \in Blocks /\ <<c>> \in Seq(Blocks)
        BY <1>1, <1>3 DEF TreeCommitted
      <3>2. ToSet(<<c>>) = {c}
        BY DEF ToSet
      <3>3. {x \in N : Parent(x) = Parent(c)} = {c}
        BY <1>1, <1>7
      <3>4. Parent(c) \in N \cup {0}
        BY <1>1, <1>3, <1>7
      <3>5. QED
        BY <3>1, <3>2, <3>3, <3>4
    <2>2. ASSUME NEW p, \A c \in C : Parent(c) # p
          PROVE  \/ /\ children(next, p) = {}
                    /\ \A x \in N : Parent(x) # p
                 \/ \E list \in Seq(Blocks) :
                      /\ children(next, p) = {list}
                      /\ ToSet(list) = {x \in N : Parent(x) = p}
                      /\ p \in N \cup {0}
      <3>1. children(next, p) = IF p \in P THEN {} ELSE children(store, p)
        BY <2>2 DEF TreeCommitted
      <3>2. \/ children(store, p) = {} /\ \A x \in S : Parent(x) # p
            \/ \E list \in Seq(Blocks) : /\ children(store, p) = {list}
                                         /\ ToSet(list) = {x \in S : Parent(x) = p}
                                         /\ p \in S \cup {0}
        BY DEF StoreOK, ChildrenOK
      <3>3. CASE p \in P
        <4>1. \A x \in N : Parent(x) # p
          BY <1>1, <1>7, <3>3
        <4> HIDE DEF P
        <4>2. QED
          BY <3>1, <3>3, <4>1
      <3>4. CASE p \notin P
        <4>1. \A x \in P : Parent(x) # p
          BY <1>1, <2>2, <3>4
        <4>2. {x \in N : Parent(x) = p} = {x \in S : Parent(x) = p}
          BY <1>7, <4>1
        <4>3. children(next, p) = children(store, p)
          BY <3>1, <3>4
        <4>4. p \in S \cup {0} => p \in N \cup {0}
          BY <1>7, <3>4
        <4>5. \A x \in N : x \in S
          BY <1>7
        <4> HIDE DEF P, S, N
        <4>6. QED
          BY <3>2, <4>2, <4>3, <4>4, <4>5
      <3>5. QED
        BY <3>3, <3>4
    <2>3. QED
      BY <2>1, <2>2 DEF ChildrenOK
  <1>11. UpdatesOK(next)
    <2>1. ASSUME NEW x
          PROVE  \/ pending_app_state_updates(next, x) = {}
                 \/ /\ pending_app_state_updates(next, x) = {AppUpdatesOf[Contents[x].data]}
                    /\ x \in N
      <3>1. pending_app_state_updates(next, x)
            = IF x \in P \cup C THEN {} ELSE pending_app_state_updates(store, x)
        BY DEF TreeCommitted
      <3>2. \/ pending_app_state_updates(store, x) = {}
            \/ pending_app_state_updates(store, x) = {AppUpdatesOf[Contents[x].data]} /\ x \in S
        BY DEF StoreOK, UpdatesOK
      <3> HIDE DEF P, S, N, C
      <3>3. QED
        BY <1>7, <3>1, <3>2
    <2>2. ASSUME NEW x
          PROVE  \/ validator_set_updates_status(next, x) = {}
                 \/ /\ validator_set_updates_status(next, x) = {[updates |-> {}]}
                    /\ x \in N
                 \/ /\ validator_set_updates_status(next, x)
                       = {[updates |-> {UpdatesOf[Contents[x].data]}]}
                    /\ x \in N
      <3>1. validator_set_updates_status(next, x)
            = IF x \in P THEN {}
              ELSE IF x = b /\ Updating(store, b) # {} THEN {[updates |-> {}]}
              ELSE validator_set_updates_status(store, x)
        BY DEF TreeCommitted
      <3>2. \/ validator_set_updates_status(store, x) = {}
            \/ validator_set_updates_status(store, x) = {[updates |-> {}]} /\ x \in S
            \/ /\ validator_set_updates_status(store, x) = {[updates |-> {UpdatesOf[Contents[x].data]}]}
               /\ x \in S
        BY DEF StoreOK, UpdatesOK
      <3>3. b \in N
        BY <1>1, <1>2, <1>7
      <3> DEFINE done == {[updates |-> {}]}
                 pending == {[updates |-> {UpdatesOf[Contents[x].data]}]}
      <3> HIDE DEF P, S, N, C, done, pending
      <3>4. QED
        BY <1>7, <3>1, <3>2, <3>3 DEF done, pending
    <2>3. QED
      BY <2>1, <2>2 DEF UpdatesOK
  <1>12. \E x \in N : highest_committed_block(next) = {x}
    BY <1>1, <1>2, <1>7 DEF TreeCommitted
  <1>13. QED
    BY <1>7, <1>8, <1>9, <1>10, <1>11, <1>12 DEF StoreOK

-----------------------------------------------------------------------------
(* What update writes.                                                     *)

\* There is nothing to commit, or one block of the store above those that are.
MayCommit(store, to_commit) ==
  \/ to_commit = {}
  \/ \E b \in Stored(store) :
       /\ to_commit = {b}
       /\ \A h \in highest_committed_block_height(store) : h < Contents[b].height

\* What the commit in an update writes.
CommitWritten(store, to_commit, k) ==
  UNION {Writes(commit(store, b), k) : b \in to_commit}

\* What an update writes: the PCs, the decision, and the commit.
UpdateWritten(wb, store, justify, to_commit, to_lock) ==
  /\ WellFormed(wb) /\ AddsFinitely(wb) /\ \A k \in DOMAIN wb : IsKey(k)
  /\ \A k : k[1] \notin {"HIGHEST_PC", "LOCKED_PC", "VALIDATOR_SET_UPDATE_DECIDED"} =>
       Writes(wb, k) = CommitWritten(store, to_commit, k)
  /\ Writes(wb, <<"HIGHEST_PC">>)
     = IF justify.view > highest_pc(store).view THEN {{justify}} ELSE {}
  /\ Writes(wb, <<"LOCKED_PC">>) = IF to_lock = {} THEN {} ELSE {{the(to_lock)}}
  /\ Writes(wb, <<"VALIDATOR_SET_UPDATE_DECIDED">>)
     = IF justify.phase = "Decide" THEN {{TRUE}}
       ELSE CommitWritten(store, to_commit, <<"VALIDATOR_SET_UPDATE_DECIDED">>)

\* The batch of update writes that.
LEMMA UpdateBatch ==
  ASSUME NEW store, StoreOK(store), NEW tree, NEW justify,
         MayCommit(store, Tree!block_to_commit(justify, tree))
  PROVE  UpdateWritten(update(store, tree, justify), store, justify,
                      Tree!block_to_commit(justify, tree), Tree!pc_to_lock(justify, tree))
  <1> DEFINE to_commit == Tree!block_to_commit(justify, tree)
             to_lock == Tree!pc_to_lock(justify, tree)
             higher == justify.view > highest_pc(store).view
             decides == justify.phase = "Decide"
             a == IF higher THEN set_highest_pc(justify) ELSE EmptyBatch
             b == IfSome(to_lock, set_locked_pc)
             c == IfSome(to_commit, LAMBDA x : commit(store, x))
             d == IF decides THEN set_validator_set_update_decided(TRUE) ELSE EmptyBatch
             batches == <<a, b, c, d>>
             k1 == <<"HIGHEST_PC">>
             k2 == <<"LOCKED_PC">>
             k4 == <<"VALIDATOR_SET_UPDATE_DECIDED">>
  <1>1. update(store, tree, justify) = InOrder(batches)
    BY DEF update
  <1>2. k1[1] = "HIGHEST_PC" /\ k2[1] = "LOCKED_PC" /\ k4[1] = "VALIDATOR_SET_UPDATE_DECIDED"
        /\ IsKey(k1) /\ IsKey(k2) /\ IsKey(k4)
    BY DEF IsKey, Indexed
  <1>3. ASSUME NEW key, NEW value, IsKey(key)
        PROVE  /\ WellFormed(set(key, value)) /\ AddsFinitely(set(key, value))
               /\ \A k \in DOMAIN set(key, value) : IsKey(k) /\ k = key
               /\ Writes(set(key, value), key) = {{value}}
    <2>1. DOMAIN set(key, value) = {key}
      BY DEF set
    <2>2. QED
      BY <1>3, <2>1, FewAddFinitely, WritesSet
  <1>4. /\ WellFormed(EmptyBatch) /\ AddsFinitely(EmptyBatch) /\ DOMAIN EmptyBatch = {}
        /\ \A k : Writes(EmptyBatch, k) = {}
    BY FewAddFinitely, WritesNothing DEF EmptyBatch
  <1>5. /\ WellFormed(a) /\ AddsFinitely(a) /\ \A k \in DOMAIN a : IsKey(k) /\ k = k1
        /\ Writes(a, k1) = IF higher THEN {{justify}} ELSE {}
    <2>1. a = IF higher THEN set(k1, justify) ELSE EmptyBatch
      BY DEF set_highest_pc
    <2> HIDE DEF k1, higher, a
    <2>2. QED
      BY <1>2, <1>3, <1>4, <2>1
  <1>6. /\ WellFormed(b) /\ AddsFinitely(b) /\ \A k \in DOMAIN b : IsKey(k) /\ k = k2
        /\ Writes(b, k2) = IF to_lock = {} THEN {} ELSE {{the(to_lock)}}
    <2>1. b = IF to_lock = {} THEN EmptyBatch ELSE set(k2, the(to_lock))
      BY DEF IfSome, set_locked_pc
    <2> HIDE DEF k2, to_lock, b
    <2>2. QED
      BY <1>2, <1>3, <1>4, <2>1
  <1>7. /\ WellFormed(d) /\ AddsFinitely(d) /\ \A k \in DOMAIN d : IsKey(k) /\ k = k4
        /\ Writes(d, k4) = IF decides THEN {{TRUE}} ELSE {}
    <2>1. d = IF decides THEN set(k4, TRUE) ELSE EmptyBatch
      BY DEF set_validator_set_update_decided
    <2> HIDE DEF k4, decides, d
    <2>2. QED
      BY <1>2, <1>3, <1>4, <2>1
  <1>8. /\ WellFormed(c) /\ AddsFinitely(c)
        /\ \A k \in DOMAIN c : IsKey(k) /\ k[1] \in CommitVariables
        /\ \A k : Writes(c, k) = CommitWritten(store, to_commit, k)
    <2>1. CASE to_commit = {}
      <3>1. c = EmptyBatch
        BY <2>1 DEF IfSome
      <3>2. \A k : CommitWritten(store, to_commit, k) = {}
        BY <2>1 DEF CommitWritten
      <3> HIDE DEF c, to_commit
      <3>3. QED
        BY <1>4, <3>1, <3>2
    <2>2. CASE to_commit # {}
      <3>1. PICK x \in Stored(store) :
               /\ to_commit = {x}
               /\ \A h \in highest_committed_block_height(store) : h < Contents[x].height
        BY <2>2 DEF MayCommit
      <3>2. c = commit(store, x)
        BY <3>1, TheOnly DEF IfSome
      <3> HIDE DEF c, to_commit
      <3>3. \A k : CommitWritten(store, to_commit, k) = Writes(commit(store, x), k)
        BY <3>1 DEF CommitWritten
      <3>4. WritesCommit(commit(store, x), store, x) /\ AddsFinitely(commit(store, x))
        BY <3>1, CommitWrites, CommitAddsFinitely
      <3>5. WellFormed(c) /\ AddsFinitely(c) /\ \A k \in DOMAIN c : IsKey(k) /\ k[1] \in CommitVariables
        BY <3>2, <3>4 DEF WritesCommit, WritesOnly
      <3>6. QED
        BY <3>2, <3>3, <3>5
    <2>3. QED
      BY <2>1, <2>2
  <1>9. k1[1] \notin CommitVariables /\ k2[1] \notin CommitVariables
    BY <1>2 DEF CommitVariables, SiblingVariables, ValidatorVariables
  <1>20. k1 # k2 /\ k1 # k4 /\ k2 # k4
    OBVIOUS
  <1> HIDE DEF a, b, c, d, to_commit, to_lock, higher, decides
  <1>10. /\ DOMAIN batches = 1 .. 4
         /\ batches[1] = a /\ batches[2] = b /\ batches[3] = c /\ batches[4] = d
    OBVIOUS
  <1> HIDE DEF batches, k1, k2, k4
  <1>11. ASSUME NEW k, NEW i \in 1 .. 4, \A j \in 1 .. 4 : j # i => k \notin DOMAIN batches[j]
         PROVE  Writes(InOrder(batches), k) = Writes(batches[i], k)
    <2> DEFINE m == 4
    <2>1. /\ m \in Nat /\ DOMAIN batches = 1 .. m /\ i \in 1 .. m
          /\ \A j \in 1 .. m : j # i => k \notin DOMAIN batches[j]
      BY <1>10, <1>11
    <2> HIDE DEF m
    <2>2. QED
      BY <2>1, WritesOne
  <1>12. WellFormed(InOrder(batches)) /\ AddsFinitely(InOrder(batches))
    <2> DEFINE m == 4
    <2>1. /\ m \in Nat /\ DOMAIN batches = 1 .. m
          /\ \A i \in 1 .. m : WellFormed(batches[i]) /\ AddsFinitely(batches[i])
      BY <1>5, <1>6, <1>7, <1>8, <1>10
    <2> HIDE DEF m
    <2>2. QED
      BY <2>1, InOrderWellFormed, InOrderAddsFinitely
  <1>13. ASSUME NEW k \in DOMAIN InOrder(batches) PROVE IsKey(k)
    <2>1. PICK i \in DOMAIN batches : k \in DOMAIN batches[i]
      BY InOrderKeys
    <2>2. QED
      BY <1>5, <1>6, <1>7, <1>8, <1>10, <2>1
  <1>14. Writes(InOrder(batches), k1) = IF higher THEN {{justify}} ELSE {}
    <2>1. \A j \in 1 .. 4 : j # 1 => k1 \notin DOMAIN batches[j]
      BY <1>6, <1>7, <1>8, <1>9, <1>10, <1>20
    <2>2. QED
      BY <1>5, <1>10, <1>11, <2>1
  <1>15. Writes(InOrder(batches), k2) = IF to_lock = {} THEN {} ELSE {{the(to_lock)}}
    <2>1. \A j \in 1 .. 4 : j # 2 => k2 \notin DOMAIN batches[j]
      BY <1>5, <1>7, <1>8, <1>9, <1>10, <1>20
    <2>2. QED
      BY <1>6, <1>10, <1>11, <2>1
  <1>16. Writes(InOrder(batches), k4) = IF decides THEN {{TRUE}} ELSE CommitWritten(store, to_commit, k4)
    <2>1. CASE decides
      <3> DEFINE m == 4
      <3>1. /\ m \in Nat /\ DOMAIN batches = 1 .. m /\ m \in 1 .. m
            /\ \A j \in 1 .. m : Writes(batches[j], k4) # {} => j <= m
        BY <1>10
      <3>2. batches[m] = d
        BY <1>10
      <3> HIDE DEF m
      <3>3. Writes(batches[m], k4) = {{TRUE}}
        BY <1>7, <2>1, <3>2
      <3>6. Writes(batches[m], k4) # {}
        BY <3>3
      <3>4. Writes(InOrder(batches), k4) = Writes(batches[m], k4)
        BY ONLY <3>1, <3>6, WritesLast
      <3>5. QED
        BY <2>1, <3>3, <3>4
    <2>2. CASE ~decides
      <3>1. Writes(d, k4) = {}
        BY <1>7, <2>2
      <3>2. k4 \notin DOMAIN d
        BY <3>1 DEF Writes
      <3>3. \A j \in 1 .. 4 : j # 3 => k4 \notin DOMAIN batches[j]
        BY <1>5, <1>6, <1>10, <1>20, <3>2
      <3>4. QED
        BY <1>8, <1>10, <1>11, <2>2, <3>3
    <2>3. QED
      BY <2>1, <2>2
  <1>17. ASSUME NEW k, k[1] \notin {"HIGHEST_PC", "LOCKED_PC", "VALIDATOR_SET_UPDATE_DECIDED"}
         PROVE  Writes(InOrder(batches), k) = CommitWritten(store, to_commit, k)
    <2>1. k # k1 /\ k # k2 /\ k # k4
      BY <1>2, <1>17
    <2>2. \A j \in 1 .. 4 : j # 3 => k \notin DOMAIN batches[j]
      BY <1>5, <1>6, <1>7, <1>10, <2>1
    <2>3. QED
      BY <1>8, <1>10, <1>11, <2>2
  <1>18. QED
    BY <1>1, <1>12, <1>13, <1>14, <1>15, <1>16, <1>17
       DEF k1, k2, k4, to_commit, to_lock, higher, decides, UpdateWritten

-----------------------------------------------------------------------------
(* The store after an update.                                              *)

\* Two stores that hold the same tree.
SameTree(next, store) ==
  /\ IsFiniteSet(DOMAIN next)
  /\ \A k \in DOMAIN next : IsKey(k)
  /\ \A k : k[1] \in TreeVariables => get(next, k) = get(store, k)

\* The getters of the tree.
LEMMA SameTreeReads ==
  ASSUME NEW store, NEW next, SameTree(next, store)
  PROVE  /\ \A b : /\ block_height(next, b) = block_height(store, b)
                   /\ block_justify(next, b) = block_justify(store, b)
                   /\ block_data_hash(next, b) = block_data_hash(store, b)
                   /\ block_data_len(next, b) = block_data_len(store, b)
                   /\ \A i : block_datum(next, b, i) = block_datum(store, b, i)
                   /\ children(next, b) = children(store, b)
                   /\ pending_app_state_updates(next, b) = pending_app_state_updates(store, b)
                   /\ validator_set_updates_status(next, b) = validator_set_updates_status(store, b)
         /\ \A h : block_at_height(next, h) = block_at_height(store, h)
         /\ highest_committed_block(next) = highest_committed_block(store)
         /\ Stored(next) = Stored(store)
         /\ \A b : \A k \in BlockKeys(b) : get(next, k) = get(store, k)
  <1>1. ASSUME NEW k, k[1] \in {"BLOCKS", "HIGHEST_COMMITTED_BLOCK", "BLOCK_TO_CHILDREN",
                                "PENDING_APP_STATE_UPDATES", "VALIDATOR_SET_UPDATES_STATUS",
                                "BLOCK_AT_HEIGHT"}
        PROVE  get(next, k) = get(store, k)
    BY <1>1 DEF SameTree, TreeVariables, Indexed
  <1>2. ASSUME NEW b, NEW f
        PROVE  get(next, <<"BLOCKS", b, f>>) = get(store, <<"BLOCKS", b, f>>)
    BY <1>1
  <1>3. ASSUME NEW b, NEW i
        PROVE  get(next, <<"BLOCKS", b, "DATA", i>>) = get(store, <<"BLOCKS", b, "DATA", i>>)
    BY <1>1
  <1>4. ASSUME NEW b
        PROVE  /\ children(next, b) = children(store, b)
               /\ pending_app_state_updates(next, b) = pending_app_state_updates(store, b)
               /\ validator_set_updates_status(next, b) = validator_set_updates_status(store, b)
    BY <1>1 DEF children, pending_app_state_updates, validator_set_updates_status
  <1>5. \A h : block_at_height(next, h) = block_at_height(store, h)
    BY <1>1 DEF block_at_height
  <1>6. highest_committed_block(next) = highest_committed_block(store)
    BY <1>1 DEF highest_committed_block
  <1>7. ASSUME NEW b
        PROVE  /\ block_height(next, b) = block_height(store, b)
               /\ block_justify(next, b) = block_justify(store, b)
               /\ block_data_hash(next, b) = block_data_hash(store, b)
               /\ block_data_len(next, b) = block_data_len(store, b)
               /\ \A i : block_datum(next, b, i) = block_datum(store, b, i)
    BY <1>2, <1>3 DEF block_height, block_justify, block_data_hash, block_data_len, block_datum
  <1>8. Stored(next) = Stored(store)
    BY <1>7 DEF Stored
  <1>9. \A b : \A k \in BlockKeys(b) : get(next, k) = get(store, k)
    BY <1>1, KeysOfFacts
  <1>10. QED
    BY <1>4, <1>5, <1>6, <1>7, <1>8, <1>9

\* It is as good as before.
LEMMA SameTreeOK ==
  ASSUME NEW store, StoreOK(store), NEW next, SameTree(next, store)
  PROVE  StoreOK(next)
  <1>1. Stored(next) = Stored(store)
    BY SameTreeReads
  <1>2. ASSUME NEW b \in Stored(next)
        PROVE  HoldsBlock(next, b) /\ Parent(b) \in Stored(next) \cup {0}
    <2>1. HoldsBlock(store, b) /\ Parent(b) \in Stored(store) \cup {0}
      BY <1>1 DEF StoreOK
    <2>2. /\ block_height(next, b) = block_height(store, b)
          /\ block_justify(next, b) = block_justify(store, b)
          /\ block_data_hash(next, b) = block_data_hash(store, b)
          /\ block_data_len(next, b) = block_data_len(store, b)
          /\ \A i : block_datum(next, b, i) = block_datum(store, b, i)
      BY SameTreeReads
    <2>3. QED
      BY <1>1, <2>1, <2>2 DEF HoldsBlock
  <1>3. \A b \in Blocks \ Stored(next) : \A k \in BlockKeys(b) : get(next, k) = {}
    BY <1>1, SameTreeReads DEF StoreOK
  <1>4. ChildrenOK(next)
    BY <1>1, SameTreeReads DEF StoreOK, ChildrenOK
  <1>5. UpdatesOK(next)
    BY <1>1, SameTreeReads DEF StoreOK, UpdatesOK
  <1>6. \/ highest_committed_block(next) = {}
        \/ \E b \in Stored(next) : highest_committed_block(next) = {b}
    BY <1>1, SameTreeReads DEF StoreOK
  <1>7. QED
    BY <1>2, <1>3, <1>4, <1>5, <1>6 DEF StoreOK, SameTree

\* A batch that writes nothing of the tree leaves it.
LEMMA WriteSameTree ==
  ASSUME NEW store, IsFiniteSet(DOMAIN store), \A k \in DOMAIN store : IsKey(k),
         NEW wb, WellFormed(wb), AddsFinitely(wb),
         \A k \in DOMAIN wb : IsKey(k) /\ k[1] \notin TreeVariables
  PROVE  SameTree(write(store, wb), store)
  <1>1. IsFiniteSet(DOMAIN write(store, wb))
    BY WriteFinite
  <1>2. \A k \in DOMAIN write(store, wb) : IsKey(k)
    BY DEF write
  <1>3. ASSUME NEW k, k[1] \in TreeVariables
        PROVE  get(write(store, wb), k) = get(store, k)
    <2>1. k \notin DOMAIN wb
      BY <1>3
    <2>2. QED
      BY <2>1, WriteReads DEF After
  <1>4. QED
    BY <1>1, <1>2, <1>3 DEF SameTree

-----------------------------------------------------------------------------
(* What insert writes.                                                     *)

\* A block with its datums.
LEMMA BlockBatch ==
  ASSUME NEW b \in Blocks, preimage = Contents
  PROVE  LET wb == set_block(b)
         IN  /\ WellFormed(wb) /\ AddsFinitely(wb)
             /\ DOMAIN wb = BlockKeys(b)
             /\ Writes(wb, <<"BLOCKS", b, "HEIGHT">>) = {{Contents[b].height}}
             /\ Writes(wb, <<"BLOCKS", b, "JUSTIFY">>) = {{Contents[b].justify}}
             /\ Writes(wb, <<"BLOCKS", b, "DATA_HASH">>) = {{Contents[b].data}}
             /\ Writes(wb, <<"BLOCKS", b, "DATA_LEN">>) = {{Len(Datums(b))}}
             /\ \A i \in 0 .. Len(Datums(b)) - 1 :
                  Writes(wb, <<"BLOCKS", b, "DATA", i>>) = {{Datums(b)[i + 1]}}
  <1> DEFINE len == Len(Datums(b))
             k1 == <<"BLOCKS", b, "HEIGHT">>
             k2 == <<"BLOCKS", b, "JUSTIFY">>
             k3 == <<"BLOCKS", b, "DATA_HASH">>
             k4 == <<"BLOCKS", b, "DATA_LEN">>
             K == datum_keys(b, len)
             v1 == set(k1, Contents[b].height)
             v2 == set(k2, Contents[b].justify)
             v3 == set(k3, Contents[b].data)
             v4 == set(k4, len)
             v5 == [k \in K |-> {Datums(b)[k[4] + 1]}]
             wb == InOrder(<<v1, v2, v3, v4, v5>>)
  <1>1. set_block(b) = wb
    BY DEF set_block, Datums
  <1>2. len \in Nat
    BY BlockFacts, StoreAssumption DEF Datums
  <1>3. /\ k1[3] = "HEIGHT" /\ k2[3] = "JUSTIFY" /\ k3[3] = "DATA_HASH" /\ k4[3] = "DATA_LEN"
        /\ \A k \in K : k[3] = "DATA"
    BY DEF datum_keys
  <1>4. /\ DOMAIN v1 = {k1} /\ DOMAIN v2 = {k2} /\ DOMAIN v3 = {k3} /\ DOMAIN v4 = {k4}
        /\ DOMAIN v5 = K
    BY DEF set
  <1>5. BlockKeys(b) = {k1, k2, k3, k4} \cup K
    BY DEF BlockKeys, BlockFields
  <1>6. /\ WellFormed(v1) /\ WellFormed(v2) /\ WellFormed(v3) /\ WellFormed(v4)
        /\ AddsFinitely(v1) /\ AddsFinitely(v2) /\ AddsFinitely(v3) /\ AddsFinitely(v4)
        /\ Writes(v1, k1) = {{Contents[b].height}}
        /\ Writes(v2, k2) = {{Contents[b].justify}}
        /\ Writes(v3, k3) = {{Contents[b].data}}
        /\ Writes(v4, k4) = {{len}}
    <2> HIDE DEF k1, k2, k3, k4, len
    <2>1. QED
      BY WritesSet, FewAddFinitely
  <1>7. ASSUME NEW i \in 0 .. len - 1
        PROVE  <<"BLOCKS", b, "DATA", i>> \in K
               /\ Writes(v5, <<"BLOCKS", b, "DATA", i>>) = {{Datums(b)[i + 1]}}
    <2> DEFINE k == <<"BLOCKS", b, "DATA", i>>
    <2>1. k \in K /\ k[4] = i
      BY DEF datum_keys
    <2> HIDE DEF k, K
    <2>2. v5[k] = {Datums(b)[i + 1]} /\ k \in DOMAIN v5
      BY <2>1
    <2>3. QED
      BY <2>1, <2>2 DEF Writes, k
  <1>8. WellFormed(v5)
    BY DEF WellFormed
  <1>9. AddsFinitely(v5)
    <2> DEFINE S == 0 .. len - 1
               f == [i \in S |-> <<"BLOCKS", b, "DATA", i>>]
    <2>1. IsFiniteSet(S)
      BY <1>2, FS_Interval
    <2>2. K = {f[i] : i \in S}
      BY DEF datum_keys
    <2> HIDE DEF S, f, K
    <2>3. IsFiniteSet(K)
      BY <2>1, <2>2, ImageFinite
    <2>4. {k \in DOMAIN v5 : v5[k] # {}} \subseteq K
      BY <1>4
    <2>5. QED
      BY <2>3, <2>4, FS_Subset DEF AddsFinitely
  <1> HIDE DEF k1, k2, k3, k4, K, v1, v2, v3, v4, v5, len
  <1>10. WellFormed(wb) /\ AddsFinitely(wb)
    BY <1>6, <1>8, <1>9, FiveWellFormed, FiveAddFinitely
  <1>11. /\ k1 \notin {k2, k3, k4} \cup K /\ k2 \notin {k3, k4} \cup K
         /\ k3 \notin {k4} \cup K /\ k4 \notin K
    BY <1>3
  <1>12. ASSUME NEW k
         PROVE  Writes(wb, k) = Writes(v1, k) \cup Writes(v2, k) \cup Writes(v3, k)
                                \cup Writes(v4, k) \cup Writes(v5, k)
    <2>1. /\ k \in DOMAIN v1 => k \notin DOMAIN v2 \cup DOMAIN v3 \cup DOMAIN v4 \cup DOMAIN v5
          /\ k \in DOMAIN v2 => k \notin DOMAIN v3 \cup DOMAIN v4 \cup DOMAIN v5
          /\ k \in DOMAIN v3 => k \notin DOMAIN v4 \cup DOMAIN v5
          /\ k \in DOMAIN v4 => k \notin DOMAIN v5
      BY <1>4, <1>11
    <2> HIDE DEF wb
    <2>2. QED
      BY <2>1, FiveApart DEF wb
  <1>13. /\ \A k : k # k1 => Writes(v1, k) = {}
         /\ \A k : k # k2 => Writes(v2, k) = {}
         /\ \A k : k # k3 => Writes(v3, k) = {}
         /\ \A k : k # k4 => Writes(v4, k) = {}
         /\ \A k : k \notin K => Writes(v5, k) = {}
    BY <1>4 DEF Writes
  <1> HIDE DEF wb
  <1>14. \A k : k \in DOMAIN wb <=> Writes(wb, k) # {}
    BY DEF Writes
  <1>15. \A k \in K : Writes(v5, k) # {}
    BY <1>4 DEF Writes
  <1>16. DOMAIN wb = BlockKeys(b)
    <2>1. Writes(v1, k1) # {} /\ Writes(v2, k2) # {} /\ Writes(v3, k3) # {} /\ Writes(v4, k4) # {}
      BY <1>6
    <2>2. ASSUME NEW k \in {k1, k2, k3, k4} \cup K
          PROVE  Writes(wb, k) # {}
      BY <1>12, <1>15, <2>1
    <2>3. ASSUME NEW k, k \notin {k1, k2, k3, k4} \cup K
          PROVE  Writes(wb, k) = {}
      BY <1>12, <1>13, <2>3
    <2>4. \A k : k \in DOMAIN wb <=> k \in {k1, k2, k3, k4} \cup K
      BY <1>14, <2>2, <2>3
    <2> DEFINE D == DOMAIN wb
               E == {k1, k2, k3, k4} \cup K
    <2>5. \A k : k \in D <=> k \in E
      BY <2>4
    <2> HIDE DEF D, E
    <2>6. D = E
      BY <2>5
    <2>7. QED
      BY <1>5, <2>6 DEF D, E
  <1>17. /\ Writes(wb, k1) = {{Contents[b].height}}
         /\ Writes(wb, k2) = {{Contents[b].justify}}
         /\ Writes(wb, k3) = {{Contents[b].data}}
         /\ Writes(wb, k4) = {{len}}
    BY <1>6, <1>11, <1>12, <1>13
  <1>18. ASSUME NEW i \in 0 .. len - 1
         PROVE  Writes(wb, <<"BLOCKS", b, "DATA", i>>) = {{Datums(b)[i + 1]}}
    <2> DEFINE k == <<"BLOCKS", b, "DATA", i>>
    <2>1. k \in K /\ Writes(v5, k) = {{Datums(b)[i + 1]}}
      BY <1>7
    <2> HIDE DEF k
    <2>2. Writes(wb, k) = {{Datums(b)[i + 1]}}
      BY <1>11, <1>12, <1>13, <2>1
    <2>3. QED
      BY <2>2 DEF k
  <1>19. QED
    BY <1>1, <1>10, <1>16, <1>17, <1>18 DEF k1, k2, k3, k4, len

\* The list of children of a parent in the store, or none.
ChildList(store, p) == IF children(store, p) = {} THEN <<>> ELSE the(children(store, p))

\* The tree in the store after an insert.
TreeInserted(next, store, b) ==
  /\ \A k : k[1] = "BLOCKS" /\ k \notin BlockKeys(b) => get(next, k) = get(store, k)
  /\ HoldsBlock(next, b)
  /\ children(next, Parent(b)) = {Append(ChildList(store, Parent(b)), b)}
  /\ \A p : p # Parent(b) => children(next, p) = children(store, p)
  /\ \A x : pending_app_state_updates(next, x)
            = IF x = b THEN {AppUpdatesOf[Contents[b].data]} ELSE pending_app_state_updates(store, x)
  /\ \A x : validator_set_updates_status(next, x)
            = IF x = b /\ Contents[b].data \in UpdatingData
              THEN {[updates |-> {UpdatesOf[Contents[b].data]}]}
              ELSE validator_set_updates_status(store, x)
  /\ \A k : k[1] \notin {"BLOCKS", "NEWEST_BLOCK", "BLOCK_TO_CHILDREN", "PENDING_APP_STATE_UPDATES",
                         "VALIDATOR_SET_UPDATES_STATUS"} => get(next, k) = get(store, k)

\* What insert does to a store.
LEMMA InsertReads ==
  ASSUME NEW store, IsFiniteSet(DOMAIN store), \A k \in DOMAIN store : IsKey(k),
         NEW b \in Blocks, preimage = Contents
  PROVE  LET next == write(store, insert(store, b))
         IN  /\ TreeInserted(next, store, b)
             /\ IsFiniteSet(DOMAIN next)
             /\ \A k \in DOMAIN next : IsKey(k)
  <1> DEFINE d == Contents[b].data
             p == Parent(b)
             list == Append(ChildList(store, p), b)
             updating == d \in UpdatingData
             k2 == <<"NEWEST_BLOCK">>
             k3 == <<"PENDING_APP_STATE_UPDATES", b>>
             k4 == <<"VALIDATOR_SET_UPDATES_STATUS", b>>
             k5 == <<"BLOCK_TO_CHILDREN", p>>
             pending == [updates |-> {UpdatesOf[d]}]
             v1 == set_block(b)
             v2 == set(k2, b)
             v3 == set(k3, AppUpdatesOf[d])
             v4 == IF updating THEN set(k4, pending) ELSE EmptyBatch
             v5 == set(k5, list)
             wb == InOrder(<<v1, v2, v3, v4, v5>>)
             next == write(store, wb)
  <1>1. insert(store, b) = wb
    BY DEF insert, ChildList, Parent, set_newest_block, set_pending_app_state_updates,
           set_pending_validator_set_updates, set_children
  <1>2. /\ k2[1] = "NEWEST_BLOCK" /\ k3[1] = "PENDING_APP_STATE_UPDATES"
        /\ k4[1] = "VALIDATOR_SET_UPDATES_STATUS" /\ k5[1] = "BLOCK_TO_CHILDREN"
        /\ IsKey(k2) /\ IsKey(k3) /\ IsKey(k4) /\ IsKey(k5)
    BY DEF IsKey, Indexed
  <1>3. /\ WellFormed(v1) /\ AddsFinitely(v1) /\ DOMAIN v1 = BlockKeys(b)
        /\ Writes(v1, <<"BLOCKS", b, "HEIGHT">>) = {{Contents[b].height}}
        /\ Writes(v1, <<"BLOCKS", b, "JUSTIFY">>) = {{Contents[b].justify}}
        /\ Writes(v1, <<"BLOCKS", b, "DATA_HASH">>) = {{Contents[b].data}}
        /\ Writes(v1, <<"BLOCKS", b, "DATA_LEN">>) = {{Len(Datums(b))}}
        /\ \A i \in 0 .. Len(Datums(b)) - 1 :
             Writes(v1, <<"BLOCKS", b, "DATA", i>>) = {{Datums(b)[i + 1]}}
    BY BlockBatch
  <1>4. \A k \in BlockKeys(b) : k[1] = "BLOCKS" /\ IsKey(k)
    BY KeysOfFacts
  <1> HIDE DEF k2, k3, k4, k5, v1, pending, updating, list
  <1>5. /\ WellFormed(v2) /\ WellFormed(v3) /\ WellFormed(v4) /\ WellFormed(v5)
        /\ AddsFinitely(v2) /\ AddsFinitely(v3) /\ AddsFinitely(v4) /\ AddsFinitely(v5)
    BY WritesSet, WritesNothing, FewAddFinitely
  <1>6. /\ DOMAIN v2 = {k2} /\ DOMAIN v3 = {k3} /\ DOMAIN v4 \subseteq {k4} /\ DOMAIN v5 = {k5}
    BY DEF set, EmptyBatch
  <1>7. /\ \A k : Writes(v2, k) = IF k = k2 THEN {{b}} ELSE {}
        /\ \A k : Writes(v3, k) = IF k = k3 THEN {{AppUpdatesOf[d]}} ELSE {}
        /\ \A k : Writes(v4, k) = IF k = k4 /\ updating THEN {{pending}} ELSE {}
        /\ \A k : Writes(v5, k) = IF k = k5 THEN {{list}} ELSE {}
    BY WritesSet, WritesNothing
  <1> HIDE DEF v2, v3, v4, v5
  <1>8. WellFormed(wb) /\ AddsFinitely(wb)
    BY <1>3, <1>5, FiveWellFormed, FiveAddFinitely
  <1>9. ASSUME NEW k
        PROVE  Writes(wb, k) = Writes(v1, k) \cup Writes(v2, k) \cup Writes(v3, k)
                               \cup Writes(v4, k) \cup Writes(v5, k)
    <2>1. /\ k \in DOMAIN v1 => k \notin DOMAIN v2 \cup DOMAIN v3 \cup DOMAIN v4 \cup DOMAIN v5
          /\ k \in DOMAIN v2 => k \notin DOMAIN v3 \cup DOMAIN v4 \cup DOMAIN v5
          /\ k \in DOMAIN v3 => k \notin DOMAIN v4 \cup DOMAIN v5
          /\ k \in DOMAIN v4 => k \notin DOMAIN v5
      BY <1>2, <1>3, <1>4, <1>6
    <2> HIDE DEF wb
    <2>2. QED
      BY <2>1, FiveApart DEF wb
  <1> HIDE DEF wb
  <1>10. \A k : k \in DOMAIN wb <=> Writes(wb, k) # {}
    BY DEF Writes
  <1>11. \A k : k \notin BlockKeys(b) => Writes(v1, k) = {}
    BY <1>3 DEF Writes
  <1>12. \A k \in DOMAIN wb : IsKey(k)
    BY <1>2, <1>4, <1>7, <1>9, <1>10, <1>11
  <1>13. IsFiniteSet(DOMAIN next) /\ \A k \in DOMAIN next : IsKey(k)
    <2>1. IsFiniteSet(DOMAIN next)
      BY <1>8, WriteFinite
    <2>2. QED
      BY <1>12, <2>1 DEF write
  <1>14. ASSUME NEW k
         PROVE  /\ Writes(wb, k) = {} => get(next, k) = get(store, k)
                /\ \A v : Writes(wb, k) = {v} => get(next, k) = v
    BY <1>8, WriteReads, ReadAfter
  <1> HIDE DEF next
  <1>15. ASSUME NEW k, k[1] = "BLOCKS"
         PROVE  Writes(wb, k) = Writes(v1, k)
    <2>1. k # k2 /\ k # k3 /\ k # k4 /\ k # k5
      BY <1>2, <1>15
    <2>2. Writes(v2, k) = {} /\ Writes(v3, k) = {} /\ Writes(v4, k) = {} /\ Writes(v5, k) = {}
      BY <1>7, <2>1
    <2>3. QED
      BY <1>9, <2>2
  <1>16. HoldsBlock(next, b)
    <2>1. ASSUME NEW f, NEW v, Writes(v1, <<"BLOCKS", b, f>>) = {v}
          PROVE  get(next, <<"BLOCKS", b, f>>) = v
      BY <1>14, <1>15, <2>1
    <2>2. ASSUME NEW i \in 0 .. Len(Datums(b)) - 1
          PROVE  block_datum(next, b, i) # {}
      <3> DEFINE k == <<"BLOCKS", b, "DATA", i>>
      <3>1. Writes(v1, k) = {{Datums(b)[i + 1]}} /\ k[1] = "BLOCKS"
        BY <1>3
      <3> HIDE DEF k
      <3>2. get(next, k) = {Datums(b)[i + 1]}
        BY <1>14, <1>15, <3>1
      <3>3. QED
        BY <3>2 DEF k, block_datum
    <2>3. /\ block_height(next, b) = {Contents[b].height}
          /\ block_justify(next, b) = {Contents[b].justify}
          /\ block_data_hash(next, b) = {Contents[b].data}
          /\ block_data_len(next, b) = {Len(Datums(b))}
      <3>1. block_height(next, b) = {Contents[b].height}
        <4> DEFINE v == {Contents[b].height}
        <4>1. Writes(v1, <<"BLOCKS", b, "HEIGHT">>) = {v}
          BY <1>3
        <4> HIDE DEF v
        <4>2. QED
          BY <2>1, <4>1 DEF block_height, v
      <3>2. block_justify(next, b) = {Contents[b].justify}
        BY <1>3, <2>1 DEF block_justify
      <3>3. block_data_hash(next, b) = {Contents[b].data}
        BY <1>3, <2>1 DEF block_data_hash
      <3>4. block_data_len(next, b) = {Len(Datums(b))}
        BY <1>3, <2>1 DEF block_data_len
      <3>5. QED
        BY <3>1, <3>2, <3>3, <3>4
    <2>4. QED
      BY <2>2, <2>3 DEF HoldsBlock
  <1>17. \A k : k[1] = "BLOCKS" /\ k \notin BlockKeys(b) => get(next, k) = get(store, k)
    BY <1>11, <1>14, <1>15
  <1>18. ASSUME NEW k, k[1] # "BLOCKS"
         PROVE  Writes(wb, k) = Writes(v2, k) \cup Writes(v3, k) \cup Writes(v4, k) \cup Writes(v5, k)
    BY <1>4, <1>9, <1>11, <1>18
  <1>19. ASSUME NEW x
         PROVE  children(next, x) = IF x = p THEN {list} ELSE children(store, x)
    <2> DEFINE k == <<"BLOCK_TO_CHILDREN", x>>
    <2>1. k[1] = "BLOCK_TO_CHILDREN" /\ (k = k5 <=> x = p)
      BY DEF k5
    <2> HIDE DEF k
    <2>2. Writes(wb, k) = IF x = p THEN {{list}} ELSE {}
      BY <1>2, <1>7, <1>18, <2>1
    <2>3. QED
      BY <1>14, <2>2 DEF children, k
  <1>20. ASSUME NEW x
         PROVE  pending_app_state_updates(next, x)
                = IF x = b THEN {AppUpdatesOf[d]} ELSE pending_app_state_updates(store, x)
    <2> DEFINE k == <<"PENDING_APP_STATE_UPDATES", x>>
    <2>1. k[1] = "PENDING_APP_STATE_UPDATES" /\ (k = k3 <=> x = b)
      BY DEF k3
    <2> HIDE DEF k
    <2>2. Writes(wb, k) = IF x = b THEN {{AppUpdatesOf[d]}} ELSE {}
      BY <1>2, <1>7, <1>18, <2>1
    <2>3. QED
      BY <1>14, <2>2 DEF pending_app_state_updates, k
  <1>21. ASSUME NEW x
         PROVE  validator_set_updates_status(next, x)
                = IF x = b /\ updating THEN {pending} ELSE validator_set_updates_status(store, x)
    <2> DEFINE k == <<"VALIDATOR_SET_UPDATES_STATUS", x>>
    <2>1. k[1] = "VALIDATOR_SET_UPDATES_STATUS" /\ (k = k4 <=> x = b)
      BY DEF k4
    <2> HIDE DEF k
    <2>2. Writes(wb, k) = IF x = b /\ updating THEN {{pending}} ELSE {}
      BY <1>2, <1>7, <1>18, <2>1
    <2>3. QED
      BY <1>14, <2>2 DEF validator_set_updates_status, k
  <1>22. ASSUME NEW k, k[1] \notin {"BLOCKS", "NEWEST_BLOCK", "BLOCK_TO_CHILDREN",
                                    "PENDING_APP_STATE_UPDATES", "VALIDATOR_SET_UPDATES_STATUS"}
         PROVE  get(next, k) = get(store, k)
    <2>1. Writes(wb, k) = {}
      BY <1>2, <1>7, <1>18, <1>22
    <2>2. QED
      BY <1>14, <2>1
  <1>23. TreeInserted(next, store, b)
    BY <1>16, <1>17, <1>19, <1>20, <1>21, <1>22 DEF TreeInserted, list, pending, updating
  <1>24. QED
    BY <1>1, <1>13, <1>23 DEF next

-----------------------------------------------------------------------------
(* The store after an insert, and at first.                                *)

\* An insert adds a block to the tree.
LEMMA InsertKeepsTree ==
  ASSUME NEW store, StoreOK(store), NEW b \in Blocks, Parent(b) \in Stored(store) \cup {0},
         NEW next, IsFiniteSet(DOMAIN next), \A k \in DOMAIN next : IsKey(k),
         TreeInserted(next, store, b)
  PROVE  /\ Stored(next) = Stored(store) \cup {b}
         /\ StoreOK(next)
  <1> DEFINE S == Stored(store)
             N == Stored(next)
             p == Parent(b)
             list == Append(ChildList(store, p), b)
  <1>1. S \subseteq Blocks /\ N \subseteq Blocks
    BY DEF Stored
  <1>2. ASSUME NEW x \in Blocks, x # b, NEW k \in BlockKeys(x)
        PROVE  get(next, k) = get(store, k)
    <2>1. k[1] = "BLOCKS" /\ k \notin BlockKeys(b)
      BY <1>2, KeysOfFacts
    <2>2. QED
      BY <2>1 DEF TreeInserted
  <1>3. ASSUME NEW x \in Blocks
        PROVE  /\ <<"BLOCKS", x, "HEIGHT">> \in BlockKeys(x)
               /\ <<"BLOCKS", x, "JUSTIFY">> \in BlockKeys(x)
               /\ <<"BLOCKS", x, "DATA_HASH">> \in BlockKeys(x)
               /\ <<"BLOCKS", x, "DATA_LEN">> \in BlockKeys(x)
               /\ \A i \in 0 .. Len(Datums(x)) - 1 : <<"BLOCKS", x, "DATA", i>> \in BlockKeys(x)
    BY DEF BlockKeys, BlockFields, datum_keys
  <1>4. ASSUME NEW x \in Blocks, x # b
        PROVE  block_height(next, x) = block_height(store, x)
    BY <1>2, <1>3, <1>4 DEF block_height
  <1>5. HoldsBlock(next, b)
    BY DEF TreeInserted
  <1>6. N = S \cup {b}
    <2>1. block_height(next, b) # {}
      BY <1>5 DEF HoldsBlock
    <2>2. /\ \A x : x \in N <=> x \in Blocks /\ block_height(next, x) # {}
          /\ \A x : x \in S <=> x \in Blocks /\ block_height(store, x) # {}
      BY DEF Stored
    <2> HIDE DEF N, S
    <2>3. QED
      BY <1>4, <2>1, <2>2
  <1>7. ASSUME NEW x \in N
        PROVE  HoldsBlock(next, x) /\ Parent(x) \in N \cup {0}
    <2>1. CASE x = b
      BY <1>5, <1>6, <2>1
    <2>2. CASE x # b
      <3>1. x \in S /\ x \in Blocks /\ HoldsBlock(store, x) /\ Parent(x) \in S \cup {0}
        BY <1>1, <1>6, <2>2 DEF StoreOK
      <3>2. \A k \in BlockKeys(x) : get(next, k) = get(store, k)
        BY <1>2, <2>2, <3>1
      <3> HIDE DEF S, N
      <3>3. HoldsBlock(next, x)
        BY <1>3, <3>1, <3>2
           DEF HoldsBlock, block_height, block_justify, block_data_hash, block_data_len, block_datum
      <3>4. QED
        BY <1>6, <3>1, <3>3
    <2>3. QED
      BY <2>1, <2>2
  <1>8. ASSUME NEW x \in Blocks \ N, NEW k \in BlockKeys(x)
        PROVE  get(next, k) = {}
    <2>1. x # b /\ x \in Blocks \ S
      BY <1>6
    <2>2. get(store, k) = {}
      BY <2>1 DEF StoreOK
    <2>3. QED
      BY <1>2, <2>1, <2>2
  <1>9. ChildrenOK(next)
    <2>1. /\ list \in Seq(Blocks)
          /\ ToSet(list) = {x \in N : Parent(x) = p}
      <3>1. /\ ChildList(store, p) \in Seq(Blocks)
            /\ ToSet(ChildList(store, p)) = {x \in S : Parent(x) = p}
        <4>1. CASE children(store, p) = {} /\ \A x \in S : Parent(x) # p
          <5>1. ChildList(store, p) = <<>>
            BY <4>1 DEF ChildList
          <5>2. {x \in S : Parent(x) = p} = {}
            BY <4>1
          <5>3. ToSet(<<>>) = {}
            BY DEF ToSet
          <5>4. QED
            BY <5>1, <5>2, <5>3, EmptySequence
        <4>2. ASSUME NEW l \in Seq(Blocks), children(store, p) = {l},
                     ToSet(l) = {x \in S : Parent(x) = p}
              PROVE  /\ ChildList(store, p) \in Seq(Blocks)
                     /\ ToSet(ChildList(store, p)) = {x \in S : Parent(x) = p}
          BY <4>2, TheOnly DEF ChildList
        <4>3. \/ children(store, p) = {} /\ \A x \in S : Parent(x) # p
              \/ \E l \in Seq(Blocks) : children(store, p) = {l} /\ ToSet(l) = {x \in S : Parent(x) = p}
          BY DEF StoreOK, ChildrenOK
        <4>4. QED
          BY <4>1, <4>2, <4>3
      <3> DEFINE old == ChildList(store, p)
      <3>2. old \in Seq(Blocks) /\ ToSet(old) = {x \in S : Parent(x) = p} /\ list = Append(old, b)
        BY <3>1
      <3> HIDE DEF old, list
      <3>3. list \in Seq(Blocks)
        BY <3>2
      <3>4. ToSet(list) = ToSet(old) \cup {b}
        BY <3>2 DEF ToSet
      <3>5. QED
        BY <1>6, <3>2, <3>3, <3>4
    <2>2. children(next, p) = {list} /\ \A x : x # p => children(next, x) = children(store, x)
      BY DEF TreeInserted
    <2>3. p \in N \cup {0}
      BY <1>6
    <2>4. ASSUME NEW x, x # p
          PROVE  \/ children(next, x) = {} /\ \A y \in N : Parent(y) # x
                 \/ \E l \in Seq(Blocks) : /\ children(next, x) = {l}
                                           /\ ToSet(l) = {y \in N : Parent(y) = x}
                                           /\ x \in N \cup {0}
      <3>1. {y \in N : Parent(y) = x} = {y \in S : Parent(y) = x}
        BY <1>6, <2>4
      <3>2. \/ children(store, x) = {} /\ \A y \in S : Parent(y) # x
            \/ \E l \in Seq(Blocks) : /\ children(store, x) = {l}
                                      /\ ToSet(l) = {y \in S : Parent(y) = x}
                                      /\ x \in S \cup {0}
        BY DEF StoreOK, ChildrenOK
      <3> HIDE DEF S, N, list
      <3>3. QED
        BY <1>6, <2>2, <2>4, <3>1, <3>2
    <2> HIDE DEF list
    <2>5. QED
      BY <2>1, <2>2, <2>3, <2>4 DEF ChildrenOK
  <1>10. UpdatesOK(next)
    <2>1. ASSUME NEW x
          PROVE  \/ pending_app_state_updates(next, x) = {}
                 \/ /\ pending_app_state_updates(next, x) = {AppUpdatesOf[Contents[x].data]}
                    /\ x \in N
      <3>1. pending_app_state_updates(next, x)
            = IF x = b THEN {AppUpdatesOf[Contents[b].data]} ELSE pending_app_state_updates(store, x)
        BY DEF TreeInserted
      <3>2. \/ pending_app_state_updates(store, x) = {}
            \/ pending_app_state_updates(store, x) = {AppUpdatesOf[Contents[x].data]} /\ x \in S
        BY DEF StoreOK, UpdatesOK
      <3> HIDE DEF S, N
      <3>3. QED
        BY <1>6, <3>1, <3>2
    <2>2. ASSUME NEW x
          PROVE  \/ validator_set_updates_status(next, x) = {}
                 \/ /\ validator_set_updates_status(next, x) = {[updates |-> {}]}
                    /\ x \in N
                 \/ /\ validator_set_updates_status(next, x)
                       = {[updates |-> {UpdatesOf[Contents[x].data]}]}
                    /\ x \in N
      <3> DEFINE done == {[updates |-> {}]}
                 pending(y) == {[updates |-> {UpdatesOf[Contents[y].data]}]}
      <3>1. validator_set_updates_status(next, x)
            = IF x = b /\ Contents[b].data \in UpdatingData THEN pending(b)
              ELSE validator_set_updates_status(store, x)
        BY DEF TreeInserted
      <3>2. \/ validator_set_updates_status(store, x) = {}
            \/ validator_set_updates_status(store, x) = done /\ x \in S
            \/ validator_set_updates_status(store, x) = pending(x) /\ x \in S
        BY DEF StoreOK, UpdatesOK
      <3> HIDE DEF S, N, done, pending
      <3>3. QED
        BY <1>6, <3>1, <3>2 DEF done, pending
    <2>3. QED
      BY <2>1, <2>2 DEF UpdatesOK
  <1>11. \/ highest_committed_block(next) = {}
         \/ \E x \in N : highest_committed_block(next) = {x}
    <2>1. <<"HIGHEST_COMMITTED_BLOCK">>[1] = "HIGHEST_COMMITTED_BLOCK"
      OBVIOUS
    <2>2. highest_committed_block(next) = highest_committed_block(store)
      BY <2>1 DEF TreeInserted, highest_committed_block
    <2>3. QED
      BY <1>6, <2>2 DEF StoreOK
  <1>12. QED
    BY <1>6, <1>7, <1>8, <1>9, <1>10, <1>11 DEF StoreOK

\* An empty store holds an empty tree.
LEMMA EmptyStoreOK == StoreOK(<<>>) /\ Stored(<<>>) = {}
  <1>1. \A k : get(<<>>, k) = {}
    BY DEF get
  <1>2. DOMAIN <<>> = {} /\ IsFiniteSet({})
    BY FS_EmptySet
  <1>3. Stored(<<>>) = {}
    BY <1>1 DEF Stored, block_height
  <1>4. ChildrenOK(<<>>)
    BY <1>1, <1>3 DEF ChildrenOK, children
  <1>5. UpdatesOK(<<>>)
    BY <1>1 DEF UpdatesOK, pending_app_state_updates, validator_set_updates_status
  <1>6. highest_committed_block(<<>>) = {}
    BY <1>1 DEF highest_committed_block
  <1>7. QED
    BY <1>1, <1>2, <1>3, <1>4, <1>5, <1>6 DEF StoreOK

\* The updates of the app state write nothing else.
LEMMA AppStateBatch ==
  ASSUME NEW updates
  PROVE  LET wb == apply_app_state_updates(updates)
         IN  WellFormed(wb) /\ WritesOnly(wb, {"COMMITTED_APP_STATE"})
  <1> DEFINE sets == [k \in {<<"COMMITTED_APP_STATE", key>> : key \in DOMAIN updates.inserts} |->
                        set_committed_app_state(k[2], updates.inserts[k[2]])[k]]
             deletes == [k \in {<<"COMMITTED_APP_STATE", key>> : key \in updates.deletes} |->
                           delete_committed_app_state(k[2])[k]]
  <1>1. apply_app_state_updates(updates) = Then(sets, deletes)
    BY DEF apply_app_state_updates
  <1>2. WellFormed(sets) /\ WritesOnly(sets, {"COMMITTED_APP_STATE"})
    <2>1. ASSUME NEW k \in DOMAIN sets
          PROVE  k[1] = "COMMITTED_APP_STATE" /\ \E x : sets[k] = {x}
      <3>1. PICK key \in DOMAIN updates.inserts : k = <<"COMMITTED_APP_STATE", key>>
        OBVIOUS
      <3>2. k[1] = "COMMITTED_APP_STATE" /\ k[2] = key
        BY <3>1
      <3>3. set_committed_app_state(key, updates.inserts[key])[k] = {updates.inserts[key]}
        BY <3>1 DEF set_committed_app_state, set
      <3>4. sets[k] = set_committed_app_state(k[2], updates.inserts[k[2]])[k]
        OBVIOUS
      <3> HIDE DEF sets
      <3>5. QED
        BY <3>2, <3>3, <3>4
    <2> HIDE DEF sets
    <2>2. QED
      BY <2>1 DEF WellFormed, WritesOnly
  <1>3. WellFormed(deletes) /\ WritesOnly(deletes, {"COMMITTED_APP_STATE"})
    BY DEF WellFormed, WritesOnly, delete_committed_app_state, delete
  <1> HIDE DEF sets, deletes
  <1>4. WellFormed(Then(sets, deletes)) /\ WritesOnly(Then(sets, deletes), {"COMMITTED_APP_STATE"})
    BY <1>2, <1>3, ThenWellFormed DEF WritesOnly, Then
  <1>5. QED
    BY <1>1, <1>4

\* The variables that initialize sets.
InitialVariables ==
  {"COMMITTED_APP_STATE", "COMMITTED_VALIDATOR_SET", "PREVIOUS_VALIDATOR_SET",
   "VALIDATOR_SET_UPDATE_DECIDED", "LOCKED_PC", "HIGHEST_VIEW_ENTERED", "HIGHEST_PC"}

\* What initialize writes.
LEMMA InitialBatch ==
  /\ WellFormed(initialize) /\ AddsFinitely(initialize)
  /\ \A k \in DOMAIN initialize : IsKey(k) /\ k[1] \in InitialVariables
  /\ Writes(initialize, <<"COMMITTED_VALIDATOR_SET">>) = {{InitialValidatorSet}}
  /\ Writes(initialize, <<"PREVIOUS_VALIDATOR_SET">>) = {{InitialValidatorSet}}
  /\ Writes(initialize, <<"VALIDATOR_SET_UPDATE_DECIDED">>) = {{TRUE}}
  /\ Writes(initialize, <<"LOCKED_PC">>) = {{Tree!genesis_pc}}
  /\ Writes(initialize, <<"HIGHEST_VIEW_ENTERED">>) = {{0}}
  /\ Writes(initialize, <<"HIGHEST_PC">>) = {{Tree!genesis_pc}}
  <1> DEFINE k2 == <<"COMMITTED_VALIDATOR_SET">>
             k3 == <<"PREVIOUS_VALIDATOR_SET">>
             k4 == <<"VALIDATOR_SET_UPDATE_DECIDED">>
             k5 == <<"LOCKED_PC">>
             k6 == <<"HIGHEST_VIEW_ENTERED">>
             k7 == <<"HIGHEST_PC">>
             a == apply_app_state_updates(InitialAppState)
             b == set(k2, InitialValidatorSet)
             c == set(k3, InitialValidatorSet)
             d == set(k4, TRUE)
             e == set(k5, Tree!genesis_pc)
             f == set(k6, 0)
             g == set(k7, Tree!genesis_pc)
             batches == <<a, b, c, d, e, f, g>>
  <1>1. initialize = InOrder(batches)
    BY DEF initialize, set_committed_validator_set, set_previous_validator_set,
           set_validator_set_update_decided, set_locked_pc, set_highest_view_entered, set_highest_pc
  <1>2. /\ k2[1] = "COMMITTED_VALIDATOR_SET" /\ k3[1] = "PREVIOUS_VALIDATOR_SET"
        /\ k4[1] = "VALIDATOR_SET_UPDATE_DECIDED" /\ k5[1] = "LOCKED_PC"
        /\ k6[1] = "HIGHEST_VIEW_ENTERED" /\ k7[1] = "HIGHEST_PC"
    OBVIOUS
  <1>3. WellFormed(a) /\ AddsFinitely(a) /\ \A k \in DOMAIN a : k[1] = "COMMITTED_APP_STATE"
    BY AppStateBatch, AppAddsFinitely, StoreAssumption DEF WritesOnly
  <1> HIDE DEF a, k2, k3, k4, k5, k6, k7
  <1>4. ASSUME NEW key, NEW value
        PROVE  /\ WellFormed(set(key, value)) /\ AddsFinitely(set(key, value))
               /\ DOMAIN set(key, value) = {key} /\ Writes(set(key, value), key) = {{value}}
    <2>1. DOMAIN set(key, value) = {key}
      BY DEF set
    <2>2. QED
      BY <2>1, FewAddFinitely, WritesSet
  <1>5. /\ WellFormed(b) /\ AddsFinitely(b) /\ DOMAIN b = {k2} /\ Writes(b, k2) = {{InitialValidatorSet}}
        /\ WellFormed(c) /\ AddsFinitely(c) /\ DOMAIN c = {k3} /\ Writes(c, k3) = {{InitialValidatorSet}}
        /\ WellFormed(d) /\ AddsFinitely(d) /\ DOMAIN d = {k4} /\ Writes(d, k4) = {{TRUE}}
    BY <1>4
  <1>6. /\ WellFormed(e) /\ AddsFinitely(e) /\ DOMAIN e = {k5} /\ Writes(e, k5) = {{Tree!genesis_pc}}
        /\ WellFormed(f) /\ AddsFinitely(f) /\ DOMAIN f = {k6} /\ Writes(f, k6) = {{0}}
        /\ WellFormed(g) /\ AddsFinitely(g) /\ DOMAIN g = {k7} /\ Writes(g, k7) = {{Tree!genesis_pc}}
    BY <1>4
  <1> HIDE DEF b, c, d, e, f, g
  <1>7. /\ DOMAIN batches = 1 .. 7
        /\ batches[1] = a /\ batches[2] = b /\ batches[3] = c /\ batches[4] = d /\ batches[5] = e
        /\ batches[6] = f /\ batches[7] = g
    OBVIOUS
  <1> HIDE DEF batches
  <1>8. WellFormed(InOrder(batches)) /\ AddsFinitely(InOrder(batches))
    <2> DEFINE m == 7
    <2>1. /\ m \in Nat /\ DOMAIN batches = 1 .. m
          /\ \A i \in 1 .. m : WellFormed(batches[i]) /\ AddsFinitely(batches[i])
      BY <1>3, <1>5, <1>6, <1>7
    <2> HIDE DEF m
    <2>2. QED
      BY <2>1, InOrderWellFormed, InOrderAddsFinitely
  <1>9. /\ DOMAIN batches[2] = {k2} /\ DOMAIN batches[3] = {k3} /\ DOMAIN batches[4] = {k4}
        /\ DOMAIN batches[5] = {k5} /\ DOMAIN batches[6] = {k6} /\ DOMAIN batches[7] = {k7}
        /\ \A k \in DOMAIN batches[1] : k[1] = "COMMITTED_APP_STATE"
    BY <1>3, <1>5, <1>6, <1>7
  <1>10. ASSUME NEW i \in 1 .. 7, NEW k \in DOMAIN batches[i]
         PROVE  \/ (k[1] = "COMMITTED_APP_STATE" /\ i = 1)
                \/ (k = k2 /\ i = 2)
                \/ (k = k3 /\ i = 3)
                \/ (k = k4 /\ i = 4)
                \/ (k = k5 /\ i = 5)
                \/ (k = k6 /\ i = 6)
                \/ (k = k7 /\ i = 7)
    <2>1. i = 1 \/ i = 2 \/ i = 3 \/ i = 4 \/ i = 5 \/ i = 6 \/ i = 7
      OBVIOUS
    <2>2. CASE i = 1
      BY <1>9, <1>10, <2>2
    <2>3. CASE i # 1
      <3>2. CASE i = 2
        BY <1>9, <1>10, <3>2
      <3>3. CASE i = 3
        BY <1>9, <1>10, <3>3
      <3>4. CASE i = 4
        BY <1>9, <1>10, <3>4
      <3>5. CASE i = 5
        BY <1>9, <1>10, <3>5
      <3>6. CASE i = 6
        BY <1>9, <1>10, <3>6
      <3>7. CASE i = 7
        BY <1>9, <1>10, <3>7
      <3>8. QED
        BY <2>1, <2>3, <3>2, <3>3, <3>4, <3>5, <3>6, <3>7
    <2>4. QED
      BY <2>2, <2>3
  <1>11. ASSUME NEW k \in DOMAIN InOrder(batches)
         PROVE  IsKey(k) /\ k[1] \in InitialVariables
    <2>1. PICK i \in 1 .. 7 : k \in DOMAIN batches[i]
      BY <1>7, InOrderKeys
    <2>2. \/ k[1] = "COMMITTED_APP_STATE"
          \/ k[1] = "COMMITTED_VALIDATOR_SET" \/ k[1] = "PREVIOUS_VALIDATOR_SET"
          \/ k[1] = "VALIDATOR_SET_UPDATE_DECIDED" \/ k[1] = "LOCKED_PC"
          \/ k[1] = "HIGHEST_VIEW_ENTERED" \/ k[1] = "HIGHEST_PC"
      BY <1>2, <1>10, <2>1
    <2>3. QED
      BY <2>2 DEF IsKey, Indexed, InitialVariables
  <1>12. ASSUME NEW i \in 1 .. 7, NEW k, \A j \in 1 .. 7 : j # i => k \notin DOMAIN batches[j]
         PROVE  Writes(InOrder(batches), k) = Writes(batches[i], k)
    <2> DEFINE m == 7
    <2>1. /\ m \in Nat /\ DOMAIN batches = 1 .. m /\ i \in 1 .. m
          /\ \A j \in 1 .. m : j # i => k \notin DOMAIN batches[j]
      BY <1>7, <1>12
    <2> HIDE DEF m
    <2>2. QED
      BY <2>1, WritesOne
  <1>13. ASSUME NEW i \in 1 .. 7, NEW k, DOMAIN batches[i] = {k}, k[1] # "COMMITTED_APP_STATE"
         PROVE  Writes(InOrder(batches), k) = Writes(batches[i], k)
    <2>1. ASSUME NEW j \in 1 .. 7, j # i PROVE k \notin DOMAIN batches[j]
      <3>1. SUFFICES ASSUME k \in DOMAIN batches[j] PROVE FALSE
        OBVIOUS
      <3>2. k \in DOMAIN batches[i]
        BY <1>13
      <3>3. \/ (k = k2 /\ j = 2)
            \/ (k = k3 /\ j = 3)
            \/ (k = k4 /\ j = 4)
            \/ (k = k5 /\ j = 5)
            \/ (k = k6 /\ j = 6)
            \/ (k = k7 /\ j = 7)
        BY <1>10, <1>13, <3>1
      <3>4. \/ (k = k2 /\ i = 2)
            \/ (k = k3 /\ i = 3)
            \/ (k = k4 /\ i = 4)
            \/ (k = k5 /\ i = 5)
            \/ (k = k6 /\ i = 6)
            \/ (k = k7 /\ i = 7)
        BY <1>10, <1>13, <3>2
      <3>5. QED
        BY <1>2, <2>1, <3>3, <3>4
    <2>2. QED
      BY <1>12, <2>1
  <1>14. /\ Writes(InOrder(batches), k2) = Writes(b, k2) /\ Writes(InOrder(batches), k3) = Writes(c, k3)
         /\ Writes(InOrder(batches), k4) = Writes(d, k4)
    <2>1. /\ Writes(InOrder(batches), k2) = Writes(batches[2], k2)
          /\ Writes(InOrder(batches), k3) = Writes(batches[3], k3)
          /\ Writes(InOrder(batches), k4) = Writes(batches[4], k4)
      BY <1>2, <1>9, <1>13
    <2>2. QED
      BY <1>7, <2>1
  <1>15. /\ Writes(InOrder(batches), k5) = Writes(e, k5) /\ Writes(InOrder(batches), k6) = Writes(f, k6)
         /\ Writes(InOrder(batches), k7) = Writes(g, k7)
    <2>1. /\ Writes(InOrder(batches), k5) = Writes(batches[5], k5)
          /\ Writes(InOrder(batches), k6) = Writes(batches[6], k6)
          /\ Writes(InOrder(batches), k7) = Writes(batches[7], k7)
      BY <1>2, <1>9, <1>13
    <2>2. QED
      BY <1>7, <2>1
  <1>16. QED
    BY <1>1, <1>5, <1>6, <1>8, <1>11, <1>14, <1>15 DEF k2, k3, k4, k5, k6, k7

\* The first store.
LEMMA InitialStore ==
  LET store == write(<<>>, initialize)
  IN  /\ SameTree(store, <<>>)
      /\ StoreOK(store) /\ Stored(store) = {}
  <1>1. \A k \in DOMAIN initialize : IsKey(k) /\ k[1] \notin TreeVariables
    BY InitialBatch DEF InitialVariables, TreeVariables, Indexed
  <1>2. SameTree(write(<<>>, initialize), <<>>)
    <2>1. IsFiniteSet(DOMAIN <<>>) /\ \A k \in DOMAIN <<>> : IsKey(k)
      BY EmptyStoreOK DEF StoreOK
    <2>2. QED
      BY <1>1, <2>1, InitialBatch, WriteSameTree
  <1>3. QED
    BY <1>2, EmptyStoreOK, SameTreeOK, SameTreeReads

-----------------------------------------------------------------------------
(* The tree that the getters read.                                         *)

\* `Index` of any store.
IndexOf(store, p) == {k[2] : k \in {key \in DOMAIN store : Len(key) >= 2 /\ key[1] = p}}

\* `Decoded` of any store.
DecodedOf(store, app) ==
  [ blocks                  |-> {b \in IndexOf(store, "BLOCKS") : block_height(store, b) # {}},
    children                |-> UNION {{b} \X ToSet(the(children(store, b))) :
                                       b \in IndexOf(store, "BLOCK_TO_CHILDREN")},
    pending_app_updates     |-> IndexOf(store, "PENDING_APP_STATE_UPDATES"),
    app_state               |-> app,
    pending_updates         |-> {b \in IndexOf(store, "VALIDATOR_SET_UPDATES_STATUS") :
                                   pending_validator_set_updates(store, b) # {}},
    committed_updates       |-> {b \in IndexOf(store, "VALIDATOR_SET_UPDATES_STATUS") :
                                   pending_validator_set_updates(store, b) = {}},
    block_at_height         |-> {<<h, the(block_at_height(store, h))>> :
                                   h \in IndexOf(store, "BLOCK_AT_HEIGHT")},
    highest_committed_block |-> Optional(highest_committed_block(store), Tree!NoBlock),
    locked_pc               |-> locked_pc(store),
    highest_pc              |-> highest_pc(store),
    highest_view_entered    |-> highest_view_entered(store),
    highest_view_voted      |-> Optional(highest_view_phase_voted(store), Tree!None),
    cvs                     |-> committed_validator_set(store),
    pvs                     |-> previous_validator_set(store),
    update_height           |-> Optional(update_block_height(store), Tree!None),
    update_decided          |-> update_decided(store) ]

\* The replica's tree is that of its store.
LEMMA DecodedIs ==
  /\ Decoded = DecodedOf(kv, applied)
  /\ Decoded' = DecodedOf(kv', applied')
  /\ \A p : Index(p) = IndexOf(kv, p)
  BY DEF Decoded, DecodedOf, Index, IndexOf, block_height, children, pending_validator_set_updates,
         validator_set_updates_status, block_at_height, highest_committed_block, locked_pc, highest_pc,
         highest_view_entered, highest_view_phase_voted, committed_validator_set,
         previous_validator_set, update_block_height, update_decided, get, Optional, the,
         Tree!NoBlock, Tree!None, ToSet

\* What the index of a variable is.
LEMMA IndexFacts ==
  ASSUME NEW store, StoreOK(store)
  PROVE  /\ IndexOf(store, "BLOCKS") = Stored(store)
         /\ \A p \in Indexed : \A x : x \in IndexOf(store, p) <=> get(store, <<p, x>>) # {}
  <1>1. \A k \in DOMAIN store : IsKey(k)
    BY DEF StoreOK
  <1>2. \A b \in Blocks \ Stored(store) : \A k \in BlockKeys(b) : get(store, k) = {}
    BY DEF StoreOK
  <1>3. ASSUME NEW k \in DOMAIN store, k[1] = "BLOCKS" PROVE k[2] \in Stored(store)
    <2>1. k[2] \in Blocks /\ k \in BlockKeys(k[2])
      BY <1>1, <1>3 DEF IsKey
    <2>2. get(store, k) # {}
      BY InStore
    <2>3. QED
      BY <1>2, <2>1, <2>2
  <1>4. ASSUME NEW b \in Stored(store) PROVE b \in IndexOf(store, "BLOCKS")
    <2> DEFINE k == <<"BLOCKS", b, "HEIGHT">>
    <2>1. k \in DOMAIN store
      BY InStore DEF Stored, block_height
    <2>2. k[1] = "BLOCKS" /\ k[2] = b /\ Len(k) >= 2
      OBVIOUS
    <2> HIDE DEF k
    <2>3. QED
      BY <2>1, <2>2 DEF IndexOf
  <1>5. IndexOf(store, "BLOCKS") = Stored(store)
    BY <1>3, <1>4 DEF IndexOf
  <1>6. ASSUME NEW p \in Indexed, NEW x, x \in IndexOf(store, p) PROVE get(store, <<p, x>>) # {}
    <2>1. PICK k \in DOMAIN store : k[1] = p /\ k[2] = x
      BY <1>6 DEF IndexOf
    <2>2. k = <<p, x>>
      BY <1>1, <2>1 DEF IsKey
    <2>3. QED
      BY <2>2, InStore
  <1>7. ASSUME NEW p \in Indexed, NEW x, get(store, <<p, x>>) # {} PROVE x \in IndexOf(store, p)
    <2> DEFINE k == <<p, x>>
    <2>1. k \in DOMAIN store
      BY <1>7, InStore
    <2>2. k[1] = p /\ k[2] = x /\ Len(k) >= 2
      OBVIOUS
    <2> HIDE DEF k
    <2>3. QED
      BY <2>1, <2>2 DEF IndexOf
  <1>8. QED
    BY <1>5, <1>6, <1>7

\* What the tree is, field by field.
LEMMA DecodedFacts ==
  ASSUME NEW store, StoreOK(store), NEW app
  PROVE  LET tree == DecodedOf(store, app)
         IN  /\ tree.blocks = Stored(store)
             /\ tree.children = {<<Parent(x), x>> : x \in Stored(store)}
             /\ tree.pending_app_updates = {x \in Stored(store) : pending_app_state_updates(store, x) # {}}
             /\ tree.pending_updates = {x \in Stored(store) : pending_validator_set_updates(store, x) # {}}
             /\ tree.committed_updates = {x \in Stored(store) : /\ validator_set_updates_status(store, x) # {}
                                                              /\ pending_validator_set_updates(store, x) = {}}
             /\ \A e : e \in tree.block_at_height <=> \E h, b : e = <<h, b>> /\ block_at_height(store, h) = {b}
  <1> DEFINE tree == DecodedOf(store, app)
             edges == {<<Parent(x), x>> : x \in Stored(store)}
  <1>1. IndexOf(store, "BLOCKS") = Stored(store)
    BY IndexFacts
  <1>2. /\ \A x : x \in IndexOf(store, "BLOCK_TO_CHILDREN") <=> children(store, x) # {}
        /\ \A x : x \in IndexOf(store, "PENDING_APP_STATE_UPDATES") <=> pending_app_state_updates(store, x) # {}
        /\ \A x : x \in IndexOf(store, "VALIDATOR_SET_UPDATES_STATUS")
                  <=> validator_set_updates_status(store, x) # {}
        /\ \A x : x \in IndexOf(store, "BLOCK_AT_HEIGHT") <=> block_at_height(store, x) # {}
    BY IndexFacts DEF Indexed, children, pending_app_state_updates, validator_set_updates_status,
                      block_at_height
  <1>3. tree.blocks = Stored(store)
    BY <1>1 DEF DecodedOf, Stored
  <1>4. tree.children = edges
    <2>1. tree.children = UNION {{b} \X ToSet(the(children(store, b))) : b \in IndexOf(store, "BLOCK_TO_CHILDREN")}
      BY DEF DecodedOf
    <2>2. ASSUME NEW b, children(store, b) # {}
          PROVE  ToSet(the(children(store, b))) = {x \in Stored(store) : Parent(x) = b}
      <3>1. ChildrenOK(store)
        BY DEF StoreOK
      <3>2. PICK list \in Seq(Blocks) : /\ children(store, b) = {list}
                                        /\ ToSet(list) = {x \in Stored(store) : Parent(x) = b}
        BY <2>2, <3>1 DEF ChildrenOK
      <3>3. QED
        BY <3>2, TheOnly
    <2>3. ASSUME NEW e, e \in tree.children PROVE e \in edges
      <3>1. PICK b \in IndexOf(store, "BLOCK_TO_CHILDREN") : e \in {b} \X ToSet(the(children(store, b)))
        BY <2>1, <2>3
      <3>2. e \in {b} \X {x \in Stored(store) : Parent(x) = b}
        BY <1>2, <2>2, <3>1
      <3>3. PICK x \in Stored(store) : e = <<Parent(x), x>>
        BY <3>2
      <3>4. QED
        BY <3>3
    <2>4. ASSUME NEW x \in Stored(store) PROVE <<Parent(x), x>> \in tree.children
      <3>1. ChildrenOK(store)
        BY DEF StoreOK
      <3>2. children(store, Parent(x)) # {}
        BY <3>1 DEF ChildrenOK
      <3>3. <<Parent(x), x>> \in {Parent(x)} \X ToSet(the(children(store, Parent(x))))
        BY <2>2, <3>2
      <3>4. Parent(x) \in IndexOf(store, "BLOCK_TO_CHILDREN")
        BY <1>2, <3>2
      <3>5. QED
        BY <2>1, <3>3, <3>4
    <2> HIDE DEF tree
    <2>5. QED
      BY <2>3, <2>4
  <1>5. \A x : /\ pending_app_state_updates(store, x) # {} => x \in Stored(store)
               /\ validator_set_updates_status(store, x) # {} => x \in Stored(store)
               /\ pending_validator_set_updates(store, x) # {} => validator_set_updates_status(store, x) # {}
    BY DEF StoreOK, UpdatesOK, pending_validator_set_updates
  <1>6. tree.pending_app_updates = {x \in Stored(store) : pending_app_state_updates(store, x) # {}}
    <2>1. tree.pending_app_updates = IndexOf(store, "PENDING_APP_STATE_UPDATES")
      BY DEF DecodedOf
    <2>2. QED
      BY <1>2, <1>5, <2>1
  <1>7. tree.pending_updates = {x \in Stored(store) : pending_validator_set_updates(store, x) # {}}
    <2>1. tree.pending_updates = {b \in IndexOf(store, "VALIDATOR_SET_UPDATES_STATUS") :
                                    pending_validator_set_updates(store, b) # {}}
      BY DEF DecodedOf
    <2>2. QED
      BY <1>2, <1>5, <2>1
  <1>8. tree.committed_updates = {x \in Stored(store) : /\ validator_set_updates_status(store, x) # {}
                                                        /\ pending_validator_set_updates(store, x) = {}}
    <2>1. tree.committed_updates = {b \in IndexOf(store, "VALIDATOR_SET_UPDATES_STATUS") :
                                      pending_validator_set_updates(store, b) = {}}
      BY DEF DecodedOf
    <2>2. QED
      BY <1>2, <1>5, <2>1
  <1>9. ASSUME NEW e
        PROVE  e \in tree.block_at_height <=> \E h, b : e = <<h, b>> /\ block_at_height(store, h) = {b}
    <2>1. tree.block_at_height = {<<h, the(block_at_height(store, h))>> : h \in IndexOf(store, "BLOCK_AT_HEIGHT")}
      BY DEF DecodedOf
    <2>2. \A h : block_at_height(store, h) = {} \/ \E b : block_at_height(store, h) = {b}
      BY OneOrNone DEF block_at_height
    <2>3. ASSUME e \in tree.block_at_height PROVE \E h, b : e = <<h, b>> /\ block_at_height(store, h) = {b}
      <3>1. PICK h \in IndexOf(store, "BLOCK_AT_HEIGHT") : e = <<h, the(block_at_height(store, h))>>
        BY <2>1, <2>3
      <3>2. PICK b : block_at_height(store, h) = {b}
        BY <1>2, <2>2
      <3>3. QED
        BY <3>1, <3>2, TheOnly
    <2>4. ASSUME NEW h, NEW b, e = <<h, b>>, block_at_height(store, h) = {b} PROVE e \in tree.block_at_height
      <3>1. h \in IndexOf(store, "BLOCK_AT_HEIGHT") /\ the(block_at_height(store, h)) = b
        BY <1>2, <2>4, TheOnly
      <3>2. QED
        BY <2>1, <2>4, <3>1
    <2>5. QED
      BY <2>3, <2>4
  <1>10. QED
    BY <1>3, <1>4, <1>6, <1>7, <1>8, <1>9

-----------------------------------------------------------------------------
(* insert adds a block to the tree that is read.                           *)

\* The fields of a tree.
IsTree(t) ==
  t = [ blocks                  |-> t.blocks,
        children                |-> t.children,
        pending_app_updates     |-> t.pending_app_updates,
        app_state               |-> t.app_state,
        pending_updates         |-> t.pending_updates,
        committed_updates       |-> t.committed_updates,
        block_at_height         |-> t.block_at_height,
        highest_committed_block |-> t.highest_committed_block,
        locked_pc               |-> t.locked_pc,
        highest_pc              |-> t.highest_pc,
        highest_view_entered    |-> t.highest_view_entered,
        highest_view_voted      |-> t.highest_view_voted,
        cvs                     |-> t.cvs,
        pvs                     |-> t.pvs,
        update_height           |-> t.update_height,
        update_decided          |-> t.update_decided ]

\* Two trees whose fields are the same are the same.
SameFields(t, u) ==
  /\ t.blocks = u.blocks /\ t.children = u.children
  /\ t.pending_app_updates = u.pending_app_updates /\ t.app_state = u.app_state
  /\ t.pending_updates = u.pending_updates /\ t.committed_updates = u.committed_updates
  /\ t.block_at_height = u.block_at_height
  /\ t.highest_committed_block = u.highest_committed_block
  /\ t.locked_pc = u.locked_pc /\ t.highest_pc = u.highest_pc
  /\ t.highest_view_entered = u.highest_view_entered /\ t.highest_view_voted = u.highest_view_voted
  /\ t.cvs = u.cvs /\ t.pvs = u.pvs
  /\ t.update_height = u.update_height /\ t.update_decided = u.update_decided

\* Trees with the same fields are equal.
LEMMA TreesEqual ==
  ASSUME NEW t, NEW u, IsTree(t), IsTree(u), SameFields(t, u)
  PROVE  t = u
  BY DEF IsTree, SameFields

\* The tree that is read is one.
LEMMA DecodedIsTree ==
  ASSUME NEW store, NEW app
  PROVE  IsTree(DecodedOf(store, app))
  BY DEF IsTree, DecodedOf

\* What an insert does to the fields.
InsertFields(u, b, t) ==
  /\ IsTree(u)
  /\ u.blocks = t.blocks \cup {b}
  /\ u.children = t.children \cup {<<Tree!block_justify(b).block, b>>}
  /\ u.pending_app_updates = t.pending_app_updates \cup {b}
  /\ u.pending_updates
     = IF Tree!data(b) \in UpdatingData THEN t.pending_updates \cup {b} ELSE t.pending_updates
  /\ u.committed_updates
     = IF Tree!data(b) \in UpdatingData THEN t.committed_updates \ {b} ELSE t.committed_updates
  /\ u.app_state = t.app_state /\ u.block_at_height = t.block_at_height
  /\ u.highest_committed_block = t.highest_committed_block
  /\ u.locked_pc = t.locked_pc /\ u.highest_pc = t.highest_pc
  /\ u.highest_view_entered = t.highest_view_entered
  /\ u.highest_view_voted = t.highest_view_voted
  /\ u.cvs = t.cvs /\ u.pvs = t.pvs
  /\ u.update_height = t.update_height /\ u.update_decided = t.update_decided

\* Tree!insert does just that.
LEMMA InsertIsTree ==
  ASSUME NEW b, NEW t, IsTree(t)
  PROVE  InsertFields(Tree!insert(b, t), b, t)
  <1> DEFINE u == Tree!insert(b, t)
             edge == <<Tree!block_justify(b).block, b>>
             updating == Tree!data(b) \in UpdatingData
  <1>1. u = [t EXCEPT !.blocks = t.blocks \cup {b},
                      !.children = t.children \cup {edge},
                      !.pending_app_updates = t.pending_app_updates \cup {b},
                      !.pending_updates = IF updating THEN t.pending_updates \cup {b} ELSE t.pending_updates,
                      !.committed_updates = IF updating THEN t.committed_updates \ {b}
                                            ELSE t.committed_updates]
    BY DEF Tree!insert
  <1> HIDE DEF u, edge, updating
  <1>2. u = [ blocks                  |-> t.blocks \cup {b},
              children                |-> t.children \cup {edge},
              pending_app_updates     |-> t.pending_app_updates \cup {b},
              app_state               |-> t.app_state,
              pending_updates         |-> IF updating THEN t.pending_updates \cup {b} ELSE t.pending_updates,
              committed_updates       |-> IF updating THEN t.committed_updates \ {b}
                                          ELSE t.committed_updates,
              block_at_height         |-> t.block_at_height,
              highest_committed_block |-> t.highest_committed_block,
              locked_pc               |-> t.locked_pc,
              highest_pc              |-> t.highest_pc,
              highest_view_entered    |-> t.highest_view_entered,
              highest_view_voted      |-> t.highest_view_voted,
              cvs                     |-> t.cvs,
              pvs                     |-> t.pvs,
              update_height           |-> t.update_height,
              update_decided          |-> t.update_decided ]
    BY <1>1 DEF IsTree
  <1>3. IsTree(u)
    BY <1>2 DEF IsTree
  <1>4. QED
    BY <1>2, <1>3 DEF u, edge, updating, InsertFields

\* The variables with one value.
SingleVariables ==
  {"HIGHEST_COMMITTED_BLOCK", "LOCKED_PC", "HIGHEST_PC", "HIGHEST_VIEW_ENTERED",
   "HIGHEST_VIEW_PHASE_VOTED", "COMMITTED_VALIDATOR_SET", "PREVIOUS_VALIDATOR_SET",
   "VALIDATOR_SET_UPDATE_BLOCK_HEIGHT", "VALIDATOR_SET_UPDATE_DECIDED"}

\* Fields that are read from a variable with one value.
LEMMA SingleFields ==
  ASSUME NEW store, NEW next, NEW app, NEW other
  PROVE  LET t == DecodedOf(store, app)
             u == DecodedOf(next, other)
             Same(p) == get(next, <<p>>) = get(store, <<p>>)
         IN  /\ Same("HIGHEST_COMMITTED_BLOCK") => u.highest_committed_block = t.highest_committed_block
             /\ Same("LOCKED_PC") => u.locked_pc = t.locked_pc
             /\ Same("HIGHEST_PC") => u.highest_pc = t.highest_pc
             /\ Same("HIGHEST_VIEW_ENTERED") => u.highest_view_entered = t.highest_view_entered
             /\ Same("HIGHEST_VIEW_PHASE_VOTED") => u.highest_view_voted = t.highest_view_voted
             /\ Same("COMMITTED_VALIDATOR_SET") => u.cvs = t.cvs
             /\ Same("PREVIOUS_VALIDATOR_SET") => u.pvs = t.pvs
             /\ Same("VALIDATOR_SET_UPDATE_BLOCK_HEIGHT") => u.update_height = t.update_height
             /\ Same("VALIDATOR_SET_UPDATE_DECIDED") => u.update_decided = t.update_decided
             /\ u.app_state = other /\ t.app_state = app
  BY DEF DecodedOf, highest_committed_block, locked_pc, highest_pc, highest_view_entered,
         highest_view_phase_voted, committed_validator_set, previous_validator_set,
         update_block_height, update_decided

\* After an insert, the getters read the tree that Tree!insert gives.
LEMMA InsertDecoded ==
  ASSUME NEW store, StoreOK(store), NEW b \in Blocks, preimage = Contents,
         Parent(b) \in Stored(store) \cup {0}, NEW app
  PROVE  LET next == write(store, insert(store, b))
         IN  /\ StoreOK(next) /\ Stored(next) = Stored(store) \cup {b}
             /\ DecodedOf(next, app) = Tree!insert(b, DecodedOf(store, app))
  <1> DEFINE next == write(store, insert(store, b))
             t == DecodedOf(store, app)
             u == DecodedOf(next, app)
             i == Tree!insert(b, t)
  <1>1. IsFiniteSet(DOMAIN store) /\ \A k \in DOMAIN store : IsKey(k)
    BY DEF StoreOK
  <1>2. /\ TreeInserted(next, store, b) /\ IsFiniteSet(DOMAIN next)
        /\ \A k \in DOMAIN next : IsKey(k)
    BY <1>1, InsertReads
  <1> HIDE DEF next
  <1>3. StoreOK(next) /\ Stored(next) = Stored(store) \cup {b}
    BY <1>2, InsertKeepsTree
  <1>4. /\ Tree!block_justify(b).block = Parent(b)
        /\ Tree!data(b) = Contents[b].data
    BY DEF Tree!block_justify, Tree!data, Parent
  <1>5. /\ t.blocks = Stored(store)
        /\ t.children = {<<Parent(x), x>> : x \in Stored(store)}
        /\ t.pending_app_updates = {x \in Stored(store) : pending_app_state_updates(store, x) # {}}
        /\ t.pending_updates = {x \in Stored(store) : pending_validator_set_updates(store, x) # {}}
        /\ t.committed_updates = {x \in Stored(store) : /\ validator_set_updates_status(store, x) # {}
                                                        /\ pending_validator_set_updates(store, x) = {}}
        /\ \A e : e \in t.block_at_height <=> \E h, c : e = <<h, c>> /\ block_at_height(store, h) = {c}
    BY DecodedFacts
  <1>6. /\ u.blocks = Stored(next)
        /\ u.children = {<<Parent(x), x>> : x \in Stored(next)}
        /\ u.pending_app_updates = {x \in Stored(next) : pending_app_state_updates(next, x) # {}}
        /\ u.pending_updates = {x \in Stored(next) : pending_validator_set_updates(next, x) # {}}
        /\ u.committed_updates = {x \in Stored(next) : /\ validator_set_updates_status(next, x) # {}
                                                       /\ pending_validator_set_updates(next, x) = {}}
        /\ \A e : e \in u.block_at_height <=> \E h, c : e = <<h, c>> /\ block_at_height(next, h) = {c}
    BY <1>3, DecodedFacts
  <1>7. IsTree(t) /\ IsTree(u)
    BY DecodedIsTree
  <1>8. /\ u.highest_committed_block = t.highest_committed_block /\ u.locked_pc = t.locked_pc
        /\ u.highest_pc = t.highest_pc /\ u.highest_view_entered = t.highest_view_entered
        /\ u.highest_view_voted = t.highest_view_voted /\ u.cvs = t.cvs /\ u.pvs = t.pvs
        /\ u.update_height = t.update_height /\ u.update_decided = t.update_decided
        /\ u.app_state = t.app_state
    <2>1. \A p \in SingleVariables : get(next, <<p>>) = get(store, <<p>>)
      <3>1. ASSUME NEW p \in SingleVariables PROVE get(next, <<p>>) = get(store, <<p>>)
        <4> DEFINE k == <<p>>
        <4>1. k[1] \notin {"BLOCKS", "NEWEST_BLOCK", "BLOCK_TO_CHILDREN", "PENDING_APP_STATE_UPDATES",
                           "VALIDATOR_SET_UPDATES_STATUS"}
          BY DEF SingleVariables
        <4> HIDE DEF k
        <4>2. get(next, k) = get(store, k)
          BY <1>2, <4>1 DEF TreeInserted
        <4>3. QED
          BY <4>2 DEF k
      <3>2. QED
        BY <3>1
    <2> HIDE DEF t, u
    <2>2. QED
      BY <2>1, SingleFields DEF SingleVariables, t, u
  <1> HIDE DEF t, u
  <1>9. /\ IsTree(i)
        /\ i.blocks = t.blocks \cup {b}
        /\ i.children = t.children \cup {<<Parent(b), b>>}
        /\ i.pending_app_updates = t.pending_app_updates \cup {b}
        /\ i.pending_updates
           = IF Contents[b].data \in UpdatingData THEN t.pending_updates \cup {b} ELSE t.pending_updates
        /\ i.committed_updates
           = IF Contents[b].data \in UpdatingData THEN t.committed_updates \ {b} ELSE t.committed_updates
        /\ i.app_state = t.app_state /\ i.block_at_height = t.block_at_height
        /\ i.highest_committed_block = t.highest_committed_block
        /\ i.locked_pc = t.locked_pc /\ i.highest_pc = t.highest_pc
        /\ i.highest_view_entered = t.highest_view_entered
        /\ i.highest_view_voted = t.highest_view_voted
        /\ i.cvs = t.cvs /\ i.pvs = t.pvs
        /\ i.update_height = t.update_height /\ i.update_decided = t.update_decided
    <2>1. InsertFields(i, b, t)
      BY <1>7, InsertIsTree
    <2> HIDE DEF i
    <2>2. QED
      BY <1>4, <2>1 DEF InsertFields
  <1> HIDE DEF i
  <1>10. u.blocks = i.blocks
    BY <1>3, <1>5, <1>6, <1>9
  <1>11. u.children = i.children
    BY <1>3, <1>5, <1>6, <1>9
  <1>12. u.pending_app_updates = i.pending_app_updates
    <2>1. \A x : pending_app_state_updates(next, x)
                 = IF x = b THEN {AppUpdatesOf[Contents[b].data]} ELSE pending_app_state_updates(store, x)
      BY <1>2 DEF TreeInserted
    <2>2. QED
      BY <1>3, <1>5, <1>6, <1>9, <2>1
  <1>13. \A x : validator_set_updates_status(next, x)
                = IF x = b /\ Contents[b].data \in UpdatingData
                  THEN {[updates |-> {UpdatesOf[Contents[b].data]}]}
                  ELSE validator_set_updates_status(store, x)
    BY <1>2 DEF TreeInserted
  <1>14. /\ Contents[b].data \in UpdatingData =>
              /\ validator_set_updates_status(next, b) # {}
              /\ pending_validator_set_updates(next, b) # {}
         /\ \A x : x # b \/ Contents[b].data \notin UpdatingData =>
              /\ validator_set_updates_status(next, x) = validator_set_updates_status(store, x)
              /\ pending_validator_set_updates(next, x) = pending_validator_set_updates(store, x)
    <2>1. ASSUME Contents[b].data \in UpdatingData
          PROVE  /\ validator_set_updates_status(next, b) # {}
                 /\ pending_validator_set_updates(next, b) # {}
      <3> DEFINE s == [updates |-> {UpdatesOf[Contents[b].data]}]
      <3>1. validator_set_updates_status(next, b) = {s}
        BY <1>13, <2>1
      <3>2. s.updates # {}
        OBVIOUS
      <3> HIDE DEF s
      <3>3. QED
        BY <3>1, <3>2 DEF pending_validator_set_updates
    <2>2. ASSUME NEW x, x # b \/ Contents[b].data \notin UpdatingData
          PROVE  /\ validator_set_updates_status(next, x) = validator_set_updates_status(store, x)
                 /\ pending_validator_set_updates(next, x) = pending_validator_set_updates(store, x)
      <3>1. validator_set_updates_status(next, x) = validator_set_updates_status(store, x)
        BY <1>13, <2>2
      <3>2. QED
        BY <3>1 DEF pending_validator_set_updates
    <2>3. QED
      BY <2>1, <2>2
  <1>15. b \notin Stored(store) => /\ validator_set_updates_status(store, b) = {}
                                   /\ pending_validator_set_updates(store, b) = {}
    BY DEF StoreOK, UpdatesOK, pending_validator_set_updates
  <1>16. u.pending_updates = i.pending_updates
    BY <1>3, <1>5, <1>6, <1>9, <1>14, <1>15
  <1>17. u.committed_updates = i.committed_updates
    BY <1>3, <1>5, <1>6, <1>9, <1>14, <1>15
  <1>18. u.block_at_height = i.block_at_height
    <2>1. ASSUME NEW h PROVE block_at_height(next, h) = block_at_height(store, h)
      <3> DEFINE k == <<"BLOCK_AT_HEIGHT", h>>
      <3>1. k[1] \notin {"BLOCKS", "NEWEST_BLOCK", "BLOCK_TO_CHILDREN", "PENDING_APP_STATE_UPDATES",
                         "VALIDATOR_SET_UPDATES_STATUS"}
        OBVIOUS
      <3> HIDE DEF k
      <3>2. get(next, k) = get(store, k)
        BY <1>2, <3>1 DEF TreeInserted
      <3>3. QED
        BY <3>2 DEF k, block_at_height
    <2>2. \A e : e \in u.block_at_height <=> e \in t.block_at_height
      BY <1>5, <1>6, <2>1
    <2>3. \E S : u.block_at_height = S /\ \A e \in S : TRUE
      OBVIOUS
    <2>4. u.block_at_height = t.block_at_height
      BY <2>2
    <2>5. QED
      BY <1>9, <2>4
  <1>19. SameFields(u, i)
    BY <1>8, <1>9, <1>10, <1>11, <1>12, <1>16, <1>17, <1>18 DEF SameFields
  <1>20. u = i
    BY <1>7, <1>9, <1>19, TreesEqual
  <1>21. QED
    BY <1>3, <1>20 DEF u, i, t, next

-----------------------------------------------------------------------------
(* What the operators of the tree find in the tree that is read.           *)

\* The ancestry of a block is its lineage.
LEMMA AncestryIsLineage ==
  ASSUME preimage = Contents, NEW b \in Blocks
  PROVE  Tree!ancestry[b] = lineage[b]
  <1> DEFINE n == Len(Contents)
             T == {c \in 1 .. n : Tree!ancestry[c] = lineage[c]}
  <1>1. n \in Nat /\ Blocks = 1 .. n /\ Descends(Up, n)
    BY BlocksAreForest
  <1>2. /\ lineage[0] = {}
        /\ \A c \in 1 .. n : lineage[c] = {c} \cup lineage[Up[c]]
    BY LineageIsLine DEF Lines
  <1>3. \A c \in 0 .. n : c # 0 => Up[c] = Parent(c)
    BY <1>1 DEF Up
  <1> HIDE DEF n
  <1>4. PICK f : f = [c \in 0 .. n |-> IF c = 0 THEN {} ELSE {c} \cup f[Up[c]]]
    BY <1>1, LinesExist
  <1>5. f = [c \in 0 .. n |-> IF c = 0 THEN {} ELSE {c} \cup f[Parent(c)]]
    BY <1>3, <1>4
  <1>6. \A c \in 0 .. n : Tree!ancestry[c] = IF c = 0 THEN {} ELSE {c} \cup Tree!ancestry[Parent(c)]
    <2>1. f = [c \in 0 .. Len(preimage) |-> IF c = 0 THEN {} ELSE {c} \cup f[preimage[c].justify.block]]
      BY <1>5 DEF Parent, n
    <2>2. Tree!ancestry = [c \in 0 .. Len(preimage) |->
                             IF c = 0 THEN {} ELSE {c} \cup Tree!ancestry[preimage[c].justify.block]]
      BY <2>1 DEF Tree!ancestry, Tree!Genesis, Tree!block_justify
    <2>3. \A c \in 0 .. Len(preimage) :
             Tree!ancestry[c] = IF c = 0 THEN {} ELSE {c} \cup Tree!ancestry[preimage[c].justify.block]
      BY <2>2
    <2>4. QED
      BY <2>3 DEF Parent, n
  <1>7. Tree!ancestry[0] = {} /\ \A c \in 1 .. n : Tree!ancestry[c] = {c} \cup Tree!ancestry[Up[c]]
    <2>1. 0 \in 0 .. n /\ \A c \in 1 .. n : c \in 0 .. n /\ c # 0
      BY <1>1
    <2>2. Tree!ancestry[0] = {}
      BY <1>6, <2>1
    <2>3. ASSUME NEW c \in 1 .. n PROVE Tree!ancestry[c] = {c} \cup Tree!ancestry[Up[c]]
      <3>1. c \in 0 .. n /\ c # 0
        BY <2>1
      <3>2. Tree!ancestry[c] = {c} \cup Tree!ancestry[Parent(c)]
        BY <1>6, <3>1
      <3>3. Up[c] = Parent(c)
        BY <1>3, <3>1
      <3>4. QED
        BY <3>2, <3>3
    <2>4. QED
      BY <2>2, <2>3
  <1>8. ASSUME NEW c \in 1 .. n, Up[c] # 0 => Up[c] \in T PROVE c \in T
    BY <1>2, <1>7, <1>8
  <1>9. T = 1 .. n
    <2>1. T \in SUBSET (1 .. n)
      OBVIOUS
    <2>2. \A c \in 1 .. n : (Up[c] # 0 => Up[c] \in T) => c \in T
      BY <1>8
    <2> HIDE DEF T
    <2>3. QED
      BY ONLY <1>1, <2>1, <2>2, ForestInduction
  <1>10. QED
    BY <1>1, <1>9

\* The height of the highest committed block.
LEMMA CommittedHeight ==
  ASSUME preimage = Contents, NEW store, StoreOK(store), NEW app, NEW h \in Nat
  PROVE  h > Tree!highest_committed_block_height(DecodedOf(store, app))
         <=> \A k \in highest_committed_block_height(store) : k < h
  <1> DEFINE t == DecodedOf(store, app)
  <1>1. t.highest_committed_block = Optional(highest_committed_block(store), -1)
    BY DEF DecodedOf, Tree!NoBlock
  <1>2. Tree!highest_committed_block_height(t)
        = IF t.highest_committed_block = -1 THEN -1 ELSE Contents[t.highest_committed_block].height
    BY DEF Tree!highest_committed_block_height, Tree!NoBlock, Tree!None, Tree!height
  <1>3. CASE highest_committed_block(store) = {}
    <2>1. Tree!highest_committed_block_height(t) = -1
      BY <1>1, <1>2, <1>3 DEF Optional
    <2>2. highest_committed_block_height(store) = {}
      BY <1>3 DEF highest_committed_block_height
    <2>3. QED
      BY <2>1, <2>2
  <1>4. ASSUME NEW c \in Stored(store), highest_committed_block(store) = {c}
        PROVE  h > Tree!highest_committed_block_height(t)
               <=> \A k \in highest_committed_block_height(store) : k < h
    <2>1. c \in Blocks /\ c \in Nat /\ Contents[c].height \in Nat
      BY BlockFacts DEF Stored
    <2>2. t.highest_committed_block = c
      BY <1>1, <1>4, TheOnly DEF Optional
    <2>3. block_height(store, c) = {Contents[c].height}
      BY StoredBlock
    <2>4. highest_committed_block_height(store) = {Contents[c].height}
      BY <1>4, <2>3 DEF highest_committed_block_height
    <2>5. Tree!highest_committed_block_height(t) = Contents[c].height
      BY <1>2, <2>1, <2>2
    <2>6. QED
      BY <2>1, <2>4, <2>5
  <1>5. QED
    BY <1>3, <1>4 DEF StoreOK

\* The blocks that a commit commits.
LEMMA UncommittedBlocks ==
  ASSUME preimage = Contents, NEW store, StoreOK(store), NEW app, NEW b \in Stored(store)
  PROVE  Tree!uncommitted_blocks(b, DecodedOf(store, app)) = Uncommitted(store, b)
  <1> DEFINE t == DecodedOf(store, app)
             hc == Tree!highest_committed_block_height(t)
  <1>1. b \in Blocks /\ lineage[b] \subseteq Stored(store)
    BY StoredLineage DEF Stored
  <1>2. t.blocks = Stored(store)
    BY DecodedFacts
  <1>3. Tree!uncommitted_blocks(b, t)
        = {a \in Stored(store) : a \in lineage[b] /\ Contents[a].height \in hc + 1 .. Contents[b].height}
    <2>1. Tree!ancestry[b] = lineage[b]
      BY <1>1, AncestryIsLineage
    <2> HIDE DEF t
    <2>2. QED
      BY <1>2, <2>1 DEF Tree!uncommitted_blocks, Tree!height
  <1>4. hc \in Int
    <2>1. t.highest_committed_block = Optional(highest_committed_block(store), -1)
      BY DEF DecodedOf, Tree!NoBlock
    <2>2. hc = IF t.highest_committed_block = -1 THEN -1 ELSE Contents[t.highest_committed_block].height
      BY DEF Tree!highest_committed_block_height, Tree!NoBlock, Tree!None, Tree!height
    <2> HIDE DEF t, hc
    <2>3. \/ highest_committed_block(store) = {}
          \/ \E c \in Blocks : highest_committed_block(store) = {c}
      BY DEF StoreOK, Stored
    <2>4. t.highest_committed_block = -1 \/ t.highest_committed_block \in Blocks
      BY <2>1, <2>3, TheOnly DEF Optional
    <2>5. QED
      BY <2>2, <2>4, BlockFacts
  <1>5. ASSUME NEW a \in lineage[b]
        PROVE  Contents[a].height \in hc + 1 .. Contents[b].height
               <=> \A k \in highest_committed_block_height(store) : k < Contents[a].height
    <2>1. a \in Blocks /\ Contents[a].height \in Nat /\ Contents[b].height \in Nat
      BY <1>1, LineageFacts, BlockFacts
    <2>2. Contents[a].height <= Contents[b].height
      BY <1>1, <2>1, LineageFacts
    <2>3. Contents[a].height > hc <=> \A k \in highest_committed_block_height(store) : k < Contents[a].height
      BY <2>1, CommittedHeight
    <2> HIDE DEF hc
    <2>4. QED
      BY <1>4, <2>1, <2>2, <2>3
  <1> HIDE DEF t, hc
  <1>6. QED
    BY <1>1, <1>3, <1>5 DEF Uncommitted, t

\* The children of a block, or of genesis.
LEMMA TreeChildren ==
  ASSUME NEW store, StoreOK(store), NEW app, NEW p
  PROVE  Tree!children(p, DecodedOf(store, app)) = {x \in Stored(store) : Parent(x) = p}
  <1> DEFINE t == DecodedOf(store, app)
  <1>1. t.children = {<<Parent(x), x>> : x \in Stored(store)}
    BY DecodedFacts
  <1> HIDE DEF t
  <1>2. Tree!children(p, t) = {e[2] : e \in {d \in t.children : d[1] = p}}
    BY DEF Tree!children
  <1>3. ASSUME NEW x, x \in Tree!children(p, t) PROVE x \in Stored(store) /\ Parent(x) = p
    <2>1. PICK e \in t.children : e[1] = p /\ x = e[2]
      BY <1>2, <1>3
    <2>2. PICK y \in Stored(store) : e = <<Parent(y), y>>
      BY <1>1, <2>1
    <2>3. QED
      BY <2>1, <2>2
  <1>4. ASSUME NEW x \in Stored(store), Parent(x) = p PROVE x \in Tree!children(p, t)
    <2>1. <<p, x>> \in t.children
      BY <1>1, <1>4
    <2>2. <<p, x>>[1] = p /\ <<p, x>>[2] = x
      OBVIOUS
    <2>3. QED
      BY <1>2, <2>1, <2>2
  <1>5. QED
    BY <1>3, <1>4 DEF t

\* The tree has more edges than a block has ancestors.
LEMMA TreeIsLarge ==
  ASSUME NEW store, StoreOK(store), NEW app
  PROVE  /\ Cardinality(DecodedOf(store, app).children) \in Nat
         /\ \A x \in Stored(store) : Contents[x].height <= Cardinality(DecodedOf(store, app).children)
  <1> DEFINE S == Stored(store)
             E == {<<Parent(x), x>> : x \in S}
             f == [x \in S |-> <<Parent(x), x>>]
             g == [e \in E |-> e[2]]
  <1>1. DecodedOf(store, app).children = E
    BY DecodedFacts
  <1>2. IsFiniteSet(S)
    <2>1. IsFiniteSet(Blocks)
      <3>1. Len(Contents) \in Nat /\ Blocks = 1 .. Len(Contents)
        BY BlocksAreForest
      <3>2. QED
        BY <3>1, FS_Interval
    <2>2. S \subseteq Blocks
      BY DEF Stored
    <2>3. QED
      BY <2>1, <2>2, FS_Subset
  <1>3. IsFiniteSet(E)
    <2>1. IsFiniteSet({f[x] : x \in S})
      <3> HIDE DEF f, S
      <3>1. QED
        BY <1>2, ImageFinite
    <2>2. {f[x] : x \in S} = E
      OBVIOUS
    <2>3. QED
      BY <2>1, <2>2
  <1>4. ASSUME NEW x \in S
        PROVE  Contents[x].height <= Cardinality(E)
    <2> DEFINE h == [y \in lineage[x] |-> <<Parent(y), y>>]
    <2>1. x \in Blocks /\ lineage[x] \subseteq S
      BY StoredLineage DEF Stored
    <2>2. h \in [lineage[x] -> E] /\ \A y, z \in lineage[x] : h[y] = h[z] => y = z
      BY <2>1
    <2>3. h \in Injection(lineage[x], E)
      <3> HIDE DEF h, E
      <3>1. QED
        BY <2>2 DEF Injection, IsInjective
    <2>4. Cardinality(lineage[x]) <= Cardinality(E)
      <3> HIDE DEF h, E
      <3>1. QED
        BY <1>3, <2>3, FS_Injection
    <2>5. Cardinality(lineage[x]) = Contents[x].height + 1 /\ Contents[x].height \in Nat
      BY <2>1, LineageFacts, BlockFacts
    <2>6. Cardinality(E) \in Nat
      BY <1>3, FS_CardinalityType
    <2>7. QED
      BY <2>4, <2>5, <2>6
  <1>5. Cardinality(E) \in Nat
    BY <1>3, FS_CardinalityType
  <1>6. QED
    BY <1>1, <1>4, <1>5

\* The tree counts like its reader.
LEMMA SameCardinality ==
  ASSUME NEW S
  PROVE  Tree!Cardinality(S) = Cardinality(S)
  BY DEF Tree!Cardinality, Cardinality

\* The walk along the edges collects the descendants.
LEMMA TreeBranch ==
  ASSUME NEW store, StoreOK(store), NEW app, NEW root \in Stored(store)
  PROVE  Tree!blocks_in_branch(root, DecodedOf(store, app)) = Descendants(store, root)
  <1> DEFINE n == Len(Contents)
             S == Stored(store)
             t == DecodedOf(store, app)
             next(T) == T \cup UNION {Tree!children(b, t) : b \in T}
             IsWalk(f) == f = [k \in Nat |-> IF k = 0 THEN {root} ELSE next(f[k - 1])]
             within == CHOOSE f : IsWalk(f)
             g == [k \in Nat |-> Below(root, S, lineage, Level, k)]
  <1>1. /\ n \in Nat /\ Blocks = 1 .. n /\ Descends(Up, n) /\ Levels(Level, Up, n) /\ Lines(lineage, Up, n)
        /\ \A b \in Blocks : Up[b] = Parent(b) /\ Level[b] = Contents[b].height
    BY BlocksAreForest, LineageIsLine DEF Up, Level
  <1>2. S \in SUBSET (1 .. n)
    BY <1>1 DEF Stored
  <1>12. root \in S
    OBVIOUS
  <1>13. \A x \in S : Up[x] \in S \cup {0}
    BY <1>1 DEF Stored, StoreOK
  <1>3. ASSUME NEW T
        PROVE  next(T) = T \cup {x \in S : Up[x] \in T}
    <2>1. \A b : Tree!children(b, t) = {x \in Stored(store) : Parent(x) = b}
      BY TreeChildren
    <2> HIDE DEF t
    <2>2. \A x \in S : Up[x] = Parent(x)
      BY <1>1, <1>2
    <2>3. QED
      BY <2>1, <2>2
  <1> HIDE DEF n, S, next
  <1>15. ClosedUpwards(S, Up, Len(Contents))
    BY <1>2, <1>13 DEF ClosedUpwards, n
  <1>4. \A k \in Nat : g[k] = IF k = 0 THEN {root} ELSE next(g[k - 1])
    <2>1. SUFFICES ASSUME NEW k \in Nat
                   PROVE  g[k] = IF k = 0 THEN {root} ELSE next(g[k - 1])
      OBVIOUS
    <2>2. Below(root, S, lineage, Level, k)
          = IF k = 0 THEN {root}
            ELSE Below(root, S, lineage, Level, k - 1)
                 \cup {x \in S : Up[x] \in Below(root, S, lineage, Level, k - 1)}
      BY ONLY <1>12, <1>15, k \in Nat, LineageBelow
    <2>3. k # 0 => g[k - 1] = Below(root, S, lineage, Level, k - 1)
      OBVIOUS
    <2>4. g[k] = Below(root, S, lineage, Level, k)
      OBVIOUS
    <2> HIDE DEF g
    <2>5. QED
      BY <1>3, <2>2, <2>3, <2>4
  <1>5. IsWalk(g)
    <2>1. g = [k \in Nat |-> g[k]]
      OBVIOUS
    <2> HIDE DEF g
    <2>2. QED
      BY <1>4, <2>1
  <1>6. IsWalk(within)
    <2> HIDE DEF g, IsWalk
    <2>1. QED
      BY <1>5
  <1>7. Spreads(within, root, S, Up)
    <2>1. \A k \in Nat : within[k] = IF k = 0 THEN {root} ELSE next(within[k - 1])
      <3> HIDE DEF within
      <3>1. QED
        BY <1>6
    <2> HIDE DEF within
    <2>2. QED
      BY <1>3, <2>1 DEF Spreads
  <1>8. Tree!blocks_in_branch(root, t) = within[Cardinality(t.children)]
    <2> HIDE DEF t
    <2>1. within = CHOOSE f : f = [k \in Nat |-> IF k = 0 THEN {root}
                                                ELSE f[k - 1] \cup UNION {Tree!children(b, t) : b \in f[k - 1]}]
      BY Zenon DEF next
    <2> HIDE DEF within
    <2>2. QED
      BY Zenon, <2>1, SameCardinality DEF Tree!blocks_in_branch
  <1> DEFINE m == Cardinality(t.children)
  <1>9. m \in Nat
    BY TreeIsLarge
  <1>14. \A x \in S : Level[x] <= m
    BY <1>1, <1>2, TreeIsLarge DEF S
  <1> HIDE DEF m, within, IsWalk, g, t
  <1>10. within[m] = {x \in S : root \in lineage[x]}
    BY ONLY <1>7, <1>9, <1>12, <1>14, <1>15, LineageSpreads
  <1>11. QED
    BY <1>8, <1>10 DEF m, S, Descendants, t

\* What a commit prunes.
LEMMA TreePruned ==
  ASSUME preimage = Contents, NEW store, StoreOK(store), NEW app, NEW b \in Stored(store)
  PROVE  Tree!pruned_by(Uncommitted(store, b), DecodedOf(store, app)) = Doomed(store, b)
  <1> DEFINE t == DecodedOf(store, app)
             C == Uncommitted(store, b)
  <1>1. \A p : Tree!children(p, t) = {x \in Stored(store) : Parent(x) = p}
    BY TreeChildren
  <1>2. \A s \in Stored(store) : Tree!blocks_in_branch(s, t) = Descendants(store, s)
    BY TreeBranch
  <1> HIDE DEF t, C
  <1>3. \A c : Tree!block_justify(c).block = Parent(c)
    BY DEF Tree!block_justify, Parent
  <1>4. Tree!pruned_by(C, t)
        = UNION {UNION {Tree!blocks_in_branch(s, t) : s \in Tree!children(Parent(c), t) \ {c}} : c \in C}
    BY <1>3 DEF Tree!pruned_by
  <1>5. \A c \in C : Tree!children(Parent(c), t) \ {c} = Siblings(store, c)
    BY <1>1 DEF Siblings
  <1>6. \A c \in C : UNION {Tree!blocks_in_branch(s, t) : s \in Tree!children(Parent(c), t) \ {c}}
                     = Pruned(store, c)
    <2>1. \A c \in C : Pruned(store, c) = UNION {Descendants(store, s) : s \in Siblings(store, c)}
      BY DEF Pruned
    <2>2. \A c \in C : Siblings(store, c) \subseteq Stored(store)
      BY DEF Siblings
    <2>3. ASSUME NEW c \in C
          PROVE  {Tree!blocks_in_branch(s, t) : s \in Siblings(store, c)}
                 = {Descendants(store, s) : s \in Siblings(store, c)}
      BY <1>2, <2>2
    <2>4. QED
      BY <1>5, <2>1, <2>3
  <1>7. QED
    BY <1>4, <1>6 DEF Doomed, C, t

-----------------------------------------------------------------------------
(* update locks and commits in the tree that is read.                      *)

\* What a commit does to the fields, when C is what it commits, P what it
\* prunes, and U what of C updates the validator set.
CommitFields(u, b, t, C, P, U) ==
  /\ IsTree(u)
  /\ u.blocks = t.blocks \ P
  /\ u.children = {e \in t.children : e[1] \notin P \cup {Tree!block_justify(c).block : c \in C}}
                  \cup {<<Tree!block_justify(c).block, c>> : c \in C}
  /\ u.pending_app_updates = t.pending_app_updates \ (P \cup C)
  /\ u.app_state = Append(t.app_state, C \cap t.pending_app_updates)
  /\ u.pending_updates = (t.pending_updates \ P) \ (IF U = {} THEN {} ELSE {b})
  /\ u.committed_updates = (t.committed_updates \ P) \cup (IF U = {} THEN {} ELSE {b})
  /\ u.block_at_height = {p \in t.block_at_height : \A c \in C : p[1] # Tree!height(c)}
                         \cup {<<Tree!height(c), c>> : c \in C}
  /\ u.highest_committed_block = b
  /\ u.locked_pc = t.locked_pc /\ u.highest_pc = t.highest_pc
  /\ u.highest_view_entered = t.highest_view_entered
  /\ u.highest_view_voted = t.highest_view_voted
  /\ U = {} => /\ u.cvs = t.cvs /\ u.pvs = t.pvs
               /\ u.update_height = t.update_height /\ u.update_decided = t.update_decided
  /\ U # {} => LET last == CHOOSE c \in U : \A a \in U : Tree!height(a) <= Tree!height(c)
               IN  /\ u.cvs = apply_updates(t.cvs, UpdatesOf[Tree!data(last)]) /\ u.pvs = t.cvs
                   /\ u.update_height = Tree!height(last) /\ u.update_decided = FALSE

\* Tree!commit does just that.
LEMMA CommitIsTree ==
  ASSUME NEW b, NEW t, IsTree(t)
  PROVE  LET C == Tree!uncommitted_blocks(b, t)
         IN  CommitFields(Tree!commit(b, t), b, t, C, Tree!pruned_by(C, t), C \cap t.pending_updates)
  <1> DEFINE C == Tree!uncommitted_blocks(b, t)
             P == Tree!pruned_by(C, t)
             U == C \cap t.pending_updates
             last == CHOOSE c \in U : \A a \in U : Tree!height(a) <= Tree!height(c)
             marked == IF U = {} THEN {} ELSE {b}
             blocks == t.blocks \ P
             edges == {e \in t.children : e[1] \notin P \cup {Tree!block_justify(c).block : c \in C}}
                      \cup {<<Tree!block_justify(c).block, c>> : c \in C}
             waiting == t.pending_app_updates \ (P \cup C)
             log == Append(t.app_state, C \cap t.pending_app_updates)
             pending == (t.pending_updates \ P) \ marked
             committed == (t.committed_updates \ P) \cup marked
             heights == {p \in t.block_at_height : \A c \in C : p[1] # Tree!height(c)}
                        \cup {<<Tree!height(c), c>> : c \in C}
             next == apply_updates(t.cvs, UpdatesOf[Tree!data(last)])
             top == Tree!height(last)
             no == FALSE
             k == [t EXCEPT
                     !.blocks = blocks,
                     !.children = edges,
                     !.pending_app_updates = waiting,
                     !.app_state = log,
                     !.pending_updates = pending,
                     !.committed_updates = committed,
                     !.block_at_height = heights,
                     !.highest_committed_block = b]
             j == [k EXCEPT !.cvs = next, !.pvs = t.cvs, !.update_height = top, !.update_decided = no]
             u == Tree!commit(b, t)
  <1>1. u = IF U = {} THEN k ELSE j
    BY DEF Tree!commit, Tree!apply_updates, apply_updates
  <1> HIDE DEF C, P, U, last, marked, blocks, edges, waiting, log, pending, committed, heights, next, top,
               no, u
  <1>8. k = [t EXCEPT
               !.blocks = blocks,
               !.children = edges,
               !.pending_app_updates = waiting,
               !.app_state = log,
               !.pending_updates = pending,
               !.committed_updates = committed,
               !.block_at_height = heights,
               !.highest_committed_block = b]
    OBVIOUS
  <1> HIDE DEF k
  <1>9. j = [k EXCEPT !.cvs = next, !.pvs = t.cvs, !.update_height = top, !.update_decided = no]
    OBVIOUS
  <1> HIDE DEF j
  <1>2. k = [ blocks                  |-> blocks,
              children                |-> edges,
              pending_app_updates     |-> waiting,
              app_state               |-> log,
              pending_updates         |-> pending,
              committed_updates       |-> committed,
              block_at_height         |-> heights,
              highest_committed_block |-> b,
              locked_pc               |-> t.locked_pc,
              highest_pc              |-> t.highest_pc,
              highest_view_entered    |-> t.highest_view_entered,
              highest_view_voted      |-> t.highest_view_voted,
              cvs                     |-> t.cvs,
              pvs                     |-> t.pvs,
              update_height           |-> t.update_height,
              update_decided          |-> t.update_decided ]
    BY <1>8 DEF IsTree
  <1>3. IsTree(k)
    BY <1>2 DEF IsTree
  <1>4. j
        = [ blocks                  |-> blocks,
            children                |-> edges,
            pending_app_updates     |-> waiting,
            app_state               |-> log,
            pending_updates         |-> pending,
            committed_updates       |-> committed,
            block_at_height         |-> heights,
            highest_committed_block |-> b,
            locked_pc               |-> t.locked_pc,
            highest_pc              |-> t.highest_pc,
            highest_view_entered    |-> t.highest_view_entered,
            highest_view_voted      |-> t.highest_view_voted,
            cvs                     |-> next,
            pvs                     |-> t.cvs,
            update_height           |-> top,
            update_decided          |-> no ]
    BY <1>2, <1>9
  <1>5. CASE U = {}
    <2>1. u = k
      BY <1>1, <1>5
    <2>2. QED
      BY <1>2, <1>3, <1>5, <2>1
         DEF CommitFields, u, C, P, U, marked, blocks, edges, waiting, log, pending, committed, heights
  <1>6. CASE U # {}
    <2>1. u = [ blocks                  |-> blocks,
                children                |-> edges,
                pending_app_updates     |-> waiting,
                app_state               |-> log,
                pending_updates         |-> pending,
                committed_updates       |-> committed,
                block_at_height         |-> heights,
                highest_committed_block |-> b,
                locked_pc               |-> t.locked_pc,
                highest_pc              |-> t.highest_pc,
                highest_view_entered    |-> t.highest_view_entered,
                highest_view_voted      |-> t.highest_view_voted,
                cvs                     |-> next,
                pvs                     |-> t.cvs,
                update_height           |-> top,
                update_decided          |-> no ]
      BY <1>1, <1>4, <1>6
    <2>2. IsTree(u)
      BY <2>1 DEF IsTree
    <2>3. /\ u.blocks = blocks /\ u.children = edges /\ u.pending_app_updates = waiting
          /\ u.app_state = log /\ u.pending_updates = pending /\ u.committed_updates = committed
          /\ u.block_at_height = heights /\ u.highest_committed_block = b
          /\ u.locked_pc = t.locked_pc /\ u.highest_pc = t.highest_pc
          /\ u.highest_view_entered = t.highest_view_entered
          /\ u.highest_view_voted = t.highest_view_voted
          /\ u.cvs = next /\ u.pvs = t.cvs /\ u.update_height = top /\ u.update_decided = no
      BY <2>1
    <2>4. CommitFields(u, b, t, C, P, U)
      BY <1>6, <2>2, <2>3
         DEF CommitFields, marked, blocks, edges, waiting, log, pending, committed, heights, next, top,
             last, no
    <2>5. QED
      BY <2>4 DEF u, C, P, U
  <1>7. QED
    BY <1>5, <1>6

\* What an update does to the fields, after the commit has led to c.
UpdateFields(u, justify, t, c) ==
  /\ IsTree(u)
  /\ u.blocks = c.blocks /\ u.children = c.children
  /\ u.pending_app_updates = c.pending_app_updates /\ u.app_state = c.app_state
  /\ u.pending_updates = c.pending_updates /\ u.committed_updates = c.committed_updates
  /\ u.block_at_height = c.block_at_height
  /\ u.highest_committed_block = c.highest_committed_block
  /\ u.highest_view_entered = c.highest_view_entered /\ u.highest_view_voted = c.highest_view_voted
  /\ u.cvs = c.cvs /\ u.pvs = c.pvs /\ u.update_height = c.update_height
  /\ u.highest_pc = IF justify.view > c.highest_pc.view THEN justify ELSE c.highest_pc
  /\ u.locked_pc = IF Tree!pc_to_lock(justify, t) = {} THEN c.locked_pc
                   ELSE the(Tree!pc_to_lock(justify, t))
  /\ u.update_decided = (c.update_decided \/ justify.phase = "Decide")

\* Tree!update does just that.
LEMMA UpdateIsTree ==
  ASSUME NEW justify, NEW t, IsTree(t)
  PROVE  LET to_commit == Tree!block_to_commit(justify, t)
         IN  UpdateFields(Tree!update(justify, t), justify, t,
                          IF to_commit = {} THEN t ELSE Tree!commit(the(to_commit), t))
  <1> DEFINE to_commit == Tree!block_to_commit(justify, t)
             to_lock == Tree!pc_to_lock(justify, t)
             c == IF to_commit = {} THEN t ELSE Tree!commit(the(to_commit), t)
             pc == IF justify.view > c.highest_pc.view THEN justify ELSE c.highest_pc
             lock == IF to_lock = {} THEN c.locked_pc ELSE the(to_lock)
             decided == c.update_decided \/ justify.phase = "Decide"
             u == Tree!update(justify, t)
  <1>1. u = [c EXCEPT !.highest_pc = pc, !.locked_pc = lock, !.update_decided = decided]
    BY DEF Tree!update, the
  <1>2. IsTree(c)
    <2>1. \A b : IsTree(Tree!commit(b, t))
      BY CommitIsTree DEF CommitFields
    <2>2. QED
      BY <2>1
  <1> HIDE DEF u, c, pc, lock, decided
  <1>3. u = [ blocks                  |-> c.blocks,
              children                |-> c.children,
              pending_app_updates     |-> c.pending_app_updates,
              app_state               |-> c.app_state,
              pending_updates         |-> c.pending_updates,
              committed_updates       |-> c.committed_updates,
              block_at_height         |-> c.block_at_height,
              highest_committed_block |-> c.highest_committed_block,
              locked_pc               |-> lock,
              highest_pc              |-> pc,
              highest_view_entered    |-> c.highest_view_entered,
              highest_view_voted      |-> c.highest_view_voted,
              cvs                     |-> c.cvs,
              pvs                     |-> c.pvs,
              update_height           |-> c.update_height,
              update_decided          |-> decided ]
    BY <1>1, <1>2 DEF IsTree
  <1>4. IsTree(u)
    BY <1>3 DEF IsTree
  <1>5. u.update_decided = decided
    BY <1>3
  <1>6. u.highest_pc = pc /\ u.locked_pc = lock
    BY <1>3
  <1>7. /\ u.blocks = c.blocks /\ u.children = c.children
        /\ u.pending_app_updates = c.pending_app_updates /\ u.app_state = c.app_state
        /\ u.pending_updates = c.pending_updates /\ u.committed_updates = c.committed_updates
        /\ u.block_at_height = c.block_at_height
        /\ u.highest_committed_block = c.highest_committed_block
        /\ u.highest_view_entered = c.highest_view_entered /\ u.highest_view_voted = c.highest_view_voted
        /\ u.cvs = c.cvs /\ u.pvs = c.pvs /\ u.update_height = c.update_height
    BY <1>3
  <1>8. UpdateFields(u, justify, t, c)
    <2>1. u.update_decided = (c.update_decided \/ justify.phase = "Decide")
      BY <1>5 DEF decided
    <2>2. u.highest_pc = IF justify.view > c.highest_pc.view THEN justify ELSE c.highest_pc
      BY <1>6 DEF pc
    <2>3. u.locked_pc = IF Tree!pc_to_lock(justify, t) = {} THEN c.locked_pc
                        ELSE the(Tree!pc_to_lock(justify, t))
      BY <1>6 DEF lock
    <2>4. QED
      BY Zenon, <1>4, <1>7, <2>1, <2>2, <2>3 DEF UpdateFields
  <1>9. QED
    BY <1>8 DEF u, c

-----------------------------------------------------------------------------
(* The store after an update.                                              *)

\* What is read after two batches that write the same.
LEMMA SameWrites ==
  ASSUME NEW wb, NEW other, NEW k, NEW old, Writes(wb, k) = Writes(other, k)
  PROVE  After(wb, k, old) = After(other, k, old)
  BY DEF Writes, After

\* The variables with one value that an update writes if it commits nothing.
UpdatedPCs(next, store, justify, to_lock) ==
  /\ get(next, <<"HIGHEST_PC">>)
     = IF justify.view > highest_pc(store).view THEN {justify} ELSE get(store, <<"HIGHEST_PC">>)
  /\ get(next, <<"LOCKED_PC">>)
     = IF to_lock = {} THEN get(store, <<"LOCKED_PC">>) ELSE {the(to_lock)}
  /\ get(next, <<"HIGHEST_VIEW_ENTERED">>) = get(store, <<"HIGHEST_VIEW_ENTERED">>)
  /\ get(next, <<"HIGHEST_VIEW_PHASE_VOTED">>) = get(store, <<"HIGHEST_VIEW_PHASE_VOTED">>)

\* The variables of the validator set after a commit of b.
UpdatedSets(next, store, b, decides) ==
  /\ Updating(store, b) = {} =>
       /\ get(next, <<"COMMITTED_VALIDATOR_SET">>) = get(store, <<"COMMITTED_VALIDATOR_SET">>)
       /\ get(next, <<"PREVIOUS_VALIDATOR_SET">>) = get(store, <<"PREVIOUS_VALIDATOR_SET">>)
       /\ get(next, <<"VALIDATOR_SET_UPDATE_BLOCK_HEIGHT">>)
          = get(store, <<"VALIDATOR_SET_UPDATE_BLOCK_HEIGHT">>)
       /\ get(next, <<"VALIDATOR_SET_UPDATE_DECIDED">>)
          = IF decides THEN {TRUE} ELSE get(store, <<"VALIDATOR_SET_UPDATE_DECIDED">>)
  /\ \A c : IsLastUpdating(store, b, c) =>
       /\ get(next, <<"COMMITTED_VALIDATOR_SET">>) = {NextValidatorSet(store, c)}
       /\ get(next, <<"PREVIOUS_VALIDATOR_SET">>) = {committed_validator_set(store)}
       /\ get(next, <<"VALIDATOR_SET_UPDATE_BLOCK_HEIGHT">>) = {Contents[c].height}
       /\ get(next, <<"VALIDATOR_SET_UPDATE_DECIDED">>) = IF decides THEN {TRUE} ELSE {FALSE}

\* An update that commits nothing.
UpdatedOnly(next, store, decides) ==
  /\ SameTree(next, store)
  /\ get(next, <<"COMMITTED_VALIDATOR_SET">>) = get(store, <<"COMMITTED_VALIDATOR_SET">>)
  /\ get(next, <<"PREVIOUS_VALIDATOR_SET">>) = get(store, <<"PREVIOUS_VALIDATOR_SET">>)
  /\ get(next, <<"VALIDATOR_SET_UPDATE_BLOCK_HEIGHT">>)
     = get(store, <<"VALIDATOR_SET_UPDATE_BLOCK_HEIGHT">>)
  /\ get(next, <<"VALIDATOR_SET_UPDATE_DECIDED">>)
     = IF decides THEN {TRUE} ELSE get(store, <<"VALIDATOR_SET_UPDATE_DECIDED">>)

\* What the store holds after an update.
LEMMA UpdateReads ==
  ASSUME NEW store, StoreOK(store), NEW tree, NEW justify,
         MayCommit(store, Tree!block_to_commit(justify, tree))
  PROVE  LET next      == write(store, update(store, tree, justify))
             to_commit == Tree!block_to_commit(justify, tree)
             decides   == justify.phase = "Decide"
         IN  /\ UpdatedPCs(next, store, justify, Tree!pc_to_lock(justify, tree))
             /\ IsFiniteSet(DOMAIN next) /\ \A k \in DOMAIN next : IsKey(k)
             /\ to_commit = {} => UpdatedOnly(next, store, decides)
             /\ \A b : to_commit = {b} => /\ TreeCommitted(next, store, b)
                                          /\ UpdatedSets(next, store, b, decides)
  <1> DEFINE wb == update(store, tree, justify)
             next == write(store, wb)
             to_commit == Tree!block_to_commit(justify, tree)
             to_lock == Tree!pc_to_lock(justify, tree)
             decides == justify.phase = "Decide"
             higher == justify.view > highest_pc(store).view
             k1 == <<"HIGHEST_PC">>
             k2 == <<"LOCKED_PC">>
             k4 == <<"VALIDATOR_SET_UPDATE_DECIDED">>
             plain == {"HIGHEST_PC", "LOCKED_PC", "VALIDATOR_SET_UPDATE_DECIDED"}
  <1>1. /\ WellFormed(wb) /\ AddsFinitely(wb) /\ \A k \in DOMAIN wb : IsKey(k)
        /\ \A k : k[1] \notin plain => Writes(wb, k) = CommitWritten(store, to_commit, k)
        /\ Writes(wb, k1) = IF higher THEN {{justify}} ELSE {}
        /\ Writes(wb, k2) = IF to_lock = {} THEN {} ELSE {{the(to_lock)}}
        /\ Writes(wb, k4) = IF decides THEN {{TRUE}} ELSE CommitWritten(store, to_commit, k4)
    <2>1. UpdateWritten(wb, store, justify, to_commit, to_lock)
      BY UpdateBatch
    <2> HIDE DEF wb, to_commit, to_lock
    <2>2. QED
      BY <2>1 DEF UpdateWritten
  <1>2. MayCommit(store, to_commit)
    OBVIOUS
  <1> HIDE DEF wb, to_commit, to_lock, higher, decides
  <1>3. \A k : get(next, k) = After(wb, k, get(store, k))
    BY <1>1, WriteReads
  <1>4. IsFiniteSet(DOMAIN next) /\ \A k \in DOMAIN next : IsKey(k)
    <2>1. IsFiniteSet(DOMAIN store) /\ \A k \in DOMAIN store : IsKey(k)
      BY DEF StoreOK
    <2>2. IsFiniteSet(DOMAIN next)
      BY <1>1, <2>1, WriteFinite
    <2>3. \A k \in DOMAIN next : IsKey(k)
      BY <1>1, <2>1 DEF write
    <2>4. QED
      BY <2>2, <2>3
  <1> HIDE DEF next
  <1>5. ASSUME NEW k
        PROVE  /\ Writes(wb, k) = {} => get(next, k) = get(store, k)
               /\ \A v : Writes(wb, k) = {v} => get(next, k) = v
    BY <1>3, ReadAfter
  <1>6. ASSUME NEW k, k[1] \notin plain, k[1] \notin CommitVariables
        PROVE  Writes(wb, k) = {}
    <2>1. Writes(wb, k) = CommitWritten(store, to_commit, k)
      BY <1>1, <1>6
    <2>2. CASE to_commit = {}
      BY <2>1, <2>2 DEF CommitWritten
    <2>3. ASSUME NEW b \in Stored(store), to_commit = {b},
                 \A h \in highest_committed_block_height(store) : h < Contents[b].height
          PROVE  Writes(wb, k) = {}
      <3>1. WritesCommit(commit(store, b), store, b)
        BY <2>3, CommitWrites
      <3>2. Writes(commit(store, b), k) = {}
        BY <1>6, <3>1 DEF WritesCommit, WritesOnly, Writes
      <3>3. QED
        BY <2>1, <2>3, <3>2 DEF CommitWritten
    <2>4. QED
      BY <1>2, <2>2, <2>3 DEF MayCommit
  <1>7. UpdatedPCs(next, store, justify, to_lock)
    <2>1. ASSUME NEW p, p \in {"HIGHEST_VIEW_ENTERED", "HIGHEST_VIEW_PHASE_VOTED"}
          PROVE  get(next, <<p>>) = get(store, <<p>>)
      <3> DEFINE k == <<p>>
      <3>1. k[1] \notin plain /\ k[1] \notin CommitVariables
        BY <2>1 DEF CommitVariables, SiblingVariables, ValidatorVariables
      <3> HIDE DEF k, plain
      <3>2. get(next, k) = get(store, k)
        BY <1>5, <1>6, <3>1
      <3>3. QED
        BY <3>2 DEF k
    <2>2. get(next, k1) = IF higher THEN {justify} ELSE get(store, k1)
      BY <1>1, <1>5
    <2>3. get(next, k2) = IF to_lock = {} THEN get(store, k2) ELSE {the(to_lock)}
      BY <1>1, <1>5
    <2>4. QED
      BY <2>1, <2>2, <2>3 DEF UpdatedPCs, higher
  <1>8. ASSUME to_commit = {} PROVE UpdatedOnly(next, store, decides)
    <2>1. \A k : CommitWritten(store, to_commit, k) = {}
      BY <1>8 DEF CommitWritten
    <2>2. \A k : k[1] \notin plain => get(next, k) = get(store, k)
      BY <1>1, <1>5, <2>1
    <2>3. SameTree(next, store)
      <3>1. \A v \in TreeVariables : v \notin plain
        BY DEF TreeVariables, Indexed
      <3> HIDE DEF plain
      <3>2. QED
        BY <1>4, <2>2, <3>1 DEF SameTree
    <2>4. ASSUME NEW p, p \notin plain PROVE get(next, <<p>>) = get(store, <<p>>)
      <3> DEFINE k == <<p>>
      <3>1. k[1] \notin plain
        BY <2>4
      <3> HIDE DEF k, plain
      <3>2. get(next, k) = get(store, k)
        BY <2>2, <3>1
      <3>3. QED
        BY <3>2 DEF k
    <2>5. get(next, k4) = IF decides THEN {TRUE} ELSE get(store, k4)
      BY <1>1, <1>5, <2>1
    <2>6. QED
      BY <2>3, <2>4, <2>5 DEF UpdatedOnly
  <1>9. ASSUME NEW b, to_commit = {b}
        PROVE  TreeCommitted(next, store, b) /\ UpdatedSets(next, store, b, decides)
    <2> DEFINE c == commit(store, b)
    <2>1. b \in Stored(store) /\ \A h \in highest_committed_block_height(store) : h < Contents[b].height
      BY <1>2, <1>9 DEF MayCommit
    <2>2. WritesCommit(c, store, b)
      BY <2>1, CommitWrites
    <2>3. \A k : CommitWritten(store, to_commit, k) = Writes(c, k)
      BY <1>9 DEF CommitWritten
    <2> HIDE DEF c
    <2>4. \A k : k[1] \notin plain => Writes(wb, k) = Writes(c, k)
      BY <1>1, <2>3
    <2>5. Writes(wb, k4) = IF decides THEN {{TRUE}} ELSE Writes(c, k4)
      BY <1>1, <2>3
    <2>6. TreeAfter(next, store, c)
      <3>1. \A v \in TreeVariables : v \notin plain
        BY DEF TreeVariables, Indexed
      <3> HIDE DEF plain
      <3>2. ASSUME NEW k, k[1] \in TreeVariables PROVE get(next, k) = After(c, k, get(store, k))
        <4>1. Writes(wb, k) = Writes(c, k)
          BY <2>4, <3>1, <3>2
        <4>2. QED
          BY <1>3, <4>1, SameWrites
      <3>3. QED
        BY <1>4, <3>2 DEF TreeAfter
    <2>7. TreeCommitted(next, store, b)
      BY <2>2, <2>6, CommitReads
    <2>8. ASSUME NEW p, p \in {"COMMITTED_VALIDATOR_SET", "PREVIOUS_VALIDATOR_SET",
                               "VALIDATOR_SET_UPDATE_BLOCK_HEIGHT"}
          PROVE  /\ Writes(c, <<p>>) = {} => get(next, <<p>>) = get(store, <<p>>)
                 /\ \A v : Writes(c, <<p>>) = {v} => get(next, <<p>>) = v
      <3> DEFINE k == <<p>>
      <3>1. k[1] \notin plain
        BY <2>8
      <3> HIDE DEF k, plain
      <3>2. Writes(wb, k) = Writes(c, k)
        BY <2>4, <3>1
      <3>3. QED
        BY <1>5, <3>2 DEF k
    <2>9. /\ decides => get(next, k4) = {TRUE}
          /\ ~decides /\ Writes(c, k4) = {} => get(next, k4) = get(store, k4)
          /\ \A v : ~decides /\ Writes(c, k4) = {v} => get(next, k4) = v
      BY <1>5, <2>5
    <2>10. UpdatedSets(next, store, b, decides)
      <3>1. ASSUME Updating(store, b) = {}
            PROVE  /\ get(next, <<"COMMITTED_VALIDATOR_SET">>) = get(store, <<"COMMITTED_VALIDATOR_SET">>)
                   /\ get(next, <<"PREVIOUS_VALIDATOR_SET">>) = get(store, <<"PREVIOUS_VALIDATOR_SET">>)
                   /\ get(next, <<"VALIDATOR_SET_UPDATE_BLOCK_HEIGHT">>)
                      = get(store, <<"VALIDATOR_SET_UPDATE_BLOCK_HEIGHT">>)
                   /\ get(next, k4) = IF decides THEN {TRUE} ELSE get(store, k4)
        <4>1. /\ Writes(c, <<"COMMITTED_VALIDATOR_SET">>) = {}
              /\ Writes(c, <<"PREVIOUS_VALIDATOR_SET">>) = {}
              /\ Writes(c, <<"VALIDATOR_SET_UPDATE_BLOCK_HEIGHT">>) = {}
              /\ Writes(c, k4) = {}
          BY <2>2, <3>1 DEF WritesCommit
        <4>2. QED
          BY <2>8, <2>9, <4>1
      <3>2. ASSUME NEW x, IsLastUpdating(store, b, x)
            PROVE  /\ get(next, <<"COMMITTED_VALIDATOR_SET">>) = {NextValidatorSet(store, x)}
                   /\ get(next, <<"PREVIOUS_VALIDATOR_SET">>) = {committed_validator_set(store)}
                   /\ get(next, <<"VALIDATOR_SET_UPDATE_BLOCK_HEIGHT">>) = {Contents[x].height}
                   /\ get(next, k4) = IF decides THEN {TRUE} ELSE {FALSE}
        <4>1. /\ Writes(c, <<"COMMITTED_VALIDATOR_SET">>) = {{NextValidatorSet(store, x)}}
              /\ Writes(c, <<"PREVIOUS_VALIDATOR_SET">>) = {{committed_validator_set(store)}}
              /\ Writes(c, <<"VALIDATOR_SET_UPDATE_BLOCK_HEIGHT">>) = {{Contents[x].height}}
              /\ Writes(c, k4) = {{FALSE}}
          BY <2>2, <3>2 DEF WritesCommit
        <4>2. QED
          BY <2>8, <2>9, <4>1
      <3>3. QED
        BY <3>1, <3>2 DEF UpdatedSets
    <2>11. QED
      BY <2>7, <2>10
  <1>10. QED
    BY <1>4, <1>7, <1>8, <1>9 DEF next, wb, to_commit, to_lock, decides

-----------------------------------------------------------------------------
(* update takes the tree that is read to the one that Tree!update gives.   *)

\* The fields of the PCs and views after an update.
LEMMA UpdatedPCFields ==
  ASSUME NEW store, NEW next, NEW justify, NEW to_lock, UpdatedPCs(next, store, justify, to_lock),
         NEW app, NEW other
  PROVE  LET t == DecodedOf(store, app)
             u == DecodedOf(next, other)
         IN  /\ u.highest_pc = IF justify.view > t.highest_pc.view THEN justify ELSE t.highest_pc
             /\ u.locked_pc = IF to_lock = {} THEN t.locked_pc ELSE the(to_lock)
             /\ u.highest_view_entered = t.highest_view_entered
             /\ u.highest_view_voted = t.highest_view_voted
  <1> DEFINE t == DecodedOf(store, app)
             u == DecodedOf(next, other)
  <1>1. /\ t.highest_pc = highest_pc(store) /\ u.highest_pc = highest_pc(next)
        /\ t.locked_pc = locked_pc(store) /\ u.locked_pc = locked_pc(next)
    BY DEF DecodedOf
  <1>2. /\ u.highest_view_entered = t.highest_view_entered
        /\ u.highest_view_voted = t.highest_view_voted
    <2>1. /\ get(next, <<"HIGHEST_VIEW_ENTERED">>) = get(store, <<"HIGHEST_VIEW_ENTERED">>)
          /\ get(next, <<"HIGHEST_VIEW_PHASE_VOTED">>) = get(store, <<"HIGHEST_VIEW_PHASE_VOTED">>)
      BY DEF UpdatedPCs
    <2> HIDE DEF t, u
    <2>2. QED
      BY <2>1, SingleFields DEF t, u
  <1> HIDE DEF t, u
  <1>3. highest_pc(next) = IF justify.view > highest_pc(store).view THEN justify ELSE highest_pc(store)
    BY TheOnly DEF UpdatedPCs, highest_pc
  <1>4. locked_pc(next) = IF to_lock = {} THEN locked_pc(store) ELSE the(to_lock)
    <2>1. the({the(to_lock)}) = the(to_lock)
      BY TheOnly
    <2>2. QED
      BY <2>1 DEF UpdatedPCs, locked_pc
  <1>5. QED
    BY <1>1, <1>2, <1>3, <1>4 DEF t, u

\* What a commit does to the fields of the tree proper.
CommittedTree(u, t, b, C, P, U) ==
  /\ u.blocks = t.blocks \ P
  /\ u.children = {e \in t.children : e[1] \notin P \cup {Tree!block_justify(c).block : c \in C}}
                  \cup {<<Tree!block_justify(c).block, c>> : c \in C}
  /\ u.pending_app_updates = t.pending_app_updates \ (P \cup C)
  /\ u.pending_updates = (t.pending_updates \ P) \ (IF U = {} THEN {} ELSE {b})
  /\ u.committed_updates = (t.committed_updates \ P) \cup (IF U = {} THEN {} ELSE {b})
  /\ u.block_at_height = {p \in t.block_at_height : \A c \in C : p[1] # Tree!height(c)}
                         \cup {<<Tree!height(c), c>> : c \in C}
  /\ u.highest_committed_block = b

\* The fields of the tree proper after a commit.
LEMMA CommittedFields ==
  ASSUME preimage = Contents, NEW store, StoreOK(store), NEW b \in Stored(store),
         \A h \in highest_committed_block_height(store) : h < Contents[b].height,
         NEW next, IsFiniteSet(DOMAIN next), \A k \in DOMAIN next : IsKey(k),
         TreeCommitted(next, store, b), NEW app, NEW other
  PROVE  CommittedTree(DecodedOf(next, other), DecodedOf(store, app), b,
                       Uncommitted(store, b), Doomed(store, b), Updating(store, b))
  <1> DEFINE t == DecodedOf(store, app)
             u == DecodedOf(next, other)
             C == Uncommitted(store, b)
             P == Doomed(store, b)
             U == Updating(store, b)
             S == Stored(store)
             marked == IF U = {} THEN {} ELSE {b}
  <1>1. StoreOK(next) /\ Stored(next) = S \ P
    BY CommitKeepsTree
  <1>2. /\ P \subseteq S /\ P \cap lineage[b] = {}
        /\ C \subseteq lineage[b] /\ C \subseteq S
        /\ \A x \in S : Parent(x) \in P => x \in P
        /\ \A x \in S, c \in C : Parent(x) = Parent(c) /\ x # c => x \in P
        /\ \A x \in P : Parent(x) \in P \/ \E c \in C : Parent(x) = Parent(c)
    BY DoomedFacts
  <1>3. b \in S \ P
    BY <1>2, LineageFacts DEF Stored
  <1>4. \A c : /\ Tree!block_justify(c).block = Parent(c)
               /\ Tree!height(c) = Contents[c].height
    BY DEF Tree!block_justify, Tree!height, Parent
  <1>5. /\ t.blocks = S
        /\ t.children = {<<Parent(x), x>> : x \in S}
        /\ t.pending_app_updates = {x \in S : pending_app_state_updates(store, x) # {}}
        /\ t.pending_updates = {x \in S : pending_validator_set_updates(store, x) # {}}
        /\ t.committed_updates = {x \in S : /\ validator_set_updates_status(store, x) # {}
                                            /\ pending_validator_set_updates(store, x) = {}}
        /\ \A e : e \in t.block_at_height <=> \E h, c : e = <<h, c>> /\ block_at_height(store, h) = {c}
    BY DecodedFacts
  <1>6. /\ u.blocks = S \ P
        /\ u.children = {<<Parent(x), x>> : x \in S \ P}
        /\ u.pending_app_updates = {x \in S \ P : pending_app_state_updates(next, x) # {}}
        /\ u.pending_updates = {x \in S \ P : pending_validator_set_updates(next, x) # {}}
        /\ u.committed_updates = {x \in S \ P : /\ validator_set_updates_status(next, x) # {}
                                                /\ pending_validator_set_updates(next, x) = {}}
        /\ \A e : e \in u.block_at_height <=> \E h, c : e = <<h, c>> /\ block_at_height(next, h) = {c}
    <2> HIDE DEF S, P
    <2>1. QED
      BY <1>1, DecodedFacts
  <1>7. u.highest_committed_block = b
    <2>1. highest_committed_block(next) = {b}
      BY DEF TreeCommitted
    <2>2. u.highest_committed_block = Optional(highest_committed_block(next), Tree!NoBlock)
      BY DEF DecodedOf
    <2> HIDE DEF u
    <2>3. QED
      BY <2>1, <2>2, TheOnly DEF Optional
  <1>8. /\ \A x : pending_app_state_updates(next, x)
                  = IF x \in P \cup C THEN {} ELSE pending_app_state_updates(store, x)
        /\ \A x : validator_set_updates_status(next, x)
                  = IF x \in P THEN {}
                    ELSE IF x = b /\ U # {} THEN {[updates |-> {}]}
                    ELSE validator_set_updates_status(store, x)
        /\ \A c \in C : block_at_height(next, Contents[c].height) = {c}
        /\ \A h : (\A c \in C : Contents[c].height # h) => block_at_height(next, h) = block_at_height(store, h)
    BY DEF TreeCommitted
  <1> HIDE DEF t, u, C, P, U, S
  <1>9. u.children = {e \in t.children : e[1] \notin P \cup {Parent(c) : c \in C}}
                     \cup {<<Parent(c), c>> : c \in C}
    <2> DEFINE kept == {e \in t.children : e[1] \notin P \cup {Parent(c) : c \in C}}
               new == {<<Parent(c), c>> : c \in C}
    <2>1. ASSUME NEW e \in u.children PROVE e \in kept \cup new
      <3>1. PICK x \in S \ P : e = <<Parent(x), x>>
        BY <1>6
      <3>2. e \in t.children /\ e[1] = Parent(x) /\ Parent(x) \notin P
        BY <1>2, <1>5, <3>1
      <3>3. ASSUME NEW c \in C, Parent(x) = Parent(c) PROVE e \in new
        BY <1>2, <3>1, <3>3
      <3>4. QED
        BY <3>2, <3>3
    <2>2. ASSUME NEW e \in kept PROVE e \in u.children
      <3>1. PICK x \in S : e = <<Parent(x), x>>
        BY <1>5
      <3>2. Parent(x) \notin P /\ \A c \in C : Parent(x) # Parent(c)
        BY <3>1
      <3>3. x \notin P
        BY <1>2, <3>2
      <3>4. QED
        BY <1>6, <3>1, <3>3
    <2>3. ASSUME NEW e \in new PROVE e \in u.children
      BY <1>2, <1>6
    <2> HIDE DEF kept, new
    <2>4. u.children = kept \cup new
      BY <2>1, <2>2, <2>3
    <2>5. QED
      BY <2>4 DEF kept, new
  <1>10. u.pending_app_updates = t.pending_app_updates \ (P \cup C)
    BY <1>5, <1>6, <1>8
  <1>11. \A x \in S \ P :
            /\ x = b /\ U # {} => /\ validator_set_updates_status(next, x) # {}
                                  /\ pending_validator_set_updates(next, x) = {}
            /\ x # b \/ U = {} =>
                 /\ validator_set_updates_status(next, x) = validator_set_updates_status(store, x)
                 /\ pending_validator_set_updates(next, x) = pending_validator_set_updates(store, x)
    <2>1. ASSUME U # {}
          PROVE  /\ validator_set_updates_status(next, b) # {}
                 /\ pending_validator_set_updates(next, b) = {}
      <3> DEFINE s == [updates |-> {}]
      <3>1. validator_set_updates_status(next, b) = {s}
        BY <1>3, <1>8, <2>1
      <3>2. s.updates = {}
        OBVIOUS
      <3> HIDE DEF s
      <3>3. QED
        BY <3>1, <3>2 DEF pending_validator_set_updates
    <2>2. ASSUME NEW x \in S \ P, x # b \/ U = {}
          PROVE  /\ validator_set_updates_status(next, x) = validator_set_updates_status(store, x)
                 /\ pending_validator_set_updates(next, x) = pending_validator_set_updates(store, x)
      <3>1. validator_set_updates_status(next, x) = validator_set_updates_status(store, x)
        BY <1>8, <2>2
      <3>2. QED
        BY <3>1 DEF pending_validator_set_updates
    <2>3. QED
      BY <2>1, <2>2
  <1>12. u.pending_updates = (t.pending_updates \ P) \ marked
    BY <1>3, <1>5, <1>6, <1>11
  <1>13. u.committed_updates = (t.committed_updates \ P) \cup marked
    BY <1>3, <1>5, <1>6, <1>11
  <1>14. u.block_at_height = {p \in t.block_at_height : \A c \in C : p[1] # Contents[c].height}
                             \cup {<<Contents[c].height, c>> : c \in C}
    <2> DEFINE kept == {p \in t.block_at_height : \A c \in C : p[1] # Contents[c].height}
               new == {<<Contents[c].height, c>> : c \in C}
    <2>1. ASSUME NEW e \in u.block_at_height PROVE e \in kept \cup new
      <3>1. PICK h, x : e = <<h, x>> /\ block_at_height(next, h) = {x}
        BY <1>6
      <3>2. CASE \E c \in C : Contents[c].height = h
        BY <1>8, <3>1, <3>2
      <3>3. CASE \A c \in C : Contents[c].height # h
        <4>1. block_at_height(store, h) = {x}
          BY <1>8, <3>1, <3>3
        <4>2. e \in t.block_at_height
          BY <1>5, <3>1, <4>1
        <4>3. e[1] = h
          BY <3>1
        <4>4. QED
          BY <3>3, <4>2, <4>3
      <3>4. QED
        BY <3>2, <3>3
    <2>2. ASSUME NEW e \in kept PROVE e \in u.block_at_height
      <3>1. PICK h, x : e = <<h, x>> /\ block_at_height(store, h) = {x}
        BY <1>5
      <3>2. \A c \in C : Contents[c].height # h
        BY <3>1
      <3>3. block_at_height(next, h) = {x}
        BY <1>8, <3>1, <3>2
      <3>4. QED
        BY <1>6, <3>1, <3>3
    <2>3. ASSUME NEW e \in new PROVE e \in u.block_at_height
      BY <1>6, <1>8
    <2> HIDE DEF kept, new
    <2>4. u.block_at_height = kept \cup new
      BY <2>1, <2>2, <2>3
    <2>5. QED
      BY <2>4 DEF kept, new
  <1>15. u.blocks = t.blocks \ P
    BY <1>5, <1>6
  <1>16. CommittedTree(u, t, b, C, P, U)
    <2>1. {Tree!block_justify(c).block : c \in C} = {Parent(c) : c \in C}
      BY <1>4
    <2>2. {<<Tree!block_justify(c).block, c>> : c \in C} = {<<Parent(c), c>> : c \in C}
      BY <1>4
    <2>3. {<<Tree!height(c), c>> : c \in C} = {<<Contents[c].height, c>> : c \in C}
      BY <1>4
    <2>4. {p \in t.block_at_height : \A c \in C : p[1] # Tree!height(c)}
          = {p \in t.block_at_height : \A c \in C : p[1] # Contents[c].height}
      BY <1>4
    <2>5. u.children = {e \in t.children : e[1] \notin P \cup {Tree!block_justify(c).block : c \in C}}
                       \cup {<<Tree!block_justify(c).block, c>> : c \in C}
      BY <1>9, <2>1, <2>2
    <2>6. u.block_at_height = {p \in t.block_at_height : \A c \in C : p[1] # Tree!height(c)}
                              \cup {<<Tree!height(c), c>> : c \in C}
      BY <1>14, <2>3, <2>4
    <2>7. QED
      BY <1>7, <1>10, <1>12, <1>13, <1>15, <2>5, <2>6 DEF CommittedTree
  <1>17. QED
    BY <1>16 DEF t, u, C, P, U

\* Of the blocks that update the validator set, one is the highest.
LEMMA LastUpdating ==
  ASSUME NEW store, StoreOK(store), NEW b \in Stored(store), Updating(store, b) # {}
  PROVE  \E c : IsLastUpdating(store, b, c)
  <1> DEFINE U == Updating(store, b)
             gap(c) == Contents[b].height - Contents[c].height
             T == {gap(c) : c \in U}
  <1>1. b \in Blocks /\ Contents[b].height \in Nat
    BY BlockFacts DEF Stored
  <1>2. \A c \in U : /\ Contents[c].height \in Nat
                     /\ Contents[c].height <= Contents[b].height
    <2>1. \A c \in U : c \in lineage[b]
      BY DEF Updating, Uncommitted
    <2> HIDE DEF U
    <2>2. \A c \in lineage[b] : c \in Blocks /\ Contents[c].height <= Contents[b].height
      BY <1>1, LineageFacts, BlockFacts
    <2>3. QED
      BY <2>1, <2>2, BlockFacts
  <1> HIDE DEF U
  <1>3. T \subseteq Nat /\ T # {}
    BY <1>1, <1>2 DEF U
  <1>4. PICK x \in T : \A y \in T : x <= y
    <2> HIDE DEF T
    <2>1. QED
      BY <1>3, Minimum
  <1>5. PICK c \in U : x = gap(c)
    OBVIOUS
  <1>6. \A a \in U : gap(c) <= gap(a)
    BY <1>4, <1>5
  <1>7. \A a \in U : Contents[a].height <= Contents[c].height
    BY <1>1, <1>2, <1>6
  <1>8. QED
    BY <1>7 DEF IsLastUpdating, U

\* The walk of a commit finds the blocks that are committed.
LEMMA WalkIsUncommitted ==
  ASSUME NEW store, StoreOK(store), NEW b \in Stored(store),
         \A h \in highest_committed_block_height(store) : h < Contents[b].height
  PROVE  ToSet(uncommitted_ancestors(store, b)) = Uncommitted(store, b)
  <1> DEFINE chain == uncommitted_ancestors(store, b)
             C == Uncommitted(store, b)
  <1>1. PICK m \in Nat : /\ chain \in Seq(Blocks) /\ Len(chain) = m
                         /\ \A i \in 1 .. m : chain[i] \in C
                         /\ \A a \in C : \E i \in 1 .. m : chain[i] = a
    BY ChainFacts
  <1> HIDE DEF chain, C
  <1>2. DOMAIN chain = 1 .. m
    BY <1>1
  <1>3. ToSet(chain) = {chain[i] : i \in 1 .. m}
    BY <1>2 DEF ToSet
  <1>4. QED
    BY <1>1, <1>3 DEF chain, C

\* What is applied to the app state after an update.
AppliedAfter(store, app, to_commit) ==
  IF to_commit = {} THEN app
  ELSE Append(app, {b \in UNION {ToSet(uncommitted_ancestors(store, b)) : b \in to_commit} :
                      pending_app_state_updates(store, b) # {}})

\* The store decides on the validator set updates or does not.
Decides(store) == update_decided(store) \in BOOLEAN

\* After an update, the getters read the tree that Tree!update gives.
UpdateDone(store, app, justify, t) ==
  LET next  == write(store, update(store, t, justify))
      after == AppliedAfter(store, app, Tree!block_to_commit(justify, t))
  IN  StoreOK(next) /\ Decides(next) /\ DecodedOf(next, after) = Tree!update(justify, t)

\* The fields of the tree proper.
SameTreeFields(u, t) ==
  /\ u.blocks = t.blocks /\ u.children = t.children
  /\ u.pending_app_updates = t.pending_app_updates
  /\ u.pending_updates = t.pending_updates /\ u.committed_updates = t.committed_updates
  /\ u.block_at_height = t.block_at_height
  /\ u.highest_committed_block = t.highest_committed_block

\* Two stores that hold the same tree are read as such.
LEMMA SameTreeDecoded ==
  ASSUME NEW store, StoreOK(store), NEW next, SameTree(next, store), NEW app, NEW other
  PROVE  SameTreeFields(DecodedOf(next, other), DecodedOf(store, app))
  <1> DEFINE t == DecodedOf(store, app)
             u == DecodedOf(next, other)
  <1>1. StoreOK(next)
    BY SameTreeOK
  <1>2. /\ t.blocks = Stored(store) /\ u.blocks = Stored(next)
        /\ t.children = {<<Parent(x), x>> : x \in Stored(store)}
        /\ u.children = {<<Parent(x), x>> : x \in Stored(next)}
        /\ t.pending_app_updates = {x \in Stored(store) : pending_app_state_updates(store, x) # {}}
        /\ u.pending_app_updates = {x \in Stored(next) : pending_app_state_updates(next, x) # {}}
        /\ t.pending_updates = {x \in Stored(store) : pending_validator_set_updates(store, x) # {}}
        /\ u.pending_updates = {x \in Stored(next) : pending_validator_set_updates(next, x) # {}}
        /\ t.committed_updates = {x \in Stored(store) : /\ validator_set_updates_status(store, x) # {}
                                                        /\ pending_validator_set_updates(store, x) = {}}
        /\ u.committed_updates = {x \in Stored(next) : /\ validator_set_updates_status(next, x) # {}
                                                       /\ pending_validator_set_updates(next, x) = {}}
        /\ \A e : e \in t.block_at_height <=> \E h, c : e = <<h, c>> /\ block_at_height(store, h) = {c}
        /\ \A e : e \in u.block_at_height <=> \E h, c : e = <<h, c>> /\ block_at_height(next, h) = {c}
    BY <1>1, DecodedFacts
  <1>3. /\ Stored(next) = Stored(store)
        /\ \A x : /\ pending_app_state_updates(next, x) = pending_app_state_updates(store, x)
                  /\ validator_set_updates_status(next, x) = validator_set_updates_status(store, x)
                  /\ pending_validator_set_updates(next, x) = pending_validator_set_updates(store, x)
        /\ \A h : block_at_height(next, h) = block_at_height(store, h)
        /\ highest_committed_block(next) = highest_committed_block(store)
    BY SameTreeReads DEF pending_validator_set_updates
  <1>4. u.highest_committed_block = t.highest_committed_block
    BY <1>3 DEF DecodedOf
  <1> HIDE DEF t, u
  <1>5. u.block_at_height = t.block_at_height
    <2>1. \A e : e \in u.block_at_height <=> e \in t.block_at_height
      BY <1>2, <1>3
    <2>2. QED
      BY <2>1
  <1>6. QED
    BY <1>2, <1>3, <1>4, <1>5 DEF SameTreeFields, t, u

\* An update that commits nothing.
LEMMA UpdateOnlyDecoded ==
  ASSUME preimage = Contents, NEW store, StoreOK(store), Decides(store), NEW app, NEW justify,
         Tree!block_to_commit(justify, DecodedOf(store, app)) = {}
  PROVE  UpdateDone(store, app, justify, DecodedOf(store, app))
  <1> DEFINE t == DecodedOf(store, app)
             next == write(store, update(store, t, justify))
             u == DecodedOf(next, app)
             v == Tree!update(justify, t)
             to_lock == Tree!pc_to_lock(justify, t)
             to_commit == Tree!block_to_commit(justify, t)
             decides == justify.phase = "Decide"
  <1>1. /\ UpdatedPCs(next, store, justify, to_lock)
        /\ UpdatedOnly(next, store, decides)
    <2>1. MayCommit(store, to_commit)
      BY DEF MayCommit
    <2>2. QED
      BY <2>1, UpdateReads
  <1>2. UpdateFields(v, justify, t, t)
    <2>1. IsTree(t)
      BY DecodedIsTree
    <2>2. to_commit = {}
      OBVIOUS
    <2> HIDE DEF t
    <2>3. UpdateFields(v, justify, t, IF to_commit = {} THEN t ELSE Tree!commit(the(to_commit), t))
      BY <2>1, UpdateIsTree
    <2>4. QED
      BY <2>2, <2>3
  <1>3. AppliedAfter(store, app, to_commit) = app
    BY DEF AppliedAfter
  <1>9. t.update_decided = update_decided(store) /\ u.update_decided = update_decided(next)
    BY DEF DecodedOf
  <1> HIDE DEF v, next, to_lock, to_commit
  <1>4. StoreOK(next)
    BY <1>1, SameTreeOK DEF UpdatedOnly
  <1>5. IsTree(t) /\ IsTree(u)
    BY DecodedIsTree
  <1>6. SameTreeFields(u, t)
    BY <1>1, SameTreeDecoded DEF UpdatedOnly
  <1>8. /\ u.cvs = t.cvs /\ u.pvs = t.pvs /\ u.update_height = t.update_height
        /\ u.app_state = t.app_state
        /\ u.update_decided = IF decides THEN TRUE ELSE t.update_decided
    <2>2. update_decided(next) = IF decides THEN TRUE ELSE update_decided(store)
      BY <1>1, TheOnly DEF UpdatedOnly, update_decided
    <2> HIDE DEF t, u, decides
    <2>4. QED
      BY <1>1, <1>9, <2>2, SingleFields DEF UpdatedOnly, t, u
  <1>10. /\ u.highest_pc = IF justify.view > t.highest_pc.view THEN justify ELSE t.highest_pc
         /\ u.locked_pc = IF to_lock = {} THEN t.locked_pc ELSE the(to_lock)
         /\ u.highest_view_entered = t.highest_view_entered
         /\ u.highest_view_voted = t.highest_view_voted
    BY <1>1, UpdatedPCFields
  <1>11. t.update_decided \in BOOLEAN
    BY <1>9 DEF Decides
  <1> HIDE DEF t, u
  <1>13. u.update_decided = (t.update_decided \/ decides)
    BY <1>8, <1>11
  <1>14. SameFields(u, v)
    <2>2. u.update_decided = v.update_decided
      BY Zenon, <1>2, <1>13 DEF UpdateFields, decides
    <2>3. u.locked_pc = v.locked_pc /\ u.highest_pc = v.highest_pc
      BY <1>2, <1>10 DEF UpdateFields, to_lock
    <2>4. /\ v.blocks = t.blocks /\ v.children = t.children
          /\ v.pending_app_updates = t.pending_app_updates /\ v.app_state = t.app_state
          /\ v.pending_updates = t.pending_updates /\ v.committed_updates = t.committed_updates
          /\ v.block_at_height = t.block_at_height
          /\ v.highest_committed_block = t.highest_committed_block
          /\ v.highest_view_entered = t.highest_view_entered
          /\ v.highest_view_voted = t.highest_view_voted
          /\ v.cvs = t.cvs /\ v.pvs = t.pvs /\ v.update_height = t.update_height
      BY <1>2 DEF UpdateFields
    <2>5. QED
      BY <1>6, <1>8, <1>10, <2>2, <2>3, <2>4 DEF SameFields, SameTreeFields
  <1>15. u = v
    BY <1>2, <1>5, <1>14, TreesEqual DEF UpdateFields, t, u
  <1>16. Decides(next)
    <2>1. u.update_decided \in BOOLEAN
      BY <1>13
    <2>2. QED
      BY <1>9, <2>1 DEF Decides, u
  <1>17. QED
    BY <1>3, <1>4, <1>15, <1>16 DEF UpdateDone, next, u, v, t, to_commit

\* What a commit does to the fields of the validator set.
CommittedSets(u, t, U, decides) ==
  /\ U = {} => /\ u.cvs = t.cvs /\ u.pvs = t.pvs /\ u.update_height = t.update_height
               /\ u.update_decided = IF decides THEN TRUE ELSE t.update_decided
  /\ U # {} => LET last == CHOOSE c \in U : \A a \in U : Tree!height(a) <= Tree!height(c)
               IN  /\ u.cvs = apply_updates(t.cvs, UpdatesOf[Tree!data(last)]) /\ u.pvs = t.cvs
                   /\ u.update_height = Tree!height(last)
                   /\ u.update_decided = IF decides THEN TRUE ELSE FALSE

\* The fields of the validator set after a commit.
LEMMA CommittedSetFields ==
  ASSUME preimage = Contents, NEW store, StoreOK(store), NEW b \in Stored(store),
         NEW next, NEW decides, UpdatedSets(next, store, b, decides), NEW app, NEW other
  PROVE  CommittedSets(DecodedOf(next, other), DecodedOf(store, app), Updating(store, b), decides)
  <1> DEFINE t == DecodedOf(store, app)
             u == DecodedOf(next, other)
             U == Updating(store, b)
             last == CHOOSE c \in U : \A a \in U : Tree!height(a) <= Tree!height(c)
  <1>1. /\ t.cvs = committed_validator_set(store) /\ t.update_decided = update_decided(store)
        /\ u.cvs = committed_validator_set(next) /\ u.pvs = previous_validator_set(next)
        /\ u.update_decided = update_decided(next)
        /\ u.update_height = Optional(update_block_height(next), Tree!None)
    BY DEF DecodedOf
  <1>2. ASSUME U = {}
        PROVE  /\ u.cvs = t.cvs /\ u.pvs = t.pvs /\ u.update_height = t.update_height
               /\ u.update_decided = IF decides THEN TRUE ELSE t.update_decided
    <2>1. /\ get(next, <<"COMMITTED_VALIDATOR_SET">>) = get(store, <<"COMMITTED_VALIDATOR_SET">>)
          /\ get(next, <<"PREVIOUS_VALIDATOR_SET">>) = get(store, <<"PREVIOUS_VALIDATOR_SET">>)
          /\ get(next, <<"VALIDATOR_SET_UPDATE_BLOCK_HEIGHT">>)
             = get(store, <<"VALIDATOR_SET_UPDATE_BLOCK_HEIGHT">>)
          /\ get(next, <<"VALIDATOR_SET_UPDATE_DECIDED">>)
             = IF decides THEN {TRUE} ELSE get(store, <<"VALIDATOR_SET_UPDATE_DECIDED">>)
      BY <1>2 DEF UpdatedSets
    <2>2. update_decided(next) = IF decides THEN TRUE ELSE update_decided(store)
      BY <2>1, TheOnly DEF update_decided
    <2> HIDE DEF t, u
    <2>3. u.cvs = t.cvs /\ u.pvs = t.pvs /\ u.update_height = t.update_height
      BY <2>1, SingleFields DEF t, u
    <2>4. QED
      BY <1>1, <2>2, <2>3
  <1>3. ASSUME U # {}
        PROVE  /\ u.cvs = apply_updates(t.cvs, UpdatesOf[Tree!data(last)]) /\ u.pvs = t.cvs
               /\ u.update_height = Tree!height(last)
               /\ u.update_decided = IF decides THEN TRUE ELSE FALSE
    <2>1. \A c : Tree!height(c) = Contents[c].height /\ Tree!data(c) = Contents[c].data
      BY DEF Tree!height, Tree!data
    <2>2. PICK x : IsLastUpdating(store, b, x)
      BY <1>3, LastUpdating
    <2>3. x \in U /\ \A a \in U : Tree!height(a) <= Tree!height(x)
      BY <2>1, <2>2 DEF IsLastUpdating
    <2> HIDE DEF U
    <2>4. last \in U /\ \A a \in U : Tree!height(a) <= Tree!height(last)
      BY <2>3
    <2> HIDE DEF last, t, u
    <2>5. IsLastUpdating(store, b, last)
      BY <2>1, <2>4 DEF IsLastUpdating, U
    <2>6. /\ get(next, <<"COMMITTED_VALIDATOR_SET">>) = {NextValidatorSet(store, last)}
          /\ get(next, <<"PREVIOUS_VALIDATOR_SET">>) = {committed_validator_set(store)}
          /\ get(next, <<"VALIDATOR_SET_UPDATE_BLOCK_HEIGHT">>) = {Contents[last].height}
          /\ get(next, <<"VALIDATOR_SET_UPDATE_DECIDED">>) = IF decides THEN {TRUE} ELSE {FALSE}
      BY <2>5 DEF UpdatedSets
    <2>7. committed_validator_set(next) = NextValidatorSet(store, last)
      BY <2>6, TheOnly DEF committed_validator_set
    <2>8. previous_validator_set(next) = committed_validator_set(store)
      BY <2>6, TheOnly DEF previous_validator_set
    <2>9. Optional(update_block_height(next), Tree!None) = Contents[last].height
      BY <2>6, TheOnly DEF update_block_height, Optional
    <2>10. update_decided(next) = IF decides THEN TRUE ELSE FALSE
      BY <2>6, TheOnly DEF update_decided
    <2>11. NextValidatorSet(store, last) = apply_updates(t.cvs, UpdatesOf[Tree!data(last)])
      BY <1>1, <2>1 DEF NextValidatorSet
    <2>12. QED
      BY <1>1, <2>1, <2>7, <2>8, <2>9, <2>10, <2>11
  <1>4. QED
    BY <1>2, <1>3 DEF CommittedSets

\* An update that commits a block.
LEMMA UpdateCommitDecoded ==
  ASSUME preimage = Contents, NEW store, StoreOK(store), Decides(store), NEW app, NEW justify,
         NEW b \in Stored(store), \A h \in highest_committed_block_height(store) : h < Contents[b].height,
         Tree!block_to_commit(justify, DecodedOf(store, app)) = {b}
  PROVE  UpdateDone(store, app, justify, DecodedOf(store, app))
  <1> DEFINE t == DecodedOf(store, app)
             to_lock == Tree!pc_to_lock(justify, t)
             to_commit == Tree!block_to_commit(justify, t)
             after == AppliedAfter(store, app, to_commit)
             next == write(store, update(store, t, justify))
             u == DecodedOf(next, after)
             c == Tree!commit(b, t)
             v == Tree!update(justify, t)
             decides == justify.phase = "Decide"
             C == Uncommitted(store, b)
             P == Doomed(store, b)
             U == Updating(store, b)
  <1>1. to_commit = {b}
    OBVIOUS
  <1>2. /\ UpdatedPCs(next, store, justify, to_lock)
        /\ IsFiniteSet(DOMAIN next) /\ \A k \in DOMAIN next : IsKey(k)
        /\ TreeCommitted(next, store, b)
        /\ UpdatedSets(next, store, b, decides)
    <2>1. MayCommit(store, to_commit)
      BY DEF MayCommit
    <2>2. QED
      BY <1>1, <2>1, UpdateReads
  <1>3. after = Append(app, {x \in C : pending_app_state_updates(store, x) # {}})
    <2>1. UNION {ToSet(uncommitted_ancestors(store, x)) : x \in {b}} = C
      BY WalkIsUncommitted
    <2>2. QED
      BY <1>1, <2>1 DEF AppliedAfter
  <1>4. IsTree(t) /\ IsTree(u)
    BY DecodedIsTree
  <1>5. UpdateFields(v, justify, t, c)
    <2> HIDE DEF t, to_commit
    <2>1. UpdateFields(v, justify, t, IF to_commit = {} THEN t ELSE Tree!commit(the(to_commit), t))
      BY <1>4, UpdateIsTree DEF to_commit
    <2>2. the(to_commit) = b /\ to_commit # {}
      BY <1>1, TheOnly
    <2>3. QED
      BY <2>1, <2>2
  <1>6. CommitFields(c, b, t, C, P, U)
    <2>1. Tree!uncommitted_blocks(b, t) = C
      BY UncommittedBlocks
    <2>2. Tree!pruned_by(C, t) = P
      BY TreePruned
    <2>3. C \cap t.pending_updates = U
      <3>1. t.pending_updates = {x \in Stored(store) : pending_validator_set_updates(store, x) # {}}
        BY DecodedFacts
      <3>2. C \subseteq Stored(store)
        BY DoomedFacts
      <3> HIDE DEF t
      <3>3. QED
        BY <3>1, <3>2 DEF Updating, HasUpdates
    <2> HIDE DEF t, C, P, U
    <2>4. CommitFields(c, b, t, Tree!uncommitted_blocks(b, t), Tree!pruned_by(Tree!uncommitted_blocks(b, t), t),
                       Tree!uncommitted_blocks(b, t) \cap t.pending_updates)
      BY <1>4, CommitIsTree
    <2>5. QED
      BY <2>1, <2>2, <2>3, <2>4
  <1>7. CommittedTree(u, t, b, C, P, U)
    BY <1>2, CommittedFields
  <1>8. CommittedSets(u, t, U, decides)
    BY <1>2, CommittedSetFields
  <1>9. /\ u.highest_pc = IF justify.view > t.highest_pc.view THEN justify ELSE t.highest_pc
        /\ u.locked_pc = IF to_lock = {} THEN t.locked_pc ELSE the(to_lock)
        /\ u.highest_view_entered = t.highest_view_entered
        /\ u.highest_view_voted = t.highest_view_voted
    BY <1>2, UpdatedPCFields
  <1>10. u.app_state = Append(t.app_state, C \cap t.pending_app_updates)
    <2>1. u.app_state = after /\ t.app_state = app
      BY DEF DecodedOf
    <2>2. t.pending_app_updates = {x \in Stored(store) : pending_app_state_updates(store, x) # {}}
      BY DecodedFacts
    <2>3. C \subseteq Stored(store)
      BY DoomedFacts
    <2> HIDE DEF t, u, C, after
    <2>4. {x \in C : pending_app_state_updates(store, x) # {}} = C \cap t.pending_app_updates
      BY <2>2, <2>3
    <2>5. QED
      BY <1>3, <2>1, <2>4
  <1>11. StoreOK(next)
    BY <1>2, CommitKeepsTree
  <1>12. t.update_decided \in BOOLEAN /\ u.update_decided = update_decided(next)
    BY DEF Decides, DecodedOf
  <1> HIDE DEF t, u, v, c, C, P, U, to_lock, to_commit, after, next
  <1>13. u.update_decided = (c.update_decided \/ decides) /\ u.update_decided \in BOOLEAN
    <2>1. CASE U = {}
      BY <1>6, <1>8, <1>12, <2>1 DEF CommitFields, CommittedSets
    <2>2. CASE U # {}
      <3>1. c.update_decided = FALSE
        BY <1>6, <2>2 DEF CommitFields
      <3>2. u.update_decided = IF decides THEN TRUE ELSE FALSE
        BY <1>8, <2>2 DEF CommittedSets
      <3>3. QED
        BY <3>1, <3>2
    <2>3. QED
      BY <2>1, <2>2
  <1>14. u.cvs = c.cvs /\ u.pvs = c.pvs /\ u.update_height = c.update_height
    <2>1. CASE U = {}
      BY <1>6, <1>8, <2>1 DEF CommitFields, CommittedSets
    <2>2. CASE U # {}
      BY <1>6, <1>8, <2>2 DEF CommitFields, CommittedSets
    <2>3. QED
      BY <2>1, <2>2
  <1>15. /\ u.blocks = c.blocks /\ u.children = c.children
         /\ u.pending_app_updates = c.pending_app_updates /\ u.app_state = c.app_state
         /\ u.pending_updates = c.pending_updates /\ u.committed_updates = c.committed_updates
         /\ u.block_at_height = c.block_at_height
         /\ u.highest_committed_block = c.highest_committed_block
         /\ u.highest_view_entered = c.highest_view_entered
         /\ u.highest_view_voted = c.highest_view_voted
         /\ c.highest_pc = t.highest_pc /\ c.locked_pc = t.locked_pc
    BY <1>6, <1>7, <1>9, <1>10 DEF CommitFields, CommittedTree
  <1>16. SameFields(u, v)
    <2>1. u.update_decided = v.update_decided
      BY Zenon, <1>5, <1>13 DEF UpdateFields, decides
    <2>2. u.locked_pc = v.locked_pc /\ u.highest_pc = v.highest_pc
      BY <1>5, <1>9, <1>15 DEF UpdateFields, to_lock
    <2>3. /\ v.blocks = c.blocks /\ v.children = c.children
          /\ v.pending_app_updates = c.pending_app_updates /\ v.app_state = c.app_state
          /\ v.pending_updates = c.pending_updates /\ v.committed_updates = c.committed_updates
          /\ v.block_at_height = c.block_at_height
          /\ v.highest_committed_block = c.highest_committed_block
          /\ v.highest_view_entered = c.highest_view_entered
          /\ v.highest_view_voted = c.highest_view_voted
          /\ v.cvs = c.cvs /\ v.pvs = c.pvs /\ v.update_height = c.update_height
      BY <1>5 DEF UpdateFields
    <2>4. QED
      BY <1>14, <1>15, <2>1, <2>2, <2>3 DEF SameFields
  <1>17. u = v
    BY <1>4, <1>5, <1>16, TreesEqual DEF UpdateFields
  <1>18. Decides(next)
    BY <1>12, <1>13 DEF Decides
  <1>19. QED
    BY <1>11, <1>17, <1>18 DEF UpdateDone, next, u, v, t, after, to_commit

\* An update, whether it commits or not.
LEMMA UpdateDecoded ==
  ASSUME preimage = Contents, NEW store, StoreOK(store), Decides(store), NEW app, NEW justify,
         MayCommit(store, Tree!block_to_commit(justify, DecodedOf(store, app)))
  PROVE  UpdateDone(store, app, justify, DecodedOf(store, app))
  BY UpdateOnlyDecoded, UpdateCommitDecoded DEF MayCommit

-----------------------------------------------------------------------------
(* The store's part of the inductive invariant.                            *)

\* What a safe certificate commits is stored and not committed yet.
LEMMA SafeMayCommit ==
  ASSUME preimage = Contents, NEW store, StoreOK(store), NEW app, NEW pc,
         Tree!safe_pc(pc, DecodedOf(store, app))
  PROVE  MayCommit(store, Tree!block_to_commit(pc, DecodedOf(store, app)))
  <1> DEFINE t == DecodedOf(store, app)
             to_commit == Tree!block_to_commit(pc, t)
             above(b) == Contents[b].height > Tree!highest_committed_block_height(t)
             j == Contents[pc.block].justify
             k == Contents[j.block].justify
  <1>1. t.blocks = Stored(store)
    BY DecodedFacts
  <1>2. pc.block \in t.blocks \/ Tree!is_genesis_pc(pc)
    BY DEF Tree!safe_pc
  <1>3. \A b \in Stored(store) : /\ b \in Blocks /\ Contents[b].height \in Nat
                                 /\ Parent(b) \in Stored(store) \cup {0}
                                 /\ ~Tree!is_genesis_pc(Contents[b].justify) => Parent(b) # 0
    BY BlockFacts, StoredBlock
  <1>4. \A b \in Stored(store) : above(b) => \A h \in highest_committed_block_height(store) : h < Contents[b].height
    BY <1>3, CommittedHeight
  <1>5. /\ Tree!is_genesis_pc(pc) => to_commit = {}
        /\ to_commit # {} => \/ to_commit = {k.block} /\ above(k.block)
                                /\ ~Tree!is_genesis_pc(j) /\ ~Tree!is_genesis_pc(k)
                             \/ to_commit = {pc.block} /\ above(pc.block)
    BY DEF Tree!block_to_commit, Tree!block_justify, Tree!height
  <1> HIDE DEF t, to_commit, above
  <1>6. CASE to_commit = {}
    BY <1>6 DEF MayCommit, to_commit, t
  <1>7. CASE to_commit # {}
    <2>1. pc.block \in Stored(store)
      BY <1>1, <1>2, <1>5, <1>7
    <2>2. CASE to_commit = {pc.block} /\ above(pc.block)
      BY <1>4, <2>1, <2>2 DEF MayCommit, to_commit, t
    <2>3. CASE /\ to_commit = {k.block} /\ above(k.block)
               /\ ~Tree!is_genesis_pc(j) /\ ~Tree!is_genesis_pc(k)
      <3>1. j.block = Parent(pc.block) /\ k.block = Parent(j.block)
        BY DEF Parent
      <3>2. j.block \in Stored(store)
        BY <1>3, <2>1, <2>3, <3>1
      <3>3. k.block \in Stored(store)
        BY <1>3, <2>3, <3>1, <3>2
      <3>4. QED
        BY <1>4, <2>3, <3>3 DEF MayCommit, to_commit, t
    <2>4. QED
      BY <1>5, <1>7, <2>2, <2>3
  <1>8. QED
    BY <1>6, <1>7

\* Where a block may be inserted, and its justify after that.
LEMMA SafeInsert ==
  ASSUME preimage = Contents, NEW store, StoreOK(store), NEW app, NEW b \in Blocks,
         Tree!safe_block(b, DecodedOf(store, app))
  PROVE  /\ Parent(b) \in Stored(store) \cup {0}
         /\ Tree!safe_pc(Contents[b].justify, Tree!insert(b, DecodedOf(store, app)))
  <1> DEFINE t == DecodedOf(store, app)
             i == Tree!insert(b, t)
             pc == Contents[b].justify
             up == Tree!justified_by(pc.block, t)
  <1>1. t.blocks = Stored(store)
    BY DecodedFacts
  <1>2. Tree!safe_pc(pc, t)
    BY DEF Tree!safe_block, Tree!block_justify
  <1>3. pc \in Certificates /\ pc.block = Parent(b) /\ Parent(b) \in Nat /\ Parent(b) < b /\ b \in Nat
    BY BlockFacts DEF Parent
  <1>4. Parent(b) \in Stored(store) \cup {0}
    BY <1>1, <1>2, <1>3, BlockFacts DEF Tree!safe_pc
  <1>5. InsertFields(i, b, t)
    BY DecodedIsTree, InsertIsTree
  <1> HIDE DEF t, i, pc
  <1>6. \A x : x # b => /\ Tree!justified_by(x, i) = Tree!justified_by(x, t)
                        /\ Tree!contains_updates(i, x) <=> Tree!contains_updates(t, x)
    BY <1>5 DEF InsertFields, Tree!justified_by, Tree!contains_updates
  <1>7. pc.block # b
    BY <1>3
  <1>8. up # b
    <2>1. CASE Parent(b) \in Stored(store)
      <3>1. Parent(b) \in Blocks /\ up = Parent(Parent(b))
        BY <1>1, <1>3, <2>1 DEF Tree!justified_by, Tree!block_justify, Parent, Stored
      <3>2. Parent(Parent(b)) < Parent(b) /\ Parent(Parent(b)) \in Nat
        BY <3>1, BlockFacts
      <3>3. QED
        BY <1>3, <3>1, <3>2
    <2>2. CASE Parent(b) \notin Stored(store)
      <3>1. up = -1
        BY <1>1, <1>3, <2>2 DEF Tree!justified_by, Tree!NoBlock
      <3>2. QED
        BY <1>3, <3>1
    <2>3. QED
      BY <2>1, <2>2
  <1>9. Tree!extends_locked_pc_block(pc, t) => Tree!extends_locked_pc_block(pc, i)
    <2>1. Tree!justified_by(pc.block, i) = up /\ Tree!justified_by(up, i) = Tree!justified_by(up, t)
      BY <1>6, <1>7, <1>8
    <2>2. i.locked_pc = t.locked_pc
      BY <1>5 DEF InsertFields
    <2>3. QED
      BY <2>1, <2>2 DEF Tree!extends_locked_pc_block
  <1>10. Tree!safe_pc(pc, i)
    <2>1. i.locked_pc = t.locked_pc /\ i.blocks = t.blocks \cup {b}
      BY <1>5 DEF InsertFields
    <2>2. QED
      BY <1>2, <1>6, <1>7, <1>9, <2>1 DEF Tree!safe_pc
  <1>11. QED
    BY <1>4, <1>10 DEF t, i, pc

\* What the handler that runs has left to do: what it checked still holds of
\* the tree in the store.
TodoIsSafe ==
  \/ todo = <<>>
  \/ \E b \in Blocks : LET pc == Contents[b].justify IN
       /\ todo = <<Insert(b), Update(pc), Vote(pc)>>
       /\ Tree!is_correct(pc, Decoded)
       /\ Tree!safe_block(b, Decoded)
       /\ Contents[b].data \in ValidData
  \/ \E pc \in Certificates :
       /\ todo = <<Update(pc)>> \/ todo = <<Update(pc), Vote(pc)>>
       /\ Tree!safe_pc(pc, Decoded)
  \/ \E pc \in Certificates : todo = <<Vote(pc)>>
  \/ todo = <<Record>> /\ \A v \in highest_view_phase_voted(kv) : v < view

\* The store holds a block tree at any moment, and the calls under way fit it.
StoreInv ==
  /\ preimage = Contents
  /\ StoreOK(kv)
  /\ Decides(kv)
  /\ view \in Views
  /\ TodoIsSafe

\* The first call of a handler.
LEMMA FirstCall ==
  ASSUME TodoIsSafe, todo # <<>>
  PROVE  /\ Head(todo).call = "insert" =>
              \E b \in Blocks : LET pc == Contents[b].justify IN
                /\ Head(todo).block = b /\ Tail(todo) = <<Update(pc), Vote(pc)>>
                /\ Tree!is_correct(pc, Decoded)
                /\ Tree!safe_block(b, Decoded)
                /\ Contents[b].data \in ValidData
         /\ Head(todo).call = "update" =>
              \E pc \in Certificates :
                /\ Head(todo).justify = pc /\ Tail(todo) \in {<<>>, <<Vote(pc)>>}
                /\ Tree!safe_pc(pc, Decoded)
         /\ Head(todo).call = "vote" =>
              \E pc \in Certificates : Head(todo).justify = pc /\ Tail(todo) = <<>>
         /\ Head(todo).call = "record" =>
              Tail(todo) = <<>> /\ \A v \in highest_view_phase_voted(kv) : v < view
  <1>1. ASSUME NEW b, NEW pc, todo = <<Insert(b), Update(pc), Vote(pc)>>
        PROVE  /\ Head(todo).call = "insert" /\ Head(todo).block = b
               /\ Tail(todo) = <<Update(pc), Vote(pc)>>
    BY <1>1 DEF Insert
  <1>2. ASSUME NEW pc, todo = <<Update(pc)>> \/ todo = <<Update(pc), Vote(pc)>>
        PROVE  /\ Head(todo).call = "update" /\ Head(todo).justify = pc
               /\ Tail(todo) \in {<<>>, <<Vote(pc)>>}
    <2>1. Update(pc).call = "update" /\ Update(pc).justify = pc
      BY DEF Update
    <2>2. CASE todo = <<Update(pc)>>
      <3>1. Head(todo) = Update(pc) /\ Tail(todo) = <<>>
        BY <2>2
      <3>2. QED
        BY <2>1, <3>1
    <2>3. CASE todo = <<Update(pc), Vote(pc)>>
      <3>1. Head(todo) = Update(pc) /\ Tail(todo) = <<Vote(pc)>>
        BY <2>3
      <3>2. QED
        BY <2>1, <3>1
    <2>4. QED
      BY <1>2, <2>2, <2>3
  <1>3. ASSUME NEW pc, todo = <<Vote(pc)>>
        PROVE  Head(todo).call = "vote" /\ Head(todo).justify = pc /\ Tail(todo) = <<>>
    BY <1>3 DEF Vote
  <1>4. ASSUME todo = <<Record>>
        PROVE  Head(todo).call = "record" /\ Tail(todo) = <<>>
    BY <1>4 DEF Record
  <1>5. CASE \E b \in Blocks : LET pc == Contents[b].justify IN
               /\ todo = <<Insert(b), Update(pc), Vote(pc)>>
               /\ Tree!is_correct(pc, Decoded)
               /\ Tree!safe_block(b, Decoded)
               /\ Contents[b].data \in ValidData
    <2>1. PICK b \in Blocks : LET pc == Contents[b].justify IN
             /\ todo = <<Insert(b), Update(pc), Vote(pc)>>
             /\ Tree!is_correct(pc, Decoded)
             /\ Tree!safe_block(b, Decoded)
             /\ Contents[b].data \in ValidData
      BY <1>5
    <2>2. Head(todo).call = "insert" /\ Head(todo).block = b
          /\ Tail(todo) = <<Update(Contents[b].justify), Vote(Contents[b].justify)>>
      BY <1>1, <2>1
    <2>3. QED
      BY <2>1, <2>2
  <1>6. CASE \E pc \in Certificates :
               /\ todo = <<Update(pc)>> \/ todo = <<Update(pc), Vote(pc)>>
               /\ Tree!safe_pc(pc, Decoded)
    BY <1>2, <1>6
  <1>7. CASE \E pc \in Certificates : todo = <<Vote(pc)>>
    BY <1>3, <1>7
  <1>8. CASE todo = <<Record>> /\ \A v \in highest_view_phase_voted(kv) : v < view
    BY <1>4, <1>8
  <1>9. QED
    BY <1>5, <1>6, <1>7, <1>8 DEF TodoIsSafe

-----------------------------------------------------------------------------
(* Writes of one view variable.                                            *)

\* The store after one variable was set that no tree is read from.
OnlySets(next, store, p, v) ==
  /\ SameTree(next, store)
  /\ get(next, <<p>>) = {v}
  /\ \A q : q # p => get(next, <<q>>) = get(store, <<q>>)

\* Setting a view leaves all else.
LEMMA ViewWritten ==
  ASSUME NEW store, StoreOK(store), NEW v,
         NEW p \in {"HIGHEST_VIEW_ENTERED", "HIGHEST_VIEW_PHASE_VOTED", "HIGHEST_TC"}
  PROVE  OnlySets(write(store, set(<<p>>, v)), store, p, v)
  <1> DEFINE k == <<p>>
             wb == set(k, v)
             next == write(store, wb)
  <1>1. k[1] = p /\ k[1] # "BLOCKS" /\ k[1] \notin Indexed /\ k[1] \notin TreeVariables
    BY DEF Indexed, TreeVariables
  <1>2. IsKey(k)
    BY <1>1 DEF IsKey
  <1>3. \A q : q # p => <<q>> # k
    OBVIOUS
  <1> HIDE DEF k
  <1>4. DOMAIN wb = {k}
    BY DEF set
  <1>5. WellFormed(wb) /\ AddsFinitely(wb)
    BY WritesSet, FewAddFinitely
  <1>6. SameTree(next, store)
    <2>1. IsFiniteSet(DOMAIN store) /\ \A x \in DOMAIN store : IsKey(x)
      BY DEF StoreOK
    <2>2. \A x \in DOMAIN wb : IsKey(x) /\ x[1] \notin TreeVariables
      BY <1>1, <1>2, <1>4
    <2> HIDE DEF wb
    <2>3. QED
      BY <1>5, <2>1, <2>2, WriteSameTree
  <1>7. \A x : get(next, x) = After(wb, x, get(store, x))
    BY <1>5, WriteReads
  <1>8. get(next, k) = {v}
    BY <1>4, <1>7 DEF After, set
  <1>9. \A x : x # k => get(next, x) = get(store, x)
    BY <1>4, <1>7 DEF After
  <1> HIDE DEF next
  <1>10. QED
    BY <1>3, <1>6, <1>8, <1>9 DEF OnlySets, next, k

\* What is read after that.
LEMMA ViewDecoded ==
  ASSUME NEW store, StoreOK(store), Decides(store), NEW app, NEW next, NEW v,
         NEW p \in {"HIGHEST_VIEW_ENTERED", "HIGHEST_VIEW_PHASE_VOTED", "HIGHEST_TC"},
         OnlySets(next, store, p, v)
  PROVE  LET t == DecodedOf(store, app)
             u == DecodedOf(next, app)
         IN  /\ StoreOK(next) /\ Decides(next)
             /\ p = "HIGHEST_VIEW_ENTERED" => u = [t EXCEPT !.highest_view_entered = v]
             /\ p = "HIGHEST_VIEW_PHASE_VOTED" => u = [t EXCEPT !.highest_view_voted = v]
             /\ p = "HIGHEST_TC" => u = t
  <1> DEFINE t == DecodedOf(store, app)
             u == DecodedOf(next, app)
  <1>1. StoreOK(next)
    BY SameTreeOK DEF OnlySets
  <1>2. IsTree(t) /\ IsTree(u)
    BY DecodedIsTree
  <1>3. SameTreeFields(u, t)
    BY SameTreeDecoded DEF OnlySets
  <1>4. /\ u.highest_view_entered = highest_view_entered(next)
        /\ u.highest_view_voted = Optional(highest_view_phase_voted(next), Tree!None)
        /\ u.update_decided = update_decided(next) /\ t.update_decided = update_decided(store)
    BY DEF DecodedOf
  <1> HIDE DEF t, u
  <1>5. /\ u.locked_pc = t.locked_pc /\ u.highest_pc = t.highest_pc
        /\ u.cvs = t.cvs /\ u.pvs = t.pvs
        /\ u.update_height = t.update_height /\ u.update_decided = t.update_decided
        /\ u.app_state = t.app_state
        /\ p # "HIGHEST_VIEW_ENTERED" => u.highest_view_entered = t.highest_view_entered
        /\ p # "HIGHEST_VIEW_PHASE_VOTED" => u.highest_view_voted = t.highest_view_voted
    BY SingleFields DEF OnlySets, t, u
  <1>6. Decides(next)
    BY <1>4, <1>5 DEF Decides
  <1>7. CASE p = "HIGHEST_VIEW_ENTERED"
    <2>1. u.highest_view_entered = v
      BY <1>4, <1>7, TheOnly DEF OnlySets, highest_view_entered
    <2>2. u = [ blocks                  |-> t.blocks,
                children                |-> t.children,
                pending_app_updates     |-> t.pending_app_updates,
                app_state               |-> t.app_state,
                pending_updates         |-> t.pending_updates,
                committed_updates       |-> t.committed_updates,
                block_at_height         |-> t.block_at_height,
                highest_committed_block |-> t.highest_committed_block,
                locked_pc               |-> t.locked_pc,
                highest_pc              |-> t.highest_pc,
                highest_view_entered    |-> v,
                highest_view_voted      |-> t.highest_view_voted,
                cvs                     |-> t.cvs,
                pvs                     |-> t.pvs,
                update_height           |-> t.update_height,
                update_decided          |-> t.update_decided ]
      BY <1>2, <1>3, <1>5, <1>7, <2>1 DEF IsTree, SameTreeFields
    <2>3. u = [t EXCEPT !.highest_view_entered = v]
      BY <1>2, <2>2 DEF IsTree
    <2>4. QED
      BY <1>1, <1>6, <1>7, <2>3 DEF t, u
  <1>8. CASE p = "HIGHEST_VIEW_PHASE_VOTED"
    <2>1. u.highest_view_voted = v
      BY <1>4, <1>8, TheOnly DEF OnlySets, highest_view_phase_voted, Optional
    <2>2. u = [ blocks                  |-> t.blocks,
                children                |-> t.children,
                pending_app_updates     |-> t.pending_app_updates,
                app_state               |-> t.app_state,
                pending_updates         |-> t.pending_updates,
                committed_updates       |-> t.committed_updates,
                block_at_height         |-> t.block_at_height,
                highest_committed_block |-> t.highest_committed_block,
                locked_pc               |-> t.locked_pc,
                highest_pc              |-> t.highest_pc,
                highest_view_entered    |-> t.highest_view_entered,
                highest_view_voted      |-> v,
                cvs                     |-> t.cvs,
                pvs                     |-> t.pvs,
                update_height           |-> t.update_height,
                update_decided          |-> t.update_decided ]
      BY <1>2, <1>3, <1>5, <1>8, <2>1 DEF IsTree, SameTreeFields
    <2>3. u = [t EXCEPT !.highest_view_voted = v]
      BY <1>2, <2>2 DEF IsTree
    <2>4. QED
      BY <1>1, <1>6, <1>8, <2>3 DEF t, u
  <1>9. CASE p = "HIGHEST_TC"
    <2>1. SameFields(u, t)
      BY <1>3, <1>5, <1>9 DEF SameFields, SameTreeFields
    <2>2. u = t
      BY <1>2, <2>1, TreesEqual
    <2>3. QED
      BY <1>1, <1>6, <1>9, <2>2 DEF t, u
  <1>10. QED
    BY <1>7, <1>8, <1>9

-----------------------------------------------------------------------------
(* The first tree.                                                         *)

\* The store that initialize writes is read as the empty tree.
LEMMA InitialDecoded ==
  LET store == write(<<>>, initialize)
  IN  Decides(store) /\ DecodedOf(store, <<>>) = Tree!initialize
  <1> DEFINE store == write(<<>>, initialize)
             t == DecodedOf(store, <<>>)
             i == Tree!initialize
  <1>1. SameTree(store, <<>>) /\ StoreOK(store) /\ Stored(store) = {}
    BY InitialStore
  <1>2. /\ WellFormed(initialize)
        /\ \A k \in DOMAIN initialize : k[1] \in InitialVariables
        /\ Writes(initialize, <<"COMMITTED_VALIDATOR_SET">>) = {{InitialValidatorSet}}
        /\ Writes(initialize, <<"PREVIOUS_VALIDATOR_SET">>) = {{InitialValidatorSet}}
        /\ Writes(initialize, <<"VALIDATOR_SET_UPDATE_DECIDED">>) = {{TRUE}}
        /\ Writes(initialize, <<"LOCKED_PC">>) = {{Tree!genesis_pc}}
        /\ Writes(initialize, <<"HIGHEST_VIEW_ENTERED">>) = {{0}}
        /\ Writes(initialize, <<"HIGHEST_PC">>) = {{Tree!genesis_pc}}
    BY InitialBatch
  <1>3. \A k : get(store, k) = After(initialize, k, {})
    <2>1. \A k : get(<<>>, k) = {}
      BY DEF get
    <2>2. QED
      BY <1>2, <2>1, WriteReads
  <1> HIDE DEF store
  <1>4. \A k, v : Writes(initialize, k) = {{v}} => get(store, k) = {v}
    BY <1>3, ReadAfter
  <1>5. ASSUME NEW p, p \notin InitialVariables PROVE get(store, <<p>>) = {}
    <2> DEFINE k == <<p>>
    <2>1. k[1] \notin InitialVariables
      BY <1>5
    <2> HIDE DEF k
    <2>2. k \notin DOMAIN initialize
      BY <1>2, <2>1
    <2>3. QED
      BY <1>3, <2>2 DEF After, k
  <1>6. /\ committed_validator_set(store) = InitialValidatorSet
        /\ previous_validator_set(store) = InitialValidatorSet
        /\ update_decided(store) = TRUE
        /\ locked_pc(store) = Tree!genesis_pc /\ highest_pc(store) = Tree!genesis_pc
        /\ highest_view_entered(store) = 0
    BY <1>2, <1>4, TheOnly
       DEF committed_validator_set, previous_validator_set, update_decided, locked_pc, highest_pc,
           highest_view_entered
  <1>7. /\ highest_committed_block(store) = {} /\ highest_view_phase_voted(store) = {}
        /\ update_block_height(store) = {}
    BY <1>5 DEF InitialVariables, highest_committed_block, highest_view_phase_voted, update_block_height
  <1>8. \A h : block_at_height(store, h) = {}
    <2>1. \A h : block_at_height(<<>>, h) = {}
      BY DEF block_at_height, get
    <2>2. SameTree(store, <<>>) /\ StoreOK(<<>>)
      BY <1>1, EmptyStoreOK
    <2>3. \A h : block_at_height(store, h) = block_at_height(<<>>, h)
      BY <2>2, SameTreeReads
    <2>4. QED
      BY <2>1, <2>3
  <1>9. /\ t.blocks = Stored(store)
        /\ t.children = {<<Parent(x), x>> : x \in Stored(store)}
        /\ t.pending_app_updates = {x \in Stored(store) : pending_app_state_updates(store, x) # {}}
        /\ t.pending_updates = {x \in Stored(store) : pending_validator_set_updates(store, x) # {}}
        /\ t.committed_updates = {x \in Stored(store) : /\ validator_set_updates_status(store, x) # {}
                                                        /\ pending_validator_set_updates(store, x) = {}}
        /\ \A e : e \in t.block_at_height <=> \E h, b : e = <<h, b>> /\ block_at_height(store, h) = {b}
    BY <1>1, DecodedFacts
  <1>10. /\ t.blocks = {} /\ t.children = {} /\ t.pending_app_updates = {} /\ t.pending_updates = {}
         /\ t.committed_updates = {}
    <2> HIDE DEF t
    <2>1. QED
      BY <1>1, <1>9
  <1>11. t.block_at_height = {}
    <2> HIDE DEF t
    <2>1. \A e : e \notin t.block_at_height
      BY <1>8, <1>9
    <2>2. QED
      BY <2>1
  <1>12. /\ t.highest_committed_block = Tree!NoBlock /\ t.highest_view_voted = Tree!None
         /\ t.update_height = Tree!None
    BY <1>7 DEF DecodedOf, Optional
  <1>13. /\ t.app_state = <<>> /\ t.locked_pc = Tree!genesis_pc /\ t.highest_pc = Tree!genesis_pc
         /\ t.highest_view_entered = 0 /\ t.cvs = InitialValidatorSet /\ t.pvs = InitialValidatorSet
         /\ t.update_decided = TRUE
    BY <1>6 DEF DecodedOf
  <1>14. IsTree(t)
    BY DecodedIsTree
  <1>15. IsTree(i)
    BY DEF Tree!initialize, IsTree
  <1> HIDE DEF t
  <1>16. SameFields(t, i)
    BY <1>10, <1>11, <1>12, <1>13 DEF SameFields, Tree!initialize
  <1> HIDE DEF i
  <1>17. t = i
    BY <1>14, <1>15, <1>16, TreesEqual
  <1>18. QED
    BY <1>6, <1>17 DEF Decides, t, i, store

-----------------------------------------------------------------------------
(* The steps of the replica.                                               *)

\* A step of the replica is one of the tree in its store, or none.
TreeStep ==
  \/ Decoded' = Decoded
  \/ \E b \in Blocks :
       /\ Tree!is_correct(Contents[b].justify, Decoded)
       /\ Tree!safe_block(b, Decoded)
       /\ Contents[b].data \in ValidData
       /\ Decoded' = Tree!insert(b, Decoded)
  \/ \E pc \in Certificates :
       /\ Tree!safe_pc(pc, Decoded)
       /\ Decoded' = Tree!update(pc, Decoded)
  \/ \E v \in Views :
       /\ v > Decoded.highest_view_entered
       /\ Decoded' = [Decoded EXCEPT !.highest_view_entered = v]
  \/ \E v \in Views :
       /\ v > Decoded.highest_view_voted
       /\ Decoded' = [Decoded EXCEPT !.highest_view_voted = v]

\* What was checked of a tree holds while that is the tree in the store.
LEMMA ChecksKept ==
  ASSUME preimage' = preimage, NEW t, Decoded' = t
  PROVE  /\ \A pc : Tree!is_correct(pc, t) => Tree!is_correct(pc, Decoded)'
         /\ \A pc : Tree!safe_pc(pc, t) => Tree!safe_pc(pc, Decoded)'
         /\ \A b : Tree!safe_block(b, t) => Tree!safe_block(b, Decoded)'
  <1>1. \A pc : Tree!is_correct(pc, t) => Tree!is_correct(pc, Decoded)'
    BY DEF Tree!is_correct, Tree!is_genesis_pc, Tree!height, Tree!contains_updates, Tree!data, Tree!None,
           Tree!is_nudge_justify
  <1>2. \A pc : Tree!safe_pc(pc, t) => Tree!safe_pc(pc, Decoded)'
    BY DEF Tree!safe_pc, Tree!is_genesis_pc, Tree!contains_updates, Tree!extends_locked_pc_block,
           Tree!justified_by, Tree!block_justify
  <1>3. \A b : Tree!safe_block(b, t) => Tree!safe_block(b, Decoded)'
    BY DEF Tree!safe_block, Tree!safe_pc, Tree!is_genesis_pc, Tree!contains_updates,
           Tree!extends_locked_pc_block, Tree!justified_by, Tree!block_justify
  <1>4. QED
    BY <1>1, <1>2, <1>3

\* A step that writes nothing to the store leaves the tree.
LEMMA UnwrittenTree ==
  ASSUME StoreInv, UNCHANGED <<preimage, kv, applied>>
  PROVE  /\ preimage' = Contents /\ StoreOK(kv)' /\ Decides(kv)'
         /\ Decoded' = Decoded
  <1>1. Decoded = DecodedOf(kv, applied) /\ Decoded' = DecodedOf(kv', applied')
    BY DecodedIs
  <1>2. Decoded' = Decoded
    BY <1>1
  <1>3. StoreOK(kv') /\ Decides(kv')
    BY DEF StoreInv
  <1>4. QED
    BY <1>2, <1>3 DEF StoreInv

\* At first the tree is empty.
LEMMA StoreStarts ==
  Init => StoreInv /\ Decoded = Tree!initialize
  <1> SUFFICES ASSUME Init PROVE StoreInv /\ Decoded = Tree!initialize
    OBVIOUS
  <1>1. preimage = Contents /\ kv = write(<<>>, initialize) /\ view = 0 /\ todo = <<>> /\ applied = <<>>
    BY DEF Init
  <1>2. StoreOK(kv) /\ Decides(kv) /\ DecodedOf(kv, applied) = Tree!initialize
    BY <1>1, InitialStore, InitialDecoded
  <1>3. TodoIsSafe
    BY <1>1 DEF TodoIsSafe
  <1>4. QED
    BY <1>1, <1>2, <1>3, DecodedIs, ReplicaAssumption DEF StoreInv

\* A handler begins with what it checked.
LEMMA HandlersKeepStore ==
  ASSUME StoreInv,
         \/ \E b \in DOMAIN preimage : OnReceiveProposal(b, Decoded)
         \/ \E pc \in Certificates : OnReceiveNudge(pc, Decoded) \/ OnCertificate(pc, Decoded)
  PROVE  StoreInv' /\ TreeStep
  <1>1. ASSUME UNCHANGED <<preimage, kv, view, applied>>, TodoIsSafe' PROVE StoreInv' /\ TreeStep
    BY <1>1, UnwrittenTree DEF StoreInv, TreeStep
  <1>2. ASSUME NEW b \in DOMAIN preimage, OnReceiveProposal(b, Decoded) PROVE StoreInv' /\ TreeStep
    <2> DEFINE pc == Contents[b].justify
    <2>1. preimage = Contents /\ b \in Blocks
      BY DEF StoreInv, Blocks
    <2>2. /\ todo' = <<Insert(b), Update(pc), Vote(pc)>>
          /\ UNCHANGED <<preimage, kv, view, applied>>
          /\ Tree!is_correct(pc, Decoded) /\ Tree!safe_block(b, Decoded)
          /\ Contents[b].data \in ValidData
      BY <1>2, <2>1 DEF OnReceiveProposal, Handles, Tree!data
    <2>3. Decoded' = Decoded /\ preimage' = preimage
      BY <2>2, UnwrittenTree
    <2>4. Tree!is_correct(pc, Decoded)' /\ Tree!safe_block(b, Decoded)'
      BY <2>2, <2>3, ChecksKept
    <2>5. TodoIsSafe'
      BY <2>1, <2>2, <2>4 DEF TodoIsSafe
    <2>6. QED
      BY <1>1, <2>2, <2>5
  <1>3. ASSUME NEW pc \in Certificates, OnReceiveNudge(pc, Decoded) \/ OnCertificate(pc, Decoded)
        PROVE  StoreInv' /\ TreeStep
    <2>1. /\ todo' = <<Update(pc)>> \/ todo' = <<Update(pc), Vote(pc)>>
          /\ UNCHANGED <<preimage, kv, view, applied>>
          /\ Tree!safe_pc(pc, Decoded)
      BY <1>3 DEF OnReceiveNudge, OnCertificate, Handles, Tree!safe_nudge
    <2>2. Decoded' = Decoded /\ preimage' = preimage
      BY <2>1, UnwrittenTree
    <2>3. Tree!safe_pc(pc, Decoded)'
      BY <2>1, <2>2, ChecksKept
    <2>4. TodoIsSafe'
      BY <2>1, <2>3 DEF TodoIsSafe
    <2>5. QED
      BY <1>1, <2>1, <2>4
  <1>4. QED
    BY <1>2, <1>3

\* A block is inserted.
LEMMA InsertKeepsStore ==
  ASSUME StoreInv, CallInsert
  PROVE  StoreInv' /\ TreeStep
  <1>1. /\ UNCHANGED <<preimage, view, applied>> /\ todo # <<>> /\ Head(todo).call = "insert"
        /\ kv' = write(kv, insert(kv, Head(todo).block)) /\ todo' = Tail(todo)
    BY DEF CallInsert, Calls
  <1>2. PICK b \in Blocks :
          /\ Head(todo).block = b /\ Tail(todo) = <<Update(Contents[b].justify), Vote(Contents[b].justify)>>
          /\ Tree!is_correct(Contents[b].justify, Decoded)
          /\ Tree!safe_block(b, Decoded)
          /\ Contents[b].data \in ValidData
    BY <1>1, FirstCall DEF StoreInv
  <1>3. PICK t : t = Decoded
    OBVIOUS
  <1>4. t = DecodedOf(kv, applied) /\ Decoded' = DecodedOf(kv', applied)
    BY <1>1, <1>3, DecodedIs
  <1>5. /\ Parent(b) \in Stored(kv) \cup {0}
        /\ Tree!safe_pc(Contents[b].justify, Tree!insert(b, t))
    BY <1>2, <1>3, <1>4, SafeInsert DEF StoreInv
  <1>6. kv' = write(kv, insert(kv, b))
    BY <1>1, <1>2
  <1>7. StoreOK(kv') /\ Decoded' = Tree!insert(b, t)
    BY <1>4, <1>5, <1>6, InsertDecoded DEF StoreInv
  <1>8. Decides(kv')
    <2>1. /\ Decoded'.update_decided = update_decided(kv')
          /\ t.update_decided = update_decided(kv)
      BY <1>4 DEF DecodedOf
    <2>2. Tree!insert(b, t).update_decided = t.update_decided
      <3>1. IsTree(t)
        BY <1>4, DecodedIsTree
      <3>2. InsertFields(Tree!insert(b, t), b, t)
        BY <3>1, InsertIsTree
      <3>3. QED
        BY <3>2 DEF InsertFields
    <2>3. QED
      BY <1>7, <2>1, <2>2 DEF StoreInv, Decides
  <1>9. TodoIsSafe'
    <2>1. PICK u : u = Tree!insert(b, t)
      OBVIOUS
    <2>2. Tree!safe_pc(Contents[b].justify, u) /\ Decoded' = u /\ preimage' = preimage
      BY <1>1, <1>5, <1>7, <2>1
    <2>3. Tree!safe_pc(Contents[b].justify, Decoded)'
      BY <2>2, ChecksKept
    <2>4. Contents[b].justify \in Certificates
      BY BlockFacts
    <2>5. QED
      BY <1>1, <1>2, <2>3, <2>4 DEF TodoIsSafe
  <1>10. TreeStep
    BY <1>2, <1>3, <1>7 DEF TreeStep
  <1>11. QED
    BY <1>1, <1>7, <1>8, <1>9, <1>10 DEF StoreInv

\* The tree is updated with a certificate.
LEMMA UpdateKeepsStore ==
  ASSUME StoreInv, CallUpdate
  PROVE  StoreInv' /\ TreeStep
  <1>1. /\ UNCHANGED <<preimage, view>> /\ todo # <<>> /\ Head(todo).call = "update"
        /\ todo' = Tail(todo)
    BY DEF CallUpdate, Calls
  <1>2. PICK pc \in Certificates :
          /\ Head(todo).justify = pc /\ Tail(todo) \in {<<>>, <<Vote(pc)>>}
          /\ Tree!safe_pc(pc, Decoded)
    BY <1>1, FirstCall DEF StoreInv
  <1>3. Decoded = DecodedOf(kv, applied) /\ Decoded' = DecodedOf(kv', applied')
    BY DecodedIs
  <1>4. /\ kv' = write(kv, update(kv, Decoded, pc))
        /\ applied' = AppliedAfter(kv, applied, Tree!block_to_commit(pc, Decoded))
    BY <1>2 DEF CallUpdate, AppliedAfter
  <1>5. MayCommit(kv, Tree!block_to_commit(pc, Decoded))
    BY <1>2, <1>3, SafeMayCommit DEF StoreInv
  <1>6. UpdateDone(kv, applied, pc, Decoded)
    BY <1>3, <1>5, UpdateDecoded DEF StoreInv
  <1>7. StoreOK(kv') /\ Decides(kv') /\ Decoded' = Tree!update(pc, Decoded)
    BY <1>3, <1>4, <1>6 DEF UpdateDone
  <1>8. TodoIsSafe'
    BY <1>1, <1>2 DEF TodoIsSafe
  <1>9. TreeStep
    BY <1>2, <1>7 DEF TreeStep
  <1>10. QED
    BY <1>1, <1>7, <1>8, <1>9 DEF StoreInv

\* A vote is sent, or not.
LEMMA VotingKeepsStore ==
  ASSUME StoreInv, CallVote \/ CallVoteNot
  PROVE  StoreInv' /\ TreeStep
  <1>1. /\ UNCHANGED <<preimage, kv, view, applied>> /\ todo # <<>> /\ Head(todo).call = "vote"
        /\ \/ todo' = Tail(todo)
           \/ todo' = <<Record>> /\ \A v \in highest_view_phase_voted(kv) : v < view
    BY DEF CallVote, CallVoteNot, Calls, MayVote
  <1>2. Tail(todo) = <<>>
    BY <1>1, FirstCall DEF StoreInv
  <1>3. TodoIsSafe'
    BY <1>1, <1>2 DEF TodoIsSafe
  <1>4. QED
    BY <1>1, <1>3, UnwrittenTree DEF StoreInv, TreeStep

\* A vote is recorded.
LEMMA RecordKeepsStore ==
  ASSUME ReplicaInv, StoreInv, CallRecord
  PROVE  StoreInv' /\ TreeStep
  <1> DEFINE p == "HIGHEST_VIEW_PHASE_VOTED"
  <1>1. /\ UNCHANGED <<preimage, view, applied>> /\ todo # <<>> /\ Head(todo).call = "record"
        /\ kv' = write(kv, set_highest_view_phase_voted(view)) /\ todo' = Tail(todo)
    BY DEF CallRecord, Calls
  <1>2. Tail(todo) = <<>> /\ \A v \in highest_view_phase_voted(kv) : v < view
    BY <1>1, FirstCall DEF StoreInv
  <1>3. Decoded = DecodedOf(kv, applied) /\ Decoded' = DecodedOf(kv', applied')
    BY DecodedIs
  <1>4. OnlySets(kv', kv, p, view)
    BY <1>1, ViewWritten DEF StoreInv, set_highest_view_phase_voted
  <1>5. /\ StoreOK(kv') /\ Decides(kv')
        /\ Decoded' = [Decoded EXCEPT !.highest_view_voted = view]
    BY <1>1, <1>3, <1>4, ViewDecoded DEF StoreInv
  <1>6. view > Decoded.highest_view_voted
    <2>1. Decoded.highest_view_voted = Optional(highest_view_phase_voted(kv), Tree!None)
      BY DEF Decoded
    <2>2. highest_view_phase_voted(kv) = {} \/ \E w \in Nat : highest_view_phase_voted(kv) = {w}
      <3>1. highest_view_phase_voted(kv) \subseteq Nat
        BY DEF ReplicaInv, ReplicaTypes, KeepsViews
      <3>2. highest_view_phase_voted(kv) = {} \/ \E w : highest_view_phase_voted(kv) = {w}
        BY OneOrNone DEF highest_view_phase_voted
      <3>3. QED
        BY <3>1, <3>2
    <2>3. view \in Nat
      BY DEF ReplicaInv, ReplicaTypes
    <2>4. CASE highest_view_phase_voted(kv) = {}
      BY <2>1, <2>3, <2>4 DEF Optional, Tree!None
    <2>5. CASE \E w \in Nat : highest_view_phase_voted(kv) = {w}
      <3>1. PICK w \in Nat : highest_view_phase_voted(kv) = {w}
        BY <2>5
      <3>2. Decoded.highest_view_voted = w
        BY <2>1, <3>1, TheOnly DEF Optional
      <3>3. QED
        BY <1>2, <2>3, <3>1, <3>2
    <2>6. QED
      BY <2>2, <2>4, <2>5
  <1>7. TodoIsSafe'
    BY <1>1, <1>2 DEF TodoIsSafe
  <1>8. TreeStep
    BY <1>5, <1>6 DEF TreeStep, StoreInv
  <1>9. QED
    BY <1>1, <1>5, <1>7, <1>8 DEF StoreInv

\* A view is entered.
LEMMA EnterKeepsStore ==
  ASSUME ReplicaInv, StoreInv, NEW v \in Views, EnterView(v)
  PROVE  StoreInv' /\ TreeStep
  <1>1. /\ UNCHANGED <<preimage, applied, todo>> /\ todo = <<>> /\ v > view /\ view' = v
        /\ kv' = write(kv, set_highest_view_entered(v))
    BY DEF EnterView
  <1>2. Decoded = DecodedOf(kv, applied) /\ Decoded' = DecodedOf(kv', applied')
    BY DecodedIs
  <1>3. OnlySets(kv', kv, "HIGHEST_VIEW_ENTERED", v)
    BY <1>1, ViewWritten DEF StoreInv, set_highest_view_entered
  <1>4. /\ StoreOK(kv') /\ Decides(kv')
        /\ Decoded' = [Decoded EXCEPT !.highest_view_entered = v]
    BY <1>1, <1>2, <1>3, ViewDecoded DEF StoreInv
  <1>5. v > Decoded.highest_view_entered
    <2>1. Decoded.highest_view_entered = highest_view_entered(kv)
      BY DEF Decoded
    <2>2. /\ highest_view_entered(kv) <= view /\ highest_view_entered(kv) \in Nat
          /\ view \in Nat /\ v \in Nat
      BY ReplicaAssumption DEF ReplicaInv, ReplicaTypes, ViewIsKept, KeepsViews
    <2>3. QED
      BY <1>1, <2>1, <2>2
  <1>6. TodoIsSafe'
    BY <1>1 DEF TodoIsSafe
  <1>7. TreeStep
    BY <1>4, <1>5 DEF TreeStep
  <1>8. QED
    BY <1>1, <1>4, <1>6, <1>7 DEF StoreInv

\* No tree is read from the highest timeout certificate.
LEMMA TimeoutDecoded ==
  ASSUME NEW store, StoreOK(store), Decides(store), NEW app, NEW next, NEW v,
         OnlySets(next, store, "HIGHEST_TC", v)
  PROVE  StoreOK(next) /\ Decides(next) /\ DecodedOf(next, app) = DecodedOf(store, app)
  <1>1. StoreOK(next)
    BY ViewDecoded
  <1>2. Decides(next)
    BY ViewDecoded
  <1>3. DecodedOf(next, app) = DecodedOf(store, app)
    BY ViewDecoded
  <1>4. QED
    BY <1>1, <1>2, <1>3

\* A timeout certificate is recorded.
LEMMA TimeoutKeepsStore ==
  ASSUME StoreInv, NEW v \in TimeoutViews, OnTimeoutCertificate(v)
  PROVE  StoreInv' /\ TreeStep
  <1>1. /\ UNCHANGED <<preimage, applied, todo, view>> /\ todo = <<>>
        /\ kv' = write(kv, set_highest_tc(v))
    BY DEF OnTimeoutCertificate
  <1>2. Decoded = DecodedOf(kv, applied) /\ Decoded' = DecodedOf(kv', applied')
    BY DecodedIs
  <1>3. OnlySets(kv', kv, "HIGHEST_TC", v)
    BY <1>1, ViewWritten DEF StoreInv, set_highest_tc
  <1>4. StoreOK(kv') /\ Decides(kv') /\ Decoded' = Decoded
    <2>1. StoreOK(kv) /\ Decides(kv) /\ applied' = applied
      BY <1>1 DEF StoreInv
    <2>2. PICK next : next = kv'
      OBVIOUS
    <2>3. OnlySets(next, kv, "HIGHEST_TC", v)
      BY <1>3, <2>2
    <2>4. StoreOK(next) /\ Decides(next) /\ DecodedOf(next, applied) = DecodedOf(kv, applied)
      BY <2>1, <2>3, TimeoutDecoded
    <2>5. QED
      BY <1>2, <2>1, <2>2, <2>4
  <1>5. TodoIsSafe'
    BY <1>1 DEF TodoIsSafe
  <1>6. QED
    BY <1>1, <1>4, <1>5 DEF StoreInv, TreeStep

\* The replica crashes: the store is all that it has left.
LEMMA CrashKeepsStore ==
  ASSUME StoreInv, CrashAndRestart
  PROVE  StoreInv' /\ TreeStep
  <1>1. /\ UNCHANGED <<preimage, kv, applied>> /\ todo' = <<>> /\ view' \in Views
    BY DEF CrashAndRestart
  <1>2. TodoIsSafe'
    BY <1>1 DEF TodoIsSafe
  <1>3. QED
    BY <1>1, <1>2, UnwrittenTree DEF StoreInv, TreeStep

\* The invariant is kept, and every step is one of the tree.
LEMMA StoreInvStep ==
  ReplicaInv /\ StoreInv /\ [Next]_vars => StoreInv' /\ TreeStep /\ preimage' = preimage
  <1> SUFFICES ASSUME ReplicaInv, StoreInv, [Next]_vars
               PROVE  StoreInv' /\ TreeStep
    BY DEF StoreInv
  <1>1. CASE \/ \E b \in DOMAIN preimage : OnReceiveProposal(b, Decoded)
             \/ \E pc \in Certificates : OnReceiveNudge(pc, Decoded) \/ OnCertificate(pc, Decoded)
    BY <1>1, HandlersKeepStore
  <1>2. CASE Calling
    BY <1>2, InsertKeepsStore, UpdateKeepsStore, VotingKeepsStore, RecordKeepsStore DEF Calling
  <1>3. CASE Living
    BY <1>3, EnterKeepsStore, TimeoutKeepsStore, CrashKeepsStore DEF Living
  <1>4. CASE UNCHANGED vars
    <2>1. UNCHANGED <<preimage, kv, view, todo, applied>>
      BY <1>4 DEF vars
    <2>2. preimage' = preimage /\ Decoded' = Decoded
      BY <2>1, UnwrittenTree
    <2>3. TodoIsSafe'
      <3>1. /\ \A b : Tree!is_correct(Contents[b].justify, Decoded) =>
                        Tree!is_correct(Contents[b].justify, Decoded)'
            /\ \A b : Tree!safe_block(b, Decoded) => Tree!safe_block(b, Decoded)'
            /\ \A pc : Tree!safe_pc(pc, Decoded) => Tree!safe_pc(pc, Decoded)'
        BY <2>2, ChecksKept
      <3>2. TodoIsSafe /\ highest_view_phase_voted(kv)' = highest_view_phase_voted(kv)
        BY <2>1 DEF StoreInv
      <3>3. QED
        BY <2>1, <3>1, <3>2 DEF TodoIsSafe
    <2>4. QED
      BY <2>1, <2>3, UnwrittenTree DEF StoreInv, TreeStep
  <1>5. QED
    BY <1>1, <1>2, <1>3, <1>4 DEF Next

\* The blocks of a store that holds a tree are whole.
LEMMA StoreIsWhole ==
  StoreInv => BlocksAreWhole
  <1> SUFFICES ASSUME StoreInv PROVE BlocksAreWhole
    OBVIOUS
  <1>1. StoreOK(kv) /\ preimage = Contents
    BY DEF StoreInv
  <1>2. /\ Index("BLOCKS") = Stored(kv)
        /\ \A p \in Indexed : \A x : x \in Index(p) <=> get(kv, <<p, x>>) # {}
    BY <1>1, DecodedIs, IndexFacts
  <1>3. ASSUME NEW b \in Stored(kv)
        PROVE  /\ block_height(kv, b) = {preimage[b].height}
               /\ block_justify(kv, b) = {preimage[b].justify}
               /\ block_data_hash(kv, b) = {preimage[b].data}
               /\ block_data_len(kv, b) = {Len(DatumsOf[preimage[b].data])}
               /\ block_data(kv, b) # {}
    <2>1. HoldsBlock(kv, b)
      BY <1>1 DEF StoreOK
    <2>2. block_data(kv, b) # {}
      BY <2>1 DEF HoldsBlock, block_data
    <2>3. QED
      BY <1>1, <2>1, <2>2 DEF HoldsBlock, Datums
  <1>4. ASSUME NEW b, get(kv, <<"BLOCK_TO_CHILDREN", b>>) # {}
        PROVE  b \in Stored(kv) \cup {Tree!Genesis}
    BY <1>1, <1>4 DEF StoreOK, ChildrenOK, children, Tree!Genesis
  <1>5. ASSUME NEW b, \/ get(kv, <<"PENDING_APP_STATE_UPDATES", b>>) # {}
                      \/ get(kv, <<"VALIDATOR_SET_UPDATES_STATUS", b>>) # {}
        PROVE  b \in Stored(kv)
    BY <1>1, <1>5 DEF StoreOK, UpdatesOK, pending_app_state_updates, validator_set_updates_status
  <1>6. \A p \in {"BLOCK_TO_CHILDREN", "PENDING_APP_STATE_UPDATES", "VALIDATOR_SET_UPDATES_STATUS"} :
          Index(p) \subseteq Index("BLOCKS") \cup {Tree!Genesis}
    BY <1>2, <1>4, <1>5 DEF Indexed
  <1>7. QED
    BY <1>2, <1>3, <1>6 DEF BlocksAreWhole

-----------------------------------------------------------------------------
(* The operators of the abstract specification are those of the tree.      *)

\* Sums, cardinalities and ranges are the same in both instances.
LEMMA SameLibrary ==
  /\ \A f, S : Tree!SumFunctionOnSet(f, S) = Abstract!SumFunctionOnSet(f, S)
  /\ \A S : Tree!Cardinality(S) = Abstract!Cardinality(S)
  /\ \A f : Tree!Range(f) = Abstract!Range(f)
  <1>1. \A f, S : Tree!SumFunctionOnSet(f, S) = Abstract!SumFunctionOnSet(f, S)
    BY Zenon DEF Tree!SumFunctionOnSet, Abstract!SumFunctionOnSet, Tree!FoldFunctionOnSet,
       Abstract!FoldFunctionOnSet, Tree!MapThenFoldSet, Abstract!MapThenFoldSet
  <1>2. \A S : Tree!Cardinality(S) = Abstract!Cardinality(S)
    BY DEF Tree!Cardinality, Abstract!Cardinality
  <1>3. \A f : Tree!Range(f) = Abstract!Range(f)
    BY DEF Tree!Range, Abstract!Range
  <1>4. QED
    BY <1>1, <1>2, <1>3

\* So are the validator sets and what they have signed.
LEMMA SameSets ==
  /\ \A vs, updates : Tree!apply_updates(vs, updates) = Abstract!apply_updates(vs, updates)
  /\ \A cert, vs : Tree!is_correctly_signed(cert, vs) <=> Abstract!is_correctly_signed(cert, vs)
  <1>1. \A vs, updates : Tree!apply_updates(vs, updates) = Abstract!apply_updates(vs, updates)
    BY DEF Tree!apply_updates, Abstract!apply_updates
  <1>2. \A vs : Tree!validators(vs) = Abstract!validators(vs)
    BY DEF Tree!validators, Abstract!validators, Tree!Cardinality, Abstract!Cardinality
  <1>3. \A vs : Tree!total_power(vs) = Abstract!total_power(vs)
    BY SameLibrary DEF Tree!total_power, Abstract!total_power
  <1>4. \A vs : Tree!quorum(vs) = Abstract!quorum(vs)
    BY <1>3 DEF Tree!quorum, Abstract!quorum
  <1>5. \A vs, signers : Tree!power_of(vs, signers) = Abstract!power_of(vs, signers)
    BY SameLibrary DEF Tree!power_of, Abstract!power_of
  <1>6. ASSUME NEW cert, NEW vs
        PROVE  Tree!is_correctly_signed(cert, vs) <=> Abstract!is_correctly_signed(cert, vs)
    BY <1>2, <1>4, <1>5, SameLibrary
       DEF Tree!is_correctly_signed, Abstract!is_correctly_signed, Tree!NoSignature, Abstract!NoSignature
  <1>7. QED
    BY <1>1, <1>6

\* So are the predicates.
LEMMA SamePredicates ==
  /\ Tree!initialize = Abstract!initialize
  /\ \A pc, t : Tree!is_correct(pc, t) <=> Abstract!is_correct(pc, t)
  /\ \A pc, t : Tree!safe_pc(pc, t) <=> Abstract!safe_pc(pc, t)
  /\ \A b, t : Tree!safe_block(b, t) <=> Abstract!safe_block(b, t)
  <1>1. Tree!initialize = Abstract!initialize
    BY DEF Tree!initialize, Abstract!initialize, Tree!genesis_pc, Abstract!genesis_pc, Tree!Genesis,
           Abstract!Genesis, Tree!NoBlock, Abstract!NoBlock, Tree!None, Abstract!None
  <1>2. \A pc, t : Tree!is_correct(pc, t) <=> Abstract!is_correct(pc, t)
    BY SameSets
       DEF Tree!is_correct, Abstract!is_correct, Tree!is_genesis_pc, Abstract!is_genesis_pc,
           Tree!genesis_pc, Abstract!genesis_pc, Tree!Genesis, Abstract!Genesis,
           Tree!height, Abstract!height, Tree!contains_updates, Abstract!contains_updates,
           Tree!data, Abstract!data, Tree!None, Abstract!None, Tree!is_nudge_justify,
           Abstract!is_nudge_justify
  <1>3. \A pc, t : Tree!safe_pc(pc, t) <=> Abstract!safe_pc(pc, t)
    BY DEF Tree!safe_pc, Abstract!safe_pc, Tree!is_genesis_pc, Abstract!is_genesis_pc,
           Tree!genesis_pc, Abstract!genesis_pc, Tree!Genesis, Abstract!Genesis,
           Tree!contains_updates, Abstract!contains_updates, Tree!extends_locked_pc_block,
           Abstract!extends_locked_pc_block, Tree!justified_by, Abstract!justified_by,
           Tree!block_justify, Abstract!block_justify, Tree!NoBlock, Abstract!NoBlock
  <1>4. \A b, t : Tree!safe_block(b, t) <=> Abstract!safe_block(b, t)
    BY <1>3
       DEF Tree!safe_block, Abstract!safe_block, Tree!block_justify, Abstract!block_justify,
           Tree!is_block_justify, Abstract!is_block_justify
  <1>5. QED
    BY <1>1, <1>2, <1>3, <1>4

\* So is the insert.
LEMMA SameInsert ==
  \A b, t : Tree!insert(b, t) = Abstract!insert(b, t)
  BY DEF Tree!insert, Abstract!insert, Tree!block_justify, Abstract!block_justify, Tree!data, Abstract!data

\* So are what is locked and what is committed.
LEMMA SameDecisions ==
  /\ \A pc, t : Tree!pc_to_lock(pc, t) = Abstract!pc_to_lock(pc, t)
  /\ \A pc, t : Tree!block_to_commit(pc, t) = Abstract!block_to_commit(pc, t)
  <1>1. \A pc, t : Tree!pc_to_lock(pc, t) = Abstract!pc_to_lock(pc, t)
    BY DEF Tree!pc_to_lock, Abstract!pc_to_lock, Tree!is_genesis_pc, Abstract!is_genesis_pc,
           Tree!genesis_pc, Abstract!genesis_pc, Tree!Genesis, Abstract!Genesis,
           Tree!block_justify, Abstract!block_justify
  <1>2. \A pc, t : Tree!block_to_commit(pc, t) = Abstract!block_to_commit(pc, t)
    BY DEF Tree!block_to_commit, Abstract!block_to_commit, Tree!is_genesis_pc, Abstract!is_genesis_pc,
           Tree!genesis_pc, Abstract!genesis_pc, Tree!Genesis, Abstract!Genesis,
           Tree!block_justify, Abstract!block_justify, Tree!height, Abstract!height,
           Tree!highest_committed_block_height, Abstract!highest_committed_block_height,
           Tree!None, Abstract!None, Tree!NoBlock, Abstract!NoBlock
  <1>3. QED
    BY <1>1, <1>2

\* So are the blocks that a commit commits and prunes.
LEMMA SameCommitted ==
  /\ \A b, t : Tree!uncommitted_blocks(b, t) = Abstract!uncommitted_blocks(b, t)
  /\ \A C, t : Tree!pruned_by(C, t) = Abstract!pruned_by(C, t)
  <1>1. Tree!ancestry = Abstract!ancestry
    BY Zenon DEF Tree!ancestry, Abstract!ancestry, Tree!Genesis, Abstract!Genesis, Tree!block_justify,
           Abstract!block_justify
  <1>2. \A b, t : Tree!uncommitted_blocks(b, t) = Abstract!uncommitted_blocks(b, t)
    BY <1>1
       DEF Tree!uncommitted_blocks, Abstract!uncommitted_blocks, Tree!height, Abstract!height,
           Tree!highest_committed_block_height, Abstract!highest_committed_block_height,
           Tree!None, Abstract!None, Tree!NoBlock, Abstract!NoBlock
  <1>3. \A b, t : Tree!children(b, t) = Abstract!children(b, t)
    BY DEF Tree!children, Abstract!children
  <1>4. \A r, t : Tree!blocks_in_branch(r, t) = Abstract!blocks_in_branch(r, t)
    BY Zenon DEF Tree!blocks_in_branch, Abstract!blocks_in_branch, Tree!children, Abstract!children,
       Tree!Cardinality, Abstract!Cardinality
  <1>5. \A C, t : Tree!pruned_by(C, t) = Abstract!pruned_by(C, t)
    BY <1>3, <1>4
       DEF Tree!pruned_by, Abstract!pruned_by, Tree!block_justify, Abstract!block_justify
  <1>6. QED
    BY <1>2, <1>5

\* So is the commit.
LEMMA SameCommit ==
  \A b, t : Tree!commit(b, t) = Abstract!commit(b, t)
  <1> TAKE b, t
  <1>1. PICK C : C = Tree!uncommitted_blocks(b, t)
    OBVIOUS
  <1>2. PICK P : P = Tree!pruned_by(C, t)
    OBVIOUS
  <1> DEFINE up(x)    == preimage[x].justify.block
             high(x)  == preimage[x].height
             updating == C \cap t.pending_updates
             marked   == IF updating = {} THEN {} ELSE {b}
             last     == CHOOSE x \in updating : \A a \in updating : high(a) <= high(x)
             tree     == [t EXCEPT
               !.blocks = @ \ P,
               !.children = {e \in @ : e[1] \notin P \cup {up(x) : x \in C}}
                            \cup {<<up(x), x>> : x \in C},
               !.pending_app_updates = @ \ (P \cup C),
               !.app_state = Append(@, C \cap t.pending_app_updates),
               !.pending_updates = (@ \ P) \ marked,
               !.committed_updates = (@ \ P) \cup marked,
               !.block_at_height = {p \in @ : \A x \in C : p[1] # high(x)}
                                   \cup {<<high(x), x>> : x \in C},
               !.highest_committed_block = b]
             result   ==
               IF updating = {} THEN tree
               ELSE [tree EXCEPT !.cvs = Tree!apply_updates(t.cvs, UpdatesOf[preimage[last].data]),
                                 !.pvs = t.cvs,
                                 !.update_height = high(last),
                                 !.update_decided = FALSE]
  <1>3. Tree!commit(b, t) = result
    BY <1>1, <1>2 DEF Tree!commit, Tree!block_justify, Tree!height, Tree!data
  <1>4. C = Abstract!uncommitted_blocks(b, t) /\ P = Abstract!pruned_by(C, t)
    BY <1>1, <1>2, SameCommitted
  <1>5. Abstract!commit(b, t) = result
    <2>1. Abstract!commit(b, t) = (IF updating = {} THEN tree
               ELSE [tree EXCEPT !.cvs = Abstract!apply_updates(t.cvs, UpdatesOf[preimage[last].data]),
                                 !.pvs = t.cvs,
                                 !.update_height = high(last),
                                 !.update_decided = FALSE])
      BY <1>4 DEF Abstract!commit, Abstract!block_justify, Abstract!height, Abstract!data
    <2>2. Abstract!apply_updates(t.cvs, UpdatesOf[preimage[last].data]) = Tree!apply_updates(t.cvs, UpdatesOf[preimage[last].data])
      BY SameSets
    <2> HIDE DEF tree, updating, last
    <2>3. QED
      BY <2>1, <2>2
  <1>6. QED
    BY <1>3, <1>5

\* So is the update.
LEMMA SameUpdate ==
  \A pc, t : Tree!update(pc, t) = Abstract!update(pc, t)
  <1> TAKE pc, t
  <1>1. PICK L : L = Tree!pc_to_lock(pc, t)
    OBVIOUS
  <1>2. PICK C : C = Tree!block_to_commit(pc, t)
    OBVIOUS
  <1>3. PICK c : c = IF C = {} THEN t ELSE Tree!commit(CHOOSE b \in C : TRUE, t)
    OBVIOUS
  <1> DEFINE result == [c EXCEPT
               !.highest_pc = IF pc.view > @.view THEN pc ELSE @,
               !.locked_pc  = IF L = {} THEN @ ELSE CHOOSE q \in L : TRUE,
               !.update_decided = @ \/ pc.phase = "Decide"]
  <1>4. Tree!update(pc, t) = result
    BY <1>1, <1>2, <1>3 DEF Tree!update
  <1>5. /\ L = Abstract!pc_to_lock(pc, t) /\ C = Abstract!block_to_commit(pc, t)
        /\ c = IF C = {} THEN t ELSE Abstract!commit(CHOOSE b \in C : TRUE, t)
    BY <1>1, <1>2, <1>3, SameDecisions, SameCommit
  <1>6. Abstract!update(pc, t) = result
    BY <1>5 DEF Abstract!update
  <1>7. QED
    BY <1>4, <1>6

-----------------------------------------------------------------------------
(* The store implements the block tree.                                    *)

\* At first, the tree in the store is that of the specification.
LEMMA TreeStarts ==
  Init => Abstract!Init
  BY StoreStarts, SamePredicates DEF Abstract!Init

\* A step of the replica is a step of the specification, or none.
LEMMA TreeSteps ==
  ReplicaInv /\ StoreInv /\ [Next]_vars => [Abstract!Next]_<<preimage, Decoded>>
  <1> SUFFICES ASSUME ReplicaInv, StoreInv, [Next]_vars
               PROVE  [Abstract!Next]_<<preimage, Decoded>>
    OBVIOUS
  <1>1. TreeStep /\ preimage' = preimage /\ preimage = Contents
    BY StoreInvStep DEF StoreInv
  <1>2. CASE Decoded' = Decoded
    BY <1>1, <1>2
  <1>3. ASSUME NEW b \in Blocks,
               Tree!is_correct(Contents[b].justify, Decoded),
               Tree!safe_block(b, Decoded),
               Contents[b].data \in ValidData,
               Decoded' = Tree!insert(b, Decoded)
        PROVE  Abstract!Next
    <2>1. b \in DOMAIN preimage /\ preimage[b] = Contents[b]
      BY <1>1 DEF Blocks
    <2>2. Abstract!Insert(b)
      BY <1>3, <2>1, SamePredicates, SameInsert DEF Abstract!Insert, Abstract!block_justify, Abstract!data
    <2>3. QED
      BY <1>1, <2>1, <2>2 DEF Abstract!Next
  <1>4. ASSUME NEW pc \in Certificates,
               Tree!safe_pc(pc, Decoded), Decoded' = Tree!update(pc, Decoded)
        PROVE  Abstract!Next
    <2>1. Abstract!Update(pc)
      BY <1>4, SamePredicates, SameUpdate DEF Abstract!Update
    <2>2. QED
      BY <1>1, <2>1 DEF Abstract!Next
  <1>5. ASSUME NEW v \in Views,
               \/ /\ v > Decoded.highest_view_entered
                  /\ Decoded' = [Decoded EXCEPT !.highest_view_entered = v]
               \/ /\ v > Decoded.highest_view_voted
                  /\ Decoded' = [Decoded EXCEPT !.highest_view_voted = v]
        PROVE  Abstract!Next
    <2>1. Abstract!Enter(v) \/ Abstract!Vote(v)
      BY <1>5 DEF Abstract!Enter, Abstract!Vote
    <2>2. QED
      BY <1>1, <2>1 DEF Abstract!Next
  <1>6. QED
    BY <1>1, <1>2, <1>3, <1>4, <1>5 DEF TreeStep

-----------------------------------------------------------------------------
(* The theorems.                                                           *)

\* However often it crashes, at whatever point of a handler, the views of a
\* replica's votes never decrease.
THEOREM RestartsNeverVoteBack ==
  Spec => []VotesNeverGoBack
  <1>1. ReplicaInv => VotesNeverGoBack
    BY DEF ReplicaInv
  <1>2. QED
    BY <1>1, ReplicaStarts, ReplicaInvStep, PTL DEF Spec

\* In a view that it entered a replica votes at most once in all its lives,
\* though a crash may fall between sending a vote and recording it.
THEOREM EnteredViewsAreVotedOnce ==
  Spec => []EnteredViewsVotedOnce
  <1>1. ReplicaInv => EnteredViewsVotedOnce
    BY DEF ReplicaInv
  <1>2. QED
    BY <1>1, ReplicaStarts, ReplicaInvStep, PTL DEF Spec

\* Whenever the replica crashes, its store holds whole blocks: each with all
\* its fields and datums, and children and updates of no other.
THEOREM StoresHoldWholeBlocks ==
  Spec => []BlocksAreWhole
  <1>1. Init => StoreInv
    BY StoreStarts
  <1>2. ReplicaInv /\ StoreInv /\ [Next]_vars => StoreInv'
    BY StoreInvStep
  <1>3. QED
    BY <1>1, <1>2, StoreIsWhole, ReplicaStarts, ReplicaInvStep, PTL DEF Spec

\* Every write batch, with whatever crashes between them, takes the tree that
\* the getters read from one state of the abstract block tree to the next: the
\* store implements the tree that the subprotocols rely on.
THEOREM StoreImplementsBlockTree ==
  Spec => ImplementsBlockTree
  <1>1. Init => StoreInv /\ Abstract!Init
    BY StoreStarts, TreeStarts
  <1>2. ReplicaInv /\ StoreInv /\ [Next]_vars => StoreInv' /\ [Abstract!Next]_<<preimage, Decoded>>
    BY StoreInvStep, TreeSteps
  <1>3. QED
    BY <1>1, <1>2, ReplicaStarts, ReplicaInvStep, PTL DEF Spec, ImplementsBlockTree, Abstract!Spec
=============================================================================
