-------------------------- MODULE PersistentReplica --------------------------
(***************************************************************************)
(* One replica with its persistent storage, which may crash between any    *)
(* two writes and restart: the handlers of src/hotstuff/implementation.rs  *)
(* as the sequences of block tree updates and sends that they are, the     *)
(* store that each update is one atomic write to, and the view in which    *)
(* src/algorithm.rs starts the replica again.                              *)
(*                                                                         *)
(* The rest of the network is abstract: proposals of the blocks of         *)
(* Contents and the certificates of Certificates may arrive at any time    *)
(* from the view on in which they can exist.  Proposal status, which a     *)
(* crash loses, is left out: the leaders of a view may be heard any number *)
(* of times, as after a restart.                                           *)
(***************************************************************************)
EXTENDS BlockTreeStore

CONSTANTS
  Replica,              \* the key of the replica
  Contents,             \* the blocks that may be proposed
  Certificates,         \* the certificates that may arrive
  Views,                \* bound: the views that the replica may be in
  MaxVotes,             \* bound: the votes sent
  TimeoutViews,         \* bound: the views that timeout certificates may be of
  MaxSiblings           \* bound: the length of the children lists

VARIABLES
  kv,                   \* the key-value store
  view,                 \* the view of HotStuff
  entered,              \* the view was entered, not started in
  todo,                 \* the calls that the running handler has left to make
  votes,                \* the views of the phase votes sent, in order, and whether entered
  applied               \* the blocks whose app updates each commit applied

vars == <<preimage, kv, view, entered, todo, votes, applied>>

\* The certificates that the blocks and messages may bring.
Justifies == Certificates \cup {Contents[b].justify : b \in DOMAIN Contents}

BlockContents == [height : Nat, data : AppData, justify : Certificates]

\* Blocks are made on blocks that were made before, and are one higher.
ASSUME ContentsAssumption ==
  /\ Contents \in Seq(BlockContents)
  /\ \A b \in DOMAIN Contents :
       LET pc == Contents[b].justify IN
       IF Tree!is_genesis_pc(pc) THEN Contents[b].height = 0
       ELSE pc.block \in 1 .. b - 1 /\ Contents[b].height = Contents[pc.block].height + 1

ASSUME ReplicaAssumption ==
  /\ Views \subseteq Nat /\ 0 \in Views
  /\ TimeoutViews \subseteq Nat
  /\ \A pc \in Justifies : pc.view \in Nat

-----------------------------------------------------------------------------
(* The block tree in the store.                                            *)

Optional(option, default) == IF option = {} THEN default ELSE the(option)

\* The keys of a variable with prefix p, without the prefix.
Index(p) == {k[2] : k \in {key \in DOMAIN kv : Len(key) >= 2 /\ key[1] = p}}

Decoded ==
  [ blocks                  |-> {b \in Index("BLOCKS") : block_height(kv, b) # {}},
    children                |-> UNION {{b} \X ToSet(the(children(kv, b))) : b \in Index("BLOCK_TO_CHILDREN")},
    pending_app_updates     |-> Index("PENDING_APP_STATE_UPDATES"),
    app_state               |-> applied,
    pending_updates         |-> {b \in Index("VALIDATOR_SET_UPDATES_STATUS") :
                                   pending_validator_set_updates(kv, b) # {}},
    committed_updates       |-> {b \in Index("VALIDATOR_SET_UPDATES_STATUS") :
                                   pending_validator_set_updates(kv, b) = {}},
    block_at_height         |-> {<<h, the(block_at_height(kv, h))>> : h \in Index("BLOCK_AT_HEIGHT")},
    highest_committed_block |-> Optional(highest_committed_block(kv), Tree!NoBlock),
    locked_pc               |-> locked_pc(kv),
    highest_pc              |-> highest_pc(kv),
    highest_view_entered    |-> highest_view_entered(kv),
    highest_view_voted      |-> Optional(highest_view_phase_voted(kv), Tree!None),
    cvs                     |-> committed_validator_set(kv),
    pvs                     |-> previous_validator_set(kv),
    update_height           |-> Optional(update_block_height(kv), Tree!None),
    update_decided          |-> update_decided(kv) ]

-----------------------------------------------------------------------------
(* Handlers: what they check first, and the calls they then make.          *)

Insert(b)        == [call |-> "insert", block |-> b]
Update(pc)       == [call |-> "update", justify |-> pc]
Vote(pc)         == [call |-> "vote", justify |-> pc]
Record           == [call |-> "record"]

Handles(calls) ==
  /\ todo = <<>>
  /\ todo' = calls
  /\ UNCHANGED <<preimage, kv, view, entered, votes, applied>>

OnReceiveProposal(b, tree) ==
  LET justify == preimage[b].justify
      d       == preimage[b].data
  IN  /\ todo = <<>>
      /\ justify.view < view
      /\ Tree!is_correct(justify, tree)
      /\ Tree!safe_block(b, tree)
      /\ d \in ValidData
      /\ \A list \in children(kv, justify.block) : Len(list) < MaxSiblings
      /\ Handles(<<Insert(b), Update(justify), Vote(justify)>>)

OnReceiveNudge(pc, tree) ==
  /\ Tree!is_correct(pc, tree)
  /\ Tree!safe_nudge(pc, view, tree)
  /\ Handles(<<Update(pc), Vote(pc)>>)

\* A certificate that a NewView brings or a PhaseVote completes.
OnCertificate(pc, tree) ==
  /\ todo = <<>>
  /\ pc.view <= view
  /\ Tree!is_correct(pc, tree)
  /\ Tree!safe_pc(pc, tree)
  /\ Handles(<<Update(pc)>>)

-----------------------------------------------------------------------------
(* The calls of a handler.                                                 *)

Calls(name) ==
  /\ todo # <<>>
  /\ Head(todo).call = name
  /\ UNCHANGED <<preimage, view, entered>>

CallInsert ==
  /\ Calls("insert")
  /\ kv' = write(kv, insert(kv, Head(todo).block))
  /\ todo' = Tail(todo)
  /\ UNCHANGED <<votes, applied>>

CallUpdate ==
  LET justify == Head(todo).justify
      tree == Decoded
      committing == Tree!block_to_commit(justify, tree)
      newly == UNION {ToSet(uncommitted_ancestors(kv, b)) : b \in committing}
  IN  /\ Calls("update")
      /\ kv' = write(kv, update(kv, tree, justify))
      /\ applied' = IF committing = {} THEN applied
                    ELSE Append(applied, {b \in newly : pending_app_state_updates(kv, b) # {}})
      /\ todo' = Tail(todo)
      /\ UNCHANGED votes

MayVote(pc) ==
  /\ is_phase_voter(Replica, Decoded, pc)
  /\ \A v \in highest_view_phase_voted(kv) : v < view

\* The vote is sent first and recorded after that.
CallVote ==
  /\ Calls("vote")
  /\ MayVote(Head(todo).justify)
  /\ Len(votes) < MaxVotes
  /\ votes' = Append(votes, [view |-> view, entered |-> entered])
  /\ todo' = <<Record>>
  /\ UNCHANGED <<kv, applied>>

CallVoteNot ==
  /\ Calls("vote")
  /\ ~MayVote(Head(todo).justify)
  /\ todo' = Tail(todo)
  /\ UNCHANGED <<kv, votes, applied>>

CallRecord ==
  /\ Calls("record")
  /\ kv' = write(kv, set_highest_view_phase_voted(view))
  /\ todo' = Tail(todo)
  /\ UNCHANGED <<votes, applied>>

-----------------------------------------------------------------------------
(* Views, crashes and restarts.                                            *)

EnterView(v) ==
  /\ todo = <<>>
  /\ v > view
  /\ view' = v
  /\ entered' = TRUE
  /\ kv' = write(kv, set_highest_view_entered(v))
  /\ UNCHANGED <<preimage, todo, votes, applied>>

\* The pacemaker collects or receives a timeout certificate of view v.
OnTimeoutCertificate(v) ==
  /\ todo = <<>>
  /\ v >= view
  /\ \A w \in highest_tc(kv) : w < v
  /\ kv' = write(kv, set_highest_tc(v))
  /\ UNCHANGED <<preimage, view, entered, todo, votes, applied>>

\* Seeded fault: a replica starts in the highest view it knows of.
init_view_same(store) == highest_view_with_progress(store)

init_view(store) ==
  LET v == highest_view_with_progress(store) IN IF v = 0 THEN 0 ELSE v + 1

\* All that is left of the replica is its store; it starts again.  (The view
\* it starts in is not entered: it is not recorded in the store.)
CrashAndRestart ==
  /\ init_view(kv) \in Views
  /\ view' = init_view(kv)
  /\ entered' = FALSE
  /\ todo' = <<>>
  /\ UNCHANGED <<preimage, kv, votes, applied>>

Init ==
  /\ preimage = Contents
  /\ kv = write(<<>>, initialize)
  /\ view = 0
  /\ entered = FALSE
  /\ todo = <<>>
  /\ votes = <<>>
  /\ applied = <<>>

Calling == CallInsert \/ CallUpdate \/ CallVote \/ CallVoteNot \/ CallRecord

Living ==
  \/ \E v \in Views : EnterView(v)
  \/ \E v \in TimeoutViews : OnTimeoutCertificate(v)
  \/ CrashAndRestart

Next ==
  \/ LET tree == Decoded IN
       \/ \E b \in DOMAIN preimage : OnReceiveProposal(b, tree)
       \/ \E pc \in Certificates : OnReceiveNudge(pc, tree) \/ OnCertificate(pc, tree)
  \/ Calling
  \/ Living

Spec == Init /\ [][Next]_vars

\* A certificate that moves the lock back.
RollsBack(pc) == \E q \in Tree!pc_to_lock(pc, Decoded) : q.view < locked_pc(kv).view

\* The behaviours in which no such certificate is handled (see HotStuff: the
\* code does not prevent it).
NextWithoutRollback ==
  \/ LET tree == Decoded IN
       \/ \E b \in DOMAIN preimage : OnReceiveProposal(b, tree) /\ ~RollsBack(preimage[b].justify)
       \/ \E pc \in Certificates :
            (OnReceiveNudge(pc, tree) \/ OnCertificate(pc, tree)) /\ ~RollsBack(pc)
  \/ Calling
  \/ Living

SpecWithoutRollback == Init /\ [][NextWithoutRollback]_vars

-----------------------------------------------------------------------------
(* Properties.                                                             *)

Abstract == INSTANCE BlockTreeSpec WITH bt <- Decoded

\* The store implements the block tree: every write batch, as it is filled by
\* insert, update and commit from what the store held before, takes the tree
\* that the getters read to the one that the abstract updater gives, and a
\* crash at any moment leaves a tree that no updater was halfway through.
ImplementsBlockTree == Abstract!Spec

\* The effect on an app state of the updates of a block.
Effect(state, b) ==
  LET u == AppUpdatesOf[preimage[b].data]
  IN  [k \in (DOMAIN state \cup DOMAIN u.inserts) \ u.deletes |->
         IF k \in DOMAIN u.inserts THEN u.inserts[k] ELSE state[k]]

\* The app state after a block and all its ancestors, from genesis.
Replay(b) ==
  FoldLeft(Effect, InitialAppState.inserts,
           IF b = Tree!Genesis THEN <<>> ELSE Reverse(ancestors(kv, b)))

AppKeys == DOMAIN InitialAppState.inserts
           \cup UNION {DOMAIN AppUpdatesOf[d].inserts : d \in AppData}

\* "AppBlockTreeView presents the App State as it is [...] just before the
\* proposed block is executed": whatever has been committed or is pending, and
\* whenever the replica crashed, the app that validates a block sees the
\* effect of exactly the block's ancestors (app_view and app_state over
\* commit, apply_app_state_updates and delete_branch).
AppSeesParentState ==
  LET tree == Decoded IN
  \A b \in {c \in DOMAIN preimage : Tree!safe_block(c, tree)} :
    LET parent == preimage[b].justify.block
        view_of_app == app_view(kv, parent)
        replayed == Replay(parent)
    IN  \A k \in AppKeys : app_state(kv, view_of_app, k) = get(replayed, k)

\* "If block height is Some, then all of the following fields are Some too":
\* a block is in the store with all its fields and datums, or nothing of it
\* is, nor of its children and its pending updates (set_block, delete_block
\* and delete_branch).
BlocksAreWhole ==
  /\ \A b \in Index("BLOCKS") :
       /\ block_height(kv, b) = {preimage[b].height}
       /\ block_justify(kv, b) = {preimage[b].justify}
       /\ block_data_hash(kv, b) = {preimage[b].data}
       /\ block_data_len(kv, b) = {Len(DatumsOf[preimage[b].data])}
       /\ block_data(kv, b) # {}
  /\ \A p \in {"BLOCK_TO_CHILDREN", "PENDING_APP_STATE_UPDATES", "VALIDATOR_SET_UPDATES_STATUS"} :
       Index(p) \subseteq Index("BLOCKS") \cup {Tree!Genesis}

\* The views of the votes that a replica sends never decrease, however often
\* it crashes (highest_view_with_progress covers every view entered).
VotesNeverGoBack ==
  \A i, j \in DOMAIN votes : i < j => votes[i].view <= votes[j].view

\* In a view that it entered, a replica votes at most once in all its lives:
\* a crash between sending the vote and recording it is made up for by
\* starting again one view higher (init_view against enter_view).
EnteredViewsVotedOnce ==
  \A i, j \in DOMAIN votes : votes[i].view = votes[j].view /\ votes[i].entered => i = j

\* While the newest block is above the highest committed one, a snapshot taken
\* at any time gives the sync server, for any request that a client may send,
\* one chain that starts at the height asked for.
ServedBlocksAreAChain ==
  LET committed == Optional(highest_committed_block_height(kv), Tree!None) IN
  (\E b \in newest_block(kv) : \E h \in block_height(kv, b) : h > committed) =>
    \A start \in 0 .. committed + 1, limit \in 1 .. 3 :
      LET served == blocks_from_height_to_newest(kv, start, limit) IN
      \A i \in DOMAIN served :
        /\ served[i] # Missing
        /\ preimage[served[i]].height = start + i - 1
        /\ i > 1 => preimage[served[i]].justify.block = served[i - 1]

-----------------------------------------------------------------------------
(* What the documentation says of the code, and the code does not do.      *)

\* The blocks variable is a "mapping between a block's hash and the block
\* itself": a block is read back with its data.
BlocksAreReadBack ==
  \A b \in Index("BLOCKS") :
    {blk.data : blk \in block(kv, b)} = {DatumsOf[preimage[b].data]}

\* A replica votes "if I haven't voted in this view yet".
ViewsVotedOnce == \A i, j \in DOMAIN votes : votes[i].view = votes[j].view => i = j
=============================================================================
