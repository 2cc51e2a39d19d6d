------------------------------ MODULE HotStuff ------------------------------
(***************************************************************************)
(* The HotStuff subprotocol of a network of replicas: one action per       *)
(* handler of src/hotstuff/implementation.rs, each with the block tree     *)
(* updates, vote collection and messages of the whole handler.             *)
(*                                                                         *)
(* The network is the set of messages sent so far: a message may be        *)
(* delivered at any time, to any of its recipients, more than once or      *)
(* never.  A message is handled in its own view only: one that arrives too *)
(* early is buffered, one too late is dropped (networking/receiving.rs).   *)
(*                                                                         *)
(* The pacemaker is abstracted to what the safety of HotStuff may rely on: *)
(* the views a replica enters increase.  Replicas follow the code, as      *)
(* slowly as they like; those in Faulty may also propose several blocks    *)
(* and vote for several blocks in one view.                                *)
(***************************************************************************)
EXTENDS BlockTree

CONSTANTS
  Replicas,             \* the keys of the replicas, positive naturals
  Powers,               \* the powers that validators may have
  Faulty,               \* the replicas that may equivocate
  Produces,             \* Produces[r]: what the app of r may put in a block
  EntryViews            \* bound: the views each replica may enter

VARIABLES
  bt,                   \* bt[r]: the block tree of r
  view,                 \* view[r]: HotStuff's view_info.view
  proposed,             \* proposed[r]: the leaders that ProposalStatus records
  collectors,           \* collectors[r]: phase_vote_collectors
  msgs                  \* every message sent

vars == <<preimage, bt, view, proposed, collectors, msgs>>

\* Every validator set that can arise.
ValidatorSet == UNION {[S -> Powers] : S \in SUBSET Replicas}

ASSUME ReplicasAssumption ==
  /\ Replicas \subseteq Nat \ {0}
  /\ IsFiniteSet(Replicas)
  /\ Powers \subseteq Nat
  /\ InitialValidatorSet \in ValidatorSet
  /\ UpdatesOf \in [UpdatingData -> [inserts : ValidatorSet, deletes : SUBSET Replicas]]
  /\ Faulty \subseteq Replicas
  /\ Produces \in [Replicas -> SUBSET AppData]
  /\ EntryViews \in [Replicas -> SUBSET Nat]

\* Less than a third of the power of the initial validator set is faulty.
ASSUME FaultAssumption ==
  3 * power_of(InitialValidatorSet, Faulty) < total_power(InitialValidatorSet)

-----------------------------------------------------------------------------
(* Vote collection: PhaseVoteCollector.  A collector holds the triples     *)
(* <<block, phase, signer>> it has collected for the current view.         *)

\* Seeded fault: signatures are grouped by phase alone.
signers_of_phase(col, vote) ==
  {s \in DOMAIN col.vs : \E t \in col.votes : t[2] = vote.phase /\ t[3] = s}

signers_of(col, vote) ==
  {s \in DOMAIN col.vs : <<vote.block, vote.phase, s>> \in col.votes}

\* The collector after a vote, and the certificate that the vote completed.
collect_one(col, vote) ==
  LET triple  == <<vote.block, vote.phase, vote.from>>
      signers == signers_of(col, vote) \cup {vote.from}
  IN  IF vote.from \notin DOMAIN col.vs \/ triple \in col.votes
      THEN [col |-> col, certs |-> {}]
      ELSE IF power_of(col.vs, signers) >= quorum(col.vs)
      THEN [col |-> [col EXCEPT !.votes = {t \in @ : <<t[1], t[2]>> # <<vote.block, vote.phase>>}],
            certs |-> {[view |-> vote.view, block |-> vote.block, phase |-> vote.phase,
                      signatures |-> signature_set(col.vs, signers)]}]
      ELSE [col |-> [col EXCEPT !.votes = @ \cup {triple}], certs |-> {}]

collect(pair, vote) == collect_in(collect_one, pair, vote)

-----------------------------------------------------------------------------
(* Messages.                                                               *)

Proposal(r, v, b) == [type |-> "Proposal", from |-> r, view |-> v, block |-> b]
Nudge(r, v, pc)   == [type |-> "Nudge", from |-> r, view |-> v, justify |-> pc]
PhaseVote(r, to, v, b, phase) ==
  [type |-> "PhaseVote", from |-> r, to |-> to, view |-> v, block |-> b, phase |-> phase]
NewView(r, to, v, pc) ==
  [type |-> "NewView", from |-> r, to |-> to, view |-> v, highest_pc |-> pc]

\* A message that r may be handling now.
Receives(r, m, type) ==
  /\ m.type = type
  /\ m.view = view[r]
  /\ type \in {"PhaseVote", "NewView"} => m.to = r

-----------------------------------------------------------------------------
(* enter_view                                                              *)

\* Steps 1-3: leave the current view for v, and send the messages of step 4.
StartView(r, v, proposals) ==
  /\ view' = [view EXCEPT ![r] = v]
  /\ proposed' = [proposed EXCEPT ![r] = {}]
  /\ collectors' = [collectors EXCEPT ![r] = new_pair(bt[r])]
  /\ bt' = [bt EXCEPT ![r].highest_view_entered = v]
  /\ msgs' = msgs \cup proposals \cup
       {NewView(r, to, view[r], bt[r].highest_pc) : to \in new_view_recipients(view[r], bt[r])}

EnterViewFollower(r, v) ==
  /\ ~is_proposer(r, v, bt[r])
  /\ StartView(r, v, {})
  /\ UNCHANGED preimage

\* A leader that does not find the block of its highest PC fails in enter_view
\* and its thread panics: such a replica takes no step.
HasHighestBlock(r) == bt[r].highest_pc.block \in bt[r].blocks \cup {Genesis}

EnterViewRepropose(r, v) ==
  /\ is_proposer(r, v, bt[r])
  /\ repropose_block(v, bt[r]) # {}
  /\ HasHighestBlock(r)
  /\ StartView(r, v, {Proposal(r, v, b) : b \in repropose_block(v, bt[r])})
  /\ UNCHANGED preimage

IsHashed(content) == \E h \in DOMAIN preimage : preimage[h] = content

\* The hash of a block content: its place in preimage, or the next one.
hash(content) ==
  IF IsHashed(content)
  THEN CHOOSE h \in DOMAIN preimage : preimage[h] = content
  ELSE Len(preimage) + 1

\* Seeded fault: the heights of blocks start one too low.
new_block_below_zero(pc, d) ==
  [height |-> IF is_genesis_pc(pc) THEN -1 ELSE height(pc.block) + 1, justify |-> pc, data |-> d]

\* The content of a new block on top of the block that pc certifies.
new_block(pc, d) ==
  [height |-> IF is_genesis_pc(pc) THEN 0 ELSE height(pc.block) + 1, justify |-> pc, data |-> d]

Hashed(content) ==
  preimage' = IF IsHashed(content) THEN preimage ELSE Append(preimage, content)

EnterViewPropose(r, v) ==
  /\ is_proposer(r, v, bt[r])
  /\ is_block_justify(bt[r].highest_pc)
  /\ HasHighestBlock(r)
  /\ \E d \in Produces[r] :
       LET block == new_block(bt[r].highest_pc, d)
       IN  StartView(r, v, {Proposal(r, v, hash(block))}) /\ Hashed(block)

EnterViewNudge(r, v) ==
  /\ is_proposer(r, v, bt[r])
  /\ repropose_block(v, bt[r]) = {}
  /\ is_nudge_justify(bt[r].highest_pc)
  /\ StartView(r, v, {Nudge(r, v, bt[r].highest_pc)})
  /\ UNCHANGED preimage

-----------------------------------------------------------------------------
(* on_receive_msg                                                          *)

\* The checks of on_receive_msg on proposals and nudges.
Accepting(r, origin) ==
  /\ is_proposer(origin, view[r], bt[r])
  /\ origin \notin proposed[r]
  /\ Cardinality(proposed[r]) < 2

\* Seeded fault: a replica votes whenever it accepts a proposal or nudge.
CastVoteAlways(r, tree, justify, b, phase) ==
  IF is_phase_voter(r, tree, justify)
  THEN [tree |-> [tree EXCEPT !.highest_view_voted = view[r]],
        votes |-> {PhaseVote(r, phase_vote_recipient(view[r], phase, tree), view[r], b, phase)}]
  ELSE [tree |-> tree, votes |-> {}]

\* The vote of r for a block after its tree has become tree, if it may vote.
CastVote(r, tree, justify, b, phase) ==
  IF is_phase_voter(r, tree, justify) /\ tree.highest_view_voted < view[r]
  THEN [tree |-> [tree EXCEPT !.highest_view_voted = view[r]],
        votes |-> {PhaseVote(r, phase_vote_recipient(view[r], phase, tree), view[r], b, phase)}]
  ELSE [tree |-> tree, votes |-> {}]

\* Seeded fault: the Precommit phase is skipped.
NextPhaseSkipping(phase) == IF phase = "Prepare" THEN "Commit" ELSE "Decide"

NextPhase(phase) ==
  CASE phase = "Prepare"   -> "Precommit"
    [] phase = "Precommit" -> "Commit"
    [] phase = "Commit"    -> "Decide"

\* The tail of both handlers: install the tree, refresh the collectors, vote,
\* and take no more proposals or nudges from this leader in this view.
UpdateAndVote(r, origin, tree, justify, b, phase) ==
  LET cast == CastVote(r, tree, justify, b, phase) IN
  /\ bt' = [bt EXCEPT ![r] = cast.tree]
  /\ collectors' = [collectors EXCEPT ![r] = update_validator_sets(@, tree)]
  /\ msgs' = msgs \cup cast.votes
  /\ proposed' = [proposed EXCEPT ![r] = @ \cup {origin}]
  /\ UNCHANGED <<preimage, view>>

Ignore(r, origin) ==
  /\ proposed' = [proposed EXCEPT ![r] = @ \cup {origin}]
  /\ UNCHANGED <<preimage, bt, view, collectors, msgs>>

ProposalAcceptable(r, b) ==
  /\ is_correct(block_justify(b), bt[r])
  /\ safe_block(b, bt[r])
  /\ data(b) \in ValidData

OnReceiveProposal(r, m) ==
  LET b == m.block IN
  /\ Receives(r, m, "Proposal")
  /\ Accepting(r, m.from)
  /\ ProposalAcceptable(r, b)
  /\ UpdateAndVote(r, m.from, update(block_justify(b), insert(b, bt[r])), block_justify(b),
                   b, IF data(b) \in UpdatingData THEN "Prepare" ELSE "Generic")

RejectProposal(r, m) ==
  /\ Receives(r, m, "Proposal")
  /\ Accepting(r, m.from)
  /\ ~ProposalAcceptable(r, m.block)
  /\ Ignore(r, m.from)

NudgeAcceptable(r, justify) ==
  /\ is_correct(justify, bt[r])
  /\ safe_nudge(justify, view[r], bt[r])

OnReceiveNudge(r, m) ==
  /\ Receives(r, m, "Nudge")
  /\ Accepting(r, m.from)
  /\ NudgeAcceptable(r, m.justify)
  /\ UpdateAndVote(r, m.from, update(m.justify, bt[r]), m.justify,
                   m.justify.block, NextPhase(m.justify.phase))

RejectNudge(r, m) ==
  /\ Receives(r, m, "Nudge")
  /\ Accepting(r, m.from)
  /\ ~NudgeAcceptable(r, m.justify)
  /\ Ignore(r, m.from)

\* The effect of a certificate collected or received: nothing, if it is not
\* correct or not safe.
ProcessPC(r, pair, certs) ==
  LET good == {pc \in certs : is_correct(pc, bt[r]) /\ safe_pc(pc, bt[r])}
      tree == IF good = {} THEN bt[r] ELSE update(CHOOSE pc \in good : TRUE, bt[r])
  IN  /\ bt' = [bt EXCEPT ![r] = tree]
      /\ collectors' = [collectors EXCEPT ![r] =
                          IF good = {} THEN pair ELSE update_validator_sets(pair, tree)]
      /\ UNCHANGED <<preimage, view, proposed, msgs>>

OnReceivePhaseVote(r, m) ==
  /\ Receives(r, m, "PhaseVote")
  /\ LET c == collect(collectors[r], m) IN ProcessPC(r, c.pair, c.certs)

OnReceiveNewView(r, m) ==
  /\ Receives(r, m, "NewView")
  /\ ProcessPC(r, collectors[r], {m.highest_pc})

-----------------------------------------------------------------------------
(* What faulty replicas add, in their current view: further proposals when  *)
(* they are a proposer, and votes for every block proposed.                *)

Equivocate(r) ==
  /\ r \in Faulty
  /\ is_proposer(r, view[r], bt[r])
  /\ \E pc \in {genesis_pc, bt[r].highest_pc}, d \in Produces[r] :
       LET block == new_block(pc, d) IN
       /\ is_block_justify(pc)
       /\ msgs' = msgs \cup {Proposal(r, view[r], hash(block))}
       /\ Hashed(block)
  /\ UNCHANGED <<bt, view, proposed, collectors>>

DoubleVote(r) ==
  /\ r \in Faulty
  /\ \E m \in {n \in msgs : n.type = "Proposal" /\ n.view = view[r]} :
       LET phase == IF data(m.block) \in UpdatingData THEN "Prepare" ELSE "Generic" IN
       msgs' = msgs \cup {PhaseVote(r, phase_vote_recipient(view[r], phase, bt[r]), view[r], m.block, phase)}
  /\ UNCHANGED <<preimage, bt, view, proposed, collectors>>

-----------------------------------------------------------------------------

Init ==
  /\ preimage = <<>>
  /\ bt = [r \in Replicas |-> initialize]
  /\ view = [r \in Replicas |-> 0]
  /\ proposed = [r \in Replicas |-> {}]
  /\ collectors = [r \in Replicas |-> new_pair(initialize)]
  /\ msgs = {}

EnterView(r) ==
  \E v \in {w \in EntryViews[r] : w > view[r]} :
    \/ EnterViewFollower(r, v)
    \/ EnterViewRepropose(r, v)
    \/ EnterViewPropose(r, v)
    \/ EnterViewNudge(r, v)

OnReceiveMsg(r, m) ==
  \/ OnReceiveProposal(r, m)
  \/ RejectProposal(r, m)
  \/ OnReceiveNudge(r, m)
  \/ RejectNudge(r, m)
  \/ OnReceivePhaseVote(r, m)
  \/ OnReceiveNewView(r, m)

\* Steps that the code of r does not take.
Misbehave(r) == Equivocate(r) \/ DoubleVote(r)

Next ==
  \E r \in Replicas :
    \/ EnterView(r)
    \/ \E m \in msgs : OnReceiveMsg(r, m)
    \/ Misbehave(r)

Spec == Init /\ [][Next]_vars

\* The certificate that a message hands to its receiver.
JustifyOf(m) ==
  CASE m.type = "Proposal" -> block_justify(m.block)
    [] m.type = "Nudge"    -> m.justify
    [] m.type = "NewView"  -> m.highest_pc

\* m hands r a certificate no newer than its lock, which moves the lock back,
\* to a certificate of an earlier view or to the genesis PC.
RollsBack(r, m) ==
  /\ m.type # "PhaseVote"
  /\ JustifyOf(m).view <= bt[r].locked_pc.view
  /\ \E q \in pc_to_lock(JustifyOf(m), bt[r]) :
       q.view < bt[r].locked_pc.view \/ is_genesis_pc(q)

\* The behaviours in which no replica handles such a message.  The code does
\* not prevent it: pc_to_lock compares certificates, not their views.
NextWithoutRollback ==
  \E r \in Replicas :
    \/ EnterView(r)
    \/ \E m \in msgs : ~RollsBack(r, m) /\ OnReceiveMsg(r, m)
    \/ Misbehave(r)

SpecWithoutRollback == Init /\ [][NextWithoutRollback]_vars

-----------------------------------------------------------------------------
(* Types.                                                                  *)

Hashes == DOMAIN preimage

PhaseCertificates ==
  {genesis_pc} \cup
  [view : Nat, block : Hashes, phase : Phases, signatures : Seq(Replicas \cup {NoSignature})]

BlockContents == [height : Nat, justify : PhaseCertificates, data : AppData]

UpdatingBlocks == {b \in Hashes : data(b) \in UpdatingData}

BlockTrees ==
  [ blocks : SUBSET Hashes,
    children : SUBSET ((Hashes \cup {Genesis}) \X Hashes),
    pending_app_updates : SUBSET Hashes,
    app_state : Seq(SUBSET Hashes),
    pending_updates : SUBSET UpdatingBlocks,
    committed_updates : SUBSET Hashes,
    block_at_height : SUBSET (Nat \X Hashes),
    highest_committed_block : Hashes \cup {NoBlock},
    locked_pc : PhaseCertificates,
    highest_pc : PhaseCertificates,
    highest_view_entered : Nat,
    highest_view_voted : Nat \cup {None},
    cvs : ValidatorSet,
    pvs : ValidatorSet,
    update_height : Nat \cup {None},
    update_decided : BOOLEAN ]

Collectors == [vs : ValidatorSet, votes : SUBSET (Hashes \X Phases \X Replicas)]

CollectorPairs == [cvs : Collectors, pvs : SUBSET Collectors]

IsMessage(m) ==
  /\ m.from \in Replicas
  /\ m.view \in Nat
  /\ \/ m.type = "Proposal" /\ m.block \in Hashes
     \/ m.type = "Nudge" /\ m.justify \in PhaseCertificates /\ is_nudge_justify(m.justify)
     \/ m.type = "PhaseVote" /\ m.block \in Hashes /\ m.phase \in Phases
     \/ m.type = "NewView" /\ m.highest_pc \in PhaseCertificates

\* Every hash that a tree, a collector, a certificate or a message refers to
\* is the hash of a block that some leader has made, and every field has its
\* type.
TypeOK ==
  /\ preimage \in Seq(BlockContents)
  /\ bt \in [Replicas -> BlockTrees]
  /\ view \in [Replicas -> Nat]
  /\ proposed \in [Replicas -> SUBSET Replicas]
  /\ collectors \in [Replicas -> CollectorPairs]
  /\ \A m \in msgs : IsMessage(m)

-----------------------------------------------------------------------------
(* Properties of every behaviour of the code.                              *)

PhaseVotes == {m \in msgs : m.type = "PhaseVote"}

\* A replica that follows the code sends at most one phase vote per view,
\* whatever the leaders of the view propose and however often messages are
\* delivered (the highest_view_voted checks of on_receive_proposal and
\* on_receive_nudge).
OneVotePerView ==
  \A m, n \in {v \in PhaseVotes : v.from \notin Faulty} :
    m.from = n.from /\ m.view = n.view => m = n

\* The vote of a replica that follows the code is in its persistent state
\* before the replica can vote again: highest_view_voted is at least the view
\* of every vote it has sent (set_highest_view_phase_voted in both handlers,
\* and no updater of the tree resets it).
VotesAreRecorded ==
  \A m \in {v \in PhaseVotes : v.from \notin Faulty} : m.view <= bt[m.from].highest_view_voted

\* The votes for a (view, block, phase), and what a validator set certifies.
VotersFor(v, b, phase) ==
  {m.from : m \in {n \in PhaseVotes : n.view = v /\ n.block = b /\ n.phase = phase}}

Certifiable(vs) ==
  {c \in {<<m.view, m.block, m.phase>> : m \in PhaseVotes} :
     power_of(vs, VotersFor(c[1], c[2], c[3])) >= quorum(vs)}

\* The votes sent in a view never suffice for two different certificates of
\* the initial validator set, with leaders that propose and voters that vote
\* twice (ValidatorSet::quorum against the voting rules of the handlers).
OneCertificatePerView ==
  \A c, d \in Certifiable(InitialValidatorSet) : c[1] = d[1] => c = d

\* Every certificate that a replica holds or that was sent.
KnownPCs ==
  {bt[r].highest_pc : r \in Replicas} \cup {bt[r].locked_pc : r \in Replicas}
  \cup {m.highest_pc : m \in {n \in msgs : n.type = "NewView"}}
  \cup {m.justify : m \in {n \in msgs : n.type = "Nudge"}}
  \cup {preimage[h].justify : h \in DOMAIN preimage}

\* Whoever's signature is in a certificate sent a vote for its view, block and
\* phase (the bookkeeping of PhaseVoteCollector::collect, and of
\* ActiveCollectorPair over changes of the validator sets).
CertificatesAreVotedFor ==
  \A pc \in KnownPCs :
    Range(pc.signatures) \ {NoSignature} \subseteq VotersFor(pc.view, pc.block, pc.phase)

\* b, a child and a grandchild were certified in consecutive views.
IsThreeChain(b) ==
  \E c \in Certifiable(InitialValidatorSet), child, grandchild \in DOMAIN preimage :
    /\ c[2] = b
    /\ block_justify(child).block = b
    /\ block_justify(grandchild).block = child
    /\ {<<c[1] + 1, child, "Generic">>, <<c[1] + 2, grandchild, "Generic">>}
         \subseteq Certifiable(InitialValidatorSet)

\* A committed block is the head of three certificates of consecutive views,
\* backed by votes that were really sent, or an ancestor of such a block, also
\* when certificates arrive late, twice or out of order (block_to_commit).
CommitsAreCertified ==
  \A r \in Replicas : \A p \in bt[r].block_at_height :
    \E q \in bt[r].block_at_height : p[2] \in ancestry[q[2]] /\ IsThreeChain(q[2])

\* The parent of every block of a tree is in the tree, and the children lists
\* that delete_branch walks are exactly the edges of the tree: inserting,
\* re-inserting, committing and pruning leave no dangling block and no
\* unreachable one.
TreeIsIndexed ==
  \A r \in Replicas :
    /\ \A b \in bt[r].blocks : block_justify(b).block \in bt[r].blocks \cup {Genesis}
    /\ bt[r].children = {<<block_justify(b).block, b>> : b \in bt[r].blocks}

\* A committed block is never pruned by a later commit (delete_siblings).
CommittedBlocksKept ==
  \A r \in Replicas : \A p \in bt[r].block_at_height : p[2] \in bt[r].blocks

\* "Once a block becomes committed, it can never be un-committed": no handler
\* replaces the block that a replica has committed at a height.
CommitsArePermanent ==
  [][\A r \in Replicas : bt[r].block_at_height \subseteq bt'[r].block_at_height]_vars

\* The app state of a replica is the effect of the blocks it has committed,
\* each applied once, and later commits apply higher blocks (the pending app
\* state updates that commit applies and deletes).
AppStateFollowsChain ==
  \A r \in Replicas :
    LET batches == bt[r].app_state IN
    /\ UNION Range(batches) = {p[2] : p \in bt[r].block_at_height}
    /\ \A i, j \in DOMAIN batches : i < j =>
         \A a \in batches[i], b \in batches[j] : height(a) < height(b)

\* "Immediacy": the parent of a block in the tree, if it updates the validator
\* set, is committed already (safe_pc and safe_block against update).
Immediacy ==
  \A r \in Replicas : \A b \in bt[r].blocks :
    LET parent == block_justify(b).block
    IN  contains_updates(bt[r], parent) => parent \in bt[r].committed_updates

\* The phase that must be certified, in the view before, for a phase to be.
Predecessor(phase) == IF phase = "Precommit" THEN "Prepare" ELSE "Precommit"

\* The validator sets that the updates of the blocks made so far can lead to.
Arises(vs) ==
  \A S \in SUBSET ValidatorSet :
    /\ InitialValidatorSet \in S
    /\ \A ws \in S, b \in UpdatingBlocks : apply_updates(ws, UpdatesOf[data(b)]) \in S
    => vs \in S

\* The votes for an updating block go through the phases in consecutive views:
\* behind a Precommit or Commit certificate of a view are the votes of a quorum
\* for the phase before in the view before (safe_nudge), so that a Commit PC
\* stands for the three consecutive certificates that the commit rule needs.
\* The quorum is of the validator set of that time: later updates may have
\* replaced it in every replica.
PhasesAreConsecutive ==
  \A pc \in KnownPCs : pc.phase \in {"Precommit", "Commit"} =>
    \E vs \in {ws \in ValidatorSet : Arises(ws)} :
      <<pc.view - 1, pc.block, Predecessor(pc.phase)>> \in Certifiable(vs)

\* The committed validator set of a replica is the result of the updating
\* blocks on its committed chain, in order: the last one turned pvs into cvs,
\* and update_height is its height (commit, set_*_validator_set).
ValidatorSetFollowsChain ==
  \A r \in Replicas :
    LET committed == {p[2] : p \in bt[r].block_at_height}
        updating  == {b \in committed : data(b) \in UpdatingData}
    IN  /\ bt[r].committed_updates = updating
        /\ IF updating = {} THEN bt[r].cvs = InitialValidatorSet /\ bt[r].update_height = None
           ELSE \E b \in updating :
                  /\ \A a \in updating : height(a) <= height(b)
                  /\ bt[r].update_height = height(b)
                  /\ bt[r].cvs = apply_updates(bt[r].pvs, UpdatesOf[data(b)])

-----------------------------------------------------------------------------
(* Properties of the behaviours that keep their locks.                     *)

\* "The block trees of all honest replicas are identical below a certain block
\* height": no two replicas commit different blocks at a height.
Agreement ==
  \A r, s \in Replicas \ Faulty :
    \A p \in bt[r].block_at_height, q \in bt[s].block_at_height :
      p[1] = q[1] => p[2] = q[2]

\* The committed blocks of a replica are one chain from genesis without gaps:
\* commit walks back from the block to the last committed one and finds it.
ChainIsLinked ==
  \A r \in Replicas : \A p \in bt[r].block_at_height :
    LET parent == block_justify(p[2]).block IN
    IF p[1] = 0 THEN parent = Genesis ELSE <<p[1] - 1, parent>> \in bt[r].block_at_height

\* The blocks that r has committed, by height (block_at_height).
committed_chain(r) ==
  [h \in {p[1] : p \in bt[r].block_at_height} |-> CHOOSE b \in Hashes : <<h, b>> \in bt[r].block_at_height]

Common == INSTANCE CommonChain WITH Members <- Replicas \ Faulty,
                                    chain   <- [r \in Replicas \ Faulty |-> committed_chain(r)]

\* The replicas that follow the code grow a common chain: whatever messages
\* commit adds blocks on top of those that the replica has committed, without
\* gaps, and none that contradicts what another replica has committed (commit
\* and update, over the whole network).
ImplementsCommonChain == Common!Spec

\* The block of the highest PC is never pruned: enter_view of a leader finds
\* the block it has to build on (BlockExpectedButNotFound otherwise).
HighestPCInTree ==
  \A r \in Replicas : bt[r].highest_pc.block \in bt[r].blocks \cup {Genesis}

\* "A quorum of replicas is currently locked on the block": while a block is
\* committed anywhere, replicas with the power of a quorum are locked on it
\* or on a descendant.
CommittedIsLockedByQuorum ==
  \A r \in Replicas : \A p \in bt[r].block_at_height :
    power_of(InitialValidatorSet, {s \in Replicas : p[2] \in ancestry[bt[s].locked_pc.block]})
      >= quorum(InitialValidatorSet)

-----------------------------------------------------------------------------
(* What the documentation says of the code, and the code does not do.      *)

\* A Decide PC for a block whose updates are still pending is judged by "the
\* validator set expected to have voted Decide for the block": the one with
\* the updates applied (PhaseCertificate::is_correct).
DecideRecognisedWhilePending ==
  \A r \in Replicas : \A pc \in KnownPCs :
    /\ pc.phase = "Decide"
    /\ pc.block \in bt[r].pending_updates
    /\ is_correctly_signed(pc, apply_updates(bt[r].cvs, UpdatesOf[data(pc.block)]))
    => is_correct(pc, bt[r])

\* "To make progress in this situation, a proposer must re-propose [...] the
\* locked block": the block that a replica's lock asks for is one that the
\* replica accepts when it is proposed again.
LockedBlockCanBeReproposed ==
  \A r \in Replicas : \A m \in msgs :
    /\ m.type = "Proposal"
    /\ m.view = view[r]
    /\ bt[r].locked_pc.phase = "Precommit"
    /\ m.block = bt[r].locked_pc.block
    => safe_block(m.block, bt[r])
=============================================================================
