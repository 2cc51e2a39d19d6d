--------------------------- MODULE HotStuffProofs ---------------------------
(***************************************************************************)
(* What holds of the HotStuff subprotocol in every behaviour.  In four     *)
(* parts:                                                                  *)
(*                                                                         *)
(* Types and votes.  The types tie the state together (every hash is that  *)
(* of a block that was made), so the proof has a lemma per operator of     *)
(* BlockTree and of the collectors, that it makes what its type says, and  *)
(* a lemma per handler.  OneVotePerView is not inductive alone: the        *)
(* handlers compare the view with highest_view_voted, so the invariant     *)
(* VoteInv adds that highest_view_voted covers every vote sent.            *)
(*                                                                         *)
(* Certificates.  The votes of a view suffice for at most one certificate  *)
(* of the initial validator set, and every signature in a certificate that *)
(* any replica holds, sends or builds on is of a vote that was sent.       *)
(*                                                                         *)
(* Block trees.  Commits are permanent: `commit` overwrites whatever       *)
(* block_at_height holds at the heights it commits, so that this rests on  *)
(* an invariant: every height filled so far is at most that of the highest *)
(* committed block, above which both block_to_commit and the walk of       *)
(* commit stay.  Blocks are one higher than their parents, so that a block *)
(* has one ancestor per height.  With both, a tree stays whole: pruning    *)
(* deletes complete branches, none of them with a committed block, and     *)
(* every commit applies the app state updates of what it commits.          *)
(*                                                                         *)
(* Phases.  Votes for a phase follow a quorum of votes for the phase       *)
(* before, in the view before, by a validator set that arises.             *)
(***************************************************************************)
EXTENDS HotStuff, FiniteTheorems

-----------------------------------------------------------------------------
(* Certificates and blocks.                                                *)

\* genesis_pc is a certificate.
LEMMA GenesisType == genesis_pc \in PhaseCertificates
  BY DEF PhaseCertificates

\* The fields of a certificate have their types, and only the genesis PC
\* certifies no block that was made.
LEMMA CertificateFields ==
  ASSUME NEW pc \in PhaseCertificates
  PROVE  /\ pc.view \in Nat
         /\ pc.phase \in Phases
         /\ pc.block \in Hashes \cup {Genesis}
         /\ ~is_genesis_pc(pc) => pc.block \in Hashes
  BY DEF PhaseCertificates, genesis_pc, Genesis, Phases, is_genesis_pc

\* The fields of a block that was made have their types.
LEMMA BlockFields ==
  ASSUME preimage \in Seq(BlockContents), NEW b \in Hashes
  PROVE  /\ height(b) \in Nat
         /\ block_justify(b) \in PhaseCertificates
         /\ data(b) \in AppData
  <1>1. preimage[b] \in BlockContents
    BY DEF Hashes
  <1>2. QED
    BY <1>1 DEF BlockContents, height, block_justify, data

-----------------------------------------------------------------------------
(* Validator sets.                                                         *)

\* ValidatorSet::apply_updates makes a validator set of a validator set.
LEMMA ApplyUpdatesType ==
  ASSUME NEW vs \in ValidatorSet,
         NEW u \in [inserts : ValidatorSet, deletes : SUBSET Replicas]
  PROVE  apply_updates(vs, u) \in ValidatorSet
  <1>1. PICK S \in SUBSET Replicas : vs \in [S -> Powers]
    BY DEF ValidatorSet
  <1>2. PICK T \in SUBSET Replicas : u.inserts \in [T -> Powers]
    BY DEF ValidatorSet
  <1> DEFINE kept == (DOMAIN vs \cup DOMAIN u.inserts) \ u.deletes
  <1>3. kept \in SUBSET Replicas
    BY <1>1, <1>2
  <1>4. apply_updates(vs, u) \in [kept -> Powers]
    BY <1>1, <1>2 DEF apply_updates
  <1>5. QED
    BY <1>3, <1>4 DEF ValidatorSet

-----------------------------------------------------------------------------
(* Block trees.                                                            *)

\* BlockTreeSingleton::initialize makes a block tree.
LEMMA InitializeType == initialize \in BlockTrees
  BY GenesisType, ReplicasAssumption DEF initialize, BlockTrees, NoBlock, None

\* insert makes a block tree of a block tree, and leaves highest_view_voted.
LEMMA InsertType ==
  ASSUME preimage \in Seq(BlockContents), NEW tree \in BlockTrees, NEW b \in Hashes
  PROVE  /\ insert(b, tree) \in BlockTrees
         /\ insert(b, tree).highest_view_voted = tree.highest_view_voted
  <1>1. block_justify(b).block \in Hashes \cup {Genesis}
    BY BlockFields, CertificateFields
  <1> DEFINE pending == IF data(b) \in UpdatingData THEN tree.pending_updates \cup {b}
                        ELSE tree.pending_updates
             done == IF data(b) \in UpdatingData THEN tree.committed_updates \ {b}
                     ELSE tree.committed_updates
             new == [tree EXCEPT !.blocks = @ \cup {b},
                                 !.children = @ \cup {<<block_justify(b).block, b>>},
                                 !.pending_app_updates = @ \cup {b},
                                 !.pending_updates = pending,
                                 !.committed_updates = done]
  <1>2. pending \subseteq UpdatingBlocks /\ done \subseteq Hashes
    BY DEF BlockTrees, UpdatingBlocks
  <1>3. {<<block_justify(b).block, b>>} \subseteq (Hashes \cup {Genesis}) \X Hashes
    BY <1>1
  <1>4. insert(b, tree) = new
    BY DEF insert
  <1> HIDE DEF pending, done
  <1>5. new \in BlockTrees /\ new.highest_view_voted = tree.highest_view_voted
    BY <1>2, <1>3 DEF BlockTrees
  <1>6. QED
    BY <1>4, <1>5

\* highest_committed_block_height is a height or absent.
LEMMA HighestCommittedHeight ==
  ASSUME preimage \in Seq(BlockContents), NEW tree \in BlockTrees
  PROVE  highest_committed_block_height(tree) \in Nat \cup {None}
  BY BlockFields DEF highest_committed_block_height, BlockTrees

\* Of the updating blocks that a commit commits one is the last, since their
\* heights are bounded by that of the block.
LEMMA LastUpdating ==
  ASSUME preimage \in Seq(BlockContents), NEW tree \in BlockTrees, NEW b \in Hashes,
         NEW updating, updating = uncommitted_blocks(b, tree) \cap tree.pending_updates,
         updating # {}
  PROVE  \E a \in updating : \A c \in updating : height(c) <= height(a)
  <1> DEFINE depth(a) == height(b) - height(a)
             depths == {depth(a) : a \in updating}
  <1>1. height(b) \in Nat
    BY BlockFields
  <1>2. \A a \in updating : height(a) \in Nat /\ height(a) <= height(b)
    BY BlockFields, HighestCommittedHeight DEF uncommitted_blocks, BlockTrees, None
  <1>3. depths \subseteq Nat /\ depths # {}
    BY <1>1, <1>2
  <1>4. PICK d \in depths : \A e \in depths : d <= e
    BY <1>3, Minimum
  <1>5. PICK a \in updating : d = depth(a)
    OBVIOUS
  <1>6. ASSUME NEW c \in updating PROVE height(c) <= height(a)
    <2>1. depth(c) \in depths
      OBVIOUS
    <2>2. height(b) - height(a) <= height(b) - height(c)
      BY <1>4, <1>5, <2>1
    <2>3. QED
      BY <1>1, <1>2, <2>2
  <1>7. QED
    BY <1>6

\* commit makes a block tree of a block tree, and leaves highest_view_voted.
LEMMA CommitType ==
  ASSUME preimage \in Seq(BlockContents), NEW tree \in BlockTrees, NEW b \in Hashes
  PROVE  /\ commit(b, tree) \in BlockTrees
         /\ commit(b, tree).highest_view_voted = tree.highest_view_voted
  <1> DEFINE committing == uncommitted_blocks(b, tree)
             pruned     == pruned_by(committing, tree)
             updating   == committing \cap tree.pending_updates
             marked     == IF updating = {} THEN {} ELSE {b}
             new == [tree EXCEPT
        !.blocks = @ \ pruned,
        !.children = {e \in @ : e[1] \notin pruned \cup {block_justify(a).block : a \in committing}}
                     \cup {<<block_justify(a).block, a>> : a \in committing},
        !.pending_app_updates = @ \ (pruned \cup committing),
        !.app_state = Append(@, committing \cap tree.pending_app_updates),
        !.pending_updates = (@ \ pruned) \ marked,
        !.committed_updates = (@ \ pruned) \cup marked,
        !.block_at_height = {p \in @ : \A a \in committing : p[1] # height(a)}
                            \cup {<<height(a), a>> : a \in committing},
        !.highest_committed_block = b]
  <1>1. committing \subseteq Hashes
    BY DEF uncommitted_blocks, BlockTrees
  <1>2. \A a \in committing : /\ block_justify(a).block \in Hashes \cup {Genesis}
                              /\ height(a) \in Nat
    BY <1>1, BlockFields, CertificateFields
  <1>3. {<<block_justify(a).block, a>> : a \in committing} \subseteq (Hashes \cup {Genesis}) \X Hashes
    BY <1>1, <1>2
  <1>4. {<<height(a), a>> : a \in committing} \subseteq Nat \X Hashes
    BY <1>1, <1>2
  <1>5. Append(tree.app_state, committing \cap tree.pending_app_updates) \in Seq(SUBSET Hashes)
    BY <1>1 DEF BlockTrees
  <1>6. (tree.pending_updates \ pruned) \ marked \subseteq UpdatingBlocks
    BY DEF BlockTrees
  <1>7. (tree.committed_updates \ pruned) \cup marked \subseteq Hashes
    BY DEF BlockTrees
  <1> HIDE DEF committing, pruned, marked
  <1>8. new \in BlockTrees /\ new.highest_view_voted = tree.highest_view_voted
    BY <1>3, <1>4, <1>5, <1>6, <1>7 DEF BlockTrees
  <1>9. CASE updating = {}
    <2>1. commit(b, tree) = new
      BY <1>9 DEF commit, committing, pruned, marked
    <2>2. QED
      BY <1>8, <2>1
  <1>10. CASE updating # {}
    <2> DEFINE last == CHOOSE a \in updating : \A c \in updating : height(c) <= height(a)
               next == [new EXCEPT !.cvs = apply_updates(tree.cvs, UpdatesOf[data(last)]),
                                   !.pvs = tree.cvs,
                                   !.update_height = height(last),
                                   !.update_decided = FALSE]
    <2>1. commit(b, tree) = next
      BY <1>10 DEF commit, committing, pruned, marked
    <2>2. \E a \in updating : \A c \in updating : height(c) <= height(a)
      BY <1>10, LastUpdating DEF committing
    <2>3. last \in updating
      BY <2>2
    <2>4. last \in UpdatingBlocks /\ height(last) \in Nat
      BY <1>2, <2>3 DEF BlockTrees, UpdatingBlocks
    <2>5. apply_updates(tree.cvs, UpdatesOf[data(last)]) \in ValidatorSet
      BY <2>4, ApplyUpdatesType, ReplicasAssumption DEF UpdatingBlocks, BlockTrees
    <2> HIDE DEF new, last
    <2>6. next \in BlockTrees /\ next.highest_view_voted = tree.highest_view_voted
      BY <1>8, <2>4, <2>5 DEF BlockTrees
    <2>7. QED
      BY <2>1, <2>6
  <1>11. QED
    BY <1>9, <1>10

\* block_to_commit returns a block that was made.
LEMMA BlockToCommitType ==
  ASSUME preimage \in Seq(BlockContents), NEW tree \in BlockTrees,
         NEW justify \in PhaseCertificates
  PROVE  block_to_commit(justify, tree) \subseteq Hashes
  <1>1. CASE is_genesis_pc(justify)
    BY <1>1 DEF block_to_commit
  <1>2. CASE ~is_genesis_pc(justify)
    <2> DEFINE parent_justify == block_justify(justify.block)
               grandparent_justify == block_justify(parent_justify.block)
    <2>1. justify.block \in Hashes
      BY <1>2, CertificateFields
    <2>2. parent_justify \in PhaseCertificates
      BY <2>1, BlockFields
    <2>3. ~is_genesis_pc(parent_justify) => grandparent_justify \in PhaseCertificates
      BY <2>2, BlockFields, CertificateFields
    <2>4. ~is_genesis_pc(parent_justify) /\ ~is_genesis_pc(grandparent_justify)
            => grandparent_justify.block \in Hashes
      BY <2>3, CertificateFields
    <2>5. QED
      BY <1>2, <2>1, <2>4 DEF block_to_commit
  <1>3. QED
    BY <1>1, <1>2

\* pc_to_lock returns a certificate.
LEMMA PcToLockType ==
  ASSUME preimage \in Seq(BlockContents), NEW tree \in BlockTrees,
         NEW justify \in PhaseCertificates
  PROVE  pc_to_lock(justify, tree) \subseteq PhaseCertificates
  <1>1. ~is_genesis_pc(justify) => block_justify(justify.block) \in PhaseCertificates
    BY BlockFields, CertificateFields
  <1>2. CASE is_genesis_pc(justify)
    BY <1>2 DEF pc_to_lock
  <1>3. CASE ~is_genesis_pc(justify)
    BY <1>1, <1>3 DEF pc_to_lock
  <1>4. QED
    BY <1>2, <1>3

\* update makes a block tree of a block tree, and leaves highest_view_voted.
LEMMA UpdateType ==
  ASSUME preimage \in Seq(BlockContents), NEW tree \in BlockTrees,
         NEW justify \in PhaseCertificates
  PROVE  /\ update(justify, tree) \in BlockTrees
         /\ update(justify, tree).highest_view_voted = tree.highest_view_voted
  <1> DEFINE to_commit == block_to_commit(justify, tree)
             chosen    == CHOOSE b \in to_commit : TRUE
             committed == IF to_commit = {} THEN tree ELSE commit(chosen, tree)
             to_lock   == pc_to_lock(justify, tree)
             lock      == IF to_lock = {} THEN committed.locked_pc ELSE CHOOSE pc \in to_lock : TRUE
             highest   == IF justify.view > committed.highest_pc.view THEN justify
                          ELSE committed.highest_pc
             decided   == committed.update_decided \/ justify.phase = "Decide"
             new == [committed EXCEPT !.highest_pc = highest, !.locked_pc = lock,
                                      !.update_decided = decided]
  <1>1. /\ committed \in BlockTrees
        /\ committed.highest_view_voted = tree.highest_view_voted
    <2>1. CASE to_commit = {}
      BY <2>1
    <2>2. CASE to_commit # {}
      <3>1. chosen \in Hashes
        BY <2>2, BlockToCommitType
      <3>2. QED
        BY <2>2, <3>1, CommitType
    <2>3. QED
      BY <2>1, <2>2
  <1>2. lock \in PhaseCertificates
    <2>1. CASE to_lock = {}
      BY <1>1, <2>1 DEF BlockTrees
    <2>2. CASE to_lock # {}
      BY <2>2, PcToLockType
    <2>3. QED
      BY <2>1, <2>2
  <1>3. highest \in PhaseCertificates
    BY <1>1 DEF BlockTrees
  <1>4. decided \in BOOLEAN
    OBVIOUS
  <1>5. update(justify, tree) = new
    BY DEF update
  <1> HIDE DEF committed, lock, highest, decided
  <1>6. new \in BlockTrees /\ new.highest_view_voted = committed.highest_view_voted
    BY <1>1, <1>2, <1>3, <1>4 DEF BlockTrees
  <1>7. QED
    BY <1>1, <1>5, <1>6

-----------------------------------------------------------------------------
(* Collectors.                                                             *)

\* The signature vector of a certificate has one place per validator.
LEMMA SignatureSetType ==
  ASSUME NEW vs \in ValidatorSet, NEW signers \in SUBSET Replicas
  PROVE  signature_set(vs, signers) \in Seq(Replicas \cup {NoSignature})
  <1> DEFINE n == Cardinality(DOMAIN vs)
             order == validators(vs)
             f(i) == CHOOSE v \in DOMAIN vs : Cardinality({w \in DOMAIN vs : w < v}) = i - 1
  <1>1. DOMAIN vs \subseteq Replicas
    BY DEF ValidatorSet
  <1>2. n \in Nat
    BY <1>1, FS_Subset, FS_CardinalityType, ReplicasAssumption
  <1>3. order = [i \in 1 .. n |-> f(i)]
    BY DEF validators
  <1> HIDE DEF n, order, f
  <1>4. Len(order) = n
    BY <1>2, <1>3
  <1>5. signature_set(vs, signers) =
          [i \in 1 .. n |-> IF order[i] \in signers THEN order[i] ELSE NoSignature]
    BY <1>4 DEF signature_set, order
  <1>6. signature_set(vs, signers) \in [1 .. n -> Replicas \cup {NoSignature}]
    BY <1>5
  <1>7. QED
    BY <1>2, <1>6

\* ActiveCollectorPair::new makes a collector pair.
LEMMA NewPairType ==
  ASSUME NEW tree \in BlockTrees
  PROVE  new_pair(tree) \in CollectorPairs
  BY DEF new_pair, new_collector, CollectorPairs, Collectors, BlockTrees

\* PhaseVoteCollector::collect makes a collector and at most one certificate.
LEMMA CollectOneType ==
  ASSUME NEW col \in Collectors, NEW m, m.from \in Replicas, m.view \in Nat,
         m.block \in Hashes, m.phase \in Phases
  PROVE  /\ collect_one(col, m).col \in Collectors
         /\ collect_one(col, m).certs \subseteq PhaseCertificates
  <1> DEFINE triple  == <<m.block, m.phase, m.from>>
             signers == signers_of(col, m) \cup {m.from}
             pc == [view |-> m.view, block |-> m.block, phase |-> m.phase,
                    signatures |-> signature_set(col.vs, signers)]
             cleared == [col EXCEPT !.votes = {t \in @ : <<t[1], t[2]>> # <<m.block, m.phase>>}]
             added == [col EXCEPT !.votes = @ \cup {triple}]
  <1>1. signers \in SUBSET Replicas
    BY DEF signers_of, Collectors, ValidatorSet
  <1>2. pc \in PhaseCertificates
    <2>1. signature_set(col.vs, signers) \in Seq(Replicas \cup {NoSignature})
      BY <1>1, SignatureSetType DEF Collectors
    <2>2. QED
      BY <2>1 DEF PhaseCertificates
  <1>3. cleared \in Collectors
    BY DEF Collectors
  <1>4. added \in Collectors
    BY DEF Collectors
  <1>5. \/ collect_one(col, m) = [col |-> col, certs |-> {}]
        \/ collect_one(col, m) = [col |-> cleared, certs |-> {pc}]
        \/ collect_one(col, m) = [col |-> added, certs |-> {}]
    BY DEF collect_one
  <1> HIDE DEF pc, cleared, added
  <1>6. QED
    BY <1>2, <1>3, <1>4, <1>5

\* ActiveCollectorPair::collect makes a collector pair and at most one
\* certificate.
LEMMA CollectType ==
  ASSUME NEW pair \in CollectorPairs, NEW m, m.from \in Replicas, m.view \in Nat,
         m.block \in Hashes, m.phase \in Phases
  PROVE  /\ collect(pair, m).pair \in CollectorPairs
         /\ collect(pair, m).certs \subseteq PhaseCertificates
  <1> DEFINE c == collect_one(pair.cvs, m)
             col == CHOOSE x \in pair.pvs : TRUE
             p == collect_one(col, m)
  <1>1. c.col \in Collectors /\ c.certs \subseteq PhaseCertificates
    BY CollectOneType DEF CollectorPairs
  <1>2. CASE c.certs # {} \/ pair.pvs = {}
    <2>1. collect(pair, m) = [pair |-> [pair EXCEPT !.cvs = c.col], certs |-> c.certs]
      BY <1>2 DEF collect, collect_in
    <2> HIDE DEF c
    <2>2. QED
      BY <1>1, <2>1 DEF CollectorPairs
  <1>3. CASE ~(c.certs # {} \/ pair.pvs = {})
    <2>1. collect(pair, m) = [pair |-> [cvs |-> c.col, pvs |-> {p.col}], certs |-> p.certs]
      BY <1>3 DEF collect, collect_in
    <2>2. col \in Collectors
      BY <1>3 DEF CollectorPairs
    <2>3. p.col \in Collectors /\ p.certs \subseteq PhaseCertificates
      BY <2>2, CollectOneType
    <2> HIDE DEF c, p
    <2>4. QED
      BY <1>1, <2>1, <2>3 DEF CollectorPairs
  <1>4. QED
    BY <1>2, <1>3

\* ActiveCollectorPair::update_validator_sets makes a collector pair.
LEMMA UpdateValidatorSetsType ==
  ASSUME NEW pair \in CollectorPairs, NEW tree \in BlockTrees
  PROVE  update_validator_sets(pair, tree) \in CollectorPairs
  <1>1. \A vs \in ValidatorSet : new_collector(vs) \in Collectors
    BY DEF new_collector, Collectors
  <1>2. tree.cvs \in ValidatorSet /\ tree.pvs \in ValidatorSet
    BY DEF BlockTrees
  <1>3. QED
    BY <1>1, <1>2 DEF update_validator_sets, CollectorPairs

-----------------------------------------------------------------------------
(* Hashing.  The contents hashed so far only grow, so that whatever had    *)
(* its type before a block was made has it afterwards.                     *)

Grows ==
  /\ Hashes \subseteq Hashes'
  /\ \A b \in Hashes : preimage'[b] = preimage[b]

\* What has its type keeps it when more contents are hashed.
LEMMA TypesGrow ==
  ASSUME Grows
  PROVE  /\ PhaseCertificates \subseteq PhaseCertificates'
         /\ BlockContents \subseteq BlockContents'
         /\ BlockTrees \subseteq BlockTrees'
         /\ CollectorPairs \subseteq CollectorPairs'
         /\ \A m : IsMessage(m) => IsMessage(m)'
  <1>1. PhaseCertificates \subseteq PhaseCertificates'
    BY DEF Grows, PhaseCertificates
  <1>2. BlockContents \subseteq BlockContents'
    BY <1>1 DEF BlockContents
  <1>3. UpdatingBlocks \subseteq UpdatingBlocks'
    BY DEF Grows, UpdatingBlocks, data
  <1>4. Seq(SUBSET Hashes) \subseteq Seq(SUBSET Hashes')
    BY DEF Grows
  <1>5. BlockTrees \subseteq BlockTrees'
    BY <1>1, <1>3, <1>4 DEF Grows, BlockTrees
  <1>6. Collectors \subseteq Collectors'
    BY DEF Grows, Collectors
  <1>7. CollectorPairs \subseteq CollectorPairs'
    BY <1>6 DEF CollectorPairs
  <1>8. ASSUME NEW m, IsMessage(m) PROVE IsMessage(m)'
    BY <1>1, <1>8 DEF Grows, IsMessage
  <1>9. QED
    BY <1>1, <1>2, <1>5, <1>7, <1>8

\* Hashing a block content keeps all earlier hashes and gives the content one.
LEMMA HashedType ==
  ASSUME preimage \in Seq(BlockContents), NEW content \in BlockContents, Hashed(content)
  PROVE  /\ Grows
         /\ preimage' \in Seq(BlockContents')
         /\ hash(content) \in Hashes'
  <1>1. CASE IsHashed(content)
    <2>1. preimage' = preimage
      BY <1>1 DEF Hashed
    <2>2. Grows
      BY <2>1 DEF Grows, Hashes
    <2>3. hash(content) \in Hashes'
      BY <1>1, <2>1 DEF hash, IsHashed, Hashes
    <2>4. QED
      BY <2>1, <2>2, <2>3, TypesGrow
  <1>2. CASE ~IsHashed(content)
    <2>1. preimage' = Append(preimage, content)
      BY <1>2 DEF Hashed
    <2>2. /\ Grows
          /\ Len(preimage) + 1 \in Hashes'
          /\ preimage' \in Seq(BlockContents)
      BY <2>1 DEF Grows, Hashes
    <2>3. preimage' \in Seq(BlockContents')
      BY <2>2, TypesGrow
    <2>4. hash(content) = Len(preimage) + 1
      BY <1>2 DEF hash
    <2>5. QED
      BY <2>2, <2>3, <2>4
  <1>3. QED
    BY <1>1, <1>2

\* Block::new on a certificate of the leader's tree makes a block content.
LEMMA NewBlockType ==
  ASSUME preimage \in Seq(BlockContents), NEW pc \in PhaseCertificates, NEW d \in AppData
  PROVE  new_block(pc, d) \in BlockContents
  <1>1. ~is_genesis_pc(pc) => height(pc.block) \in Nat
    BY CertificateFields, BlockFields
  <1>2. QED
    BY <1>1 DEF new_block, BlockContents

-----------------------------------------------------------------------------
(* The inductive invariant, and what every step does to it.  A vote may    *)
(* be sent only by a step that raises highest_view_voted to its view, so   *)
(* OneVotePerView needs VotesAreRecorded beside it.                        *)

HonestVotes == {m \in PhaseVotes : m.from \notin Faulty}

VoteInv == VotesAreRecorded /\ OneVotePerView

\* Entering a view keeps types and the record of votes, if the messages sent
\* have their types.
LEMMA StartViewType ==
  ASSUME TypeOK, Grows, preimage' \in Seq(BlockContents'),
         NEW r \in Replicas, NEW v \in Nat,
         NEW proposals, \A m \in proposals : IsMessage(m)',
         StartView(r, v, proposals)
  PROVE  /\ TypeOK'
         /\ \A s \in Replicas : bt'[s].highest_view_voted = bt[s].highest_view_voted
  <1>1. bt[r] \in BlockTrees
    BY DEF TypeOK
  <1> DEFINE tree == [bt[r] EXCEPT !.highest_view_entered = v]
  <1>2. tree \in BlockTrees /\ tree.highest_view_voted = bt[r].highest_view_voted
    BY <1>1 DEF BlockTrees
  <1> HIDE DEF tree
  <1>3. bt' = [bt EXCEPT ![r] = tree]
    BY DEF StartView, tree
  <1>4. bt' \in [Replicas -> BlockTrees]
    BY <1>2, <1>3 DEF TypeOK
  <1>5. collectors' \in [Replicas -> CollectorPairs]
    BY <1>1, NewPairType DEF StartView, TypeOK
  <1>6. ASSUME NEW m \in msgs' PROVE IsMessage(m)'
    <2>1. CASE m \in msgs
      BY <2>1, TypesGrow DEF TypeOK
    <2>2. CASE m \in proposals
      BY <2>2
    <2>3. CASE m \notin msgs \cup proposals
      <3>1. PICK to : m = NewView(r, to, view[r], bt[r].highest_pc)
        BY <2>3 DEF StartView
      <3>2. IsMessage(m)
        BY <1>1, <3>1 DEF NewView, IsMessage, BlockTrees, TypeOK
      <3>3. QED
        BY <3>2, TypesGrow
    <2>4. QED
      BY <2>1, <2>2, <2>3
  <1>7. view' \in [Replicas -> Nat] /\ proposed' \in [Replicas -> SUBSET Replicas]
    BY DEF StartView, TypeOK
  <1>8. TypeOK'
    BY <1>4, <1>5, <1>6, <1>7, TypesGrow DEF TypeOK
  <1>9. QED
    BY <1>2, <1>3, <1>8 DEF TypeOK

\* Entering a view sends no vote.
LEMMA StartViewVotes ==
  ASSUME NEW r \in Replicas, NEW v, NEW proposals, StartView(r, v, proposals),
         \A m \in proposals : m.type # "PhaseVote"
  PROVE  PhaseVotes' = PhaseVotes
  BY DEF StartView, PhaseVotes, NewView

\* A step that sends no vote of an honest replica and leaves the records of
\* votes alone keeps VoteInv.
LEMMA QuietStep ==
  ASSUME TypeOK, VoteInv, TypeOK',
         HonestVotes' = HonestVotes,
         \A s \in Replicas : bt'[s].highest_view_voted = bt[s].highest_view_voted
  PROVE  VoteInv'
  <1>1. \A m \in HonestVotes : m.from \in Replicas
    BY DEF HonestVotes, PhaseVotes, TypeOK, IsMessage
  <1>2. QED
    BY <1>1 DEF HonestVotes, VoteInv, VotesAreRecorded, OneVotePerView

\* A step that makes no block keeps the contents hashed.
LEMMA UnhashedGrows ==
  ASSUME TypeOK, UNCHANGED preimage
  PROVE  Grows /\ preimage' \in Seq(BlockContents')
  <1>1. Grows
    BY DEF Grows, Hashes
  <1>2. QED
    BY <1>1, TypesGrow DEF TypeOK

\* A proposal of a block that was made has its type.
LEMMA ProposalType ==
  ASSUME NEW r \in Replicas, NEW v \in Nat, NEW b \in Hashes'
  PROVE  IsMessage(Proposal(r, v, b))' /\ Proposal(r, v, b).type # "PhaseVote"
  BY DEF Proposal, IsMessage

\* enter_view keeps the invariant.
LEMMA EnterViewStep ==
  ASSUME TypeOK, VoteInv, NEW r \in Replicas, EnterView(r)
  PROVE  TypeOK' /\ VoteInv'
  <1>1. PICK v \in EntryViews[r] : \/ EnterViewFollower(r, v)
                                   \/ EnterViewRepropose(r, v)
                                   \/ EnterViewPropose(r, v)
                                   \/ EnterViewNudge(r, v)
    BY DEF EnterView
  <1>2. v \in Nat
    BY ReplicasAssumption
  <1>3. bt[r].highest_pc \in PhaseCertificates
    BY DEF TypeOK, BlockTrees
  <1>4. SUFFICES \E proposals :
          /\ Grows
          /\ preimage' \in Seq(BlockContents')
          /\ StartView(r, v, proposals)
          /\ \A m \in proposals : IsMessage(m)' /\ m.type # "PhaseVote"
    <2>1. PICK proposals :
            /\ Grows
            /\ preimage' \in Seq(BlockContents')
            /\ StartView(r, v, proposals)
            /\ \A m \in proposals : IsMessage(m)' /\ m.type # "PhaseVote"
      BY <1>4
    <2>2. /\ TypeOK'
          /\ \A s \in Replicas : bt'[s].highest_view_voted = bt[s].highest_view_voted
      BY <1>2, <2>1, StartViewType
    <2>3. HonestVotes' = HonestVotes
      BY <2>1, StartViewVotes DEF HonestVotes
    <2>4. QED
      BY <2>2, <2>3, QuietStep
  <1>5. CASE EnterViewFollower(r, v)
    BY <1>5, UnhashedGrows DEF EnterViewFollower
  <1>6. CASE EnterViewRepropose(r, v)
    <2> DEFINE proposals == {Proposal(r, v, b) : b \in repropose_block(v, bt[r])}
    <2>1. Grows /\ preimage' \in Seq(BlockContents')
      BY <1>6, UnhashedGrows DEF EnterViewRepropose
    <2>2. repropose_block(v, bt[r]) \subseteq Hashes'
      BY <1>3, <2>1, CertificateFields
         DEF repropose_block, Grows, is_genesis_pc, genesis_pc
    <2>3. \A m \in proposals : IsMessage(m)' /\ m.type # "PhaseVote"
      BY <1>2, <2>2, ProposalType
    <2>4. StartView(r, v, proposals)
      BY <1>6 DEF EnterViewRepropose
    <2> HIDE DEF proposals
    <2>5. QED
      BY <2>1, <2>3, <2>4
  <1>7. CASE EnterViewPropose(r, v)
    <2>1. PICK d \in Produces[r] :
            /\ StartView(r, v, {Proposal(r, v, hash(new_block(bt[r].highest_pc, d)))})
            /\ Hashed(new_block(bt[r].highest_pc, d))
      BY <1>7 DEF EnterViewPropose
    <2> DEFINE block == new_block(bt[r].highest_pc, d)
               proposals == {Proposal(r, v, hash(block))}
    <2>2. d \in AppData
      BY ReplicasAssumption
    <2>3. block \in BlockContents
      BY <1>3, <2>2, NewBlockType DEF TypeOK
    <2> HIDE DEF block
    <2>4. /\ Grows
          /\ preimage' \in Seq(BlockContents')
          /\ hash(block) \in Hashes'
      BY <2>1, <2>3, HashedType DEF TypeOK, block
    <2>5. \A m \in proposals : IsMessage(m)' /\ m.type # "PhaseVote"
      BY <1>2, <2>4, ProposalType
    <2>6. StartView(r, v, proposals)
      BY <2>1 DEF block
    <2> HIDE DEF proposals
    <2>7. QED
      BY <2>4, <2>5, <2>6
  <1>8. CASE EnterViewNudge(r, v)
    <2> DEFINE nudge == Nudge(r, v, bt[r].highest_pc)
    <2>1. Grows /\ preimage' \in Seq(BlockContents')
      BY <1>8, UnhashedGrows DEF EnterViewNudge
    <2>2. IsMessage(nudge) /\ nudge.type # "PhaseVote"
      BY <1>2, <1>3, <1>8 DEF EnterViewNudge, Nudge, IsMessage
    <2>3. StartView(r, v, {nudge})
      BY <1>8 DEF EnterViewNudge
    <2> HIDE DEF nudge
    <2>4. QED
      BY <2>1, <2>2, <2>3, TypesGrow
  <1>9. QED
    BY <1>1, <1>5, <1>6, <1>7, <1>8

\* The tail of on_receive_proposal and on_receive_nudge keeps the invariant: a
\* vote is only sent in a view above every view voted in, and recorded.
LEMMA UpdateAndVoteStep ==
  ASSUME TypeOK, VoteInv, NEW r \in Replicas, NEW origin \in Replicas,
         NEW tree \in BlockTrees, tree.highest_view_voted = bt[r].highest_view_voted,
         NEW justify, NEW b \in Hashes, NEW phase \in Phases,
         UpdateAndVote(r, origin, tree, justify, b, phase)
  PROVE  TypeOK' /\ VoteInv'
  <1> DEFINE voted == [tree EXCEPT !.highest_view_voted = view[r]]
             vote == PhaseVote(r, phase_vote_recipient(view[r], phase, tree), view[r], b, phase)
  <1>1. Grows /\ preimage' \in Seq(BlockContents')
    BY UnhashedGrows DEF UpdateAndVote
  <1>2. view[r] \in Nat
    BY DEF TypeOK
  <1>3. voted \in BlockTrees /\ voted.highest_view_voted = view[r]
    BY <1>2 DEF BlockTrees
  <1>4. /\ IsMessage(vote)
        /\ vote.from = r
        /\ vote.view = view[r]
    BY <1>2 DEF PhaseVote, IsMessage
  <1>5. /\ view' \in [Replicas -> Nat]
        /\ proposed' \in [Replicas -> SUBSET Replicas]
        /\ collectors' \in [Replicas -> CollectorPairs]
    BY UpdateValidatorSetsType DEF UpdateAndVote, TypeOK
  <1>6. \A m \in HonestVotes : m.from \in Replicas /\ m.view \in Nat
    BY DEF HonestVotes, PhaseVotes, TypeOK, IsMessage
  <1>7. CASE is_phase_voter(r, tree, justify) /\ tree.highest_view_voted < view[r]
    <2> HIDE DEF voted, vote
    <2>1. bt' = [bt EXCEPT ![r] = voted] /\ msgs' = msgs \cup {vote}
      BY <1>7 DEF UpdateAndVote, CastVote, voted, vote
    <2>2. TypeOK'
      BY <1>1, <1>3, <1>4, <1>5, <2>1, TypesGrow DEF TypeOK
    <2>3. \A m \in HonestVotes : m.from = r => m.view < view[r]
      <3>1. bt[r].highest_view_voted \in Nat \cup {-1}
        BY DEF TypeOK, BlockTrees, None
      <3>2. QED
        BY <1>2, <1>6, <1>7, <3>1 DEF VoteInv, VotesAreRecorded, HonestVotes
    <2>4. HonestVotes' \subseteq HonestVotes \cup {vote}
      BY <2>1 DEF HonestVotes, PhaseVotes
    <2>5. VotesAreRecorded'
      <3>1. ASSUME NEW m \in HonestVotes' PROVE m.view <= bt'[m.from].highest_view_voted
        <4>1. CASE m = vote
          BY <1>2, <1>3, <1>4, <2>1, <4>1 DEF TypeOK
        <4>2. CASE m \in HonestVotes /\ m.from = r
          BY <1>2, <1>3, <1>6, <2>1, <2>3, <4>2 DEF TypeOK
        <4>3. CASE m \in HonestVotes /\ m.from # r
          BY <1>6, <2>1, <4>3 DEF TypeOK, VoteInv, VotesAreRecorded, HonestVotes
        <4>4. QED
          BY <2>4, <4>1, <4>2, <4>3
      <3>2. QED
        BY <3>1 DEF VotesAreRecorded, HonestVotes
    <2>6. OneVotePerView'
      <3>1. ASSUME NEW m \in HonestVotes', NEW n \in HonestVotes',
                   m.from = n.from, m.view = n.view
            PROVE  m = n
        <4>1. CASE m \in HonestVotes /\ n \in HonestVotes
          BY <3>1, <4>1 DEF VoteInv, OneVotePerView, HonestVotes
        <4>2. CASE m = vote /\ n \in HonestVotes
          BY <1>2, <1>4, <1>6, <2>3, <3>1, <4>2
        <4>3. CASE m \in HonestVotes /\ n = vote
          BY <1>2, <1>4, <1>6, <2>3, <3>1, <4>3
        <4>4. QED
          BY <2>4, <4>1, <4>2, <4>3
      <3>2. QED
        BY <3>1 DEF OneVotePerView, HonestVotes
    <2>7. QED
      BY <2>2, <2>5, <2>6 DEF VoteInv
  <1>8. CASE ~(is_phase_voter(r, tree, justify) /\ tree.highest_view_voted < view[r])
    <2>1. bt' = [bt EXCEPT ![r] = tree] /\ msgs' = msgs
      BY <1>8 DEF UpdateAndVote, CastVote
    <2>2. TypeOK'
      BY <1>1, <1>5, <2>1, TypesGrow DEF TypeOK
    <2>3. HonestVotes' = HonestVotes
      BY <2>1 DEF HonestVotes, PhaseVotes
    <2>4. \A s \in Replicas : bt'[s].highest_view_voted = bt[s].highest_view_voted
      BY <2>1 DEF TypeOK
    <2>5. QED
      BY <2>2, <2>3, <2>4, QuietStep
  <1>9. QED
    BY <1>7, <1>8

\* Rejecting a proposal or nudge keeps the invariant.
LEMMA IgnoreStep ==
  ASSUME TypeOK, VoteInv, NEW r \in Replicas, NEW origin \in Replicas, Ignore(r, origin)
  PROVE  TypeOK' /\ VoteInv'
  <1>1. Grows /\ preimage' \in Seq(BlockContents')
    BY UnhashedGrows DEF Ignore
  <1>2. proposed' \in [Replicas -> SUBSET Replicas]
    BY DEF Ignore, TypeOK
  <1>3. TypeOK'
    BY <1>1, <1>2, TypesGrow DEF Ignore, TypeOK
  <1>4. HonestVotes' = HonestVotes /\ bt' = bt
    BY DEF Ignore, HonestVotes, PhaseVotes
  <1>5. QED
    BY <1>3, <1>4, QuietStep

\* Processing a collected or received certificate keeps the invariant.
LEMMA ProcessPCStep ==
  ASSUME TypeOK, VoteInv, NEW r \in Replicas, NEW pair \in CollectorPairs,
         NEW certs \in SUBSET PhaseCertificates, ProcessPC(r, pair, certs)
  PROVE  TypeOK' /\ VoteInv'
  <1> DEFINE good == {pc \in certs : is_correct(pc, bt[r]) /\ safe_pc(pc, bt[r])}
             tree == IF good = {} THEN bt[r] ELSE update(CHOOSE pc \in good : TRUE, bt[r])
             next == IF good = {} THEN pair ELSE update_validator_sets(pair, tree)
  <1>1. /\ tree \in BlockTrees
        /\ tree.highest_view_voted = bt[r].highest_view_voted
    <2>1. bt[r] \in BlockTrees
      BY DEF TypeOK
    <2>2. CASE good = {}
      BY <2>1, <2>2
    <2>3. CASE good # {}
      <3> DEFINE pc == CHOOSE c \in good : TRUE
      <3>1. pc \in PhaseCertificates
        BY <2>3
      <3>2. QED
        BY <2>1, <2>3, <3>1, UpdateType DEF TypeOK
    <2>4. QED
      BY <2>2, <2>3
  <1> HIDE DEF tree
  <1>2. next \in CollectorPairs
    BY <1>1, UpdateValidatorSetsType
  <1> HIDE DEF next
  <1>3. /\ bt' = [bt EXCEPT ![r] = tree]
        /\ collectors' = [collectors EXCEPT ![r] = next]
        /\ UNCHANGED <<preimage, view, proposed, msgs>>
    BY DEF ProcessPC, tree, next
  <1>4. TypeOK'
    BY <1>1, <1>2, <1>3, UnhashedGrows, TypesGrow DEF TypeOK
  <1>5. HonestVotes' = HonestVotes
    BY <1>3 DEF HonestVotes, PhaseVotes
  <1>6. \A s \in Replicas : bt'[s].highest_view_voted = bt[s].highest_view_voted
    BY <1>1, <1>3 DEF TypeOK
  <1>7. QED
    BY <1>4, <1>5, <1>6, QuietStep

\* on_receive_msg keeps the invariant.
LEMMA OnReceiveMsgStep ==
  ASSUME TypeOK, VoteInv, NEW r \in Replicas, NEW m \in msgs, OnReceiveMsg(r, m)
  PROVE  TypeOK' /\ VoteInv'
  <1>1. IsMessage(m) /\ m.from \in Replicas
    BY DEF TypeOK, IsMessage
  <1>2. bt[r] \in BlockTrees
    BY DEF TypeOK
  <1>3. CASE OnReceiveProposal(r, m)
    <2> DEFINE b == m.block
               phase == IF data(b) \in UpdatingData THEN "Prepare" ELSE "Generic"
               tree == update(block_justify(b), insert(b, bt[r]))
    <2>1. b \in Hashes
      BY <1>1, <1>3 DEF OnReceiveProposal, Receives, IsMessage
    <2>2. insert(b, bt[r]) \in BlockTrees
          /\ insert(b, bt[r]).highest_view_voted = bt[r].highest_view_voted
      BY <1>2, <2>1, InsertType DEF TypeOK
    <2>3. block_justify(b) \in PhaseCertificates
      BY <2>1, BlockFields DEF TypeOK
    <2>4. tree \in BlockTrees /\ tree.highest_view_voted = bt[r].highest_view_voted
      BY <2>2, <2>3, UpdateType DEF TypeOK
    <2>5. phase \in Phases
      BY DEF Phases
    <2>6. UpdateAndVote(r, m.from, tree, block_justify(b), b, phase)
      BY <1>3 DEF OnReceiveProposal
    <2> HIDE DEF b, phase, tree
    <2>7. QED
      BY <1>1, <2>1, <2>4, <2>5, <2>6, UpdateAndVoteStep
  <1>4. CASE RejectProposal(r, m)
    BY <1>1, <1>4, IgnoreStep DEF RejectProposal
  <1>5. CASE OnReceiveNudge(r, m)
    <2> DEFINE justify == m.justify
               phase == NextPhase(justify.phase)
               tree == update(justify, bt[r])
    <2>1. justify \in PhaseCertificates /\ is_nudge_justify(justify)
      BY <1>1, <1>5 DEF OnReceiveNudge, Receives, IsMessage
    <2>2. justify.block \in Hashes
      BY <2>1, CertificateFields DEF is_nudge_justify, is_genesis_pc, genesis_pc
    <2>3. tree \in BlockTrees /\ tree.highest_view_voted = bt[r].highest_view_voted
      BY <1>2, <2>1, UpdateType DEF TypeOK
    <2>4. phase \in Phases
      BY <2>1 DEF NextPhase, is_nudge_justify, Phases
    <2>5. UpdateAndVote(r, m.from, tree, justify, justify.block, phase)
      BY <1>5 DEF OnReceiveNudge
    <2> HIDE DEF justify, phase, tree
    <2>6. QED
      BY <1>1, <2>2, <2>3, <2>4, <2>5, UpdateAndVoteStep
  <1>6. CASE RejectNudge(r, m)
    BY <1>1, <1>6, IgnoreStep DEF RejectNudge
  <1>7. CASE OnReceivePhaseVote(r, m)
    <2> DEFINE c == collect(collectors[r], m)
    <2>1. m.view \in Nat /\ m.block \in Hashes /\ m.phase \in Phases
      BY <1>1, <1>7 DEF OnReceivePhaseVote, Receives, IsMessage
    <2>2. collectors[r] \in CollectorPairs
      BY DEF TypeOK
    <2>3. c.pair \in CollectorPairs /\ c.certs \subseteq PhaseCertificates
      BY <1>1, <2>1, <2>2, CollectType
    <2>4. ProcessPC(r, c.pair, c.certs)
      BY <1>7 DEF OnReceivePhaseVote
    <2> HIDE DEF c
    <2>5. QED
      BY <2>3, <2>4, ProcessPCStep
  <1>8. CASE OnReceiveNewView(r, m)
    <2>1. {m.highest_pc} \in SUBSET PhaseCertificates
      BY <1>1, <1>8 DEF OnReceiveNewView, Receives, IsMessage
    <2>2. ProcessPC(r, collectors[r], {m.highest_pc})
      BY <1>8 DEF OnReceiveNewView
    <2>3. QED
      BY <2>1, <2>2, ProcessPCStep DEF TypeOK
  <1>9. QED
    BY <1>3, <1>4, <1>5, <1>6, <1>7, <1>8 DEF OnReceiveMsg

\* What faulty replicas do keeps the invariant.
LEMMA MisbehaveStep ==
  ASSUME TypeOK, VoteInv, NEW r \in Replicas, Misbehave(r)
  PROVE  TypeOK' /\ VoteInv'
  <1>1. view[r] \in Nat
    BY DEF TypeOK
  <1>2. CASE Equivocate(r)
    <2>1. PICK pc \in {genesis_pc, bt[r].highest_pc}, d \in Produces[r] :
            /\ msgs' = msgs \cup {Proposal(r, view[r], hash(new_block(pc, d)))}
            /\ Hashed(new_block(pc, d))
      BY <1>2 DEF Equivocate
    <2>2. pc \in PhaseCertificates
      BY GenesisType DEF TypeOK, BlockTrees
    <2> DEFINE block == new_block(pc, d)
               proposals == {Proposal(r, view[r], hash(block))}
    <2>3. d \in AppData
      BY ReplicasAssumption
    <2>4. block \in BlockContents
      BY <2>2, <2>3, NewBlockType DEF TypeOK
    <2> HIDE DEF block
    <2>5. /\ Grows
          /\ preimage' \in Seq(BlockContents')
          /\ hash(block) \in Hashes'
      BY <2>1, <2>4, HashedType DEF TypeOK, block
    <2>6. \A m \in proposals : IsMessage(m)' /\ m.type # "PhaseVote"
      BY <1>1, <2>5, ProposalType
    <2>7. msgs' = msgs \cup proposals /\ UNCHANGED <<bt, view, proposed, collectors>>
      BY <1>2, <2>1 DEF Equivocate, block
    <2> HIDE DEF proposals
    <2>8. TypeOK'
      <3>1. \A m \in msgs' : IsMessage(m)'
        BY <2>5, <2>6, <2>7, TypesGrow DEF TypeOK
      <3>2. QED
        BY <2>5, <2>7, <3>1, TypesGrow DEF TypeOK
    <2>9. HonestVotes' = HonestVotes
      BY <2>6, <2>7 DEF HonestVotes, PhaseVotes
    <2>10. QED
      BY <2>7, <2>8, <2>9, QuietStep
  <1>3. CASE DoubleVote(r)
    <2>1. PICK m \in msgs :
            /\ m.type = "Proposal"
            /\ LET phase == IF data(m.block) \in UpdatingData THEN "Prepare" ELSE "Generic" IN
               msgs' = msgs \cup {PhaseVote(r, phase_vote_recipient(view[r], phase, bt[r]),
                                           view[r], m.block, phase)}
      BY <1>3 DEF DoubleVote
    <2> DEFINE phase == IF data(m.block) \in UpdatingData THEN "Prepare" ELSE "Generic"
               to == phase_vote_recipient(view[r], phase, bt[r])
               vote == PhaseVote(r, to, view[r], m.block, phase)
    <2>2. Grows /\ preimage' \in Seq(BlockContents')
      BY <1>3, UnhashedGrows DEF DoubleVote
    <2>3. IsMessage(vote) /\ vote.from \in Faulty
      BY <1>1, <1>3, <2>1 DEF DoubleVote, TypeOK, IsMessage, PhaseVote, Phases
    <2>4. msgs' = msgs \cup {vote} /\ UNCHANGED <<bt, view, proposed, collectors>>
      BY <1>3, <2>1 DEF DoubleVote
    <2> HIDE DEF vote
    <2>5. TypeOK'
      BY <2>2, <2>3, <2>4, TypesGrow DEF TypeOK
    <2>6. HonestVotes' = HonestVotes
      BY <2>3, <2>4 DEF HonestVotes, PhaseVotes
    <2>7. QED
      BY <2>4, <2>5, <2>6, QuietStep
  <1>4. QED
    BY <1>2, <1>3 DEF Misbehave

-----------------------------------------------------------------------------

\* The invariant holds initially.
LEMMA InitInv == Init => TypeOK /\ VoteInv
  <1> SUFFICES ASSUME Init PROVE TypeOK /\ VoteInv
    OBVIOUS
  <1>1. preimage \in Seq(BlockContents)
    BY DEF Init
  <1>2. initialize \in BlockTrees /\ new_pair(initialize) \in CollectorPairs
    BY InitializeType, NewPairType
  <1>3. TypeOK
    BY <1>1, <1>2 DEF Init, TypeOK
  <1>4. VoteInv
    BY DEF Init, VoteInv, VotesAreRecorded, OneVotePerView, PhaseVotes
  <1>5. QED
    BY <1>3, <1>4

\* Every step keeps the invariant.
LEMMA NextInv == TypeOK /\ VoteInv /\ [Next]_vars => TypeOK' /\ VoteInv'
  <1> SUFFICES ASSUME TypeOK, VoteInv, [Next]_vars PROVE TypeOK' /\ VoteInv'
    OBVIOUS
  <1>1. CASE Next
    BY <1>1, EnterViewStep, OnReceiveMsgStep, MisbehaveStep DEF Next
  <1>2. CASE UNCHANGED vars
    <2>1. TypeOK'
      BY <1>2, UnhashedGrows, TypesGrow DEF vars, TypeOK
    <2>2. HonestVotes' = HonestVotes /\ bt' = bt
      BY <1>2 DEF vars, HonestVotes, PhaseVotes
    <2>3. QED
      BY <2>1, <2>2, QuietStep
  <1>3. QED
    BY <1>1, <1>2

\* The inductive invariant holds in every behaviour.
THEOREM VoteSafety == Spec => [](TypeOK /\ VoteInv)
  BY InitInv, NextInv, PTL DEF Spec

\* In every behaviour, every hash that a tree, a collector, a certificate or a
\* message refers to is that of a block some leader made, and every field has
\* its type: no updater of src/block_tree/accessors/internal.rs and no handler
\* of src/hotstuff/implementation.rs leaves them, for every set of replicas,
\* validator set updates and views.
THEOREM TypeCorrect == Spec => []TypeOK
  BY VoteSafety, PTL

\* In every behaviour, highest_view_voted of an honest replica is at least the
\* view of each vote it has sent.
THEOREM VotesStayRecorded == Spec => []VotesAreRecorded
  <1>1. VoteInv => VotesAreRecorded
    BY DEF VoteInv
  <1>2. QED
    BY <1>1, VoteSafety, PTL

\* In every behaviour, with leaders that equivocate and messages delivered in
\* any order and any number of times, an honest replica sends at most one vote
\* per view.
THEOREM SingleVote == Spec => []OneVotePerView
  <1>1. VoteInv => OneVotePerView
    BY DEF VoteInv
  <1>2. QED
    BY <1>1, VoteSafety, PTL

-----------------------------------------------------------------------------
(* Quorums intersect in a replica that follows the code.                   *)

Power(S) == power_of(InitialValidatorSet, S)

\* The arithmetic of powers: those of the initial validator set are sums of
\* naturals over sets of validators (ValidatorSet::total_power).
LEMMA PowerFacts ==
  /\ \A S \in SUBSET Replicas : power_of(InitialValidatorSet, S) \in Nat
  /\ power_of(InitialValidatorSet, {}) = 0
  /\ power_of(InitialValidatorSet, Replicas) = total_power(InitialValidatorSet)
  /\ \A S, T \in SUBSET Replicas :
       power_of(InitialValidatorSet, S \cup T) + power_of(InitialValidatorSet, S \cap T)
         = power_of(InitialValidatorSet, S) + power_of(InitialValidatorSet, T)
  <1> DEFINE vs == InitialValidatorSet
             D == DOMAIN vs
  <1>1. D \subseteq Replicas /\ \A v \in D : vs[v] \in Nat
    <2>1. PICK S \in SUBSET Replicas : vs \in [S -> Powers]
      BY ReplicasAssumption DEF ValidatorSet
    <2>2. QED
      BY <2>1, ReplicasAssumption
  <1>2. \A S \in SUBSET Replicas : IsFiniteSet(S) /\ IsFiniteSet(S \cap D)
    BY ReplicasAssumption, FS_Subset
  <1>3. \A S \in SUBSET Replicas : power_of(vs, S) \in Nat
    BY <1>1, <1>2, SumType DEF power_of
  <1>4. power_of(vs, {}) = 0
    <2>1. {} \cap D = {}
      OBVIOUS
    <2>2. QED
      BY <2>1, SumEmpty DEF power_of
  <1>5. power_of(vs, Replicas) = total_power(vs)
    <2>1. Replicas \cap D = D
      BY <1>1
    <2>2. QED
      BY <2>1 DEF power_of, total_power
  <1>6. ASSUME NEW S \in SUBSET Replicas, NEW T \in SUBSET Replicas
        PROVE  power_of(vs, S \cup T) + power_of(vs, S \cap T) = power_of(vs, S) + power_of(vs, T)
    <2> DEFINE A == S \cap D
               B == T \cap D
    <2>1. (S \cup T) \cap D = A \cup B /\ (S \cap T) \cap D = A \cap B
      OBVIOUS
    <2>2. IsFiniteSet(A) /\ IsFiniteSet(B) /\ \A x \in A \cup B : vs[x] \in Nat
      BY <1>1, <1>2
    <2> HIDE DEF A, B, vs
    <2>3. SumFunctionOnSet(vs, A \cup B) + SumFunctionOnSet(vs, A \cap B)
            = SumFunctionOnSet(vs, A) + SumFunctionOnSet(vs, B)
      BY <2>2, SumUnion
    <2>4. QED
      BY <2>1, <2>3 DEF power_of, A, B, D
  <1>7. QED
    BY <1>3, <1>4, <1>5, <1>6

\* A set has at least the power of its subsets.
LEMMA PowerMonotone ==
  ASSUME NEW T \in SUBSET Replicas, NEW S \in SUBSET T
  PROVE  Power(S) <= Power(T)
  <1> DEFINE U == T \ S
  <1>1. S \cup U = T /\ S \cap U = {}
    OBVIOUS
  <1>2. S \in SUBSET Replicas /\ U \in SUBSET Replicas
    OBVIOUS
  <1>3. Power(T) + Power({}) = Power(S) + Power(U)
    BY <1>1, <1>2, PowerFacts DEF Power
  <1> HIDE DEF U
  <1>4. Power(S) \in Nat /\ Power(U) \in Nat /\ Power(T) \in Nat /\ Power({}) = 0
    BY <1>2, PowerFacts DEF Power
  <1>5. QED
    BY <1>3, <1>4

\* Any two quorums of the initial validator set share a replica that is not
\* faulty (ValidatorSet::quorum).
LEMMA QuorumsIntersect ==
  ASSUME NEW S \in SUBSET Replicas, NEW T \in SUBSET Replicas,
         Power(S) >= quorum(InitialValidatorSet), Power(T) >= quorum(InitialValidatorSet)
  PROVE  \E r \in S \cap T : r \notin Faulty
  <1> DEFINE total == total_power(InitialValidatorSet)
  <1>1. /\ total \in Nat /\ Power(S) \in Nat /\ Power(T) \in Nat
        /\ Power(S \cup T) \in Nat /\ Power(S \cap T) \in Nat
        /\ Power(Faulty) \in Nat
    BY PowerFacts, ReplicasAssumption DEF Power
  <1>2. 3 * Power(S) > 2 * total /\ 3 * Power(T) > 2 * total
    BY <1>1 DEF quorum
  <1>3. Power(S \cup T) <= total
    <2>1. Power(Replicas) = total
      BY PowerFacts DEF Power
    <2>2. QED
      BY <2>1, PowerMonotone
  <1>4. Power(S \cup T) + Power(S \cap T) = Power(S) + Power(T)
    BY PowerFacts DEF Power
  <1>5. 3 * Power(S \cap T) > total
    BY <1>1, <1>2, <1>3, <1>4
  <1>6. 3 * Power(Faulty) < total
    BY FaultAssumption DEF Power
  <1>7. ~(S \cap T \subseteq Faulty)
    <2>1. SUFFICES ASSUME S \cap T \subseteq Faulty PROVE FALSE
      OBVIOUS
    <2>2. Power(S \cap T) <= Power(Faulty)
      BY <2>1, PowerMonotone, ReplicasAssumption
    <2>3. QED
      BY <1>1, <1>5, <1>6, <2>2
  <1>8. QED
    BY <1>7

\* In every behaviour, whatever faulty replicas propose and vote for, no two
\* certificates of a view can be collected from the initial validator set.
THEOREM CertificatesAreUnique == Spec => []OneCertificatePerView
  <1>1. TypeOK /\ OneVotePerView => OneCertificatePerView
    <2> SUFFICES ASSUME TypeOK, OneVotePerView,
                        NEW c \in Certifiable(InitialValidatorSet),
                        NEW d \in Certifiable(InitialValidatorSet), c[1] = d[1]
                 PROVE  c = d
      BY DEF OneCertificatePerView
    <2> DEFINE S == VotersFor(c[1], c[2], c[3])
               T == VotersFor(d[1], d[2], d[3])
    <2>1. S \in SUBSET Replicas /\ T \in SUBSET Replicas
      BY DEF VotersFor, PhaseVotes, TypeOK, IsMessage
    <2>2. Power(S) >= quorum(InitialValidatorSet) /\ Power(T) >= quorum(InitialValidatorSet)
      BY DEF Certifiable, Power
    <2> HIDE DEF S, T
    <2>3. PICK r \in S \cap T : r \notin Faulty
      BY <2>1, <2>2, QuorumsIntersect
    <2>4. PICK m \in PhaseVotes : m.from = r /\ m.view = c[1] /\ m.block = c[2] /\ m.phase = c[3]
      BY <2>3 DEF S, VotersFor
    <2>5. PICK n \in PhaseVotes : n.from = r /\ n.view = d[1] /\ n.block = d[2] /\ n.phase = d[3]
      BY <2>3 DEF T, VotersFor
    <2>6. m = n
      BY <2>3, <2>4, <2>5 DEF OneVotePerView
    <2>7. c = <<c[1], c[2], c[3]>> /\ d = <<d[1], d[2], d[3]>>
      BY DEF Certifiable
    <2>8. QED
      BY <2>4, <2>5, <2>6, <2>7
  <1>2. QED
    BY <1>1, TypeCorrect, SingleVote, PTL

-----------------------------------------------------------------------------
(* The signatures of certificates.  Certificates are made from the votes   *)
(* that collectors hold, so the collectors are part of the invariant: what *)
(* a collector holds was sent in the collector's view.                     *)

\* Votes were sent for what pc certifies, by whoever's signature is in it.
VotedFor(pc) ==
  /\ Range(pc.signatures) \ {NoSignature} \subseteq VotersFor(pc.view, pc.block, pc.phase)
  /\ is_genesis_pc(pc) \/ VotersFor(pc.view, pc.block, pc.phase) # {}

Holds(col, v) == \A t \in col.votes : t[3] \in VotersFor(v, t[1], t[2])

PairHolds(pair, v) == Holds(pair.cvs, v) /\ \A col \in pair.pvs : Holds(col, v)

\* Every vote in a collector was sent, in the view that the replica is in.
CollectorsHoldSentVotes == \A r \in Replicas : PairHolds(collectors[r], view[r])

SignatureInv == (\A pc \in KnownPCs : VotedFor(pc)) /\ CollectorsHoldSentVotes

\* The signature vector of some signers holds no other signature.
LEMMA SignaturesOfSigners ==
  ASSUME NEW vs, NEW signers
  PROVE  Range(signature_set(vs, signers)) \ {NoSignature} \subseteq signers
  BY DEF signature_set, Range

\* The genesis PC has no signatures to account for.
LEMMA GenesisVotedFor == VotedFor(genesis_pc)
  BY DEF VotedFor, genesis_pc, is_genesis_pc, Range

\* Collecting a vote that was sent keeps a collector to votes that were sent,
\* and makes certificates of votes that were sent.
LEMMA CollectOneHolds ==
  ASSUME NEW col \in Collectors, NEW m \in PhaseVotes, Holds(col, m.view)
  PROVE  /\ Holds(collect_one(col, m).col, m.view)
         /\ \A pc \in collect_one(col, m).certs : VotedFor(pc)
  <1> DEFINE triple  == <<m.block, m.phase, m.from>>
             signers == signers_of(col, m) \cup {m.from}
             pc == [view |-> m.view, block |-> m.block, phase |-> m.phase,
                    signatures |-> signature_set(col.vs, signers)]
             cleared == [col EXCEPT !.votes = {t \in @ : <<t[1], t[2]>> # <<m.block, m.phase>>}]
             added == [col EXCEPT !.votes = @ \cup {triple}]
  <1>1. m.from \in VotersFor(m.view, m.block, m.phase)
    BY DEF VotersFor
  <1>2. signers \subseteq VotersFor(m.view, m.block, m.phase)
    BY <1>1 DEF signers_of, Holds
  <1>3. VotedFor(pc)
    <2>1. /\ pc.view = m.view
          /\ pc.block = m.block
          /\ pc.phase = m.phase
          /\ pc.signatures = signature_set(col.vs, signers)
      OBVIOUS
    <2> HIDE DEF pc, signers
    <2>2. QED
      BY <1>1, <1>2, <2>1, SignaturesOfSigners DEF VotedFor
  <1>4. Holds(cleared, m.view)
    BY DEF Holds, Collectors
  <1>5. Holds(added, m.view)
    BY <1>1 DEF Holds, Collectors
  <1>6. \/ collect_one(col, m) = [col |-> col, certs |-> {}]
        \/ collect_one(col, m) = [col |-> cleared, certs |-> {pc}]
        \/ collect_one(col, m) = [col |-> added, certs |-> {}]
    BY DEF collect_one
  <1> HIDE DEF pc, cleared, added
  <1>7. QED
    BY <1>3, <1>4, <1>5, <1>6

\* The same for a pair of collectors.
LEMMA CollectHolds ==
  ASSUME NEW pair \in CollectorPairs, NEW m \in PhaseVotes, PairHolds(pair, m.view)
  PROVE  /\ PairHolds(collect(pair, m).pair, m.view)
         /\ \A pc \in collect(pair, m).certs : VotedFor(pc)
  <1> DEFINE c == collect_one(pair.cvs, m)
             col == CHOOSE x \in pair.pvs : TRUE
             p == collect_one(col, m)
  <1>1. Holds(c.col, m.view) /\ \A pc \in c.certs : VotedFor(pc)
    BY CollectOneHolds DEF CollectorPairs, PairHolds
  <1>2. CASE c.certs # {} \/ pair.pvs = {}
    <2>1. collect(pair, m) = [pair |-> [pair EXCEPT !.cvs = c.col], certs |-> c.certs]
      BY <1>2 DEF collect, collect_in
    <2> HIDE DEF c
    <2>2. QED
      BY <1>1, <2>1 DEF CollectorPairs, PairHolds
  <1>3. CASE ~(c.certs # {} \/ pair.pvs = {})
    <2>1. collect(pair, m) = [pair |-> [cvs |-> c.col, pvs |-> {p.col}], certs |-> p.certs]
      BY <1>3 DEF collect, collect_in
    <2>2. col \in Collectors /\ Holds(col, m.view)
      BY <1>3 DEF CollectorPairs, PairHolds
    <2>3. Holds(p.col, m.view) /\ \A pc \in p.certs : VotedFor(pc)
      BY <2>2, CollectOneHolds
    <2> HIDE DEF c, p
    <2>4. QED
      BY <1>1, <2>1, <2>3 DEF PairHolds
  <1>4. QED
    BY <1>2, <1>3

\* Replacing collectors when the validator sets change never moves votes.
LEMMA UpdateValidatorSetsHolds ==
  ASSUME NEW pair, NEW tree, NEW v, PairHolds(pair, v)
  PROVE  PairHolds(update_validator_sets(pair, tree), v)
  <1>1. \A vs : Holds(new_collector(vs), v)
    BY DEF new_collector, Holds
  <1>2. QED
    BY <1>1 DEF update_validator_sets, PairHolds

\* Where the certificates of an updated tree come from.
LEMMA UpdatePCs ==
  ASSUME preimage \in Seq(BlockContents), NEW tree \in BlockTrees,
         NEW justify \in PhaseCertificates
  PROVE  /\ update(justify, tree).highest_pc \in {justify, tree.highest_pc}
         /\ update(justify, tree).highest_pc.view >= justify.view
         /\ update(justify, tree).locked_pc \in
              {justify, tree.locked_pc} \cup {block_justify(b) : b \in Hashes}
  <1> DEFINE to_commit == block_to_commit(justify, tree)
             chosen    == CHOOSE b \in to_commit : TRUE
             committed == IF to_commit = {} THEN tree ELSE commit(chosen, tree)
             to_lock   == pc_to_lock(justify, tree)
             lock      == IF to_lock = {} THEN committed.locked_pc ELSE CHOOSE pc \in to_lock : TRUE
             highest   == IF justify.view > committed.highest_pc.view THEN justify
                          ELSE committed.highest_pc
             decided   == committed.update_decided \/ justify.phase = "Decide"
             new == [committed EXCEPT !.highest_pc = highest, !.locked_pc = lock,
                                      !.update_decided = decided]
  <1>1. /\ committed \in BlockTrees
        /\ committed.highest_pc = tree.highest_pc
        /\ committed.locked_pc = tree.locked_pc
    <2>1. CASE to_commit = {}
      BY <2>1
    <2>2. CASE to_commit # {}
      <3>1. chosen \in Hashes
        BY <2>2, BlockToCommitType
      <3> HIDE DEF chosen
      <3>2. commit(chosen, tree) \in BlockTrees
        BY <3>1, CommitType
      <3>3. /\ commit(chosen, tree).highest_pc = tree.highest_pc
            /\ commit(chosen, tree).locked_pc = tree.locked_pc
        BY DEF commit, BlockTrees
      <3>4. QED
        BY <2>2, <3>2, <3>3
    <2>3. QED
      BY <2>1, <2>2
  <1>2. lock \in {justify, tree.locked_pc} \cup {block_justify(b) : b \in Hashes}
    <2>1. ~is_genesis_pc(justify) => justify.block \in Hashes
      BY CertificateFields
    <2>2. to_lock \subseteq {justify} \cup {block_justify(b) : b \in Hashes}
      BY <2>1 DEF pc_to_lock
    <2> HIDE DEF to_lock, committed
    <2>3. CASE to_lock = {}
      BY <1>1, <2>3
    <2>4. CASE to_lock # {}
      BY <2>2, <2>4
    <2>5. QED
      BY <2>3, <2>4
  <1>3. highest \in {justify, tree.highest_pc} /\ highest.view >= justify.view
    <2>1. tree.highest_pc.view \in Nat /\ justify.view \in Nat
      <3>1. tree.highest_pc \in PhaseCertificates
        BY DEF BlockTrees
      <3>2. QED
        BY <3>1, CertificateFields
    <2>2. QED
      BY <1>1, <2>1
  <1>4. update(justify, tree) = new
    BY DEF update
  <1> HIDE DEF committed, lock, highest, decided
  <1>5. new.highest_pc = highest /\ new.locked_pc = lock
    BY <1>1 DEF BlockTrees
  <1>6. QED
    BY <1>2, <1>3, <1>4, <1>5

\* Votes are never unsent.
LEMMA VotersGrow ==
  ASSUME msgs \subseteq msgs', NEW v, NEW b, NEW phase
  PROVE  VotersFor(v, b, phase) \subseteq VotersFor(v, b, phase)'
  BY DEF VotersFor, PhaseVotes

\* What a step must satisfy to keep SignatureInv, for a set of certificates
\* `made` that the step makes from votes.
Sources(made) == KnownPCs \cup {genesis_pc} \cup made

PCsAreFrom(made) ==
  /\ \A s \in Replicas : bt'[s].highest_pc \in Sources(made) /\ bt'[s].locked_pc \in Sources(made)
  /\ \A m \in msgs' \ msgs : m.type = "NewView" => m.highest_pc \in Sources(made)
  /\ \A m \in msgs' \ msgs : m.type = "Nudge" => m.justify \in Sources(made)
  /\ \A h \in DOMAIN preimage' : preimage'[h].justify \in Sources(made)

\* A step whose certificates come from known ones, or from votes, keeps the
\* invariant.
LEMMA SignatureStep ==
  ASSUME SignatureInv, msgs \subseteq msgs',
         NEW made, \A pc \in made : VotedFor(pc), PCsAreFrom(made),
         \A s \in Replicas : \E pair, v :
           PairHolds(pair, v) /\ collectors'[s] = pair /\ view'[s] = v
  PROVE  SignatureInv'
  <1>1. \A pc \in Sources(made) : VotedFor(pc)
    BY GenesisVotedFor DEF SignatureInv, Sources
  <1>2. KnownPCs' \subseteq Sources(made)
    BY DEF PCsAreFrom, KnownPCs, Sources
  <1>3. ASSUME NEW pc \in KnownPCs'
        PROVE  /\ Range(pc.signatures) \ {NoSignature} \subseteq VotersFor(pc.view, pc.block, pc.phase)'
               /\ is_genesis_pc(pc) \/ VotersFor(pc.view, pc.block, pc.phase)' # {}
    BY <1>1, <1>2, VotersGrow DEF VotedFor
  <1>4. (\A pc \in KnownPCs : VotedFor(pc))'
    BY <1>3 DEF VotedFor
  <1>5. CollectorsHoldSentVotes'
    BY VotersGrow DEF CollectorsHoldSentVotes, PairHolds, Holds
  <1>6. QED
    BY <1>4, <1>5 DEF SignatureInv

\* The block contents after a block was made.
LEMMA HashedJustify ==
  ASSUME TypeOK, NEW content, content.justify \in KnownPCs \cup {genesis_pc}, Hashed(content),
         NEW h \in DOMAIN preimage'
  PROVE  preimage'[h].justify \in KnownPCs \cup {genesis_pc}
  <1>1. CASE preimage' = preimage
    BY <1>1 DEF KnownPCs
  <1>2. CASE preimage' = Append(preimage, content)
    <2>1. DOMAIN preimage = 1 .. Len(preimage) /\ Len(preimage) \in Nat
      BY DEF TypeOK
    <2>2. CASE h \in DOMAIN preimage
      <3>1. preimage'[h] = preimage[h]
        BY <1>2, <2>1, <2>2 DEF TypeOK
      <3>2. QED
        BY <2>2, <3>1 DEF KnownPCs
    <2>3. CASE h \notin DOMAIN preimage
      <3>1. preimage'[h] = content
        BY <1>2, <2>1, <2>3 DEF TypeOK
      <3>2. QED
        BY <3>1
    <2>4. QED
      BY <2>2, <2>3
  <1>3. QED
    BY <1>1, <1>2 DEF Hashed

\* Entering a view passes the highest PC on and empties the collectors.
LEMMA StartViewSignatures ==
  ASSUME TypeOK, SignatureInv, NEW r \in Replicas, NEW v, NEW proposals,
         StartView(r, v, proposals),
         \A m \in proposals : m.type \in {"Proposal", "Nudge"},
         \A m \in proposals : m.type = "Nudge" => m.justify = bt[r].highest_pc,
         \A h \in DOMAIN preimage' : preimage'[h].justify \in KnownPCs \cup {genesis_pc}
  PROVE  SignatureInv'
  <1>1. bt[r] \in BlockTrees
    BY DEF TypeOK
  <1> DEFINE tree == [bt[r] EXCEPT !.highest_view_entered = v]
  <1>2. tree.highest_pc = bt[r].highest_pc /\ tree.locked_pc = bt[r].locked_pc
    BY <1>1 DEF BlockTrees
  <1>3. bt' = [bt EXCEPT ![r] = tree]
    BY DEF StartView
  <1> HIDE DEF tree
  <1>4. \A s \in Replicas : bt'[s].highest_pc \in KnownPCs /\ bt'[s].locked_pc \in KnownPCs
    BY <1>2, <1>3 DEF TypeOK, KnownPCs
  <1>5. bt[r].highest_pc \in KnownPCs
    BY DEF KnownPCs
  <1>6. \A m \in msgs' \ msgs : /\ m.type = "NewView" => m.highest_pc = bt[r].highest_pc
                                /\ m.type = "Nudge" => m.justify = bt[r].highest_pc
    BY DEF StartView, NewView
  <1>7. PCsAreFrom({})
    BY <1>4, <1>5, <1>6 DEF PCsAreFrom, Sources
  <1>8. ASSUME NEW s \in Replicas
        PROVE  \E pair, w : PairHolds(pair, w) /\ collectors'[s] = pair /\ view'[s] = w
    <2>1. CASE s = r
      <3>1. collectors'[s] = new_pair(bt[r]) /\ view'[s] = v
        BY <2>1 DEF StartView, TypeOK
      <3>2. PairHolds(new_pair(bt[r]), v)
        BY DEF PairHolds, Holds, new_pair, new_collector
      <3>3. QED
        BY <3>1, <3>2
    <2>2. CASE s # r
      <3>1. collectors'[s] = collectors[s] /\ view'[s] = view[s]
        BY <2>2 DEF StartView, TypeOK
      <3>2. QED
        BY <3>1 DEF SignatureInv, CollectorsHoldSentVotes
    <2>3. QED
      BY <2>1, <2>2
  <1>9. msgs \subseteq msgs'
    BY DEF StartView
  <1>10. QED
    BY <1>7, <1>8, <1>9, SignatureStep

\* enter_view keeps the invariant.
LEMMA EnterViewSignatures ==
  ASSUME TypeOK, SignatureInv, NEW r \in Replicas, EnterView(r)
  PROVE  SignatureInv'
  <1>1. PICK v : \/ EnterViewFollower(r, v)
                 \/ EnterViewRepropose(r, v)
                 \/ EnterViewPropose(r, v)
                 \/ EnterViewNudge(r, v)
    BY DEF EnterView
  <1>2. ASSUME UNCHANGED preimage
        PROVE  \A h \in DOMAIN preimage' : preimage'[h].justify \in KnownPCs \cup {genesis_pc}
    BY <1>2 DEF KnownPCs
  <1>3. CASE EnterViewFollower(r, v)
    BY <1>2, <1>3, StartViewSignatures DEF EnterViewFollower
  <1>4. CASE EnterViewRepropose(r, v)
    <2> DEFINE proposals == {Proposal(r, v, b) : b \in repropose_block(v, bt[r])}
    <2>1. \A m \in proposals : m.type = "Proposal"
      BY DEF Proposal
    <2>2. StartView(r, v, proposals) /\ UNCHANGED preimage
      BY <1>4 DEF EnterViewRepropose
    <2> HIDE DEF proposals
    <2>3. QED
      BY <1>2, <2>1, <2>2, StartViewSignatures
  <1>5. CASE EnterViewPropose(r, v)
    <2>1. PICK d \in Produces[r] :
            /\ StartView(r, v, {Proposal(r, v, hash(new_block(bt[r].highest_pc, d)))})
            /\ Hashed(new_block(bt[r].highest_pc, d))
      BY <1>5 DEF EnterViewPropose
    <2> DEFINE block == new_block(bt[r].highest_pc, d)
               proposals == {Proposal(r, v, hash(block))}
    <2>2. block.justify \in KnownPCs \cup {genesis_pc}
      BY DEF new_block, KnownPCs
    <2>3. StartView(r, v, proposals) /\ Hashed(block)
      BY <2>1
    <2> HIDE DEF block
    <2>4. \A m \in proposals : m.type = "Proposal"
      BY DEF Proposal
    <2> HIDE DEF proposals
    <2>5. QED
      BY <2>2, <2>3, <2>4, HashedJustify, StartViewSignatures
  <1>6. CASE EnterViewNudge(r, v)
    <2> DEFINE proposals == {Nudge(r, v, bt[r].highest_pc)}
    <2>1. \A m \in proposals : m.type = "Nudge" /\ m.justify = bt[r].highest_pc
      BY DEF Nudge
    <2>2. StartView(r, v, proposals) /\ UNCHANGED preimage
      BY <1>6 DEF EnterViewNudge
    <2> HIDE DEF proposals
    <2>3. QED
      BY <1>2, <2>1, <2>2, StartViewSignatures
  <1>7. QED
    BY <1>1, <1>3, <1>4, <1>5, <1>6

\* The tail of on_receive_proposal and on_receive_nudge keeps the invariant.
LEMMA UpdateAndVoteSignatures ==
  ASSUME TypeOK, SignatureInv, NEW r \in Replicas, NEW origin, NEW pc \in PhaseCertificates,
         pc \in KnownPCs, NEW tree \in BlockTrees,
         tree.highest_pc = bt[r].highest_pc, tree.locked_pc = bt[r].locked_pc,
         NEW b, NEW phase, UpdateAndVote(r, origin, update(pc, tree), pc, b, phase)
  PROVE  SignatureInv'
  <1> DEFINE updated == update(pc, tree)
             cast == CastVote(r, updated, pc, b, phase)
  <1>1. updated \in BlockTrees
    BY UpdateType DEF TypeOK
  <1>2. updated.highest_pc \in KnownPCs /\ updated.locked_pc \in KnownPCs
    <2>1. {block_justify(h) : h \in Hashes} \subseteq KnownPCs
      BY DEF block_justify, Hashes, KnownPCs
    <2>2. bt[r].highest_pc \in KnownPCs /\ bt[r].locked_pc \in KnownPCs
      BY DEF KnownPCs
    <2>3. /\ updated.highest_pc \in {pc, bt[r].highest_pc}
          /\ updated.locked_pc \in {pc, bt[r].locked_pc} \cup {block_justify(h) : h \in Hashes}
      BY UpdatePCs DEF TypeOK
    <2>4. QED
      BY <2>1, <2>2, <2>3
  <1> HIDE DEF updated
  <1>3. cast.tree = updated \/ cast.tree = [updated EXCEPT !.highest_view_voted = view[r]]
    BY DEF CastVote
  <1>4. cast.tree.highest_pc \in KnownPCs /\ cast.tree.locked_pc \in KnownPCs
    BY <1>1, <1>2, <1>3 DEF BlockTrees
  <1>5. \A m \in cast.votes : m.type = "PhaseVote"
    BY DEF CastVote, PhaseVote
  <1>6. /\ bt' = [bt EXCEPT ![r] = cast.tree]
        /\ collectors' = [collectors EXCEPT ![r] = update_validator_sets(@, updated)]
        /\ msgs' = msgs \cup cast.votes
        /\ UNCHANGED <<preimage, view>>
    BY DEF UpdateAndVote, updated
  <1> HIDE DEF cast
  <1>7. PCsAreFrom({})
    <2>1. \A s \in Replicas : bt'[s].highest_pc \in KnownPCs /\ bt'[s].locked_pc \in KnownPCs
      BY <1>4, <1>6 DEF TypeOK, KnownPCs
    <2>2. \A h \in DOMAIN preimage' : preimage'[h].justify \in KnownPCs
      BY <1>6 DEF KnownPCs
    <2>3. QED
      BY <1>5, <1>6, <2>1, <2>2 DEF PCsAreFrom, Sources
  <1>8. \A s \in Replicas : PairHolds(collectors[s], view[s])
    BY DEF SignatureInv, CollectorsHoldSentVotes
  <1>9. ASSUME NEW s \in Replicas
        PROVE  \E pair, v : PairHolds(pair, v) /\ collectors'[s] = pair /\ view'[s] = v
    BY <1>6, <1>8, UpdateValidatorSetsHolds DEF TypeOK
  <1>10. QED
    BY <1>6, <1>7, <1>9, SignatureStep

\* Processing a collected or received certificate keeps the invariant.
LEMMA ProcessPCSignatures ==
  ASSUME TypeOK, SignatureInv, NEW r \in Replicas,
         NEW pair \in CollectorPairs, PairHolds(pair, view[r]),
         NEW certs \in SUBSET PhaseCertificates, \A pc \in certs : VotedFor(pc),
         ProcessPC(r, pair, certs)
  PROVE  SignatureInv'
  <1> DEFINE good == {pc \in certs : is_correct(pc, bt[r]) /\ safe_pc(pc, bt[r])}
             tree == IF good = {} THEN bt[r] ELSE update(CHOOSE pc \in good : TRUE, bt[r])
             next == IF good = {} THEN pair ELSE update_validator_sets(pair, tree)
  <1>1. tree.highest_pc \in Sources(certs) /\ tree.locked_pc \in Sources(certs)
    <2>1. bt[r].highest_pc \in Sources(certs) /\ bt[r].locked_pc \in Sources(certs)
      BY DEF KnownPCs, Sources
    <2>2. CASE good = {}
      BY <2>1, <2>2
    <2>3. CASE good # {}
      <3> DEFINE pc == CHOOSE c \in good : TRUE
      <3>1. pc \in PhaseCertificates /\ pc \in certs
        BY <2>3
      <3> HIDE DEF pc
      <3>2. /\ update(pc, bt[r]).highest_pc \in {pc, bt[r].highest_pc}
            /\ update(pc, bt[r]).locked_pc \in
                 {pc, bt[r].locked_pc} \cup {block_justify(h) : h \in Hashes}
        BY <3>1, UpdatePCs DEF TypeOK
      <3>3. {block_justify(h) : h \in Hashes} \subseteq Sources(certs)
        BY DEF block_justify, Hashes, KnownPCs, Sources
      <3>4. pc \in Sources(certs)
        BY <3>1 DEF Sources
      <3>5. tree = update(pc, bt[r])
        BY <2>3 DEF pc
      <3>6. QED
        BY <2>1, <3>2, <3>3, <3>4, <3>5
    <2>4. QED
      BY <2>2, <2>3
  <1> HIDE DEF tree
  <1>2. PairHolds(next, view[r])
    BY UpdateValidatorSetsHolds
  <1> HIDE DEF next
  <1>3. /\ bt' = [bt EXCEPT ![r] = tree]
        /\ collectors' = [collectors EXCEPT ![r] = next]
        /\ UNCHANGED <<preimage, view, proposed, msgs>>
    BY DEF ProcessPC, tree, next
  <1>4. PCsAreFrom(certs)
    <2>1. \A s \in Replicas : bt'[s].highest_pc \in Sources(certs) /\ bt'[s].locked_pc \in Sources(certs)
      BY <1>1, <1>3 DEF TypeOK, KnownPCs, Sources
    <2>2. \A h \in DOMAIN preimage' : preimage'[h].justify \in Sources(certs)
      BY <1>3 DEF KnownPCs, Sources
    <2>3. QED
      BY <1>3, <2>1, <2>2 DEF PCsAreFrom
  <1>5. \A s \in Replicas : PairHolds(collectors[s], view[s])
    BY DEF SignatureInv, CollectorsHoldSentVotes
  <1>6. ASSUME NEW s \in Replicas
        PROVE  \E p, v : PairHolds(p, v) /\ collectors'[s] = p /\ view'[s] = v
    BY <1>2, <1>3, <1>5 DEF TypeOK
  <1>7. QED
    BY <1>3, <1>4, <1>6, SignatureStep

\* A step that only changes `proposed` keeps the invariant.
LEMMA UnchangedSignatures ==
  ASSUME SignatureInv, UNCHANGED <<preimage, bt, view, collectors, msgs>>
  PROVE  SignatureInv'
  <1>1. KnownPCs' = KnownPCs
    BY DEF KnownPCs
  <1>2. \A pc : VotedFor(pc)' <=> VotedFor(pc)
    BY DEF VotedFor, VotersFor, PhaseVotes
  <1>3. CollectorsHoldSentVotes'
    BY DEF SignatureInv, CollectorsHoldSentVotes, PairHolds, Holds, VotersFor, PhaseVotes
  <1>4. QED
    BY <1>1, <1>2, <1>3 DEF SignatureInv

\* on_receive_msg keeps the invariant.
LEMMA OnReceiveMsgSignatures ==
  ASSUME TypeOK, SignatureInv, NEW r \in Replicas, NEW m \in msgs, OnReceiveMsg(r, m)
  PROVE  SignatureInv'
  <1>1. IsMessage(m) /\ bt[r] \in BlockTrees /\ collectors[r] \in CollectorPairs
    BY DEF TypeOK
  <1>2. PairHolds(collectors[r], view[r])
    BY DEF SignatureInv, CollectorsHoldSentVotes
  <1>3. CASE OnReceiveProposal(r, m)
    <2> DEFINE b == m.block
               pc == block_justify(b)
               tree == insert(b, bt[r])
               phase == IF data(b) \in UpdatingData THEN "Prepare" ELSE "Generic"
    <2>1. b \in Hashes
      BY <1>1, <1>3 DEF OnReceiveProposal, Receives, IsMessage
    <2>2. pc \in PhaseCertificates /\ tree \in BlockTrees
      BY <1>1, <2>1, BlockFields, InsertType DEF TypeOK
    <2>3. pc \in KnownPCs
      BY <2>1 DEF KnownPCs, block_justify, Hashes
    <2>4. tree.highest_pc = bt[r].highest_pc /\ tree.locked_pc = bt[r].locked_pc
      BY <1>1 DEF insert, BlockTrees
    <2>5. UpdateAndVote(r, m.from, update(pc, tree), pc, b, phase)
      BY <1>3 DEF OnReceiveProposal
    <2> HIDE DEF b, pc, tree, phase
    <2>6. QED
      BY <2>2, <2>3, <2>4, <2>5, UpdateAndVoteSignatures
  <1>4. CASE OnReceiveNudge(r, m)
    <2>1. m.justify \in PhaseCertificates /\ m.justify \in KnownPCs
      BY <1>1, <1>4 DEF OnReceiveNudge, Receives, IsMessage, KnownPCs
    <2>2. QED
      BY <1>1, <1>4, <2>1, UpdateAndVoteSignatures DEF OnReceiveNudge
  <1>5. CASE RejectProposal(r, m) \/ RejectNudge(r, m)
    <2>1. UNCHANGED <<preimage, bt, view, collectors, msgs>>
      BY <1>5 DEF RejectProposal, RejectNudge, Ignore
    <2>2. QED
      BY <2>1, UnchangedSignatures
  <1>6. CASE OnReceivePhaseVote(r, m)
    <2> DEFINE c == collect(collectors[r], m)
    <2>1. /\ m.from \in Replicas /\ m.view \in Nat /\ m.block \in Hashes /\ m.phase \in Phases
          /\ m.view = view[r]
          /\ m \in PhaseVotes
      BY <1>1, <1>6 DEF OnReceivePhaseVote, Receives, IsMessage, PhaseVotes
    <2>2. c.pair \in CollectorPairs /\ c.certs \in SUBSET PhaseCertificates
      BY <1>1, <2>1, CollectType
    <2>3. PairHolds(c.pair, view[r]) /\ \A pc \in c.certs : VotedFor(pc)
      BY <1>1, <1>2, <2>1, CollectHolds
    <2>4. ProcessPC(r, c.pair, c.certs)
      BY <1>6 DEF OnReceivePhaseVote
    <2> HIDE DEF c
    <2>5. QED
      BY <2>2, <2>3, <2>4, ProcessPCSignatures
  <1>7. CASE OnReceiveNewView(r, m)
    <2>1. {m.highest_pc} \in SUBSET PhaseCertificates
      BY <1>1, <1>7 DEF OnReceiveNewView, Receives, IsMessage
    <2>2. m.highest_pc \in KnownPCs
      BY <1>7 DEF OnReceiveNewView, Receives, KnownPCs
    <2>3. VotedFor(m.highest_pc)
      BY <2>2 DEF SignatureInv
    <2>4. QED
      BY <1>1, <1>2, <1>7, <2>1, <2>3, ProcessPCSignatures DEF OnReceiveNewView
  <1>8. QED
    BY <1>3, <1>4, <1>5, <1>6, <1>7 DEF OnReceiveMsg

\* What faulty replicas do keeps the invariant: they have no certificates of
\* their own.
LEMMA MisbehaveSignatures ==
  ASSUME TypeOK, SignatureInv, NEW r \in Replicas, Misbehave(r)
  PROVE  SignatureInv'
  <1>1. \A s \in Replicas : bt[s].highest_pc \in KnownPCs /\ bt[s].locked_pc \in KnownPCs
    BY DEF KnownPCs
  <1>2. \A h \in DOMAIN preimage : preimage[h].justify \in KnownPCs
    BY DEF KnownPCs
  <1>3. UNCHANGED <<bt, view, collectors>> /\ msgs \subseteq msgs'
    BY DEF Misbehave, Equivocate, DoubleVote
  <1>4. \A m \in msgs' \ msgs : m.type \in {"Proposal", "PhaseVote"}
    BY DEF Misbehave, Equivocate, DoubleVote, Proposal, PhaseVote
  <1>5. \A h \in DOMAIN preimage' : preimage'[h].justify \in KnownPCs \cup {genesis_pc}
    <2>1. CASE Equivocate(r)
      <3>1. PICK pc \in {genesis_pc, bt[r].highest_pc}, d \in Produces[r] : Hashed(new_block(pc, d))
        BY <2>1 DEF Equivocate
      <3>2. new_block(pc, d).justify \in KnownPCs \cup {genesis_pc}
        BY <1>1 DEF new_block
      <3>3. QED
        BY <3>1, <3>2, HashedJustify
    <2>2. CASE DoubleVote(r)
      BY <1>2, <2>2 DEF DoubleVote
    <2>3. QED
      BY <2>1, <2>2 DEF Misbehave
  <1>6. PCsAreFrom({})
    BY <1>1, <1>3, <1>4, <1>5 DEF PCsAreFrom, Sources
  <1>7. ASSUME NEW s \in Replicas
        PROVE  \E pair, v : PairHolds(pair, v) /\ collectors'[s] = pair /\ view'[s] = v
    BY <1>3 DEF SignatureInv, CollectorsHoldSentVotes
  <1>8. QED
    BY <1>3, <1>6, <1>7, SignatureStep

\* In every behaviour, certificates and collectors hold only votes that were
\* sent.
LEMMA SignaturesHeld == Spec => []SignatureInv
  <1>1. Init => SignatureInv
    <2> SUFFICES ASSUME Init PROVE SignatureInv
      OBVIOUS
    <2>1. KnownPCs \subseteq {genesis_pc}
      BY DEF Init, KnownPCs, initialize
    <2>2. \A pc \in KnownPCs : VotedFor(pc)
      BY <2>1, GenesisVotedFor
    <2>3. CollectorsHoldSentVotes
      BY DEF Init, CollectorsHoldSentVotes, PairHolds, Holds, new_pair, new_collector
    <2>4. QED
      BY <2>2, <2>3 DEF SignatureInv
  <1>2. TypeOK /\ SignatureInv /\ [Next]_vars => SignatureInv'
    <2> SUFFICES ASSUME TypeOK, SignatureInv, [Next]_vars PROVE SignatureInv'
      OBVIOUS
    <2>1. CASE Next
      BY <2>1, EnterViewSignatures, OnReceiveMsgSignatures, MisbehaveSignatures DEF Next
    <2>2. CASE UNCHANGED vars
      BY <2>2, UnchangedSignatures DEF vars
    <2>3. QED
      BY <2>1, <2>2
  <1>3. QED
    BY <1>1, <1>2, TypeCorrect, PTL DEF Spec

\* In every behaviour, and over all changes of the validator sets, no replica
\* holds, sends or builds on a certificate with a signature that no vote for
\* its view, block and phase backs.
THEOREM SignaturesAreOfVotes == Spec => []CertificatesAreVotedFor
  <1>1. SignatureInv => CertificatesAreVotedFor
    BY DEF SignatureInv, CertificatesAreVotedFor, VotedFor
  <1>2. QED
    BY <1>1, SignaturesHeld, PTL

FilledBelow(tree) ==
  \A p \in tree.block_at_height : p[1] <= highest_committed_block_height(tree)

\* The heights filled never exceed the highest committed height.
HeightsFilledBelow == \A r \in Replicas : FilledBelow(bt[r])

\* Two trees agree on what is committed.
SameCommits(tree, next) ==
  /\ next.block_at_height = tree.block_at_height
  /\ next.highest_committed_block = tree.highest_committed_block

-----------------------------------------------------------------------------
(* Trees.                                                                  *)

\* commit fills heights above those filled before, and keeps these.
LEMMA CommitFills ==
  ASSUME preimage \in Seq(BlockContents), NEW tree \in BlockTrees, FilledBelow(tree),
         NEW b \in Hashes, height(b) > highest_committed_block_height(tree)
  PROVE  /\ FilledBelow(commit(b, tree))
         /\ tree.block_at_height \subseteq commit(b, tree).block_at_height
  <1> DEFINE committing == uncommitted_blocks(b, tree)
             new  == commit(b, tree)
             top  == highest_committed_block_height(tree)
  <1>1. /\ new.block_at_height = {p \in tree.block_at_height : \A a \in committing : p[1] # height(a)}
                                 \cup {<<height(a), a>> : a \in committing}
        /\ new.highest_committed_block = b
    BY DEF commit, BlockTrees
  <1>2. \A a \in committing : height(a) \in Nat /\ top < height(a) /\ height(a) <= height(b)
    BY BlockFields, HighestCommittedHeight DEF uncommitted_blocks, BlockTrees, None
  <1>3. \A p \in tree.block_at_height : p[1] \in Nat /\ p[1] <= top
    BY DEF FilledBelow, BlockTrees
  <1>4. top \in Nat \cup {-1} /\ height(b) \in Nat
    BY HighestCommittedHeight, BlockFields DEF None
  <1>5. highest_committed_block_height(new) = height(b)
    BY <1>1, <1>4 DEF highest_committed_block_height, NoBlock, Hashes
  <1> HIDE DEF committing, new, top
  <1>6. tree.block_at_height \subseteq new.block_at_height
    BY <1>1, <1>2, <1>3, <1>4
  <1>7. \A p \in new.block_at_height : p[1] <= height(b)
    BY <1>1, <1>2, <1>3, <1>4 DEF top
  <1>8. QED
    BY <1>5, <1>6, <1>7 DEF FilledBelow, new

\* block_to_commit only returns blocks above the highest committed one.
LEMMA BlockToCommitIsHigher ==
  ASSUME preimage \in Seq(BlockContents), NEW tree \in BlockTrees,
         NEW justify \in PhaseCertificates, NEW b \in block_to_commit(justify, tree)
  PROVE  height(b) > highest_committed_block_height(tree)
  BY DEF block_to_commit

\* update keeps what is committed, and the invariant.
LEMMA UpdateFills ==
  ASSUME preimage \in Seq(BlockContents), NEW tree \in BlockTrees, FilledBelow(tree),
         NEW justify \in PhaseCertificates
  PROVE  /\ FilledBelow(update(justify, tree))
         /\ tree.block_at_height \subseteq update(justify, tree).block_at_height
  <1> DEFINE to_commit == block_to_commit(justify, tree)
             b == CHOOSE x \in to_commit : TRUE
             committed == IF to_commit = {} THEN tree ELSE commit(b, tree)
             to_lock == pc_to_lock(justify, tree)
             lock == IF to_lock = {} THEN committed.locked_pc ELSE CHOOSE pc \in to_lock : TRUE
             highest == IF justify.view > committed.highest_pc.view THEN justify
                        ELSE committed.highest_pc
             decided == committed.update_decided \/ justify.phase = "Decide"
             new == [committed EXCEPT !.highest_pc = highest, !.locked_pc = lock,
                                      !.update_decided = decided]
  <1>1. /\ committed \in BlockTrees
        /\ FilledBelow(committed)
        /\ tree.block_at_height \subseteq committed.block_at_height
    <2>1. CASE to_commit = {}
      BY <2>1
    <2>2. CASE to_commit # {}
      <3>1. b \in to_commit
        BY <2>2
      <3>2. b \in Hashes /\ height(b) > highest_committed_block_height(tree)
        BY <3>1, BlockToCommitType, BlockToCommitIsHigher
      <3> HIDE DEF b
      <3>3. QED
        BY <2>2, <3>2, CommitFills, CommitType
    <2>3. QED
      BY <2>1, <2>2
  <1>2. update(justify, tree) = new
    BY DEF update
  <1> HIDE DEF committed, lock, highest, decided
  <1>3. SameCommits(committed, new)
    BY <1>1 DEF SameCommits, BlockTrees
  <1> HIDE DEF new
  <1>4. QED
    BY <1>1, <1>2, <1>3 DEF SameCommits, FilledBelow, highest_committed_block_height

-----------------------------------------------------------------------------
(* Steps.                                                                  *)

\* Two trees differ at most in the views entered and voted in.
SameTree(tree, next) ==
  /\ next.blocks = tree.blocks
  /\ next.children = tree.children
  /\ next.pending_app_updates = tree.pending_app_updates
  /\ next.app_state = tree.app_state
  /\ next.pending_updates = tree.pending_updates
  /\ next.committed_updates = tree.committed_updates
  /\ next.block_at_height = tree.block_at_height
  /\ next.highest_committed_block = tree.highest_committed_block
  /\ next.locked_pc = tree.locked_pc
  /\ next.highest_pc = tree.highest_pc
  /\ next.cvs = tree.cvs
  /\ next.pvs = tree.pvs
  /\ next.update_height = tree.update_height

\* The trees that a handler updates by pc: the one it has, or that with a block
\* justified by pc inserted.
Bases(tree, pc) == {tree} \cup {insert(b, tree) : b \in {h \in Hashes : block_justify(h) = pc}}

\* The handler of m at r updates the tree by pc, and may vote.
Handles(r, m, pc, base) ==
  /\ pc \in PhaseCertificates
  /\ is_correct(pc, bt[r])
  /\ safe_pc(pc, bt[r])
  /\ IF m.type = "PhaseVote" THEN pc.view = view[r] /\ pc \in collect(collectors[r], m).certs
     ELSE pc = JustifyOf(m)
  /\ IF m.type = "Proposal" THEN m.block \in Hashes /\ base = insert(m.block, bt[r])
     ELSE base = bt[r]
  /\ m.view = view[r]
  /\ m.type = "Nudge" => is_nudge_justify(pc)
  /\ \A s \in Replicas \ {r} : bt'[s] = bt[s]
  /\ SameTree(update(pc, base), bt'[r])
  /\ preimage' = preimage /\ view' = view
  /\ msgs \subseteq msgs'
  /\ \A n \in msgs' \ msgs :
       /\ n.type = "PhaseVote" /\ n.from = r /\ n.view = view[r]
       /\ bt[r].highest_view_voted < view[r]
       /\ \/ m.type = "Proposal" /\ n.block = m.block
          \/ m.type = "Nudge"

\* Where a handler starts is a tree.
LEMMA BasesType ==
  ASSUME preimage \in Seq(BlockContents), NEW tree \in BlockTrees, NEW pc
  PROVE  Bases(tree, pc) \subseteq BlockTrees
  BY InsertType DEF Bases

\* A tree agrees with itself.
LEMMA SameTreeReflexive == ASSUME NEW tree PROVE SameTree(tree, tree)
  BY DEF SameTree

\* Recording the views entered and voted in leaves the rest of a tree.
LEMMA ViewsSameTree ==
  ASSUME NEW tree \in BlockTrees, NEW v
  PROVE  /\ SameTree(tree, [tree EXCEPT !.highest_view_entered = v])
         /\ SameTree(tree, [tree EXCEPT !.highest_view_voted = v])
  BY DEF SameTree, BlockTrees

\* Entering a view leaves the trees.
LEMMA EnterViewSameTree ==
  ASSUME TypeOK, NEW r \in Replicas, EnterView(r), NEW s \in Replicas
  PROVE  SameTree(bt[s], bt'[s])
  <1>1. PICK v, proposals : StartView(r, v, proposals)
    BY DEF EnterView, EnterViewFollower, EnterViewRepropose, EnterViewPropose, EnterViewNudge
  <1>2. bt[r] \in BlockTrees
    BY DEF TypeOK
  <1> DEFINE tree == [bt[r] EXCEPT !.highest_view_entered = v]
  <1>3. SameTree(bt[r], tree)
    BY <1>2, ViewsSameTree
  <1>4. bt' = [bt EXCEPT ![r] = tree]
    BY <1>1 DEF StartView
  <1> HIDE DEF tree
  <1>5. QED
    BY <1>3, <1>4 DEF SameTree, TypeOK

\* The tail of the handlers of proposals and nudges updates the tree by one
\* certificate, and sends at most one vote.
LEMMA UpdateAndVoteHandles ==
  ASSUME TypeOK, NEW r \in Replicas, NEW origin, NEW pc \in PhaseCertificates,
         NEW base \in BlockTrees, base.highest_view_voted = bt[r].highest_view_voted,
         NEW b, NEW phase, UpdateAndVote(r, origin, update(pc, base), pc, b, phase)
  PROVE  /\ \A s \in Replicas \ {r} : bt'[s] = bt[s]
         /\ SameTree(update(pc, base), bt'[r])
         /\ preimage' = preimage /\ view' = view
         /\ msgs \subseteq msgs'
         /\ \A n \in msgs' \ msgs :
              /\ n.type = "PhaseVote" /\ n.from = r /\ n.view = view[r] /\ n.block = b
              /\ bt[r].highest_view_voted < view[r]
  <1> DEFINE updated == update(pc, base)
             cast == CastVote(r, updated, pc, b, phase)
             vote == PhaseVote(r, phase_vote_recipient(view[r], phase, updated), view[r], b, phase)
  <1>1. updated \in BlockTrees /\ updated.highest_view_voted = bt[r].highest_view_voted
    BY UpdateType DEF TypeOK
  <1>2. /\ bt' = [bt EXCEPT ![r] = cast.tree]
        /\ msgs' = msgs \cup cast.votes
        /\ preimage' = preimage /\ view' = view
    BY DEF UpdateAndVote
  <1> HIDE DEF updated
  <1>3. \/ cast.tree = updated /\ cast.votes = {}
        \/ /\ cast.tree = [updated EXCEPT !.highest_view_voted = view[r]]
           /\ cast.votes = {vote}
           /\ updated.highest_view_voted < view[r]
    BY DEF CastVote
  <1>4. vote.type = "PhaseVote" /\ vote.from = r /\ vote.view = view[r] /\ vote.block = b
    BY DEF PhaseVote
  <1> HIDE DEF cast, vote
  <1>5. SameTree(updated, cast.tree)
    BY <1>1, <1>3, ViewsSameTree, SameTreeReflexive
  <1>6. bt'[r] = cast.tree /\ \A s \in Replicas \ {r} : bt'[s] = bt[s]
    BY <1>2 DEF TypeOK
  <1>7. QED
    BY <1>1, <1>2, <1>3, <1>4, <1>5, <1>6 DEF updated

\* A certificate that is collected is one of the view of the vote.
LEMMA CollectedView ==
  ASSUME NEW pair, NEW m, NEW pc \in collect(pair, m).certs
  PROVE  pc.view = m.view
  <1>1. ASSUME NEW col, NEW c \in collect_one(col, m).certs PROVE c.view = m.view
    BY <1>1 DEF collect_one
  <1>2. QED
    BY <1>1 DEF collect, collect_in

\* Processing a certificate updates the tree by it, or not at all.
LEMMA ProcessPCHandles ==
  ASSUME TypeOK, NEW r \in Replicas, NEW pair, NEW certs \in SUBSET PhaseCertificates,
         ProcessPC(r, pair, certs)
  PROVE  /\ preimage' = preimage /\ view' = view /\ msgs' = msgs
         /\ \/ bt' = bt
            \/ \E pc \in certs : /\ is_correct(pc, bt[r]) /\ safe_pc(pc, bt[r])
                                 /\ \A s \in Replicas \ {r} : bt'[s] = bt[s]
                                 /\ bt'[r] = update(pc, bt[r])
  <1> DEFINE good == {pc \in certs : is_correct(pc, bt[r]) /\ safe_pc(pc, bt[r])}
             pc == CHOOSE c \in good : TRUE
  <1>1. CASE good = {}
    <2>1. bt' = [bt EXCEPT ![r] = bt[r]]
      BY <1>1 DEF ProcessPC
    <2>2. bt' = bt
      BY <2>1 DEF TypeOK
    <2>3. QED
      BY <2>2 DEF ProcessPC
  <1>2. CASE good # {}
    <2>1. pc \in good
      BY <1>2
    <2>2. bt' = [bt EXCEPT ![r] = update(pc, bt[r])]
      BY <1>2 DEF ProcessPC
    <2> HIDE DEF pc
    <2>3. bt'[r] = update(pc, bt[r]) /\ \A s \in Replicas \ {r} : bt'[s] = bt[s]
      BY <2>2 DEF TypeOK
    <2>4. QED
      BY <2>1, <2>3 DEF ProcessPC
  <1>3. QED
    BY <1>1, <1>2

\* Every handler leaves the trees, or updates one by a certificate.
LEMMA OnReceiveMsgHandles ==
  ASSUME TypeOK, NEW r \in Replicas, NEW m \in msgs, OnReceiveMsg(r, m)
  PROVE  \/ UNCHANGED <<preimage, bt, view, msgs>>
         \/ \E pc, base : Handles(r, m, pc, base)
  <1>1. IsMessage(m) /\ bt[r] \in BlockTrees /\ preimage \in Seq(BlockContents)
    BY DEF TypeOK
  <1>2. CASE OnReceiveProposal(r, m)
    <2> DEFINE b == m.block
               pc == block_justify(b)
               base == insert(b, bt[r])
               phase == IF data(b) \in UpdatingData THEN "Prepare" ELSE "Generic"
    <2>1. b \in Hashes /\ m.type = "Proposal" /\ m.view = view[r]
      BY <1>1, <1>2 DEF OnReceiveProposal, Receives, IsMessage
    <2>2. /\ pc \in PhaseCertificates /\ base \in BlockTrees
          /\ base.highest_view_voted = bt[r].highest_view_voted
      BY <1>1, <2>1, BlockFields, InsertType
    <2>3. UpdateAndVote(r, m.from, update(pc, base), pc, b, phase)
      BY <1>2 DEF OnReceiveProposal
    <2>4. is_correct(pc, bt[r]) /\ safe_pc(pc, bt[r])
      BY <1>2 DEF OnReceiveProposal, ProposalAcceptable, safe_block
    <2>5. JustifyOf(m) = pc
      BY <2>1 DEF JustifyOf
    <2> HIDE DEF pc, base, phase
    <2>6. Handles(r, m, pc, base)
      BY <2>1, <2>2, <2>3, <2>4, <2>5, UpdateAndVoteHandles DEF Handles, base
    <2>7. QED
      BY <2>6
  <1>3. CASE OnReceiveNudge(r, m)
    <2>1. m.justify \in PhaseCertificates /\ m.type = "Nudge" /\ m.view = view[r]
      BY <1>1, <1>3 DEF OnReceiveNudge, Receives, IsMessage
    <2>2. /\ is_correct(m.justify, bt[r]) /\ safe_pc(m.justify, bt[r])
          /\ is_nudge_justify(m.justify)
      BY <1>3 DEF OnReceiveNudge, NudgeAcceptable, safe_nudge
    <2>3. UpdateAndVote(r, m.from, update(m.justify, bt[r]), m.justify,
                        m.justify.block, NextPhase(m.justify.phase))
      BY <1>3 DEF OnReceiveNudge
    <2>4. JustifyOf(m) = m.justify
      BY <2>1 DEF JustifyOf
    <2> DEFINE pc == m.justify
               base == bt[r]
               b == m.justify.block
               phase == NextPhase(m.justify.phase)
    <2>5. base \in BlockTrees /\ UpdateAndVote(r, m.from, update(pc, base), pc, b, phase)
      BY <1>1, <2>3
    <2> HIDE DEF pc, b, phase
    <2>6. /\ \A s \in Replicas \ {r} : bt'[s] = bt[s]
          /\ SameTree(update(pc, base), bt'[r])
          /\ preimage' = preimage /\ view' = view
          /\ msgs \subseteq msgs'
          /\ \A n \in msgs' \ msgs :
               /\ n.type = "PhaseVote" /\ n.from = r /\ n.view = view[r]
               /\ bt[r].highest_view_voted < view[r]
      BY <2>1, <2>5, UpdateAndVoteHandles DEF pc
    <2>7. m.type # "PhaseVote" /\ m.type # "Proposal"
      BY <2>1
    <2>8. Handles(r, m, m.justify, bt[r])
      BY <2>1, <2>2, <2>4, <2>6, <2>7, Zenon DEF Handles, pc, base
    <2>9. QED
      BY <2>8
  <1>4. CASE RejectProposal(r, m) \/ RejectNudge(r, m)
    BY <1>4 DEF RejectProposal, RejectNudge, Ignore
  <1>5. \A tree : SameTree(tree, tree)
    BY SameTreeReflexive
  <1>6. CASE OnReceivePhaseVote(r, m)
    <2> DEFINE c == collect(collectors[r], m)
    <2>1. /\ m.from \in Replicas /\ m.view \in Nat /\ m.block \in Hashes /\ m.phase \in Phases
          /\ m.type = "PhaseVote" /\ m.view = view[r]
      BY <1>1, <1>6 DEF OnReceivePhaseVote, Receives, IsMessage
    <2>2. collectors[r] \in CollectorPairs
      BY DEF TypeOK
    <2>3. c.certs \subseteq PhaseCertificates
      BY <2>1, <2>2, CollectType
    <2>4. ProcessPC(r, c.pair, c.certs)
      BY <1>6 DEF OnReceivePhaseVote
    <2>5. \A pc \in c.certs : pc.view = view[r]
      BY <2>1, CollectedView
    <2> HIDE DEF c
    <2>6. /\ preimage' = preimage /\ view' = view /\ msgs' = msgs
          /\ \/ bt' = bt
             \/ \E pc \in c.certs : /\ is_correct(pc, bt[r]) /\ safe_pc(pc, bt[r])
                                    /\ \A s \in Replicas \ {r} : bt'[s] = bt[s]
                                    /\ bt'[r] = update(pc, bt[r])
      BY <2>3, <2>4, ProcessPCHandles
    <2>7. QED
      BY <1>5, <2>1, <2>3, <2>5, <2>6 DEF Handles, c
  <1>7. CASE OnReceiveNewView(r, m)
    <2>1. m.highest_pc \in PhaseCertificates /\ m.type = "NewView" /\ m.view = view[r]
      BY <1>1, <1>7 DEF OnReceiveNewView, Receives, IsMessage
    <2>2. JustifyOf(m) = m.highest_pc
      BY <2>1 DEF JustifyOf
    <2>3. {m.highest_pc} \in SUBSET PhaseCertificates
      BY <2>1
    <2>4. /\ preimage' = preimage /\ view' = view /\ msgs' = msgs
          /\ \/ bt' = bt
             \/ \E pc \in {m.highest_pc} : /\ is_correct(pc, bt[r]) /\ safe_pc(pc, bt[r])
                                           /\ \A s \in Replicas \ {r} : bt'[s] = bt[s]
                                           /\ bt'[r] = update(pc, bt[r])
      BY <1>7, <2>3, ProcessPCHandles DEF OnReceiveNewView
    <2>5. QED
      BY <1>5, <2>1, <2>2, <2>4 DEF Handles
  <1>8. QED
    BY <1>2, <1>3, <1>4, <1>6, <1>7 DEF OnReceiveMsg

\* What a step does to the tree of a replica: nothing, or one update by a
\* certificate that is correct and safe.
TreeStep(s) ==
  \/ SameTree(bt[s], bt'[s])
  \/ \E pc \in PhaseCertificates : \E base \in Bases(bt[s], pc) :
       /\ safe_pc(pc, bt[s])
       /\ preimage' = preimage
       /\ SameTree(update(pc, base), bt'[s])

\* Every step does one of the two to every tree.
LEMMA NextTreeStep ==
  ASSUME TypeOK, [Next]_vars, NEW s \in Replicas
  PROVE  TreeStep(s)
  <1>1. CASE bt' = bt
    BY <1>1 DEF TreeStep, SameTree
  <1>2. ASSUME NEW r \in Replicas, EnterView(r) PROVE TreeStep(s)
    BY <1>2, EnterViewSameTree DEF TreeStep
  <1>3. ASSUME NEW r \in Replicas, NEW m \in msgs, OnReceiveMsg(r, m) PROVE TreeStep(s)
    <2>1. CASE UNCHANGED <<preimage, bt, view, msgs>>
      BY <1>1, <2>1
    <2>2. ASSUME NEW pc, NEW base, Handles(r, m, pc, base) PROVE TreeStep(s)
      <3>1. CASE s # r
        BY <2>2, <3>1 DEF Handles, TreeStep, SameTree
      <3>2. CASE s = r
        <4>1. m.type = "Proposal" => pc = block_justify(m.block)
          BY <2>2 DEF Handles, JustifyOf
        <4>2. base \in Bases(bt[r], pc)
          BY <2>2, <4>1 DEF Handles, Bases
        <4>3. QED
          BY <2>2, <3>2, <4>2 DEF Handles, TreeStep
      <3>3. QED
        BY <3>1, <3>2
    <2>3. QED
      BY <1>3, <2>1, <2>2, OnReceiveMsgHandles
  <1>4. ASSUME NEW r \in Replicas, Misbehave(r) PROVE TreeStep(s)
    BY <1>1, <1>4 DEF Misbehave, Equivocate, DoubleVote
  <1>5. QED
    BY <1>1, <1>2, <1>3, <1>4 DEF Next, vars

\* Every step makes the contents hashed grow.
LEMMA NextGrows ==
  ASSUME TypeOK, [Next]_vars
  PROVE  Grows
  <1>1. ASSUME UNCHANGED preimage PROVE Grows
    BY <1>1 DEF Grows, Hashes
  <1>2. ASSUME NEW content, Hashed(content) PROVE Grows
    <2>1. CASE preimage' = preimage
      BY <1>1, <2>1
    <2>2. CASE preimage' = Append(preimage, content)
      <3>1. DOMAIN preimage = 1 .. Len(preimage) /\ Len(preimage) \in Nat
        BY DEF TypeOK
      <3>2. QED
        BY <2>2, <3>1 DEF Grows, Hashes, TypeOK
    <2>3. QED
      BY <1>2, <2>1, <2>2 DEF Hashed
  <1>3. ASSUME NEW r \in Replicas, EnterView(r) PROVE Grows
    <2>1. UNCHANGED preimage \/ \E content : Hashed(content)
      BY <1>3 DEF EnterView, EnterViewFollower, EnterViewRepropose, EnterViewPropose, EnterViewNudge
    <2>2. QED
      BY <1>1, <1>2, <2>1
  <1>4. ASSUME NEW r \in Replicas, NEW m \in msgs, OnReceiveMsg(r, m) PROVE Grows
    <2>1. UNCHANGED preimage
      BY <1>4 DEF OnReceiveMsg, OnReceiveProposal, RejectProposal, OnReceiveNudge, RejectNudge,
                  OnReceivePhaseVote, OnReceiveNewView, UpdateAndVote, Ignore, ProcessPC
    <2>2. QED
      BY <1>1, <2>1
  <1>5. ASSUME NEW r \in Replicas, Misbehave(r) PROVE Grows
    <2>1. UNCHANGED preimage \/ \E content : Hashed(content)
      BY <1>5 DEF Misbehave, Equivocate, DoubleVote
    <2>2. QED
      BY <1>1, <1>2, <2>1
  <1>6. QED
    BY <1>1, <1>3, <1>4, <1>5 DEF Next, vars

\* A step keeps the invariant and every committed block.
LEMMA StepFills ==
  ASSUME TypeOK, HeightsFilledBelow, [Next]_vars, NEW r \in Replicas
  PROVE  /\ FilledBelow(bt[r])'
         /\ bt[r].block_at_height \subseteq bt'[r].block_at_height
  <1>1. bt[r] \in BlockTrees /\ FilledBelow(bt[r]) /\ preimage \in Seq(BlockContents)
    BY DEF TypeOK, HeightsFilledBelow
  <1>2. PICK tree \in BlockTrees :
          /\ FilledBelow(tree)
          /\ bt[r].block_at_height \subseteq tree.block_at_height
          /\ SameCommits(tree, bt'[r])
    <2>1. CASE SameTree(bt[r], bt'[r])
      BY <1>1, <2>1 DEF SameTree, SameCommits
    <2>2. ASSUME NEW pc \in PhaseCertificates, NEW base \in Bases(bt[r], pc),
                 SameTree(update(pc, base), bt'[r])
          PROVE  \E tree \in BlockTrees :
                   /\ FilledBelow(tree)
                   /\ bt[r].block_at_height \subseteq tree.block_at_height
                   /\ SameCommits(tree, bt'[r])
      <3>1. base \in BlockTrees
        BY <1>1, BasesType
      <3>2. SameCommits(bt[r], base)
        BY <1>1 DEF Bases, insert, SameCommits, BlockTrees
      <3>3. FilledBelow(base)
        BY <1>1, <3>2 DEF SameCommits, FilledBelow, highest_committed_block_height
      <3>4. /\ update(pc, base) \in BlockTrees
            /\ FilledBelow(update(pc, base))
            /\ base.block_at_height \subseteq update(pc, base).block_at_height
        BY <1>1, <3>1, <3>3, UpdateType, UpdateFills
      <3>5. QED
        BY <2>2, <3>2, <3>4 DEF SameTree, SameCommits
    <2>3. QED
      BY <2>1, <2>2, NextTreeStep DEF TreeStep
  <1>3. highest_committed_block_height(bt[r])' = highest_committed_block_height(tree)
    <2>1. tree.highest_committed_block \in Hashes \cup {NoBlock}
      BY DEF BlockTrees
    <2>2. QED
      BY <1>2, <2>1, NextGrows DEF highest_committed_block_height, SameCommits, height, Grows
  <1>4. QED
    BY <1>2, <1>3 DEF FilledBelow, SameCommits

\* In every behaviour, the heights filled are at most the highest committed.
THEOREM HeightsFilled == Spec => []HeightsFilledBelow
  <1>1. Init => HeightsFilledBelow
    BY DEF Init, HeightsFilledBelow, FilledBelow, initialize
  <1>2. TypeOK /\ HeightsFilledBelow /\ [Next]_vars => HeightsFilledBelow'
    BY StepFills DEF HeightsFilledBelow
  <1>3. QED
    BY <1>1, <1>2, TypeCorrect, PTL DEF Spec

\* A committed block stays committed, at its height, in every behaviour of any
\* network: also when locks move back, with any number of faulty replicas.
THEOREM CommitsStay == Spec => CommitsArePermanent
  <1>1. TypeOK /\ HeightsFilledBelow /\ [Next]_vars =>
          [\A r \in Replicas : bt[r].block_at_height \subseteq bt'[r].block_at_height]_vars
    BY StepFills
  <1>2. QED
    BY <1>1, TypeCorrect, HeightsFilled, PTL DEF Spec, CommitsArePermanent

-----------------------------------------------------------------------------
(* Blocks and their ancestors.  A block is made on a block that was made   *)
(* before, one height above it.                                            *)

parent(b) == block_justify(b).block

\* Every block is one higher than its parent, which was made before it.
BlocksOnParents ==
  \A b \in Hashes :
    IF is_genesis_pc(block_justify(b)) THEN height(b) = 0
    ELSE parent(b) < b /\ height(b) = height(parent(b)) + 1

\* Every step makes at most one block, by Block::new on a certificate.
LEMMA NextMakes ==
  ASSUME TypeOK, [Next]_vars
  PROVE  UNCHANGED preimage \/ \E pc \in PhaseCertificates : \E d : Hashed(new_block(pc, d))
  <1>1. \A r \in Replicas : {genesis_pc, bt[r].highest_pc} \subseteq PhaseCertificates
    BY GenesisType DEF TypeOK, BlockTrees
  <1>2. ASSUME NEW r \in Replicas, EnterView(r)
        PROVE  UNCHANGED preimage \/ \E pc \in PhaseCertificates : \E d : Hashed(new_block(pc, d))
    BY <1>1, <1>2
       DEF EnterView, EnterViewFollower, EnterViewRepropose, EnterViewPropose, EnterViewNudge
  <1>3. ASSUME NEW r \in Replicas, NEW m \in msgs, OnReceiveMsg(r, m) PROVE UNCHANGED preimage
    BY <1>3, OnReceiveMsgHandles DEF Handles
  <1>4. ASSUME NEW r \in Replicas, Misbehave(r)
        PROVE  UNCHANGED preimage \/ \E pc \in PhaseCertificates : \E d : Hashed(new_block(pc, d))
    BY <1>1, <1>4 DEF Misbehave, Equivocate, DoubleVote
  <1>5. QED
    BY <1>2, <1>3, <1>4 DEF Next, vars

\* Making a block keeps BlocksOnParents.
LEMMA BlocksOnParentsStep ==
  ASSUME TypeOK, BlocksOnParents, [Next]_vars
  PROVE  BlocksOnParents'
  <1>1. Grows
    BY NextGrows
  <1>2. \A b \in Hashes : /\ height(b)' = height(b)
                          /\ block_justify(b)' = block_justify(b)
    BY <1>1 DEF Grows, height, block_justify
  <1>3. preimage \in Seq(BlockContents) /\ Hashes = 1 .. Len(preimage)
    BY DEF TypeOK, Hashes
  <1>4. \A b \in Hashes : ~is_genesis_pc(block_justify(b)) => parent(b) \in Hashes
    BY <1>3, BlockFields, CertificateFields DEF parent
  <1> DEFINE Good(b) == IF is_genesis_pc(block_justify(b)) THEN height(b) = 0
                        ELSE parent(b) < b /\ height(b) = height(parent(b)) + 1
  <1>5. ASSUME NEW b \in Hashes PROVE Good(b)'
    BY <1>2, <1>4 DEF BlocksOnParents, parent
  <1>6. CASE Hashes' = Hashes
    BY <1>5, <1>6 DEF BlocksOnParents
  <1>7. ASSUME NEW pc \in PhaseCertificates, NEW d,
               preimage' = Append(preimage, new_block(pc, d))
        PROVE  BlocksOnParents'
    <2>0. PICK n \in Nat : n = Len(preimage) + 1
      BY <1>3
    <2>1. Hashes' = Hashes \cup {n}
      BY <1>3, <1>7, <2>0 DEF Hashes
    <2>2. preimage'[n] = new_block(pc, d)
      BY <1>3, <1>7, <2>0
    <2>3. height(n)' = (IF is_genesis_pc(pc) THEN 0 ELSE height(pc.block) + 1)
          /\ block_justify(n)' = pc
      BY <2>2 DEF height, block_justify, new_block
    <2>4. ~is_genesis_pc(pc) => pc.block \in Hashes /\ height(pc.block)' = height(pc.block)
      BY <1>2, CertificateFields
    <2>5. Good(n)'
      BY <1>3, <2>0, <2>3, <2>4 DEF parent
    <2> HIDE DEF Good
    <2>6. \A b \in Hashes' : Good(b)'
      BY <1>5, <2>1, <2>5
    <2>7. QED
      BY <2>6 DEF BlocksOnParents, Good
  <1>8. QED
    BY <1>6, <1>7, NextMakes DEF Hashed, Hashes

\* In every behaviour, every block is one higher than its parent.
THEOREM HeightsFollowParents == Spec => []BlocksOnParents
  <1>1. Init => BlocksOnParents
    BY DEF Init, BlocksOnParents, Hashes
  <1>2. QED
    BY <1>1, BlocksOnParentsStep, TypeCorrect, PTL DEF Spec

\* A walk from parent to parent ends: the recursion of `ancestry` has a
\* solution.
LEMMA WalkExists ==
  ASSUME NEW n \in Nat, NEW above \in [1 .. n -> Nat], \A b \in 1 .. n : above[b] < b
  PROVE  \E f : f = [b \in 0 .. n |-> IF b = 0 THEN {} ELSE {b} \cup f[above[b]]]
  <1> DEFINE Walk(f, k) == f = [b \in 0 .. k |-> IF b = 0 THEN {} ELSE {b} \cup f[above[b]]]
             Bad == {k \in 0 .. n : ~ \E f : Walk(f, k)}
  <1>1. SUFFICES ASSUME Bad # {} PROVE FALSE
    <2>1. n \notin Bad => \E f : Walk(f, n)
      OBVIOUS
    <2>2. QED
      BY <1>1, <2>1
  <1>2. PICK k \in Bad : \A j \in Bad : k <= j
    <2>1. Bad \subseteq Nat
      OBVIOUS
    <2> HIDE DEF Bad
    <2>2. QED
      BY <1>1, <2>1, Minimum
  <1>3. CASE k = 0
    <2> DEFINE f == [b \in 0 .. 0 |-> {}]
    <2>1. Walk(f, 0)
      OBVIOUS
    <2>2. QED
      BY <1>3, <2>1
  <1>4. CASE k # 0
    <2>1. k \in 1 .. n /\ k - 1 \in 0 .. n /\ k - 1 \notin Bad
      <3>1. k \in 0 .. n
        OBVIOUS
      <3> HIDE DEF Bad
      <3>2. QED
        BY <1>2, <1>4, <3>1
    <2>2. PICK g : Walk(g, k - 1)
      BY <2>1
    <2> DEFINE f == [b \in 0 .. k |-> IF b = k THEN {k} \cup g[above[k]] ELSE g[b]]
    <2>3. \A b \in 0 .. k - 1 : f[b] = g[b]
      BY <2>1
    <2>4. ASSUME NEW b \in 0 .. k
          PROVE  f[b] = IF b = 0 THEN {} ELSE {b} \cup f[above[b]]
      <3>1. b # 0 => above[b] \in 0 .. k - 1
        BY <2>1
      <3>2. CASE b = k
        BY <1>4, <2>3, <3>1, <3>2
      <3>3. CASE b # k
        <4>1. b \in 0 .. k - 1
          BY <2>1, <3>3
        <4>2. g[b] = IF b = 0 THEN {} ELSE {b} \cup g[above[b]]
          BY <2>2, <4>1
        <4>3. QED
          BY <2>3, <3>1, <4>1, <4>2
      <3>4. QED
        BY <3>2, <3>3
    <2>5. Walk(f, k)
      BY <2>4
    <2>6. QED
      BY <2>5
  <1>5. QED
    BY <1>3, <1>4

\* What `ancestry` is: nothing for genesis, and for a block the block and the
\* ancestry of its parent.
AncestryIsWalk ==
  /\ ancestry[Genesis] = {}
  /\ \A b \in Hashes : ancestry[b] = {b} \cup ancestry[parent(b)]

\* `ancestry` is what its definition says.
LEMMA AncestryWalks == TypeOK /\ BlocksOnParents => AncestryIsWalk
  <1> SUFFICES ASSUME TypeOK, BlocksOnParents PROVE AncestryIsWalk
    OBVIOUS
  <1> DEFINE n == Len(preimage)
             above == [b \in 1 .. n |-> parent(b)]
  <1>1. n \in Nat /\ Hashes = 1 .. n /\ preimage \in Seq(BlockContents)
    BY DEF TypeOK, Hashes
  <1>2. \A b \in 1 .. n : parent(b) \in Nat /\ parent(b) < b
    <2>1. SUFFICES ASSUME NEW b \in Hashes PROVE parent(b) \in Nat /\ parent(b) < b
      BY <1>1
    <2>2. block_justify(b) \in PhaseCertificates
      BY <1>1, BlockFields
    <2>3. parent(b) \in Hashes \cup {Genesis}
      BY <2>2, CertificateFields DEF parent
    <2>4. is_genesis_pc(block_justify(b)) => parent(b) = Genesis
      BY DEF parent, is_genesis_pc, genesis_pc
    <2>5. QED
      BY <1>1, <2>3, <2>4 DEF BlocksOnParents, Genesis
  <1>3. above \in [1 .. n -> Nat] /\ \A b \in 1 .. n : above[b] < b
    BY <1>2
  <1>4. PICK f : f = [b \in 0 .. n |-> IF b = 0 THEN {} ELSE {b} \cup f[above[b]]]
    <2> HIDE DEF n, above
    <2>1. QED
      BY <1>1, <1>3, WalkExists
  <1>5. f = [b \in 0 .. n |-> IF b = 0 THEN {} ELSE {b} \cup f[parent(b)]]
    <2>1. \A b \in 0 .. n : b # 0 => above[b] = parent(b)
      BY <1>1
    <2> HIDE DEF n, above
    <2>2. QED
      BY <1>4, <2>1
  <1>6. ancestry = [b \in 0 .. n |-> IF b = 0 THEN {} ELSE {b} \cup ancestry[parent(b)]]
    BY <1>5 DEF ancestry, Genesis, parent
  <1> HIDE DEF n
  <1>7. 0 \in 0 .. n /\ \A b \in Hashes : b \in 0 .. n /\ b # 0
    BY <1>1
  <1>8. ASSUME NEW g, g = [b \in 0 .. n |-> IF b = 0 THEN {} ELSE {b} \cup g[parent(b)]]
        PROVE  g[0] = {} /\ \A b \in Hashes : g[b] = {b} \cup g[parent(b)]
    BY <1>7, <1>8
  <1>9. QED
    BY <1>6, <1>8 DEF AncestryIsWalk, Genesis

\* Where the parent of a block is.
LEMMA ParentFacts ==
  ASSUME TypeOK, BlocksOnParents, NEW b \in Hashes
  PROVE  /\ b \in Nat /\ b # Genesis /\ height(b) \in Nat
         /\ parent(b) \in Hashes \cup {Genesis}
         /\ parent(b) \in Nat /\ parent(b) < b
         /\ parent(b) = Genesis <=> is_genesis_pc(block_justify(b))
         /\ parent(b) \in Hashes => height(b) = height(parent(b)) + 1
         /\ parent(b) = Genesis => height(b) = 0
  <1>1. Hashes = 1 .. Len(preimage) /\ Len(preimage) \in Nat /\ preimage \in Seq(BlockContents)
    BY DEF TypeOK, Hashes
  <1>2. block_justify(b) \in PhaseCertificates /\ height(b) \in Nat
    BY <1>1, BlockFields
  <1>3. parent(b) \in Hashes \cup {Genesis} /\ (~is_genesis_pc(block_justify(b)) => parent(b) \in Hashes)
    BY <1>2, CertificateFields DEF parent
  <1>4. is_genesis_pc(block_justify(b)) => parent(b) = Genesis
    BY DEF parent, is_genesis_pc, genesis_pc
  <1>5. QED
    BY <1>1, <1>2, <1>3, <1>4 DEF BlocksOnParents, Genesis

\* A fact about blocks holds if it holds for a block whenever it holds for all
\* blocks made before.
LEMMA BlockInduction ==
  ASSUME TypeOK, NEW T \in SUBSET Hashes,
         \A b \in Hashes : (\A a \in Hashes : a < b => a \in T) => b \in T
  PROVE  T = Hashes
  <1>1. Hashes \subseteq Nat
    BY DEF TypeOK, Hashes
  <1>2. SUFFICES ASSUME Hashes \ T # {} PROVE FALSE
    OBVIOUS
  <1>3. PICK b \in Hashes \ T : \A a \in Hashes \ T : b <= a
    BY <1>1, <1>2, Minimum
  <1>4. \A a \in Hashes : a < b => a \in T
    BY <1>1, <1>3
  <1>5. QED
    BY <1>3, <1>4

\* The ancestors of a block are lower than the block.
LEMMA AncestryLower ==
  ASSUME TypeOK, BlocksOnParents, NEW b \in Hashes, NEW a \in ancestry[b]
  PROVE  a \in Hashes /\ (a = b \/ (a < b /\ height(a) < height(b)))
  <1> DEFINE Lower(c, d) == c \in Hashes /\ (c = d \/ (c < d /\ height(c) < height(d)))
             T == {d \in Hashes : \A c \in ancestry[d] : Lower(c, d)}
  <1>1. AncestryIsWalk
    BY AncestryWalks
  <1>2. ASSUME NEW d \in Hashes, \A c \in Hashes : c < d => c \in T
        PROVE  d \in T
    <2>1. ancestry[d] = {d} \cup ancestry[parent(d)]
      BY <1>1 DEF AncestryIsWalk
    <2>2. CASE parent(d) = Genesis
      <3>1. ancestry[d] = {d}
        BY <1>1, <2>1, <2>2 DEF AncestryIsWalk
      <3>2. QED
        BY <3>1
    <2>3. CASE parent(d) \in Hashes
      <3>1. parent(d) \in T /\ parent(d) < d /\ height(parent(d)) < height(d)
        BY <1>2, <2>3, ParentFacts
      <3>2. ASSUME NEW c \in ancestry[parent(d)] PROVE Lower(c, d)
        <4>1. Lower(c, parent(d))
          BY <3>1
        <4>2. c \in Nat /\ d \in Nat /\ parent(d) \in Nat
              /\ height(c) \in Nat /\ height(d) \in Nat /\ height(parent(d)) \in Nat
          BY <2>3, <4>1, ParentFacts
        <4>3. QED
          BY <3>1, <4>1, <4>2
      <3>3. QED
        BY <2>1, <3>2
    <2>4. QED
      BY <2>2, <2>3, ParentFacts
  <1>3. T = Hashes
    <2> HIDE DEF T
    <2>1. T \in SUBSET Hashes
      BY DEF T
    <2>2. QED
      BY <1>2, <2>1, BlockInduction
  <1>4. QED
    BY <1>3

\* Every block is its own ancestor.
LEMMA AncestrySelf ==
  ASSUME TypeOK, BlocksOnParents, NEW b \in Hashes
  PROVE  b \in ancestry[b]
  BY AncestryWalks DEF AncestryIsWalk

\* An ancestor of an ancestor is an ancestor.
LEMMA AncestryTransitive ==
  ASSUME TypeOK, BlocksOnParents, NEW c \in Hashes, NEW b \in ancestry[c], NEW a \in ancestry[b]
  PROVE  a \in ancestry[c]
  <1> DEFINE T == {d \in Hashes : \A e \in ancestry[d] : ancestry[e] \subseteq ancestry[d]}
  <1>1. AncestryIsWalk
    BY AncestryWalks
  <1>2. ASSUME NEW d \in Hashes, \A e \in Hashes : e < d => e \in T
        PROVE  d \in T
    <2>1. ancestry[d] = {d} \cup ancestry[parent(d)]
      BY <1>1 DEF AncestryIsWalk
    <2>2. CASE parent(d) = Genesis
      BY <1>1, <2>1, <2>2 DEF AncestryIsWalk
    <2>3. CASE parent(d) \in Hashes
      <3>1. parent(d) \in T
        BY <1>2, <2>3, ParentFacts
      <3>2. QED
        BY <2>1, <3>1
    <2>4. QED
      BY <2>2, <2>3, ParentFacts
  <1>3. T = Hashes
    <2> HIDE DEF T
    <2>1. T \in SUBSET Hashes
      BY DEF T
    <2>2. QED
      BY <1>2, <2>1, BlockInduction
  <1>4. QED
    BY <1>3

\* A block has at most one ancestor of a height.
LEMMA AncestorAtHeight ==
  ASSUME TypeOK, BlocksOnParents, NEW b \in Hashes,
         NEW x \in ancestry[b], NEW y \in ancestry[b], height(x) = height(y)
  PROVE  x = y
  <1> DEFINE T == {d \in Hashes : \A c, e \in ancestry[d] : height(c) = height(e) => c = e}
  <1>1. AncestryIsWalk
    BY AncestryWalks
  <1>2. ASSUME NEW d \in Hashes, \A e \in Hashes : e < d => e \in T
        PROVE  d \in T
    <2>1. ancestry[d] = {d} \cup ancestry[parent(d)]
      BY <1>1 DEF AncestryIsWalk
    <2>2. CASE parent(d) = Genesis
      BY <1>1, <2>1, <2>2 DEF AncestryIsWalk
    <2>3. CASE parent(d) \in Hashes
      <3>1. parent(d) \in T
        BY <1>2, <2>3, ParentFacts
      <3>2. ASSUME NEW c \in ancestry[parent(d)] PROVE height(c) # height(d)
        <4>1. c \in Hashes /\ (c = parent(d) \/ height(c) < height(parent(d)))
          BY <2>3, AncestryLower
        <4>2. /\ height(c) \in Nat /\ height(d) \in Nat /\ height(parent(d)) \in Nat
              /\ height(d) = height(parent(d)) + 1
          BY <2>3, <4>1, ParentFacts
        <4>3. QED
          BY <4>1, <4>2
      <3>3. QED
        BY <2>1, <3>1, <3>2
    <2>4. QED
      BY <2>2, <2>3, ParentFacts
  <1>3. T = Hashes
    <2> HIDE DEF T
    <2>1. T \in SUBSET Hashes
      BY DEF T
    <2>2. QED
      BY <1>2, <2>1, BlockInduction
  <1>4. QED
    BY <1>3

\* The ancestry of a block never changes.
LEMMA AncestryStays ==
  ASSUME TypeOK, BlocksOnParents, AncestryIsWalk', Grows, NEW b \in Hashes
  PROVE  ancestry'[b] = ancestry[b]
  <1> DEFINE T == {d \in Hashes : ancestry'[d] = ancestry[d]}
  <1>1. AncestryIsWalk
    BY AncestryWalks
  <1>2. \A d \in Hashes : d \in Hashes' /\ parent(d)' = parent(d)
    BY DEF Grows, parent, block_justify
  <1>3. ASSUME NEW d \in Hashes, \A e \in Hashes : e < d => e \in T
        PROVE  d \in T
    <2>1. ancestry[d] = {d} \cup ancestry[parent(d)] /\ ancestry'[d] = {d} \cup ancestry'[parent(d)]
      BY <1>1, <1>2 DEF AncestryIsWalk
    <2>2. CASE parent(d) = Genesis
      BY <1>1, <2>1, <2>2 DEF AncestryIsWalk
    <2>3. CASE parent(d) \in Hashes
      <3>1. parent(d) \in T
        BY <1>3, <2>3, ParentFacts
      <3>2. QED
        BY <2>1, <3>1
    <2>4. QED
      BY <2>2, <2>3, ParentFacts
  <1>4. T = Hashes
    <2> HIDE DEF T
    <2>1. T \in SUBSET Hashes
      BY DEF T
    <2>2. QED
      BY <1>3, <2>1, BlockInduction
  <1>5. QED
    BY <1>4

\* The ancestors of the blocks there were are the same after a step.
LEMMA StepAncestry ==
  TypeOK /\ VoteInv /\ BlocksOnParents /\ [Next]_vars =>
    /\ Grows
    /\ AncestryIsWalk'
    /\ \A b \in Hashes : ancestry'[b] = ancestry[b]
  <1>1. TypeOK /\ VoteInv /\ BlocksOnParents /\ [Next]_vars => TypeOK' /\ BlocksOnParents'
    BY NextInv, BlocksOnParentsStep
  <1>2. TypeOK' /\ BlocksOnParents' => AncestryIsWalk'
    BY AncestryWalks, PTL
  <1>3. QED
    BY <1>1, <1>2, NextGrows, AncestryStays

-----------------------------------------------------------------------------
(* Branches.  blocks_in_branch is a fixed point: a branch holds all        *)
(* descendants of its root.                                                *)

\* The steps of blocks_in_branch.
BranchStep(S, tree) == S \cup UNION {children(b, tree) : b \in S}

IsBranch(f, root, tree) ==
  f = [n \in Nat |-> IF n = 0 THEN {root} ELSE BranchStep(f[n - 1], tree)]

\* The recursion of blocks_in_branch has a solution: the ends of the paths of
\* at most n edges.
LEMMA BranchExists ==
  ASSUME NEW root, NEW tree
  PROVE  \E f : IsBranch(f, root, tree)
  <1> DEFINE U == {root} \cup {e[2] : e \in tree.children}
             IsPath(p, k) == /\ p \in [0 .. k -> U] /\ p[0] = root
                             /\ \A i \in 1 .. k : p[i] \in children(p[i - 1], tree)
             Ends(k) == {x \in U : \E p : IsPath(p, k) /\ p[k] = x}
             f == [n \in Nat |-> {x \in U : \E k \in 0 .. n : x \in Ends(k)}]
  <1>1. Ends(0) = {root}
    <2> DEFINE p == [i \in 0 .. 0 |-> root]
    <2>1. IsPath(p, 0) /\ p[0] = root
      OBVIOUS
    <2>2. root \in Ends(0)
      BY <2>1
    <2>3. QED
      BY <2>2
  <1>2. ASSUME NEW k \in Nat, NEW x \in Ends(k), NEW y \in children(x, tree)
        PROVE  y \in Ends(k + 1)
    <2>1. PICK p : IsPath(p, k) /\ p[k] = x
      OBVIOUS
    <2>2. y \in U
      BY DEF children
    <2> DEFINE q == [i \in 0 .. k + 1 |-> IF i = k + 1 THEN y ELSE p[i]]
    <2>3. q \in [0 .. k + 1 -> U] /\ q[0] = root /\ q[k + 1] = y
      BY <2>1, <2>2
    <2>4. ASSUME NEW i \in 1 .. k + 1 PROVE q[i] \in children(q[i - 1], tree)
      <3>1. CASE i = k + 1
        BY <2>1, <3>1
      <3>2. CASE i # k + 1
        <4>1. i \in 1 .. k /\ i - 1 \in 0 .. k + 1 /\ i - 1 # k + 1
          BY <3>2
        <4>2. QED
          BY <2>1, <4>1
      <3>3. QED
        BY <3>1, <3>2
    <2>5. IsPath(q, k + 1)
      BY <2>3, <2>4
    <2>6. QED
      BY <2>2, <2>3, <2>5
  <1>3. ASSUME NEW k \in Nat, NEW y \in Ends(k + 1)
        PROVE  \E x \in Ends(k) : y \in children(x, tree)
    <2>1. PICK p : IsPath(p, k + 1) /\ p[k + 1] = y
      OBVIOUS
    <2> DEFINE q == [i \in 0 .. k |-> p[i]]
    <2>2. IsPath(q, k) /\ q[k] = p[k]
      BY <2>1
    <2>3. p[k] \in Ends(k)
      <3>1. p[k] \in U
        BY <2>1
      <3> HIDE DEF IsPath, U, q
      <3>2. QED
        BY <2>2, <3>1
    <2>4. p[k + 1] \in children(p[k], tree)
      BY <2>1
    <2>5. QED
      BY <2>1, <2>3, <2>4
  <1> HIDE DEF Ends
  <1>4. ASSUME NEW n \in Nat
        PROVE  f[n] = IF n = 0 THEN {root} ELSE BranchStep(f[n - 1], tree)
    <2>1. CASE n = 0
      <3>1. root \in U /\ 0 .. 0 = {0}
        OBVIOUS
      <3>2. f[0] = {x \in U : x \in Ends(0)}
        BY <3>1
      <3>3. QED
        BY <1>1, <2>1, <3>1, <3>2
    <2>2. CASE n # 0
      <3>1. n - 1 \in Nat /\ 0 .. n = (0 .. n - 1) \cup {n}
        BY <2>2
      <3>2. f[n] \subseteq BranchStep(f[n - 1], tree)
        <4>1. ASSUME NEW y \in f[n] PROVE y \in BranchStep(f[n - 1], tree)
          <5>1. PICK k \in 0 .. n : y \in Ends(k)
            OBVIOUS
          <5>2. CASE k \in 0 .. n - 1
            BY <3>1, <5>1, <5>2 DEF BranchStep
          <5>3. CASE k = n
            <6>1. PICK x \in Ends(n - 1) : y \in children(x, tree)
              <7>1. (n - 1) + 1 = n
                OBVIOUS
              <7>2. QED
                BY <1>3, <3>1, <5>1, <5>3, <7>1
            <6>2. x \in f[n - 1]
              <7>1. x \in U
                BY DEF Ends
              <7>2. n - 1 \in 0 .. n - 1
                BY <3>1
              <7>3. QED
                BY <3>1, <7>1, <7>2
            <6>3. QED
              BY <6>1, <6>2 DEF BranchStep
          <5>4. QED
            BY <3>1, <5>2, <5>3
        <4>2. QED
          BY <4>1
      <3>3. BranchStep(f[n - 1], tree) \subseteq f[n]
        <4>1. ASSUME NEW x \in f[n - 1] PROVE x \in f[n] /\ children(x, tree) \subseteq f[n]
          <5>1. PICK k \in 0 .. n - 1 : x \in Ends(k)
            BY <3>1
          <5>2. k \in Nat /\ k \in 0 .. n /\ k + 1 \in 0 .. n
            BY <3>1
          <5>3. \A y \in children(x, tree) : y \in Ends(k + 1)
            BY <1>2, <5>1, <5>2
          <5>4. Ends(k + 1) \subseteq U
            BY DEF Ends
          <5>5. QED
            BY <5>1, <5>2, <5>3, <5>4
        <4> HIDE DEF f
        <4>2. QED
          BY <4>1 DEF BranchStep
      <3>4. QED
        BY <2>2, <3>2, <3>3
    <2>3. QED
      BY <2>1, <2>2
  <1>5. IsBranch(f, root, tree)
    BY <1>4 DEF IsBranch
  <1>6. QED
    BY <1>5

\* What blocks_in_branch is.
LEMMA BranchIsLimit ==
  ASSUME NEW root, NEW tree
  PROVE  \E f : IsBranch(f, root, tree) /\ blocks_in_branch(root, tree) = f[Cardinality(tree.children)]
  <1> DEFINE f == CHOOSE g : IsBranch(g, root, tree)
  <1>1. IsBranch(f, root, tree)
    BY BranchExists
  <1>2. f = CHOOSE g : g = [n \in Nat |-> IF n = 0 THEN {root} ELSE g[n - 1] \cup UNION {children(b, tree) : b \in g[n - 1]}]
    BY Zenon DEF IsBranch, BranchStep
  <1>3. blocks_in_branch(root, tree) = f[Cardinality(tree.children)]
    BY <1>2, Zenon DEF blocks_in_branch
  <1>4. QED
    BY <1>1, <1>3

\* Every step of blocks_in_branch stays in a set that holds the root and the
\* children of its members.
LEMMA BranchWithin ==
  ASSUME NEW root, NEW tree, NEW f, IsBranch(f, root, tree),
         NEW T, root \in T, \A x \in T : children(x, tree) \subseteq T
  PROVE  \A n \in Nat : f[n] \subseteq T
  <1> DEFINE Bad == {n \in Nat : ~(f[n] \subseteq T)}
  <1>1. SUFFICES ASSUME Bad # {} PROVE FALSE
    OBVIOUS
  <1>2. PICK n \in Bad : \A k \in Bad : n <= k
    <2>1. Bad \subseteq Nat
      OBVIOUS
    <2> HIDE DEF Bad
    <2>2. QED
      BY <1>1, <2>1, Minimum
  <1>3. f[n] = IF n = 0 THEN {root} ELSE BranchStep(f[n - 1], tree)
    BY DEF IsBranch
  <1>4. n # 0
    BY <1>3
  <1>5. n - 1 \in Nat /\ n - 1 \notin Bad
    <2>1. n \in Nat
      OBVIOUS
    <2> HIDE DEF Bad
    <2>2. QED
      BY <1>2, <1>4, <2>1
  <1>6. f[n - 1] \subseteq T
    BY <1>5
  <1>7. BranchStep(f[n - 1], tree) \subseteq T
    BY <1>6 DEF BranchStep
  <1>8. QED
    BY <1>3, <1>4, <1>7

\* blocks_in_branch returns the root and its descendants, all of them: it walks
\* as many levels as there are edges, and every level before the last adds a
\* block.
LEMMA BranchClosed ==
  ASSUME NEW root, NEW tree, IsFiniteSet(tree.children)
  PROVE  /\ root \in blocks_in_branch(root, tree)
         /\ \A x \in blocks_in_branch(root, tree) :
              children(x, tree) \subseteq blocks_in_branch(root, tree)
         /\ \A T : root \in T /\ (\A x \in T : children(x, tree) \subseteq T)
                     => blocks_in_branch(root, tree) \subseteq T
  <1> DEFINE N == Cardinality(tree.children)
             targets == {e[2] : e \in tree.children}
             U == targets \cup {root}
             Closed(S) == \A x \in S : children(x, tree) \subseteq S
  <1>1. PICK f : IsBranch(f, root, tree) /\ blocks_in_branch(root, tree) = f[N]
    BY BranchIsLimit
  <1>2. N \in Nat
    BY FS_CardinalityType
  <1>3. IsFiniteSet(U) /\ Cardinality(U) <= N + 1
    <2> DEFINE g == [e \in tree.children |-> e[2]]
    <2>1. g \in Surjection(tree.children, targets)
      BY DEF Surjection
    <2>2. IsFiniteSet(targets) /\ Cardinality(targets) <= N
      BY <2>1, FS_Surjection
    <2> HIDE DEF targets, N
    <2>3. Cardinality(targets) \in Nat
      BY <2>2, FS_CardinalityType
    <2>4. IsFiniteSet(U) /\ Cardinality(U) <= Cardinality(targets) + 1
      <3>1. /\ IsFiniteSet(targets \cup {root})
            /\ Cardinality(targets \cup {root}) =
                 IF root \in targets THEN Cardinality(targets) ELSE Cardinality(targets) + 1
        BY <2>2, FS_AddElement
      <3>2. QED
        BY <2>3, <3>1
    <2> HIDE DEF U
    <2>5. Cardinality(U) \in Nat
      BY <2>4, FS_CardinalityType
    <2>6. QED
      BY <1>2, <2>2, <2>3, <2>4, <2>5
  <1>4. \A x : children(x, tree) \subseteq U
    BY DEF children
  <1>5. \A n \in Nat : f[n] \in SUBSET U
    <2>1. root \in U /\ \A x \in U : children(x, tree) \subseteq U
      BY <1>4
    <2> HIDE DEF U
    <2>2. QED
      BY <1>1, <2>1, BranchWithin
  <1> HIDE DEF U, N
  <1>6. \A n \in Nat : f[n] = IF n = 0 THEN {root} ELSE BranchStep(f[n - 1], tree)
    BY <1>1 DEF IsBranch
  <1>7. \A n \in Nat : IsFiniteSet(f[n]) /\ Cardinality(f[n]) \in Nat
    BY <1>3, <1>5, FS_Subset, FS_CardinalityType
  <1> DEFINE Good(n) == root \in f[n] /\ (Closed(f[n]) \/ Cardinality(f[n]) >= n + 1)
             Bad == {n \in Nat : ~Good(n)}
  <1>8. Good(0)
    <2>1. f[0] = {root}
      BY <1>6
    <2>2. Cardinality({root}) = 1
      BY FS_Singleton
    <2>3. QED
      BY <2>1, <2>2
  <1>9. ASSUME NEW n \in Nat, Good(n) PROVE Good(n + 1)
    <2>1. f[n + 1] = BranchStep(f[n], tree)
      BY <1>6
    <2>2. f[n] \subseteq f[n + 1] /\ root \in f[n + 1]
      BY <1>9, <2>1 DEF BranchStep
    <2>3. CASE Closed(f[n])
      <3>1. f[n + 1] = f[n]
        BY <2>1, <2>3 DEF BranchStep
      <3>2. QED
        BY <2>2, <2>3, <3>1
    <2>4. CASE ~Closed(f[n])
      <3>1. f[n + 1] # f[n]
        BY <2>1, <2>4 DEF BranchStep
      <3>2. IsFiniteSet(f[n + 1]) /\ f[n] \in SUBSET f[n + 1]
        BY <1>7, <2>2
      <3>3. Cardinality(f[n]) <= Cardinality(f[n + 1]) /\ Cardinality(f[n]) # Cardinality(f[n + 1])
        BY <3>1, <3>2, FS_Subset
      <3>4. Cardinality(f[n]) \in Nat /\ Cardinality(f[n + 1]) \in Nat
        BY <1>7
      <3>5. Cardinality(f[n]) >= n + 1
        BY <1>9, <2>4
      <3>6. Cardinality(f[n + 1]) >= (n + 1) + 1
        BY <3>3, <3>4, <3>5
      <3>7. QED
        BY <2>2, <3>6
    <2>5. QED
      BY <2>3, <2>4
  <1> HIDE DEF Good
  <1>10. Good(N)
    <2>1. SUFFICES ASSUME Bad # {} PROVE FALSE
      BY <1>2
    <2>2. PICK n \in Bad : \A k \in Bad : n <= k
      <3>1. Bad \subseteq Nat
        OBVIOUS
      <3> HIDE DEF Bad
      <3>2. QED
        BY <2>1, <3>1, Minimum
    <2>3. n \in Nat /\ n # 0 /\ ~Good(n)
      BY <1>8
    <2>4. n - 1 \in Nat /\ n - 1 \notin Bad
      <3> HIDE DEF Bad
      <3>1. QED
        BY <2>2, <2>3
    <2>5. Good(n - 1) /\ (n - 1) + 1 = n
      BY <2>3, <2>4
    <2>6. QED
      BY <1>9, <2>3, <2>4, <2>5
  <1>11. Closed(f[N])
    <2>1. SUFFICES ASSUME Cardinality(f[N]) >= N + 1 PROVE Closed(f[N])
      BY <1>10 DEF Good
    <2>2. f[N] \in SUBSET U /\ Cardinality(f[N]) \in Nat /\ Cardinality(U) \in Nat
      BY <1>2, <1>3, <1>5, <1>7, FS_CardinalityType
    <2>3. Cardinality(f[N]) <= Cardinality(U)
      BY <1>3, <2>2, FS_Subset
    <2>4. Cardinality(f[N]) = Cardinality(U)
      BY <1>2, <1>3, <2>1, <2>2, <2>3
    <2>5. f[N] = U
      BY <1>3, <2>2, <2>4, FS_Subset
    <2>6. QED
      BY <1>4, <2>5
  <1>12. root \in f[N]
    BY <1>10 DEF Good
  <1>13. ASSUME NEW T, root \in T, \A x \in T : children(x, tree) \subseteq T
         PROVE  f[N] \subseteq T
    BY <1>1, <1>2, <1>13, BranchWithin
  <1>14. QED
    BY <1>1, <1>11, <1>12, <1>13

\* The children lists are finite.
LEMMA ChildrenFinite ==
  ASSUME TypeOK, NEW tree \in BlockTrees
  PROVE  IsFiniteSet(tree.children)
  <1> DEFINE n == Len(preimage)
  <1>1. n \in Nat /\ Hashes = 1 .. n
    BY DEF TypeOK, Hashes
  <1>2. Hashes \cup {Genesis} = 0 .. n
    BY <1>1 DEF Genesis
  <1>3. IsFiniteSet(0 .. n) /\ IsFiniteSet(1 .. n)
    BY <1>1, FS_Interval
  <1>4. IsFiniteSet((0 .. n) \X (1 .. n))
    BY <1>3, FS_Product
  <1>5. tree.children \in SUBSET ((0 .. n) \X (1 .. n))
    BY <1>1, <1>2 DEF BlockTrees
  <1>6. QED
    BY <1>4, <1>5, FS_Subset

\* The parent of every block of a tree is in it, and the children lists are the
\* edges of the tree.
Indexed(tree) ==
  /\ \A b \in tree.blocks : parent(b) \in tree.blocks \cup {Genesis}
  /\ tree.children = {<<parent(b), b>> : b \in tree.blocks}

\* The children of a block are the blocks that it is the parent of.
LEMMA IndexedChildren ==
  ASSUME NEW tree, Indexed(tree), NEW x
  PROVE  children(x, tree) = {y \in tree.blocks : parent(y) = x}
  <1>1. ASSUME NEW y \in children(x, tree) PROVE y \in tree.blocks /\ parent(y) = x
    <2>1. PICK e \in tree.children : e[1] = x /\ e[2] = y
      BY DEF children
    <2>2. PICK b \in tree.blocks : e = <<parent(b), b>>
      BY DEF Indexed
    <2>3. QED
      BY <2>1, <2>2
  <1>2. ASSUME NEW y \in tree.blocks, parent(y) = x PROVE y \in children(x, tree)
    <2> DEFINE e == <<parent(y), y>>
    <2>1. e \in tree.children /\ e[1] = x /\ e[2] = y
      BY <1>2 DEF Indexed
    <2> HIDE DEF e
    <2>2. QED
      BY <2>1 DEF children
  <1>3. QED
    BY <1>1, <1>2

\* What is in a branch: the root, and descendants of it on a path in it.
LEMMA BranchFacts ==
  ASSUME TypeOK, BlocksOnParents, NEW tree \in BlockTrees, Indexed(tree),
         NEW s \in tree.blocks, NEW x \in blocks_in_branch(s, tree)
  PROVE  /\ x \in tree.blocks
         /\ s \in ancestry[x]
         /\ x = s \/ parent(x) \in blocks_in_branch(s, tree)
  <1> DEFINE B == blocks_in_branch(s, tree)
             T == {y \in B : y \in tree.blocks /\ s \in ancestry[y] /\ (y = s \/ parent(y) \in B)}
  <1>1. /\ s \in B
        /\ \A y \in B : children(y, tree) \subseteq B
        /\ \A S : s \in S /\ (\A y \in S : children(y, tree) \subseteq S) => B \subseteq S
    BY ChildrenFinite, BranchClosed
  <1> HIDE DEF B
  <1>2. tree.blocks \subseteq Hashes
    BY DEF BlockTrees
  <1>3. s \in T
    BY <1>1, <1>2, AncestrySelf
  <1>4. ASSUME NEW y \in T, NEW z \in children(y, tree) PROVE z \in T
    <2>1. z \in B /\ z \in tree.blocks /\ parent(z) = y
      BY <1>1, IndexedChildren
    <2>2. s \in ancestry[z]
      BY <1>2, <2>1, AncestryWalks DEF AncestryIsWalk
    <2>3. QED
      BY <2>1, <2>2
  <1>5. B \subseteq T
    <2>1. \A y \in T : children(y, tree) \subseteq T
      BY <1>4
    <2> HIDE DEF T
    <2>2. QED
      BY <1>1, <1>3, <2>1
  <1>6. QED
    BY <1>5 DEF B

\* What committing b prunes: blocks at the heights of those it commits, or
\* above, none of them committed; all siblings of those; and with a block all
\* its descendants.
LEMMA PruneFacts ==
  ASSUME TypeOK, BlocksOnParents, NEW tree \in BlockTrees, Indexed(tree), NEW b \in Hashes,
         NEW C, C = uncommitted_blocks(b, tree), NEW P, P = pruned_by(C, tree)
  PROVE  /\ \A x \in P : x \in tree.blocks /\ \E c \in C : height(c) <= height(x)
         /\ C \subseteq tree.blocks /\ C \cap P = {}
         /\ \A x \in tree.blocks : parent(x) \in P => x \in P
         /\ \A x \in tree.blocks, c \in C : parent(x) = parent(c) /\ x # c => x \in P
         /\ \A x \in P : parent(x) \in P \/ \E c \in C : parent(x) = parent(c)
         /\ \A x \in P : b \notin ancestry[x]
  <1>1. tree.blocks \subseteq Hashes /\ C \subseteq tree.blocks /\ C \subseteq ancestry[b]
    BY DEF BlockTrees, uncommitted_blocks
  <1> DEFINE IsRoot(s) == s \in tree.blocks /\ \E c \in C : parent(s) = parent(c) /\ s # c
  <1>2. \A x : x \in P <=> \E s : IsRoot(s) /\ x \in blocks_in_branch(s, tree)
    <2>1. \A c \in C : children(block_justify(c).block, tree) \ {c}
                         = {s \in tree.blocks : parent(s) = parent(c) /\ s # c}
      BY IndexedChildren DEF parent
    <2>2. QED
      BY <2>1 DEF pruned_by
  <1>3. ASSUME NEW x \in P
        PROVE  /\ x \in tree.blocks
               /\ \E s : /\ IsRoot(s) /\ s \in ancestry[x]
                         /\ x = s \/ parent(x) \in P
    <2>1. PICK s : IsRoot(s) /\ x \in blocks_in_branch(s, tree)
      BY <1>2
    <2>2. /\ x \in tree.blocks /\ s \in ancestry[x]
          /\ x = s \/ parent(x) \in blocks_in_branch(s, tree)
      BY <2>1, BranchFacts
    <2>3. QED
      BY <1>2, <2>1, <2>2
  <1>4. ASSUME NEW s \in tree.blocks, NEW c \in C, parent(s) = parent(c)
        PROVE  height(s) = height(c) /\ height(s) \in Nat
    <2>1. s \in Hashes /\ c \in Hashes
      BY <1>1
    <2>2. QED
      BY <1>4, <2>1, ParentFacts
  <1>5. ASSUME NEW x \in P PROVE \E c \in C : height(c) <= height(x)
    <2>1. PICK s : IsRoot(s) /\ s \in ancestry[x]
      BY <1>3
    <2>2. PICK c \in C : parent(s) = parent(c)
      BY <2>1
    <2>3. height(s) = height(c) /\ height(s) \in Nat
      BY <1>4, <2>1, <2>2
    <2>4. x \in Hashes /\ height(x) \in Nat
      BY <1>1, <1>3, ParentFacts
    <2>5. s = x \/ height(s) < height(x)
      BY <2>1, <2>4, AncestryLower
    <2>6. QED
      BY <2>2, <2>3, <2>4, <2>5
  <1>6. C \cap P = {}
    <2>1. SUFFICES ASSUME NEW x \in C, x \in P PROVE FALSE
      OBVIOUS
    <2>2. PICK s : IsRoot(s) /\ s \in ancestry[x]
      BY <1>3, <2>1
    <2>3. PICK c \in C : parent(s) = parent(c) /\ s # c
      BY <2>2
    <2>4. height(s) = height(c)
      BY <1>4, <2>2, <2>3
    <2>5. s \in ancestry[b] /\ c \in ancestry[b]
      BY <1>1, <2>1, <2>2, AncestryTransitive
    <2>6. QED
      BY <2>3, <2>4, <2>5, AncestorAtHeight
  <1>7. ASSUME NEW x \in tree.blocks, parent(x) \in P PROVE x \in P
    <2>1. PICK s : IsRoot(s) /\ parent(x) \in blocks_in_branch(s, tree)
      BY <1>2, <1>7
    <2>2. x \in children(parent(x), tree)
      BY IndexedChildren
    <2>3. x \in blocks_in_branch(s, tree)
      BY <2>1, <2>2, ChildrenFinite, BranchClosed
    <2>4. QED
      BY <1>2, <2>1, <2>3
  <1>8. ASSUME NEW x \in tree.blocks, NEW c \in C, parent(x) = parent(c), x # c PROVE x \in P
    <2>1. x \in blocks_in_branch(x, tree)
      BY ChildrenFinite, BranchClosed
    <2>2. QED
      BY <1>2, <1>8, <2>1
  <1>9. ASSUME NEW x \in P PROVE b \notin ancestry[x]
    <2>1. SUFFICES ASSUME b \in ancestry[x] PROVE FALSE
      OBVIOUS
    <2>2. x \in Hashes
      BY <1>1, <1>3
    <2>3. PICK s : IsRoot(s) /\ s \in ancestry[x]
      BY <1>3
    <2>4. PICK c \in C : parent(s) = parent(c) /\ s # c
      BY <2>3
    <2>5. height(s) = height(c)
      BY <1>4, <2>3, <2>4
    <2>6. c \in ancestry[x]
      BY <1>1, <2>1, <2>2, AncestryTransitive
    <2>7. QED
      BY <2>2, <2>3, <2>4, <2>5, <2>6, AncestorAtHeight
  <1>10. QED
    BY <1>1, <1>3, <1>5, <1>6, <1>7, <1>8, <1>9

-----------------------------------------------------------------------------
(* What is kept of a tree.                                                 *)

\* A committed block is in the tree, at its height.
Kept(tree) == \A p \in tree.block_at_height : p[1] = height(p[2]) /\ p[2] \in tree.blocks

\* The highest committed block is committed.
Topped(tree) ==
  LET b == tree.highest_committed_block IN b # NoBlock => <<height(b), b>> \in tree.block_at_height

\* The app state updates of a block are pending until it can be committed.
Pending(tree) ==
  \A b \in tree.blocks :
    height(b) > highest_committed_block_height(tree) => b \in tree.pending_app_updates

\* The app state is the effect of the committed blocks, in order.
Applied(tree) ==
  /\ UNION Range(tree.app_state) = {p[2] : p \in tree.block_at_height}
  /\ \A i, j \in DOMAIN tree.app_state : i < j =>
       \A a \in tree.app_state[i], b \in tree.app_state[j] : height(a) < height(b)

Whole(tree) ==
  Indexed(tree) /\ FilledBelow(tree) /\ Kept(tree) /\ Topped(tree) /\ Pending(tree) /\ Applied(tree)

\* The fields that commit changes.
LEMMA CommitFields ==
  ASSUME NEW tree \in BlockTrees, NEW b,
         NEW C, C = uncommitted_blocks(b, tree), NEW P, P = pruned_by(C, tree)
  PROVE  /\ commit(b, tree).blocks = tree.blocks \ P
         /\ commit(b, tree).children =
              {e \in tree.children : e[1] \notin P \cup {parent(a) : a \in C}}
              \cup {<<parent(a), a>> : a \in C}
         /\ commit(b, tree).pending_app_updates = tree.pending_app_updates \ (P \cup C)
         /\ commit(b, tree).app_state = Append(tree.app_state, C \cap tree.pending_app_updates)
         /\ commit(b, tree).block_at_height =
              {p \in tree.block_at_height : \A a \in C : p[1] # height(a)}
              \cup {<<height(a), a>> : a \in C}
         /\ commit(b, tree).highest_committed_block = b
         /\ commit(b, tree).locked_pc = tree.locked_pc
         /\ commit(b, tree).highest_pc = tree.highest_pc
  BY DEF commit, BlockTrees, parent

\* Committing keeps the index of a tree.
LEMMA CommitIndexed ==
  ASSUME TypeOK, BlocksOnParents, NEW tree \in BlockTrees, Indexed(tree), NEW b \in Hashes
  PROVE  Indexed(commit(b, tree))
  <1>1. PICK C, P : C = uncommitted_blocks(b, tree) /\ P = pruned_by(C, tree)
    OBVIOUS
  <1>2. /\ C \subseteq tree.blocks /\ C \cap P = {}
        /\ \A x \in tree.blocks : parent(x) \in P => x \in P
        /\ \A x \in tree.blocks, c \in C : parent(x) = parent(c) /\ x # c => x \in P
        /\ \A x \in P : parent(x) \in P \/ \E c \in C : parent(x) = parent(c)
    BY <1>1, PruneFacts
  <1>3. \A x \in tree.blocks : parent(x) \in tree.blocks \cup {Genesis}
    BY DEF Indexed
  <1> DEFINE edges == {e \in tree.children : e[1] \notin P \cup {parent(a) : a \in C}}
                      \cup {<<parent(a), a>> : a \in C}
             rest == tree.blocks \ P
  <1>4. commit(b, tree).blocks = rest /\ commit(b, tree).children = edges
    BY <1>1, CommitFields
  <1>5. \A x \in rest : parent(x) \in rest \cup {Genesis}
    BY <1>2, <1>3
  <1>6. edges \subseteq {<<parent(x), x>> : x \in rest}
    <2>1. ASSUME NEW e \in tree.children, e[1] \notin P \cup {parent(a) : a \in C}
          PROVE  e \in {<<parent(x), x>> : x \in rest}
      <3>1. PICK x \in tree.blocks : e = <<parent(x), x>>
        BY DEF Indexed
      <3>2. parent(x) \notin P \cup {parent(a) : a \in C}
        BY <2>1, <3>1
      <3>3. x \in rest
        BY <1>2, <3>2
      <3>4. QED
        BY <3>1, <3>3
    <2>2. \A a \in C : a \in rest
      BY <1>2
    <2>3. QED
      BY <2>1, <2>2
  <1>7. ASSUME NEW x \in rest PROVE <<parent(x), x>> \in edges
    <2>1. CASE x \in C
      BY <2>1
    <2>2. CASE x \notin C
      <3>1. parent(x) \notin P \cup {parent(a) : a \in C}
        BY <1>2, <2>2
      <3>2. <<parent(x), x>> \in tree.children
        BY DEF Indexed
      <3>3. QED
        BY <3>1, <3>2
    <2>3. QED
      BY <2>1, <2>2
  <1> HIDE DEF edges, rest
  <1>8. edges = {<<parent(x), x>> : x \in rest}
    BY <1>6, <1>7
  <1>9. QED
    BY <1>4, <1>5, <1>8 DEF Indexed

\* The blocks of an extended app state.
LEMMA AppendedUnion ==
  ASSUME NEW s \in Seq(SUBSET Hashes), NEW x \in SUBSET Hashes
  PROVE  /\ UNION Range(Append(s, x)) = (UNION Range(s)) \cup x
         /\ DOMAIN Append(s, x) = DOMAIN s \cup {Len(s) + 1} /\ DOMAIN s = 1 .. Len(s)
         /\ Append(s, x)[Len(s) + 1] = x
         /\ \A i \in DOMAIN s : Append(s, x)[i] = s[i]
  <1>1. /\ DOMAIN Append(s, x) = DOMAIN s \cup {Len(s) + 1} /\ DOMAIN s = 1 .. Len(s)
        /\ Append(s, x)[Len(s) + 1] = x
        /\ \A i \in DOMAIN s : Append(s, x)[i] = s[i]
    OBVIOUS
  <1>2. PICK t : t = Append(s, x)
    OBVIOUS
  <1>3. Range(t) = Range(s) \cup {x}
    BY <1>1, <1>2 DEF Range
  <1>4. UNION Range(t) = (UNION Range(s)) \cup x
    <2>1. \A R : UNION (R \cup {x}) = (UNION R) \cup x
      OBVIOUS
    <2>2. QED
      BY <1>3, <2>1
  <1>5. QED
    BY <1>1, <1>2, <1>4

\* Committing a block of the tree above the highest committed one keeps the
\* tree whole.
LEMMA CommitWhole ==
  ASSUME TypeOK, BlocksOnParents, NEW tree \in BlockTrees, Whole(tree),
         NEW b \in tree.blocks, height(b) > highest_committed_block_height(tree)
  PROVE  Whole(commit(b, tree))
  <1>1. PICK C, P, new, top, old :
          /\ C = uncommitted_blocks(b, tree) /\ P = pruned_by(C, tree) /\ new = commit(b, tree)
          /\ top = highest_committed_block_height(tree) /\ old = tree.block_at_height
    OBVIOUS
  <1>2. /\ Indexed(tree) /\ FilledBelow(tree) /\ Kept(tree) /\ Pending(tree) /\ Applied(tree)
        /\ b \in Hashes /\ tree.blocks \subseteq Hashes /\ preimage \in Seq(BlockContents)
    BY DEF Whole, BlockTrees, TypeOK
  <1>3. /\ \A x \in P : x \in tree.blocks /\ \E c \in C : height(c) <= height(x)
        /\ C \subseteq tree.blocks /\ C \cap P = {}
    BY <1>1, <1>2, PruneFacts
  <1>4. /\ new.blocks = tree.blocks \ P
        /\ new.pending_app_updates = tree.pending_app_updates \ (P \cup C)
        /\ new.app_state = Append(tree.app_state, C \cap tree.pending_app_updates)
        /\ new.block_at_height = {p \in old : \A a \in C : p[1] # height(a)}
                                 \cup {<<height(a), a>> : a \in C}
        /\ new.highest_committed_block = b
    BY <1>1, CommitFields
  <1>5. top \in Nat \cup {-1} /\ \A x \in tree.blocks : height(x) \in Nat
    BY <1>1, <1>2, HighestCommittedHeight, BlockFields DEF None
  <1>6. \A c \in C : top < height(c) /\ height(c) <= height(b)
    BY <1>1, <1>3, <1>5 DEF uncommitted_blocks
  <1>7. b \in C
    <2>1. b \in ancestry[b]
      BY <1>2, AncestrySelf
    <2>2. QED
      BY <1>1, <1>5, <2>1 DEF uncommitted_blocks
  <1>8. \A p \in old : p[1] = height(p[2]) /\ p[2] \in tree.blocks /\ p[1] <= top
    BY <1>1, <1>2 DEF Kept, FilledBelow
  <1>9. new.block_at_height = old \cup {<<height(a), a>> : a \in C}
    <2>1. \A p \in old : \A a \in C : p[1] # height(a)
      BY <1>3, <1>5, <1>6, <1>8
    <2>2. QED
      BY <1>4, <2>1
  <1>10. highest_committed_block_height(new) = height(b)
    BY <1>2, <1>4 DEF highest_committed_block_height, NoBlock, Hashes
  <1>11. Indexed(new) /\ FilledBelow(new)
    BY <1>1, <1>2, CommitIndexed, CommitFills
  <1>12. Kept(new)
    <2>1. \A p \in old : p[2] \notin P
      BY <1>3, <1>5, <1>6, <1>8
    <2>2. \A p \in old : p[1] = height(p[2]) /\ p[2] \in new.blocks
      BY <1>4, <1>8, <2>1
    <2>3. \A a \in C : a \in new.blocks
      BY <1>3, <1>4
    <2>4. QED
      BY <1>9, <2>2, <2>3 DEF Kept
  <1>13. Topped(new)
    BY <1>4, <1>7, <1>9 DEF Topped
  <1>14. Pending(new)
    <2>1. ASSUME NEW x \in new.blocks, height(x) > height(b) PROVE x \in new.pending_app_updates
      <3>1. x \in tree.blocks /\ x \notin P /\ x \notin C
        BY <1>4, <1>5, <1>6, <2>1
      <3>2. height(x) > top
        BY <1>1, <1>5, <2>1, <3>1
      <3>3. QED
        BY <1>1, <1>2, <1>4, <3>1, <3>2 DEF Pending
    <2>2. QED
      BY <1>10, <2>1 DEF Pending
  <1>15. Applied(new)
    <2>1. C \cap tree.pending_app_updates = C
      BY <1>1, <1>2, <1>3, <1>5, <1>6 DEF Pending
    <2>2. PICK s, n : s = tree.app_state /\ n = Len(s) + 1
      OBVIOUS
    <2>3. new.app_state = Append(s, C) /\ s \in Seq(SUBSET Hashes) /\ C \in SUBSET Hashes
      BY <1>2, <1>3, <1>4, <2>1, <2>2 DEF BlockTrees
    <2>4. /\ UNION Range(new.app_state) = (UNION Range(s)) \cup C
          /\ DOMAIN new.app_state = DOMAIN s \cup {n} /\ DOMAIN s = 1 .. Len(s)
          /\ new.app_state[n] = C
          /\ \A i \in DOMAIN s : new.app_state[i] = s[i]
      <3>1. /\ UNION Range(Append(s, C)) = (UNION Range(s)) \cup C
            /\ DOMAIN Append(s, C) = DOMAIN s \cup {Len(s) + 1} /\ DOMAIN s = 1 .. Len(s)
            /\ Append(s, C)[Len(s) + 1] = C
            /\ \A i \in DOMAIN s : Append(s, C)[i] = s[i]
        BY <2>3, AppendedUnion
      <3>2. QED
        BY <2>2, <2>3, <3>1
    <2>5. UNION Range(s) = {p[2] : p \in old}
      BY <1>1, <1>2, <2>2 DEF Applied
    <2>6. {p[2] : p \in new.block_at_height} = {p[2] : p \in old} \cup C
      <3>1. PICK N : N = {<<height(a), a>> : a \in C}
        OBVIOUS
      <3>2. \A p \in N : p[2] \in C
        BY <3>1
      <3>3. ASSUME NEW a \in C PROVE \E p \in N : p[2] = a
        <4>1. <<height(a), a>> \in N /\ <<height(a), a>>[2] = a
          BY <3>1
        <4>2. QED
          BY <4>1
      <3>4. QED
        BY <1>9, <3>1, <3>2, <3>3
    <2>7. ASSUME NEW i \in DOMAIN s, NEW a \in s[i], NEW c \in C PROVE height(a) < height(c)
      <3>1. a \in UNION Range(s)
        BY DEF Range
      <3>2. PICK p \in old : a = p[2]
        BY <2>5, <3>1
      <3>3. QED
        BY <1>3, <1>5, <1>6, <1>8, <3>2
    <2>8. ASSUME NEW i \in DOMAIN new.app_state, NEW j \in DOMAIN new.app_state, i < j,
                 NEW a \in new.app_state[i], NEW c \in new.app_state[j]
          PROVE  height(a) < height(c)
      <3>1. Len(s) \in Nat /\ i \in DOMAIN s
        BY <2>2, <2>3, <2>4, <2>8
      <3>2. CASE j \in DOMAIN s
        BY <1>2, <2>2, <2>4, <2>8, <3>1, <3>2 DEF Applied
      <3>3. CASE j = n
        BY <2>4, <2>7, <2>8, <3>1, <3>3
      <3>4. QED
        BY <2>4, <3>2, <3>3
    <2>9. QED
      <3>1. UNION Range(new.app_state) = {p[2] : p \in new.block_at_height}
        BY <2>4, <2>5, <2>6
      <3>2. QED
        BY <2>8, <3>1 DEF Applied
  <1>16. QED
    BY <1>1, <1>11, <1>12, <1>13, <1>14, <1>15 DEF Whole

\* Whether a tree is whole is a matter of the fields that SameTree compares.
LEMMA SameTreeWhole ==
  ASSUME NEW tree, NEW next, SameTree(tree, next), Whole(tree)
  PROVE  Whole(next)
  <1>1. highest_committed_block_height(next) = highest_committed_block_height(tree)
    BY DEF SameTree, highest_committed_block_height
  <1>2. Indexed(next) /\ FilledBelow(next) /\ Kept(next) /\ Topped(next)
    BY <1>1 DEF SameTree, Whole, Indexed, FilledBelow, Kept, Topped
  <1>3. Pending(next) /\ Applied(next)
    BY <1>1 DEF SameTree, Whole, Pending, Applied
  <1>4. QED
    BY <1>2, <1>3 DEF Whole

\* A tree stays whole when blocks are made.
LEMMA WholeStays ==
  ASSUME TypeOK, Grows, NEW tree \in BlockTrees, Whole(tree)
  PROVE  Whole(tree)'
  <1>1. PICK t : t = tree
    OBVIOUS
  <1>2. /\ t.blocks \subseteq Hashes
        /\ \A p \in t.block_at_height : p[2] \in Hashes
        /\ t.highest_committed_block \in Hashes \cup {NoBlock}
        /\ \A i \in DOMAIN t.app_state : t.app_state[i] \subseteq Hashes
    BY <1>1 DEF BlockTrees
  <1>3. \A b \in Hashes : parent(b)' = parent(b) /\ height(b)' = height(b)
    BY DEF Grows, parent, block_justify, height
  <1>4. highest_committed_block_height(t)' = highest_committed_block_height(t)
    BY <1>2, <1>3 DEF highest_committed_block_height
  <1>5. Indexed(t)'
    <2>1. Indexed(t)
      BY <1>1 DEF Whole
    <2>2. \A b \in t.blocks : parent(b)' = parent(b)
      BY <1>2, <1>3
    <2>3. {<<parent(b)', b>> : b \in t.blocks} = {<<parent(b), b>> : b \in t.blocks}
      BY <2>2
    <2>4. QED
      BY <2>1, <2>2, <2>3 DEF Indexed
  <1>6. FilledBelow(t)' /\ Kept(t)' /\ Topped(t)'
    BY <1>1, <1>2, <1>3, <1>4 DEF Whole, FilledBelow, Kept, Topped
  <1>7. Pending(t)' /\ Applied(t)'
    BY <1>1, <1>2, <1>3, <1>4 DEF Whole, Pending, Applied
  <1>8. QED
    BY <1>1, <1>5, <1>6, <1>7 DEF Whole

\* Inserting a block on a block of the tree keeps the tree whole.
LEMMA InsertWhole ==
  ASSUME NEW tree \in BlockTrees, Whole(tree),
         NEW h \in Hashes, parent(h) \in tree.blocks \cup {Genesis}
  PROVE  Whole(insert(h, tree))
  <1>1. PICK new : new = insert(h, tree)
    OBVIOUS
  <1>2. /\ new.blocks = tree.blocks \cup {h}
        /\ new.children = tree.children \cup {<<parent(h), h>>}
        /\ new.pending_app_updates = tree.pending_app_updates \cup {h}
        /\ new.app_state = tree.app_state
        /\ new.block_at_height = tree.block_at_height
        /\ new.highest_committed_block = tree.highest_committed_block
    BY <1>1 DEF insert, BlockTrees, parent
  <1>3. highest_committed_block_height(new) = highest_committed_block_height(tree)
    BY <1>2 DEF highest_committed_block_height
  <1>4. Indexed(new)
    <2>1. Indexed(tree)
      BY DEF Whole
    <2>2. \A b \in new.blocks : parent(b) \in new.blocks \cup {Genesis}
      BY <1>2, <2>1 DEF Indexed
    <2>3. new.children = {<<parent(b), b>> : b \in new.blocks}
      BY <1>2, <2>1 DEF Indexed
    <2>4. QED
      BY <2>2, <2>3 DEF Indexed
  <1>5. FilledBelow(new) /\ Kept(new) /\ Topped(new)
    BY <1>2, <1>3 DEF Whole, FilledBelow, Kept, Topped
  <1>6. Pending(new) /\ Applied(new)
    BY <1>2, <1>3 DEF Whole, Pending, Applied
  <1>7. QED
    BY <1>1, <1>4, <1>5, <1>6 DEF Whole

\* The block that a certificate for a block of the tree commits is in the tree.
LEMMA CommitsInTree ==
  ASSUME preimage \in Seq(BlockContents), NEW tree \in BlockTrees, Indexed(tree),
         NEW pc \in PhaseCertificates, pc.block \in tree.blocks \/ is_genesis_pc(pc)
  PROVE  block_to_commit(pc, tree) \subseteq tree.blocks
  <1>1. tree.blocks \subseteq Hashes
    BY DEF BlockTrees
  <1>2. ASSUME NEW x \in tree.blocks, ~is_genesis_pc(block_justify(x))
        PROVE  block_justify(x).block \in tree.blocks
    <2>1. block_justify(x) \in PhaseCertificates
      BY <1>1, BlockFields
    <2>2. block_justify(x).block \in Hashes
      BY <1>2, <2>1, CertificateFields
    <2>3. block_justify(x).block # Genesis
      BY <2>2 DEF Hashes, Genesis
    <2>4. QED
      BY <2>3 DEF Indexed, parent
  <1>3. SUFFICES ASSUME NEW b \in block_to_commit(pc, tree) PROVE b \in tree.blocks
    OBVIOUS
  <1>4. ~is_genesis_pc(pc) /\ pc.block \in tree.blocks
    BY DEF block_to_commit
  <1>5. CASE pc.phase = "Generic"
    <2>1. /\ ~is_genesis_pc(block_justify(pc.block))
          /\ ~is_genesis_pc(block_justify(block_justify(pc.block).block))
          /\ b = block_justify(block_justify(pc.block).block).block
      BY <1>4, <1>5 DEF block_to_commit
    <2>2. QED
      BY <1>2, <1>4, <2>1
  <1>6. CASE pc.phase # "Generic"
    <2>1. b = pc.block
      BY <1>4, <1>6 DEF block_to_commit
    <2>2. QED
      BY <1>4, <2>1
  <1>7. QED
    BY <1>5, <1>6

\* update keeps a tree whole.
LEMMA UpdateWhole ==
  ASSUME TypeOK, BlocksOnParents, NEW tree \in BlockTrees, Whole(tree),
         NEW pc \in PhaseCertificates, pc.block \in tree.blocks \/ is_genesis_pc(pc)
  PROVE  Whole(update(pc, tree))
  <1> DEFINE to_commit == block_to_commit(pc, tree)
             b == CHOOSE x \in to_commit : TRUE
             committed == IF to_commit = {} THEN tree ELSE commit(b, tree)
             to_lock == pc_to_lock(pc, tree)
             lock == IF to_lock = {} THEN committed.locked_pc ELSE CHOOSE q \in to_lock : TRUE
             highest == IF pc.view > committed.highest_pc.view THEN pc ELSE committed.highest_pc
             decided == committed.update_decided \/ pc.phase = "Decide"
             new == [committed EXCEPT !.highest_pc = highest, !.locked_pc = lock,
                                      !.update_decided = decided]
  <1>1. committed \in BlockTrees /\ Whole(committed)
    <2>1. CASE to_commit = {}
      BY <2>1
    <2>2. CASE to_commit # {}
      <3>1. b \in to_commit
        BY <2>2
      <3>2. b \in tree.blocks /\ b \in Hashes /\ height(b) > highest_committed_block_height(tree)
        BY <3>1, CommitsInTree, BlockToCommitIsHigher DEF TypeOK, Whole, BlockTrees
      <3> HIDE DEF b
      <3>3. QED
        BY <2>2, <3>2, CommitWhole, CommitType DEF TypeOK
    <2>3. QED
      BY <2>1, <2>2
  <1>2. update(pc, tree) = new
    BY DEF update
  <1> HIDE DEF committed, lock, highest, decided
  <1>3. /\ new.blocks = committed.blocks
        /\ new.children = committed.children
        /\ new.pending_app_updates = committed.pending_app_updates
        /\ new.app_state = committed.app_state
        /\ new.block_at_height = committed.block_at_height
        /\ new.highest_committed_block = committed.highest_committed_block
    BY <1>1 DEF BlockTrees
  <1> HIDE DEF new
  <1>4. highest_committed_block_height(new) = highest_committed_block_height(committed)
    BY <1>3 DEF highest_committed_block_height
  <1>5. Indexed(new) /\ FilledBelow(new) /\ Kept(new) /\ Topped(new)
    BY <1>1, <1>3, <1>4 DEF Whole, Indexed, FilledBelow, Kept, Topped
  <1>6. Pending(new) /\ Applied(new)
    BY <1>1, <1>3, <1>4 DEF Whole, Pending, Applied
  <1>7. QED
    BY <1>2, <1>5, <1>6 DEF Whole

TreesAreWhole == \A r \in Replicas : Whole(bt[r])

\* A step keeps all trees whole.
LEMMA StepWhole ==
  ASSUME TypeOK, BlocksOnParents, TreesAreWhole, [Next]_vars
  PROVE  TreesAreWhole'
  <1>1. ASSUME NEW s \in Replicas PROVE Whole(bt[s])'
    <2>1. bt[s] \in BlockTrees /\ Whole(bt[s]) /\ preimage \in Seq(BlockContents)
      BY DEF TypeOK, TreesAreWhole
    <2>2. CASE SameTree(bt[s], bt'[s])
      <3>1. PICK tree : tree = bt[s]
        OBVIOUS
      <3>2. Whole(tree)'
        BY <2>1, <3>1, WholeStays, NextGrows
      <3>3. SameTree(tree, bt'[s])
        BY <2>2, <3>1
      <3>4. highest_committed_block_height(bt[s])' = highest_committed_block_height(tree)'
        BY <3>3 DEF SameTree, highest_committed_block_height
      <3>5. Indexed(bt[s])' /\ FilledBelow(bt[s])' /\ Kept(bt[s])' /\ Topped(bt[s])'
        BY <3>2, <3>3, <3>4 DEF SameTree, Whole, Indexed, FilledBelow, Kept, Topped
      <3>6. Pending(bt[s])' /\ Applied(bt[s])'
        BY <3>2, <3>3, <3>4 DEF SameTree, Whole, Pending, Applied
      <3>7. QED
        BY <3>5, <3>6 DEF Whole
    <2>3. ASSUME NEW pc \in PhaseCertificates, NEW base \in Bases(bt[s], pc),
                 safe_pc(pc, bt[s]), preimage' = preimage, SameTree(update(pc, base), bt'[s])
          PROVE  Whole(bt[s])'
      <3>1. pc.block \in bt[s].blocks \/ is_genesis_pc(pc)
        BY <2>3 DEF safe_pc
      <3>2. base \in BlockTrees /\ bt[s].blocks \subseteq base.blocks
        <4>1. base \in BlockTrees
          BY <2>1, BasesType
        <4>2. \A h : bt[s].blocks \subseteq insert(h, bt[s]).blocks
          BY <2>1 DEF insert, BlockTrees
        <4>3. QED
          BY <4>1, <4>2 DEF Bases
      <3>3. Whole(base)
        <4>1. CASE base = bt[s]
          BY <2>1, <4>1
        <4>2. ASSUME NEW h \in Hashes, block_justify(h) = pc, base = insert(h, bt[s])
              PROVE  Whole(base)
          <5>1. parent(h) \in bt[s].blocks \cup {Genesis}
            BY <3>1, <4>2 DEF parent, is_genesis_pc, genesis_pc
          <5>2. QED
            BY <2>1, <4>2, <5>1, InsertWhole
        <4>3. QED
          BY <4>1, <4>2 DEF Bases
      <3>4. Whole(update(pc, base))
        BY <3>1, <3>2, <3>3, UpdateWhole
      <3>5. PICK tree : tree = bt'[s]
        OBVIOUS
      <3>6. Whole(tree)
        BY <2>3, <3>4, <3>5, SameTreeWhole
      <3>7. QED
        BY <2>3, <3>5, <3>6 DEF Whole, Indexed, FilledBelow, Kept, Topped, Pending, Applied,
              highest_committed_block_height, height, parent, block_justify
    <2>4. QED
      BY <2>2, <2>3, NextTreeStep DEF TreeStep
  <1>2. QED
    BY <1>1 DEF TreesAreWhole

\* In every behaviour, all trees are whole.
LEMMA TreesStayWhole == Spec => []TreesAreWhole
  <1>1. Init => TreesAreWhole
    <2> SUFFICES ASSUME Init, NEW r \in Replicas PROVE Whole(bt[r])
      BY DEF TreesAreWhole
    <2>1. PICK tree : tree = bt[r]
      OBVIOUS
    <2>2. /\ tree.blocks = {} /\ tree.children = {} /\ tree.app_state = <<>>
          /\ tree.block_at_height = {} /\ tree.highest_committed_block = NoBlock
      BY <2>1 DEF Init, initialize
    <2>3. Indexed(tree) /\ FilledBelow(tree) /\ Kept(tree) /\ Topped(tree) /\ Pending(tree)
      BY <2>2 DEF Indexed, FilledBelow, Kept, Topped, Pending
    <2>4. Range(tree.app_state) = {}
      BY <2>2 DEF Range
    <2>5. Applied(tree)
      BY <2>2, <2>4 DEF Applied
    <2>6. QED
      BY <2>1, <2>3, <2>5 DEF Whole
  <1>2. TypeOK /\ BlocksOnParents /\ TreesAreWhole /\ [Next]_vars => TreesAreWhole'
    BY StepWhole
  <1>3. QED
    BY <1>1, <1>2, TypeCorrect, HeightsFollowParents, PTL DEF Spec

\* In every behaviour, and for every network, the parent of every block of a
\* tree is in the tree, and the children lists are exactly its edges (insert,
\* and delete_siblings with delete_branch, which delete whole branches).
THEOREM TreesStayIndexed == Spec => []TreeIsIndexed
  <1>1. TreesAreWhole => TreeIsIndexed
    BY DEF TreesAreWhole, Whole, Indexed, TreeIsIndexed, parent
  <1>2. QED
    BY <1>1, TreesStayWhole, PTL

\* In every behaviour, no committed block is pruned: what delete_siblings
\* deletes is above everything committed before, and not an ancestor of the
\* block being committed.
THEOREM CommitsAreNotPruned == Spec => []CommittedBlocksKept
  <1>1. TreesAreWhole => CommittedBlocksKept
    BY DEF TreesAreWhole, Whole, Kept, CommittedBlocksKept
  <1>2. QED
    BY <1>1, TreesStayWhole, PTL

\* In every behaviour, the app state of a replica is the effect of the blocks
\* it has committed, each applied with the commit that committed it, lower
\* blocks before higher ones.
THEOREM AppStateIsOfCommits == Spec => []AppStateFollowsChain
  <1>1. TreesAreWhole => AppStateFollowsChain
    BY DEF TreesAreWhole, Whole, Applied, AppStateFollowsChain
  <1>2. QED
    BY <1>1, TreesStayWhole, PTL

-----------------------------------------------------------------------------
(* What an update commits.                                                 *)

\* An update commits the block that block_to_commit returns, and with it all
\* of its ancestors in the tree above the highest committed block.
LEMMA UpdateCommits ==
  ASSUME preimage \in Seq(BlockContents), NEW tree \in BlockTrees, FilledBelow(tree),
         NEW pc \in PhaseCertificates
  PROVE  \/ /\ update(pc, tree).block_at_height = tree.block_at_height
            /\ update(pc, tree).blocks = tree.blocks
         \/ \E b \in block_to_commit(pc, tree) :
              /\ update(pc, tree).block_at_height =
                   tree.block_at_height \cup {<<height(a), a>> : a \in uncommitted_blocks(b, tree)}
              /\ update(pc, tree).blocks =
                   tree.blocks \ pruned_by(uncommitted_blocks(b, tree), tree)
  <1> DEFINE to_commit == block_to_commit(pc, tree)
             b == CHOOSE x \in to_commit : TRUE
             committed == IF to_commit = {} THEN tree ELSE commit(b, tree)
             to_lock == pc_to_lock(pc, tree)
             lock == IF to_lock = {} THEN committed.locked_pc ELSE CHOOSE q \in to_lock : TRUE
             highest == IF pc.view > committed.highest_pc.view THEN pc ELSE committed.highest_pc
             decided == committed.update_decided \/ pc.phase = "Decide"
             new == [committed EXCEPT !.highest_pc = highest, !.locked_pc = lock,
                                      !.update_decided = decided]
  <1>1. update(pc, tree) = new
    BY DEF update
  <1>2. CASE to_commit = {}
    <2>1. committed = tree
      BY <1>2
    <2> HIDE DEF committed, lock, highest, decided
    <2>2. QED
      BY <1>1, <2>1 DEF BlockTrees
  <1>3. CASE to_commit # {}
    <2>1. committed = commit(b, tree) /\ b \in to_commit
      BY <1>3
    <2> HIDE DEF committed, lock, highest, decided, b
    <2>2. b \in Hashes /\ height(b) > highest_committed_block_height(tree)
      BY <2>1, BlockToCommitType, BlockToCommitIsHigher
    <2>3. commit(b, tree) \in BlockTrees
      BY <2>2, CommitType
    <2>4. /\ new.block_at_height = commit(b, tree).block_at_height
          /\ new.blocks = commit(b, tree).blocks
      BY <2>1, <2>3 DEF BlockTrees
    <2> HIDE DEF new
    <2>5. PICK C, P : C = uncommitted_blocks(b, tree) /\ P = pruned_by(C, tree)
      OBVIOUS
    <2>6. /\ commit(b, tree).block_at_height =
               {p \in tree.block_at_height : \A a \in C : p[1] # height(a)}
               \cup {<<height(a), a>> : a \in C}
          /\ commit(b, tree).blocks = tree.blocks \ P
      BY <2>5, CommitFields
    <2>7. tree.block_at_height \subseteq commit(b, tree).block_at_height
      BY <2>2, CommitFills
    <2>8. commit(b, tree).block_at_height =
            tree.block_at_height \cup {<<height(a), a>> : a \in C}
      BY <2>6, <2>7
    <2>9. QED
      BY <1>1, <2>1, <2>4, <2>5, <2>6, <2>8
  <1>4. QED
    BY <1>2, <1>3

-----------------------------------------------------------------------------
(* The phases of updating blocks.  Validator sets change, so the powers of *)
(* any validator set that can arise are compared, and the invariant adds   *)
(* that those of the block trees did arise.                                *)

\* The power of signers of any validator set is a natural number, of no signer
\* it is zero, and more signers have no less.
LEMMA PowerGrows ==
  ASSUME NEW vs \in ValidatorSet, NEW T \in SUBSET Replicas, NEW S \in SUBSET T
  PROVE  /\ power_of(vs, S) \in Nat /\ power_of(vs, T) \in Nat
         /\ power_of(vs, S) <= power_of(vs, T)
  <1> DEFINE D == DOMAIN vs
  <1>1. \A v \in D : vs[v] \in Nat
    <2>1. PICK R \in SUBSET Replicas : vs \in [R -> Powers]
      BY DEF ValidatorSet
    <2>2. QED
      BY <2>1, ReplicasAssumption
  <1>2. IsFiniteSet(T \cap D) /\ IsFiniteSet(S \cap D)
    BY ReplicasAssumption, FS_Subset
  <1>3. S \cap D \in SUBSET (T \cap D)
    OBVIOUS
  <1>4. SumFunctionOnSet(vs, S \cap D) <= SumFunctionOnSet(vs, T \cap D)
    BY <1>1, <1>2, <1>3, SumMonotone
  <1>5. SumFunctionOnSet(vs, S \cap D) \in Nat /\ SumFunctionOnSet(vs, T \cap D) \in Nat
    BY <1>1, <1>2, SumType
  <1>6. QED
    BY <1>4, <1>5 DEF power_of

\* A quorum of any validator set is not empty (ValidatorSet::quorum adds one).
LEMMA QuorumNotEmpty ==
  ASSUME NEW vs \in ValidatorSet
  PROVE  power_of(vs, {}) < quorum(vs) /\ quorum(vs) \in Nat
  <1>1. DOMAIN vs \subseteq Replicas
    BY DEF ValidatorSet
  <1>2. total_power(vs) = power_of(vs, DOMAIN vs)
    BY DEF total_power, power_of
  <1>3. total_power(vs) \in Nat
    BY <1>1, <1>2, PowerGrows
  <1>4. power_of(vs, {}) = 0
    <2>1. {} \cap DOMAIN vs = {}
      OBVIOUS
    <2>2. QED
      BY <2>1, SumEmpty DEF power_of
  <1>5. QED
    BY <1>3, <1>4 DEF quorum

\* Votes are sent by replicas.
LEMMA VotersType ==
  ASSUME TypeOK, NEW v, NEW b, NEW phase
  PROVE  VotersFor(v, b, phase) \in SUBSET Replicas
  BY DEF VotersFor, PhaseVotes, TypeOK, IsMessage

\* What can be certified stays so when more votes are sent.
LEMMA CertifiableGrows ==
  ASSUME TypeOK', msgs \subseteq msgs', NEW vs \in ValidatorSet, NEW c \in Certifiable(vs)
  PROVE  c \in Certifiable(vs)'
  <1> DEFINE S == VotersFor(c[1], c[2], c[3])
             T == VotersFor(c[1], c[2], c[3])'
  <1>1. S \subseteq T
    BY VotersGrow
  <1>2. T \in SUBSET Replicas
    BY DEF VotersFor, PhaseVotes, TypeOK, IsMessage
  <1>3. power_of(vs, S) >= quorum(vs) /\ c \in {<<m.view, m.block, m.phase>> : m \in PhaseVotes}
    BY DEF Certifiable
  <1> HIDE DEF S, T
  <1>4. power_of(vs, T) >= quorum(vs)
    BY <1>1, <1>2, <1>3, PowerGrows, QuorumNotEmpty
  <1>5. c \in {<<m.view, m.block, m.phase>> : m \in PhaseVotes'}
    BY <1>3 DEF PhaseVotes
  <1>6. QED
    BY <1>4, <1>5 DEF Certifiable, T

\* Behind a nudge that a replica accepts are the votes of a quorum of one of
\* the validator sets of its tree (PhaseCertificate::is_correct).
LEMMA CorrectIsCertifiable ==
  ASSUME TypeOK, SignatureInv, NEW r \in Replicas, NEW pc \in KnownPCs,
         is_nudge_justify(pc), is_correct(pc, bt[r])
  PROVE  \E vs \in {bt[r].cvs, bt[r].pvs} : <<pc.view, pc.block, pc.phase>> \in Certifiable(vs)
  <1>1. PICK vs \in {bt[r].cvs, bt[r].pvs} : is_correctly_signed(pc, vs)
    BY DEF is_correct, is_nudge_justify, is_genesis_pc, genesis_pc
  <1>2. vs \in ValidatorSet
    BY DEF TypeOK, BlockTrees
  <1> DEFINE S == Range(pc.signatures) \ {NoSignature}
             T == VotersFor(pc.view, pc.block, pc.phase)
  <1>3. S \subseteq T
    BY DEF SignatureInv, VotedFor
  <1>4. T \in SUBSET Replicas
    BY VotersType
  <1>5. power_of(vs, S) >= quorum(vs)
    BY <1>1 DEF is_correctly_signed
  <1> HIDE DEF S
  <1>6. power_of(vs, T) >= quorum(vs)
    <2> HIDE DEF T
    <2>1. QED
      BY <1>2, <1>3, <1>4, <1>5, PowerGrows, QuorumNotEmpty
  <1>7. T # {}
    <2> HIDE DEF T
    <2>1. power_of(vs, {}) < quorum(vs) /\ power_of(vs, T) \in Nat /\ quorum(vs) \in Nat
      BY <1>2, <1>4, PowerGrows, QuorumNotEmpty
    <2>2. power_of(vs, {}) \in Nat
      BY <1>2, <1>4, PowerGrows
    <2>3. QED
      BY <1>6, <2>1, <2>2
  <1>8. <<pc.view, pc.block, pc.phase>> \in {<<m.view, m.block, m.phase>> : m \in PhaseVotes}
    BY <1>7 DEF VotersFor
  <1>9. <<pc.view, pc.block, pc.phase>> \in Certifiable(vs)
    BY <1>6, <1>8 DEF Certifiable
  <1>10. QED
    BY <1>9

\* What a step that sends a phase vote n did: a replica accepted a proposal, or
\* a nudge for the phase before, or a faulty one voted for a proposal again.
VoteOf(n) ==
  \/ n.phase \in {"Generic", "Prepare"}
  \/ \E r \in Replicas, pc \in KnownPCs :
       /\ is_nudge_justify(pc)
       /\ is_correct(pc, bt[r])
       /\ pc.phase = "Commit" \/ pc.view = view[r] - 1
       /\ n.view = view[r] /\ n.block = pc.block /\ n.phase = NextPhase(pc.phase)

\* The votes that a handler's tail sends are for the block and phase it is given.
LEMMA CastVotes ==
  ASSUME NEW r, NEW origin, NEW tree, NEW justify, NEW b, NEW phase,
         UpdateAndVote(r, origin, tree, justify, b, phase),
         NEW n \in msgs' \ msgs
  PROVE  n.view = view[r] /\ n.block = b /\ n.phase = phase
  BY DEF UpdateAndVote, CastVote, PhaseVote

\* Every step votes in one of these ways.
LEMMA NextVotes ==
  ASSUME TypeOK, [Next]_vars, NEW n \in msgs' \ msgs, n.type = "PhaseVote"
  PROVE  VoteOf(n)
  <1>1. ASSUME NEW r \in Replicas, EnterView(r) PROVE FALSE
    <2>1. PICK v, proposals : StartView(r, v, proposals)
                              /\ \A m \in proposals : m.type \in {"Proposal", "Nudge"}
      <3>1. PICK v : \/ EnterViewFollower(r, v) \/ EnterViewRepropose(r, v)
                     \/ EnterViewPropose(r, v) \/ EnterViewNudge(r, v)
        BY <1>1 DEF EnterView
      <3>2. CASE EnterViewFollower(r, v)
        BY <3>2 DEF EnterViewFollower
      <3>3. CASE EnterViewRepropose(r, v)
        <4> DEFINE proposed_again == {Proposal(r, v, b) : b \in repropose_block(v, bt[r])}
        <4>1. \A m \in proposed_again : m.type = "Proposal"
          BY DEF Proposal
        <4>2. StartView(r, v, proposed_again)
          BY <3>3 DEF EnterViewRepropose
        <4> HIDE DEF proposed_again
        <4>3. QED
          BY <4>1, <4>2
      <3>4. CASE EnterViewPropose(r, v)
        <4>1. PICK b : StartView(r, v, {Proposal(r, v, b)})
          BY <3>4 DEF EnterViewPropose
        <4>2. Proposal(r, v, b).type = "Proposal"
          BY DEF Proposal
        <4>3. QED
          BY <4>1, <4>2
      <3>5. CASE EnterViewNudge(r, v)
        <4>1. StartView(r, v, {Nudge(r, v, bt[r].highest_pc)})
          BY <3>5 DEF EnterViewNudge
        <4>2. Nudge(r, v, bt[r].highest_pc).type = "Nudge"
          BY DEF Nudge
        <4>3. QED
          BY <4>1, <4>2
      <3>6. QED
        BY <3>1, <3>2, <3>3, <3>4, <3>5
    <2>2. n \in proposals \/ n.type = "NewView"
      BY <2>1 DEF StartView, NewView
    <2>3. QED
      BY <2>1, <2>2
  <1>2. ASSUME NEW r \in Replicas, NEW m \in msgs, OnReceiveMsg(r, m) PROVE VoteOf(n)
    <2>1. CASE OnReceiveProposal(r, m)
      <3>1. n.phase = IF data(m.block) \in UpdatingData THEN "Prepare" ELSE "Generic"
        BY <2>1, CastVotes DEF OnReceiveProposal
      <3>2. QED
        BY <3>1 DEF VoteOf
    <2>2. CASE OnReceiveNudge(r, m)
      <3>1. n.view = view[r] /\ n.block = m.justify.block /\ n.phase = NextPhase(m.justify.phase)
        BY <2>2, CastVotes DEF OnReceiveNudge
      <3>2. /\ is_correct(m.justify, bt[r])
            /\ is_nudge_justify(m.justify)
            /\ m.justify.phase = "Commit" \/ m.justify.view = view[r] - 1
        BY <2>2 DEF OnReceiveNudge, NudgeAcceptable, safe_nudge
      <3>3. m.justify \in KnownPCs
        BY <2>2 DEF OnReceiveNudge, Receives, KnownPCs
      <3>4. QED
        BY <3>1, <3>2, <3>3 DEF VoteOf
    <2>3. CASE RejectProposal(r, m) \/ RejectNudge(r, m) \/ OnReceivePhaseVote(r, m)
               \/ OnReceiveNewView(r, m)
      BY <2>3 DEF RejectProposal, RejectNudge, Ignore, OnReceivePhaseVote, OnReceiveNewView,
                  ProcessPC
    <2>4. QED
      BY <1>2, <2>1, <2>2, <2>3 DEF OnReceiveMsg
  <1>3. ASSUME NEW r \in Replicas, Misbehave(r) PROVE VoteOf(n)
    <2>1. CASE Equivocate(r)
      BY <2>1 DEF Equivocate, Proposal
    <2>2. CASE DoubleVote(r)
      <3>1. PICK m \in msgs : n.phase = IF data(m.block) \in UpdatingData THEN "Prepare" ELSE "Generic"
        BY <2>2 DEF DoubleVote, PhaseVote
      <3>2. QED
        BY <3>1 DEF VoteOf
    <2>3. QED
      BY <1>3, <2>1, <2>2 DEF Misbehave
  <1>4. CASE UNCHANGED vars
    BY <1>4 DEF vars
  <1>5. QED
    BY <1>1, <1>2, <1>3, <1>4 DEF Next

-----------------------------------------------------------------------------
(* Validator sets that arise.                                              *)

\* The updates of a block that was made lead from a set that arises to another.
LEMMA ArisesByUpdate ==
  ASSUME NEW vs, Arises(vs), NEW b \in UpdatingBlocks
  PROVE  Arises(apply_updates(vs, UpdatesOf[data(b)]))
  BY DEF Arises

\* A set that arises still does when more blocks are made.
LEMMA ArisesGrows ==
  ASSUME Grows, NEW vs, Arises(vs)
  PROVE  Arises(vs)'
  <1>1. \A b \in UpdatingBlocks : b \in UpdatingBlocks' /\ data(b)' = data(b)
    BY DEF Grows, UpdatingBlocks, data
  <1>2. SUFFICES ASSUME NEW S \in SUBSET ValidatorSet,
                        InitialValidatorSet \in S,
                        \A ws \in S, b \in UpdatingBlocks' : apply_updates(ws, UpdatesOf[data(b)']) \in S
                 PROVE  vs \in S
    BY DEF Arises
  <1>3. \A ws \in S, b \in UpdatingBlocks : apply_updates(ws, UpdatesOf[data(b)]) \in S
    BY <1>1, <1>2
  <1>4. QED
    BY <1>2, <1>3 DEF Arises

\* The validator sets of a tree arise.
SetsArise(tree) == Arises(tree.cvs) /\ Arises(tree.pvs)

\* commit keeps the validator sets, or replaces both by sets that arise.
LEMMA CommitArises ==
  ASSUME preimage \in Seq(BlockContents), NEW tree \in BlockTrees, NEW b \in Hashes,
         SetsArise(tree)
  PROVE  SetsArise(commit(b, tree))
  <1> DEFINE updating == uncommitted_blocks(b, tree) \cap tree.pending_updates
             last == CHOOSE a \in updating : \A c \in updating : height(c) <= height(a)
  <1>1. CASE updating = {}
    <2>1. commit(b, tree).cvs = tree.cvs /\ commit(b, tree).pvs = tree.pvs
      BY <1>1 DEF commit, BlockTrees
    <2>2. QED
      BY <2>1 DEF SetsArise
  <1>2. CASE updating # {}
    <2>1. \E a \in updating : \A c \in updating : height(c) <= height(a)
      BY <1>2, LastUpdating
    <2>2. last \in updating
      BY <2>1
    <2>3. last \in UpdatingBlocks
      BY <2>2 DEF BlockTrees
    <2>4. /\ commit(b, tree).cvs = apply_updates(tree.cvs, UpdatesOf[data(last)])
          /\ commit(b, tree).pvs = tree.cvs
      BY <1>2 DEF commit, BlockTrees
    <2> HIDE DEF last
    <2>5. QED
      BY <2>3, <2>4, ArisesByUpdate DEF SetsArise
  <1>3. QED
    BY <1>1, <1>2

\* insert keeps the validator sets, and update changes them by a commit.
LEMMA UpdateArises ==
  ASSUME preimage \in Seq(BlockContents), NEW tree \in BlockTrees, SetsArise(tree),
         NEW justify \in PhaseCertificates
  PROVE  SetsArise(update(justify, tree))
  <1> DEFINE to_commit == block_to_commit(justify, tree)
             b == CHOOSE x \in to_commit : TRUE
             committed == IF to_commit = {} THEN tree ELSE commit(b, tree)
             to_lock == pc_to_lock(justify, tree)
             lock == IF to_lock = {} THEN committed.locked_pc ELSE CHOOSE pc \in to_lock : TRUE
             highest == IF justify.view > committed.highest_pc.view THEN justify
                        ELSE committed.highest_pc
             decided == committed.update_decided \/ justify.phase = "Decide"
             new == [committed EXCEPT !.highest_pc = highest, !.locked_pc = lock,
                                      !.update_decided = decided]
  <1>1. committed \in BlockTrees /\ SetsArise(committed)
    <2>1. CASE to_commit = {}
      BY <2>1
    <2>2. CASE to_commit # {}
      <3>1. b \in Hashes
        BY <2>2, BlockToCommitType
      <3> HIDE DEF b
      <3>2. QED
        BY <2>2, <3>1, CommitType, CommitArises
    <2>3. QED
      BY <2>1, <2>2
  <1>2. update(justify, tree) = new
    BY DEF update
  <1> HIDE DEF committed, lock, highest, decided
  <1>3. new.cvs = committed.cvs /\ new.pvs = committed.pvs
    BY <1>1 DEF BlockTrees
  <1> HIDE DEF new
  <1>4. QED
    BY <1>1, <1>2, <1>3 DEF SetsArise

\* A step keeps the validator sets of a tree to those that arise.
LEMMA StepArises ==
  ASSUME TypeOK, [Next]_vars, NEW r \in Replicas, SetsArise(bt[r])
  PROVE  SetsArise(bt[r])'
  <1>1. bt[r] \in BlockTrees /\ preimage \in Seq(BlockContents)
    BY DEF TypeOK
  <1>2. PICK tree : SetsArise(tree) /\ bt'[r].cvs = tree.cvs /\ bt'[r].pvs = tree.pvs
    <2>1. CASE SameTree(bt[r], bt'[r])
      BY <2>1 DEF SameTree
    <2>2. ASSUME NEW pc \in PhaseCertificates, NEW base \in Bases(bt[r], pc),
                 SameTree(update(pc, base), bt'[r])
          PROVE  \E tree : SetsArise(tree) /\ bt'[r].cvs = tree.cvs /\ bt'[r].pvs = tree.pvs
      <3>1. base \in BlockTrees
        BY <1>1, BasesType
      <3>2. base.cvs = bt[r].cvs /\ base.pvs = bt[r].pvs
        BY <1>1 DEF Bases, insert, BlockTrees
      <3>3. SetsArise(update(pc, base))
        BY <1>1, <3>1, <3>2, UpdateArises DEF SetsArise
      <3>4. QED
        BY <2>2, <3>3 DEF SameTree
    <2>3. QED
      BY <2>1, <2>2, NextTreeStep DEF TreeStep
  <1>3. Arises(tree.cvs)' /\ Arises(tree.pvs)'
    BY <1>2, NextGrows, ArisesGrows DEF SetsArise
  <1>4. QED
    BY <1>2, <1>3 DEF SetsArise

-----------------------------------------------------------------------------
(* Phases in consecutive views.                                            *)

\* The votes of a quorum of some validator set are behind what a vote of view v
\* for a phase needs in the view before.
Backed(v, b, phase) ==
  \E vs \in {ws \in ValidatorSet : Arises(ws)} :
    <<v - 1, b, Predecessor(phase)>> \in Certifiable(vs)

\* The validator sets of all trees arise, and every vote for a phase follows a
\* quorum of votes for the phase before.
PhaseInv ==
  /\ \A r \in Replicas : SetsArise(bt[r])
  /\ \A m \in PhaseVotes : m.phase \in {"Precommit", "Commit"} => Backed(m.view, m.block, m.phase)

\* What is backed stays so.
LEMMA BackedGrows ==
  ASSUME TypeOK', Grows, msgs \subseteq msgs', NEW v, NEW b, NEW phase, Backed(v, b, phase)
  PROVE  Backed(v, b, phase)'
  <1> DEFINE c == <<v - 1, b, Predecessor(phase)>>
  <1>1. PICK vs \in ValidatorSet : Arises(vs) /\ c \in Certifiable(vs)
    BY DEF Backed
  <1> HIDE DEF c
  <1>2. Arises(vs)' /\ c \in Certifiable(vs)'
    BY <1>1, ArisesGrows, CertifiableGrows
  <1>3. QED
    BY <1>2 DEF Backed, c

\* Every step only adds messages.
LEMMA NextSends ==
  ASSUME [Next]_vars
  PROVE  msgs \subseteq msgs'
  <1>1. ASSUME NEW r \in Replicas, EnterView(r) PROVE msgs \subseteq msgs'
    BY <1>1 DEF EnterView, EnterViewFollower, EnterViewRepropose, EnterViewPropose,
                EnterViewNudge, StartView
  <1>2. ASSUME NEW r \in Replicas, NEW m \in msgs, OnReceiveMsg(r, m) PROVE msgs \subseteq msgs'
    BY <1>2 DEF OnReceiveMsg, OnReceiveProposal, RejectProposal, OnReceiveNudge, RejectNudge,
                OnReceivePhaseVote, OnReceiveNewView, UpdateAndVote, Ignore, ProcessPC
  <1>3. ASSUME NEW r \in Replicas, Misbehave(r) PROVE msgs \subseteq msgs'
    BY <1>3 DEF Misbehave, Equivocate, DoubleVote
  <1>4. QED
    BY <1>1, <1>2, <1>3 DEF Next, vars

\* A step keeps the phases in order.
LEMMA PhaseStep ==
  ASSUME TypeOK, TypeOK', SignatureInv, PhaseInv, [Next]_vars
  PROVE  PhaseInv'
  <1>1. Grows /\ msgs \subseteq msgs'
    BY NextGrows, NextSends
  <1>2. \A r \in Replicas : SetsArise(bt[r])'
    BY StepArises DEF PhaseInv
  <1>3. ASSUME NEW m \in PhaseVotes', m.phase \in {"Precommit", "Commit"}
        PROVE  Backed(m.view, m.block, m.phase)'
    <2>1. Backed(m.view, m.block, m.phase)
      <3>1. CASE m \in msgs
        BY <1>3, <3>1 DEF PhaseInv, PhaseVotes
      <3>2. CASE m \notin msgs
        <4>1. VoteOf(m)
          BY <3>2, NextVotes DEF PhaseVotes
        <4>2. PICK r \in Replicas, pc \in KnownPCs :
                /\ is_nudge_justify(pc)
                /\ is_correct(pc, bt[r])
                /\ pc.phase = "Commit" \/ pc.view = view[r] - 1
                /\ m.view = view[r] /\ m.block = pc.block /\ m.phase = NextPhase(pc.phase)
          BY <1>3, <4>1 DEF VoteOf
        <4>3. pc.phase \in {"Prepare", "Precommit"} /\ pc.phase = Predecessor(m.phase)
          BY <1>3, <4>2 DEF NextPhase, Predecessor, is_nudge_justify
        <4>4. pc.view = m.view - 1
          BY <4>2, <4>3
        <4>5. PICK vs \in {bt[r].cvs, bt[r].pvs} :
                <<pc.view, pc.block, pc.phase>> \in Certifiable(vs)
          BY <4>2, CorrectIsCertifiable
        <4>6. vs \in ValidatorSet /\ Arises(vs)
          BY DEF TypeOK, BlockTrees, PhaseInv, SetsArise
        <4>7. <<m.view - 1, m.block, Predecessor(m.phase)>> \in Certifiable(vs)
          BY <4>2, <4>3, <4>4, <4>5
        <4>8. QED
          BY <4>6, <4>7 DEF Backed
      <3>3. QED
        BY <3>1, <3>2
    <2>2. QED
      BY <1>1, <2>1, BackedGrows
  <1>4. QED
    BY <1>2, <1>3 DEF PhaseInv

\* In every behaviour, votes for a phase follow a quorum for the one before.
LEMMA PhasesFollow == Spec => []PhaseInv
  <1>1. Init => PhaseInv
    <2> SUFFICES ASSUME Init PROVE PhaseInv
      OBVIOUS
    <2>1. Arises(InitialValidatorSet)
      BY DEF Arises
    <2>2. \A r \in Replicas : SetsArise(bt[r])
      BY <2>1 DEF Init, initialize, SetsArise
    <2>3. PhaseVotes = {}
      BY DEF Init, PhaseVotes
    <2>4. QED
      BY <2>2, <2>3 DEF PhaseInv
  <1>2. TypeOK /\ TypeOK' /\ SignatureInv /\ PhaseInv /\ [Next]_vars => PhaseInv'
    BY PhaseStep
  <1>3. QED
    BY <1>1, <1>2, TypeCorrect, SignaturesHeld, PTL DEF Spec

\* In every behaviour, also when validator sets change, views fail and faulty
\* replicas vote twice: a Precommit or Commit certificate of a view that any
\* replica holds, sends or builds on has behind it the votes of a quorum for
\* the phase before in the view before (safe_nudge), of a validator set that
\* the updates of the blocks lead to.
THEOREM PhasesFollowInViews == Spec => []PhasesAreConsecutive
  <1>1. SignatureInv /\ PhaseInv => PhasesAreConsecutive
    <2> SUFFICES ASSUME SignatureInv, PhaseInv, NEW pc \in KnownPCs,
                        pc.phase \in {"Precommit", "Commit"}
                 PROVE  Backed(pc.view, pc.block, pc.phase)
      BY DEF PhasesAreConsecutive, Backed
    <2>1. VotersFor(pc.view, pc.block, pc.phase) # {}
      BY DEF SignatureInv, VotedFor, is_genesis_pc, genesis_pc
    <2>2. PICK m \in PhaseVotes : m.view = pc.view /\ m.block = pc.block /\ m.phase = pc.phase
      BY <2>1 DEF VotersFor
    <2>3. QED
      BY <2>2 DEF PhaseInv
  <1>2. QED
    BY <1>1, SignaturesHeld, PhasesFollow, PTL
=============================================================================
