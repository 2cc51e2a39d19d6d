-------------------------- MODULE AgreementProofs --------------------------
(***************************************************************************)
(* Agreement, for networks whose validator set does not change and         *)
(* behaviours in which no lock moves back: no two replicas commit          *)
(* different blocks at a height, and all of them grow one chain.           *)
(***************************************************************************)
EXTENDS HotStuffProofs

-----------------------------------------------------------------------------
(* Certificates of a network without validator set updates.                *)

Signers(pc) == Range(pc.signatures) \ {NoSignature}

\* A quorum of the initial validator set has voted for b in view v.
Certified(v, b) == Power(VotersFor(v, b, "Generic")) >= quorum(InitialValidatorSet)

\* A certificate signed by a quorum, each of whose signatures is of a vote.
Valid(pc) ==
  \/ is_genesis_pc(pc)
  \/ /\ pc.phase = "Generic"
     /\ Signers(pc) \subseteq VotersFor(pc.view, pc.block, "Generic")
     /\ Power(Signers(pc)) >= quorum(InitialValidatorSet)

\* The honest voters for a block validated its justify; one whose signature is
\* in the justify signed it in an earlier view.
VotesAreJustified ==
  \A m \in HonestVotes :
    /\ m.block \in Hashes
    /\ Valid(block_justify(m.block))
    /\ m.from \in Signers(block_justify(m.block)) => block_justify(m.block).view < m.view

\* Only replicas vote.
LEMMA VotersAreReplicas == TypeOK => \A v, b, phase : VotersFor(v, b, phase) \in SUBSET Replicas
  BY DEF VotersFor, PhaseVotes, TypeOK, IsMessage

\* Only replicas sign.
LEMMA SignersAreReplicas ==
  ASSUME NEW pc \in PhaseCertificates
  PROVE  Signers(pc) \in SUBSET Replicas
  <1>1. CASE pc = genesis_pc
    BY <1>1 DEF Signers, genesis_pc, Range
  <1>2. CASE pc # genesis_pc
    <2>1. pc.signatures \in Seq(Replicas \cup {NoSignature})
      BY <1>2 DEF PhaseCertificates
    <2>2. QED
      BY <2>1 DEF Signers, Range
  <1>3. QED
    BY <1>1, <1>2

\* A certificate stays valid, and what is certified stays so.
LEMMA ValidStays ==
  ASSUME TypeOK', msgs \subseteq msgs'
  PROVE  /\ \A v, b : Certified(v, b) => Certified(v, b)'
         /\ \A pc : Valid(pc) => Valid(pc)'
  <1>1. ASSUME NEW v, NEW b, Certified(v, b) PROVE Certified(v, b)'
    <2> DEFINE S == VotersFor(v, b, "Generic")
               T == VotersFor(v, b, "Generic")'
    <2>1. S \in SUBSET T /\ T \in SUBSET Replicas
      <3>1. T \in SUBSET Replicas
        BY DEF VotersFor, PhaseVotes, TypeOK, IsMessage
      <3>2. QED
        BY <3>1, VotersGrow
    <2> HIDE DEF S, T
    <2>2. Power(S) <= Power(T) /\ Power(S) \in Nat /\ Power(T) \in Nat
      BY <2>1, PowerMonotone, PowerFacts DEF Power
    <2>3. quorum(InitialValidatorSet) \in Int
      BY PowerFacts DEF quorum
    <2>4. Power(S) >= quorum(InitialValidatorSet)
      BY <1>1 DEF Certified, S
    <2>5. Power(T) >= quorum(InitialValidatorSet)
      BY <2>2, <2>3, <2>4
    <2>6. QED
      BY <2>5 DEF Certified, T, Power
  <1>2. ASSUME NEW pc, Valid(pc) PROVE Valid(pc)'
    <2>1. VotersFor(pc.view, pc.block, "Generic") \subseteq VotersFor(pc.view, pc.block, "Generic")'
      BY VotersGrow
    <2>2. QED
      BY <1>2, <2>1 DEF Valid, is_genesis_pc
  <1>3. QED
    BY <1>1, <1>2

\* The block of a valid certificate is certified in its view.
LEMMA ValidIsCertified ==
  ASSUME TypeOK, NEW pc \in PhaseCertificates, Valid(pc), ~is_genesis_pc(pc)
  PROVE  Certified(pc.view, pc.block)
  <1> DEFINE S == Signers(pc)
             T == VotersFor(pc.view, pc.block, "Generic")
  <1>1. S \in SUBSET T /\ T \in SUBSET Replicas
    BY VotersAreReplicas DEF Valid
  <1>2. Power(S) >= quorum(InitialValidatorSet)
    BY DEF Valid
  <1> HIDE DEF S, T
  <1>3. Power(S) <= Power(T) /\ Power(S) \in Nat /\ Power(T) \in Nat
    BY <1>1, PowerMonotone, PowerFacts DEF Power
  <1>4. quorum(InitialValidatorSet) \in Int
    BY PowerFacts DEF quorum
  <1>5. Power(T) >= quorum(InitialValidatorSet)
    BY <1>2, <1>3, <1>4
  <1>6. QED
    BY <1>5 DEF Certified, T

\* Two certified blocks, or quorums, have an honest voter in common.
LEMMA CommonVoter ==
  ASSUME TypeOK, NEW v, NEW b, Certified(v, b),
         NEW S \in SUBSET Replicas, Power(S) >= quorum(InitialValidatorSet)
  PROVE  \E m \in HonestVotes : m.from \in S /\ m.view = v /\ m.block = b
  <1>1. PICK r \in VotersFor(v, b, "Generic") \cap S : r \notin Faulty
    BY VotersAreReplicas, QuorumsIntersect DEF Certified
  <1>2. QED
    BY <1>1 DEF VotersFor, HonestVotes

\* A certified block has an honest voter.
LEMMA CertifiedHasVoter ==
  ASSUME TypeOK, NEW v, NEW b, Certified(v, b)
  PROVE  \E m \in HonestVotes : m.view = v /\ m.block = b
  <1>1. VotersFor(v, b, "Generic") \in SUBSET Replicas
    BY VotersAreReplicas
  <1>2. QED
    BY <1>1, CommonVoter DEF Certified

\* At most one block is certified in a view.
LEMMA CertifiedOnce ==
  ASSUME TypeOK, VoteInv, NEW v, NEW b, NEW c, Certified(v, b), Certified(v, c)
  PROVE  b = c
  <1>1. VotersFor(v, c, "Generic") \in SUBSET Replicas
    BY VotersAreReplicas
  <1>2. PICK m \in HonestVotes : m.from \in VotersFor(v, c, "Generic") /\ m.view = v /\ m.block = b
    BY <1>1, CommonVoter DEF Certified
  <1>3. PICK n \in PhaseVotes : n.from = m.from /\ n.view = v /\ n.block = c
    BY <1>2 DEF VotersFor
  <1>4. m = n
    BY <1>2, <1>3 DEF VoteInv, OneVotePerView, HonestVotes
  <1>5. QED
    BY <1>2, <1>3, <1>4

\* The justify of a certified block is valid, and of an earlier view: a quorum
\* signed it, a quorum voted for the block, and a replica in both signed it
\* first.
LEMMA JustifiedBefore ==
  ASSUME TypeOK, VotesAreJustified, NEW v, NEW b, Certified(v, b)
  PROVE  /\ b \in Hashes
         /\ block_justify(b) \in PhaseCertificates
         /\ Valid(block_justify(b))
         /\ ~is_genesis_pc(block_justify(b)) => block_justify(b).view < v
  <1>1. PICK m \in HonestVotes : m.view = v /\ m.block = b
    BY CertifiedHasVoter
  <1>2. b \in Hashes /\ Valid(block_justify(b))
    BY <1>1 DEF VotesAreJustified
  <1>3. block_justify(b) \in PhaseCertificates
    BY <1>2, BlockFields DEF TypeOK
  <1>4. ASSUME ~is_genesis_pc(block_justify(b)) PROVE block_justify(b).view < v
    <2>1. /\ Signers(block_justify(b)) \in SUBSET Replicas
          /\ Power(Signers(block_justify(b))) >= quorum(InitialValidatorSet)
      BY <1>2, <1>3, <1>4, SignersAreReplicas DEF Valid
    <2>2. PICK n \in HonestVotes : n.from \in Signers(block_justify(b)) /\ n.view = v /\ n.block = b
      BY <2>1, CommonVoter
    <2>3. QED
      BY <2>2 DEF VotesAreJustified
  <1>5. QED
    BY <1>2, <1>3, <1>4

-----------------------------------------------------------------------------
(* The handlers, when no block updates the validator set.                  *)

NoUpdates == UpdatingData = {}

\* A tree on which no update of the validator set was committed.
StaticTree(tree) ==
  /\ tree.cvs = InitialValidatorSet
  /\ tree.update_height = None
  /\ tree.committed_updates = {}

\* Without validator set updates no block of a tree contains one.
LEMMA StaticContainsNone ==
  ASSUME NoUpdates, NEW tree \in BlockTrees, StaticTree(tree), NEW b
  PROVE  ~contains_updates(tree, b)
  BY DEF NoUpdates, BlockTrees, UpdatingBlocks, StaticTree, contains_updates

\* A certificate that a handler accepts is valid (PhaseCertificate::is_correct
\* and safe_pc).
LEMMA AcceptedIsValid ==
  ASSUME NoUpdates, preimage \in Seq(BlockContents), NEW tree \in BlockTrees, StaticTree(tree),
         NEW pc \in PhaseCertificates, VotedFor(pc), is_correct(pc, tree), safe_pc(pc, tree)
  PROVE  /\ Valid(pc)
         /\ pc.phase = "Generic"
         /\ pc.block \in tree.blocks \/ is_genesis_pc(pc)
  <1>1. pc.phase = "Generic" /\ (pc.block \in tree.blocks \/ is_genesis_pc(pc))
    BY StaticContainsNone DEF safe_pc
  <1>2. pc.block \in tree.blocks => height(pc.block) \in Nat
    BY BlockFields DEF BlockTrees
  <1>3. is_genesis_pc(pc) \/ is_correctly_signed(pc, InitialValidatorSet)
    BY <1>2 DEF is_correct, StaticTree, None
  <1>4. is_correctly_signed(pc, InitialValidatorSet)
          => Power(Signers(pc)) >= quorum(InitialValidatorSet)
    BY DEF is_correctly_signed, Power, Signers
  <1>5. Signers(pc) \subseteq VotersFor(pc.view, pc.block, "Generic")
    BY <1>1 DEF VotedFor, Signers
  <1>6. QED
    BY <1>1, <1>3, <1>4, <1>5 DEF Valid

\* What committing does: it prunes, and commits ancestors at their heights.
LEMMA CommitEffect ==
  ASSUME NoUpdates, NEW tree \in BlockTrees, StaticTree(tree), NEW b \in Hashes
  PROVE  /\ commit(b, tree).blocks \subseteq tree.blocks
         /\ StaticTree(commit(b, tree))
         /\ commit(b, tree).locked_pc = tree.locked_pc
         /\ commit(b, tree).block_at_height \subseteq
              tree.block_at_height \cup {<<height(a), a>> : a \in ancestry[b] \cap tree.blocks}
  <1>1. tree.pending_updates = {}
    BY DEF NoUpdates, BlockTrees, UpdatingBlocks
  <1>2. uncommitted_blocks(b, tree) \subseteq ancestry[b] \cap tree.blocks
    BY DEF uncommitted_blocks
  <1> DEFINE committing == uncommitted_blocks(b, tree)
             pruned     == pruned_by(committing, tree)
             edges      == {e \in tree.children :
                              e[1] \notin pruned \cup {block_justify(a).block : a \in committing}}
                           \cup {<<block_justify(a).block, a>> : a \in committing}
             app_state  == Append(tree.app_state, committing \cap tree.pending_app_updates)
             at_height  == {p \in tree.block_at_height : \A a \in committing : p[1] # height(a)}
                           \cup {<<height(a), a>> : a \in committing}
             new == [tree EXCEPT
                       !.blocks = @ \ pruned,
                       !.children = edges,
                       !.pending_app_updates = @ \ (pruned \cup committing),
                       !.app_state = app_state,
                       !.pending_updates = (@ \ pruned) \ {},
                       !.committed_updates = (@ \ pruned) \cup {},
                       !.block_at_height = at_height,
                       !.highest_committed_block = b]
  <1>3. commit(b, tree) = new
    BY <1>1 DEF commit
  <1>4. at_height \subseteq
          tree.block_at_height \cup {<<height(a), a>> : a \in ancestry[b] \cap tree.blocks}
    BY <1>2
  <1> HIDE DEF committing, pruned, edges, app_state, at_height
  <1>5. /\ new.blocks = tree.blocks \ pruned
        /\ new.committed_updates = tree.committed_updates \ pruned
        /\ new.cvs = tree.cvs /\ new.update_height = tree.update_height
        /\ new.locked_pc = tree.locked_pc
        /\ new.block_at_height = at_height
    BY DEF BlockTrees
  <1> HIDE DEF new
  <1>6. QED
    BY <1>3, <1>4, <1>5 DEF StaticTree

\* What an update by an accepted certificate does: the lock becomes the
\* justify of the certified block, and what is committed are ancestors of the
\* block that block_to_commit returns.
LEMMA UpdateEffect ==
  ASSUME NoUpdates, preimage \in Seq(BlockContents), NEW tree \in BlockTrees, StaticTree(tree),
         NEW pc \in PhaseCertificates, pc.phase = "Generic"
  PROVE  /\ update(pc, tree).blocks \subseteq tree.blocks
         /\ StaticTree(update(pc, tree))
         /\ update(pc, tree).locked_pc =
              IF is_genesis_pc(pc) THEN tree.locked_pc ELSE block_justify(pc.block)
         /\ \A p \in update(pc, tree).block_at_height :
              \/ p \in tree.block_at_height
              \/ \E b \in block_to_commit(pc, tree) : \E a \in ancestry[b] \cap tree.blocks :
                   p = <<height(a), a>>
  <1> DEFINE to_commit == block_to_commit(pc, tree)
             chosen    == CHOOSE b \in to_commit : TRUE
             committed == IF to_commit = {} THEN tree ELSE commit(chosen, tree)
             to_lock   == pc_to_lock(pc, tree)
             lock      == IF to_lock = {} THEN committed.locked_pc ELSE CHOOSE q \in to_lock : TRUE
             highest   == IF pc.view > committed.highest_pc.view THEN pc ELSE committed.highest_pc
             decided   == committed.update_decided \/ pc.phase = "Decide"
             new == [committed EXCEPT !.highest_pc = highest, !.locked_pc = lock,
                                      !.update_decided = decided]
  <1>1. /\ committed \in BlockTrees
        /\ committed.blocks \subseteq tree.blocks
        /\ StaticTree(committed)
        /\ committed.locked_pc = tree.locked_pc
        /\ \A p \in committed.block_at_height :
              \/ p \in tree.block_at_height
              \/ \E b \in to_commit : \E a \in ancestry[b] \cap tree.blocks : p = <<height(a), a>>
    <2>1. CASE to_commit = {}
      BY <2>1
    <2>2. CASE to_commit # {}
      <3>1. chosen \in to_commit /\ chosen \in Hashes
        BY <2>2, BlockToCommitType
      <3>2. committed = commit(chosen, tree)
        BY <2>2
      <3> HIDE DEF chosen, committed, to_commit
      <3>3. QED
        BY <3>1, <3>2, CommitType, CommitEffect
    <2>3. QED
      BY <2>1, <2>2
  <1>2. lock = IF is_genesis_pc(pc) THEN tree.locked_pc ELSE block_justify(pc.block)
    <2>1. to_lock = IF is_genesis_pc(pc) THEN {} ELSE {block_justify(pc.block)} \ {tree.locked_pc}
      BY DEF pc_to_lock
    <2>2. CASE to_lock = {}
      BY <1>1, <2>1, <2>2
    <2>3. CASE to_lock # {}
      BY <2>1, <2>3
    <2>4. QED
      BY <2>2, <2>3
  <1>3. update(pc, tree) = new
    BY DEF update
  <1> HIDE DEF to_commit, committed, lock, highest, decided
  <1>4. /\ new.blocks = committed.blocks
        /\ new.cvs = committed.cvs
        /\ new.update_height = committed.update_height
        /\ new.committed_updates = committed.committed_updates
        /\ new.locked_pc = lock
        /\ new.block_at_height = committed.block_at_height
    BY <1>1 DEF BlockTrees
  <1> HIDE DEF new
  <1>5. QED
    BY <1>1, <1>2, <1>3, <1>4 DEF StaticTree, to_commit

-----------------------------------------------------------------------------
(* The certificates that replicas hold are valid and of past views.  These *)
(* facts hold also when locks move back.                                   *)

\* Every certificate in a tree is valid.
TreesAreValid ==
  \A r \in Replicas : /\ StaticTree(bt[r])
                      /\ Valid(bt[r].highest_pc)
                      /\ Valid(bt[r].locked_pc)
                      /\ \A b \in bt[r].blocks : Valid(block_justify(b))

\* No certificate is of a later view than the replica that holds it or the
\* message that carries it, and a lock is of an earlier view.
PCsArePast ==
  /\ \A r \in Replicas : /\ bt[r].highest_pc.view <= view[r]
                         /\ ~is_genesis_pc(bt[r].locked_pc) => bt[r].locked_pc.view < view[r]
  /\ \A m \in msgs : /\ m.type = "Proposal" => block_justify(m.block).view <= m.view
                     /\ m.type = "NewView" => m.highest_pc.view <= m.view

StaticInv == TreesAreValid /\ PCsArePast /\ VotesAreJustified

\* What an insertion leaves.
LEMMA InsertEffect ==
  ASSUME NoUpdates, NEW tree \in BlockTrees, StaticTree(tree), NEW b
  PROVE  /\ insert(b, tree).blocks = tree.blocks \cup {b}
         /\ StaticTree(insert(b, tree))
         /\ insert(b, tree).locked_pc = tree.locked_pc
         /\ insert(b, tree).highest_pc = tree.highest_pc
         /\ insert(b, tree).block_at_height = tree.block_at_height
  <1> DEFINE edges == tree.children \cup {<<block_justify(b).block, b>>}
             new == [tree EXCEPT !.blocks = @ \cup {b},
                                 !.children = edges,
                                 !.pending_app_updates = @ \cup {b},
                                 !.pending_updates = @,
                                 !.committed_updates = @]
  <1>1. insert(b, tree) = new
    BY DEF insert, NoUpdates
  <1> HIDE DEF edges
  <1>2. /\ new.blocks = tree.blocks \cup {b}
        /\ new.cvs = tree.cvs /\ new.update_height = tree.update_height
        /\ new.committed_updates = tree.committed_updates
        /\ new.locked_pc = tree.locked_pc /\ new.highest_pc = tree.highest_pc
        /\ new.block_at_height = tree.block_at_height
    BY DEF BlockTrees
  <1> HIDE DEF new
  <1>3. QED
    BY <1>1, <1>2 DEF StaticTree

\* Every signature in a certificate that a handler takes up is of a vote.
LEMMA HandledIsVotedFor ==
  ASSUME TypeOK, SignatureInv, NEW r \in Replicas, NEW m \in msgs, NEW pc, NEW base,
         Handles(r, m, pc, base)
  PROVE  VotedFor(pc)
  <1>1. CASE m.type = "PhaseVote"
    <2>1. m \in PhaseVotes /\ m.view = view[r] /\ pc \in collect(collectors[r], m).certs
      BY <1>1 DEF Handles, PhaseVotes
    <2>2. collectors[r] \in CollectorPairs /\ PairHolds(collectors[r], m.view)
      BY <2>1 DEF TypeOK, SignatureInv, CollectorsHoldSentVotes
    <2>3. QED
      BY <2>1, <2>2, CollectHolds
  <1>2. CASE m.type # "PhaseVote"
    <2>1. pc = JustifyOf(m) /\ IsMessage(m)
      BY <1>2 DEF Handles, TypeOK
    <2>2. JustifyOf(m) \in KnownPCs
      BY <1>2, <2>1 DEF IsMessage, JustifyOf, KnownPCs, block_justify, Hashes
    <2>3. QED
      BY <2>1, <2>2 DEF SignatureInv
  <1>3. QED
    BY <1>1, <1>2

\* The certificate that a handler takes up, and the tree that it updates.
LEMMA HandledIsValid ==
  ASSUME NoUpdates, TypeOK, SignatureInv, TreesAreValid, PCsArePast,
         NEW r \in Replicas, NEW m \in msgs, NEW pc, NEW base, Handles(r, m, pc, base)
  PROVE  /\ pc \in PhaseCertificates /\ Valid(pc) /\ pc.phase = "Generic"
         /\ pc.block \in bt[r].blocks \/ is_genesis_pc(pc)
         /\ pc.view <= view[r]
         /\ m.type # "Nudge"
         /\ base \in BlockTrees /\ StaticTree(base)
         /\ base.locked_pc = bt[r].locked_pc
         /\ base.highest_pc = bt[r].highest_pc
         /\ base.block_at_height = bt[r].block_at_height
         /\ bt[r].blocks \subseteq base.blocks
         /\ \A b \in base.blocks : b \in bt[r].blocks \/ block_justify(b) = pc
  <1>1. bt[r] \in BlockTrees /\ StaticTree(bt[r]) /\ preimage \in Seq(BlockContents)
    BY DEF TypeOK, TreesAreValid
  <1>2. VotedFor(pc) /\ pc \in PhaseCertificates
    BY HandledIsVotedFor DEF Handles
  <1>3. /\ Valid(pc) /\ pc.phase = "Generic"
        /\ pc.block \in bt[r].blocks \/ is_genesis_pc(pc)
    BY <1>1, <1>2, AcceptedIsValid DEF Handles
  <1>4. m.type # "Nudge"
    BY <1>3 DEF Handles, is_nudge_justify
  <1>5. view[r] \in Nat /\ IsMessage(m)
    BY DEF TypeOK
  <1>6. pc.view <= view[r]
    BY <1>4, <1>5 DEF Handles, IsMessage, JustifyOf, PCsArePast
  <1>7. CASE m.type = "Proposal"
    <2>1. m.block \in Hashes /\ base = insert(m.block, bt[r]) /\ pc = block_justify(m.block)
      BY <1>7 DEF Handles, JustifyOf
    <2>2. base \in BlockTrees
      BY <1>1, <2>1, InsertType
    <2>3. QED
      BY <1>1, <1>2, <1>3, <1>4, <1>6, <2>1, <2>2, InsertEffect
  <1>8. CASE m.type # "Proposal"
    <2>1. base = bt[r]
      BY <1>8 DEF Handles
    <2>2. QED
      BY <1>1, <1>2, <1>3, <1>4, <1>6, <2>1
  <1>9. QED
    BY <1>7, <1>8

\* The tree of a replica after it took up a certificate.
LEMMA HandledTree ==
  ASSUME NoUpdates, TypeOK, SignatureInv, TreesAreValid, PCsArePast,
         NEW r \in Replicas, NEW m \in msgs, NEW pc, NEW base, Handles(r, m, pc, base)
  PROVE  /\ StaticTree(bt'[r])
         /\ \A b \in bt'[r].blocks : b \in Hashes /\ (b \in bt[r].blocks \/ block_justify(b) = pc)
         /\ bt'[r].highest_pc \in {pc, bt[r].highest_pc}
         /\ bt'[r].locked_pc =
              IF is_genesis_pc(pc) THEN bt[r].locked_pc ELSE block_justify(pc.block)
         /\ \A p \in bt'[r].block_at_height :
              \/ p \in bt[r].block_at_height
              \/ \E b \in block_to_commit(pc, base) : \E a \in ancestry[b] \cap base.blocks :
                   p = <<height(a), a>>
  <1> DEFINE next == update(pc, base)
  <1>1. /\ pc \in PhaseCertificates /\ pc.phase = "Generic"
        /\ base \in BlockTrees /\ StaticTree(base)
        /\ base.locked_pc = bt[r].locked_pc
        /\ base.highest_pc = bt[r].highest_pc
        /\ base.block_at_height = bt[r].block_at_height
        /\ \A b \in base.blocks : b \in bt[r].blocks \/ block_justify(b) = pc
    BY HandledIsValid
  <1>2. preimage \in Seq(BlockContents)
    BY DEF TypeOK
  <1>3. /\ next.blocks \subseteq base.blocks
        /\ StaticTree(next)
        /\ next.locked_pc = IF is_genesis_pc(pc) THEN base.locked_pc ELSE block_justify(pc.block)
        /\ \A p \in next.block_at_height :
              \/ p \in base.block_at_height
              \/ \E b \in block_to_commit(pc, base) : \E a \in ancestry[b] \cap base.blocks :
                   p = <<height(a), a>>
    BY <1>1, <1>2, UpdateEffect
  <1>4. next.highest_pc \in {pc, base.highest_pc}
    BY <1>1, <1>2, UpdatePCs
  <1>5. SameTree(next, bt'[r])
    BY DEF Handles
  <1>6. base.blocks \subseteq Hashes
    BY <1>1 DEF BlockTrees
  <1> HIDE DEF next
  <1>7. QED
    BY <1>1, <1>3, <1>4, <1>5, <1>6 DEF SameTree, StaticTree

\* The justify of a block never changes.
LEMMA JustifyStays ==
  ASSUME Grows, NEW b \in Hashes
  PROVE  b \in Hashes' /\ block_justify(b)' = block_justify(b) /\ height(b)' = height(b)
  BY DEF Grows, block_justify, height

\* A step that takes up no certificate and sends no honest vote keeps the
\* invariant, if what it sends is of the past.
LEMMA QuietStatic ==
  ASSUME TypeOK, TypeOK', StaticInv, Grows, msgs \subseteq msgs', HonestVotes' = HonestVotes,
         \A s \in Replicas : SameTree(bt[s], bt'[s]) /\ view[s] <= view'[s],
         \A m \in msgs' \ msgs : /\ m.type = "Proposal" => block_justify(m.block)'.view <= m.view
                                 /\ m.type = "NewView" => m.highest_pc.view <= m.view
  PROVE  StaticInv'
  <1>1. \A pc : Valid(pc) => Valid(pc)'
    BY ValidStays
  <1>2. \A r \in Replicas : bt[r].blocks \subseteq Hashes
    BY DEF TypeOK, BlockTrees
  <1>3. TreesAreValid'
    <2>1. ASSUME NEW r \in Replicas
          PROVE  /\ StaticTree(bt[r])' /\ Valid(bt[r].highest_pc)' /\ Valid(bt[r].locked_pc)'
                 /\ \A b \in bt'[r].blocks : Valid(block_justify(b))'
      <3>1. SameTree(bt[r], bt'[r])
        OBVIOUS
      <3>2. /\ StaticTree(bt[r]) /\ Valid(bt[r].highest_pc) /\ Valid(bt[r].locked_pc)
            /\ \A b \in bt[r].blocks : Valid(block_justify(b))
        BY DEF StaticInv, TreesAreValid
      <3>3. PICK high, lock : high = bt[r].highest_pc /\ lock = bt[r].locked_pc
        OBVIOUS
      <3>4. Valid(high)' /\ Valid(lock)' /\ bt'[r].highest_pc = high /\ bt'[r].locked_pc = lock
        BY <1>1, <3>1, <3>2, <3>3 DEF SameTree
      <3>5. StaticTree(bt[r])' /\ Valid(bt[r].highest_pc)' /\ Valid(bt[r].locked_pc)'
        BY <3>1, <3>2, <3>4 DEF StaticTree, SameTree, Valid, is_genesis_pc, Signers
      <3>6. ASSUME NEW b \in bt'[r].blocks PROVE Valid(block_justify(b))'
        <4>1. b \in bt[r].blocks /\ b \in Hashes
          BY <1>2, <3>1 DEF SameTree
        <4>2. PICK q : q = block_justify(b)
          OBVIOUS
        <4>3. Valid(q)' /\ block_justify(b)' = q
          BY <1>1, <3>2, <4>1, <4>2, JustifyStays
        <4>4. QED
          BY <4>3 DEF Valid, is_genesis_pc, Signers
      <3>7. QED
        BY <3>5, <3>6
    <2>2. QED
      BY <2>1 DEF TreesAreValid
  <1>4. PCsArePast'
    <2>1. ASSUME NEW r \in Replicas
          PROVE  /\ bt'[r].highest_pc.view <= view'[r]
                 /\ ~is_genesis_pc(bt'[r].locked_pc) => bt'[r].locked_pc.view < view'[r]
      <3>1. /\ bt'[r].highest_pc = bt[r].highest_pc /\ bt'[r].locked_pc = bt[r].locked_pc
            /\ view[r] <= view'[r]
        BY DEF SameTree
      <3>2. /\ bt[r].highest_pc \in PhaseCertificates /\ bt[r].locked_pc \in PhaseCertificates
            /\ view[r] \in Nat /\ view'[r] \in Nat
        BY DEF TypeOK, BlockTrees
      <3>3. /\ bt[r].highest_pc.view <= view[r]
            /\ ~is_genesis_pc(bt[r].locked_pc) => bt[r].locked_pc.view < view[r]
        BY DEF StaticInv, PCsArePast
      <3>4. QED
        BY <3>1, <3>2, <3>3, CertificateFields
    <2>2. ASSUME NEW m \in msgs'
          PROVE  /\ m.type = "Proposal" => block_justify(m.block)'.view <= m.view
                 /\ m.type = "NewView" => m.highest_pc.view <= m.view
      <3>1. CASE m \in msgs
        <4>1. m.type = "Proposal" => m.block \in Hashes
          BY <3>1 DEF TypeOK, IsMessage
        <4>2. QED
          BY <3>1, <4>1, JustifyStays DEF StaticInv, PCsArePast
      <3>2. CASE m \notin msgs
        BY <3>2
      <3>3. QED
        BY <3>1, <3>2
    <2>3. QED
      BY <2>1, <2>2 DEF PCsArePast, is_genesis_pc
  <1>5. VotesAreJustified'
    <2>1. ASSUME NEW m \in HonestVotes
          PROVE  /\ m.block \in Hashes'
                 /\ Valid(block_justify(m.block))'
                 /\ m.from \in Signers(block_justify(m.block)') => block_justify(m.block)'.view < m.view
      <3>1. /\ m.block \in Hashes /\ Valid(block_justify(m.block))
            /\ m.from \in Signers(block_justify(m.block)) => block_justify(m.block).view < m.view
        BY DEF StaticInv, VotesAreJustified
      <3>2. m.block \in Hashes' /\ block_justify(m.block)' = block_justify(m.block)
        BY <3>1, JustifyStays
      <3>3. QED
        BY <1>1, <3>1, <3>2 DEF Valid, is_genesis_pc
    <2>2. QED
      BY <2>1 DEF VotesAreJustified, Signers
  <1>6. QED
    BY <1>3, <1>4, <1>5 DEF StaticInv

\* The content of a block that was hashed.
LEMMA HashedContent ==
  ASSUME preimage \in Seq(BlockContents), NEW content, Hashed(content)
  PROVE  preimage'[hash(content)] = content
  <1>1. CASE IsHashed(content)
    BY <1>1 DEF Hashed, hash, IsHashed
  <1>2. CASE ~IsHashed(content)
    BY <1>2 DEF Hashed, hash
  <1>3. QED
    BY <1>1, <1>2

\* enter_view keeps the invariant.
LEMMA EnterViewStatic ==
  ASSUME NoUpdates, TypeOK, TypeOK', StaticInv, Grows, NEW r \in Replicas, EnterView(r)
  PROVE  StaticInv'
  <1>1. PICK v \in EntryViews[r] : /\ v > view[r]
                                   /\ \/ EnterViewFollower(r, v)
                                      \/ EnterViewRepropose(r, v)
                                      \/ EnterViewPropose(r, v)
                                      \/ EnterViewNudge(r, v)
    BY DEF EnterView
  <1>2. v \in Nat /\ view[r] \in Nat /\ bt[r].highest_pc.view \in Nat
    BY ReplicasAssumption, CertificateFields DEF TypeOK, BlockTrees
  <1>3. bt[r].highest_pc.view <= view[r]
    BY DEF StaticInv, PCsArePast
  <1>4. bt[r].highest_pc.phase = "Generic"
    BY DEF StaticInv, TreesAreValid, Valid, is_genesis_pc, genesis_pc
  <1>5. PICK proposals : /\ StartView(r, v, proposals)
                         /\ \A m \in proposals :
                              /\ m.type \notin {"PhaseVote", "NewView"}
                              /\ m.type = "Proposal" => block_justify(m.block)'.view <= m.view
    <2>1. CASE EnterViewFollower(r, v)
      BY <2>1 DEF EnterViewFollower
    <2>2. CASE EnterViewRepropose(r, v)
      BY <1>4, <2>2 DEF EnterViewRepropose, repropose_block
    <2>3. CASE EnterViewPropose(r, v)
      <3>1. PICK d \in Produces[r] :
              /\ StartView(r, v, {Proposal(r, v, hash(new_block(bt[r].highest_pc, d)))})
              /\ Hashed(new_block(bt[r].highest_pc, d))
        BY <2>3 DEF EnterViewPropose
      <3>2. PICK b : b = hash(new_block(bt[r].highest_pc, d))
        OBVIOUS
      <3>3. preimage'[b] = new_block(bt[r].highest_pc, d)
        BY <3>1, <3>2, HashedContent DEF TypeOK
      <3>4. block_justify(b)'.view <= v
        BY <1>1, <1>2, <1>3, <3>3 DEF block_justify, new_block
      <3>5. \A m \in {Proposal(r, v, b)} : m.type = "Proposal" /\ m.block = b /\ m.view = v
        BY DEF Proposal
      <3>6. QED
        BY <3>1, <3>2, <3>4, <3>5
    <2>4. CASE EnterViewNudge(r, v)
      BY <1>4, <2>4 DEF EnterViewNudge, is_nudge_justify
    <2>5. QED
      BY <1>1, <2>1, <2>2, <2>3, <2>4
  <1>6. msgs \subseteq msgs' /\ PhaseVotes' = PhaseVotes
    BY <1>5, StartViewVotes DEF StartView
  <1>7. \A m \in msgs' \ msgs : /\ m.type = "Proposal" => block_justify(m.block)'.view <= m.view
                                /\ m.type = "NewView" => m.highest_pc.view <= m.view
    BY <1>3, <1>5 DEF StartView, NewView
  <1>8. \A s \in Replicas : SameTree(bt[s], bt'[s])
    BY EnterViewSameTree
  <1>9. \A s \in Replicas : view[s] <= view'[s]
    BY <1>1, <1>2, <1>5 DEF StartView, TypeOK
  <1>10. QED
    BY <1>6, <1>7, <1>8, <1>9, QuietStatic DEF HonestVotes

\* What faulty replicas do keeps the invariant.
LEMMA MisbehaveStatic ==
  ASSUME TypeOK, TypeOK', StaticInv, Grows, NEW r \in Replicas, Misbehave(r)
  PROVE  StaticInv'
  <1>1. UNCHANGED <<bt, view>> /\ msgs \subseteq msgs'
    BY DEF Misbehave, Equivocate, DoubleVote
  <1>2. \A s \in Replicas : SameTree(bt[s], bt'[s]) /\ view[s] <= view'[s]
    BY <1>1, SameTreeReflexive DEF TypeOK
  <1>3. CASE Equivocate(r)
    <2>1. PICK pc \in {genesis_pc, bt[r].highest_pc}, d \in Produces[r] :
            /\ msgs' = msgs \cup {Proposal(r, view[r], hash(new_block(pc, d)))}
            /\ Hashed(new_block(pc, d))
      BY <1>3 DEF Equivocate
    <2>2. PICK b : b = hash(new_block(pc, d))
      OBVIOUS
    <2>3. preimage'[b] = new_block(pc, d)
      BY <2>1, <2>2, HashedContent DEF TypeOK
    <2>4. pc.view <= view[r]
      BY DEF StaticInv, PCsArePast, genesis_pc, TypeOK
    <2>5. block_justify(b)'.view <= view[r]
      BY <2>3, <2>4 DEF block_justify, new_block
    <2>6. \A m \in msgs' \ msgs : m.type = "Proposal" /\ m.block = b /\ m.view = view[r]
      BY <2>1, <2>2 DEF Proposal
    <2>7. HonestVotes' = HonestVotes
      BY <1>1, <2>6 DEF HonestVotes, PhaseVotes
    <2>8. QED
      BY <1>1, <1>2, <2>5, <2>6, <2>7, QuietStatic
  <1>4. CASE DoubleVote(r)
    <2>1. \A m \in msgs' \ msgs : m.type = "PhaseVote" /\ m.from \in Faulty
      BY <1>4 DEF DoubleVote, PhaseVote
    <2>2. HonestVotes' = HonestVotes
      BY <1>1, <2>1 DEF HonestVotes, PhaseVotes
    <2>3. QED
      BY <1>1, <1>2, <2>1, <2>2, QuietStatic
  <1>5. QED
    BY <1>3, <1>4 DEF Misbehave

\* The lock that a handler moves to is of an earlier view than the certificate
\* it takes up.
LEMMA HandledLock ==
  ASSUME NoUpdates, TypeOK, SignatureInv, StaticInv,
         NEW r \in Replicas, NEW m \in msgs, NEW pc, NEW base, Handles(r, m, pc, base),
         ~is_genesis_pc(pc)
  PROVE  /\ Certified(pc.view, pc.block)
         /\ pc.block \in bt[r].blocks /\ pc.block \in Hashes
         /\ block_justify(pc.block) \in PhaseCertificates
         /\ Valid(block_justify(pc.block))
         /\ ~is_genesis_pc(block_justify(pc.block)) => block_justify(pc.block).view < pc.view
  <1>1. TreesAreValid /\ PCsArePast /\ VotesAreJustified
    BY DEF StaticInv
  <1>2. pc \in PhaseCertificates /\ Valid(pc) /\ pc.block \in bt[r].blocks
    BY <1>1, HandledIsValid
  <1>3. Certified(pc.view, pc.block)
    BY <1>2, ValidIsCertified
  <1>4. QED
    BY <1>1, <1>2, <1>3, JustifiedBefore

\* The vote of a handler is for a block whose justify it has checked.
LEMMA HandledVote ==
  ASSUME NoUpdates, TypeOK, VoteInv, SignatureInv, StaticInv,
         NEW r \in Replicas, NEW m \in msgs, NEW pc, NEW base, Handles(r, m, pc, base),
         NEW n \in msgs' \ msgs
  PROVE  /\ m.type = "Proposal" /\ n.block = m.block
         /\ n.type = "PhaseVote" /\ n.from = r /\ n.view = view[r]
         /\ n.block \in Hashes /\ block_justify(n.block) = pc
         /\ \A k \in HonestVotes : k.from = r => k.view < view[r]
         /\ r \notin Faulty /\ r \in Signers(pc) => pc.view < view[r]
  <1>1. TreesAreValid /\ PCsArePast
    BY DEF StaticInv
  <1>2. Valid(pc) /\ pc \in PhaseCertificates /\ m.type # "Nudge"
    BY <1>1, HandledIsValid
  <1>3. /\ m.type = "Proposal" /\ n.block = m.block
        /\ n.type = "PhaseVote" /\ n.from = r /\ n.view = view[r]
        /\ bt[r].highest_view_voted < view[r]
    BY <1>2 DEF Handles
  <1>4. n.block \in Hashes /\ block_justify(n.block) = pc
    BY <1>3 DEF Handles, JustifyOf
  <1>5. bt[r].highest_view_voted \in Nat \cup {-1} /\ view[r] \in Nat
    BY DEF TypeOK, BlockTrees, None
  <1>6. ASSUME NEW k \in HonestVotes, k.from = r PROVE k.view < view[r]
    <2>1. k.view <= bt[r].highest_view_voted /\ k.view \in Nat
      BY <1>6 DEF VoteInv, VotesAreRecorded, HonestVotes, PhaseVotes, TypeOK, IsMessage
    <2>2. QED
      BY <1>3, <1>5, <2>1
  <1>7. ASSUME r \notin Faulty, r \in Signers(pc) PROVE pc.view < view[r]
    <2>1. r \in VotersFor(pc.view, pc.block, "Generic")
      BY <1>2, <1>7 DEF Valid, is_genesis_pc, genesis_pc, Signers, Range
    <2>2. PICK k \in PhaseVotes : k.from = r /\ k.view = pc.view
      BY <2>1 DEF VotersFor
    <2>3. QED
      BY <1>6, <1>7, <2>2 DEF HonestVotes
  <1>8. QED
    BY <1>3, <1>4, <1>6, <1>7

\* Taking up a certificate keeps the invariant.
LEMMA HandleStatic ==
  ASSUME NoUpdates, TypeOK, TypeOK', VoteInv, SignatureInv, StaticInv,
         NEW r \in Replicas, NEW m \in msgs, NEW pc, NEW base, Handles(r, m, pc, base)
  PROVE  StaticInv'
  <1>1. TreesAreValid /\ PCsArePast /\ VotesAreJustified
    BY DEF StaticInv
  <1>2. /\ preimage' = preimage /\ view' = view /\ msgs \subseteq msgs'
        /\ \A s \in Replicas \ {r} : bt'[s] = bt[s]
    BY DEF Handles
  <1>3. \A q : Valid(q) => Valid(q)'
    BY <1>2, ValidStays
  <1>4. \A b : block_justify(b)' = block_justify(b)
    BY <1>2 DEF block_justify
  <1>5. \A b : Valid(block_justify(b)) => Valid(block_justify(b))'
    BY <1>3, <1>4 DEF Valid, is_genesis_pc, Signers
  <1>6. /\ pc \in PhaseCertificates /\ Valid(pc) /\ pc.view <= view[r]
    BY <1>1, HandledIsValid
  <1>7. PICK lock : lock = IF is_genesis_pc(pc) THEN bt[r].locked_pc ELSE block_justify(pc.block)
    OBVIOUS
  <1>8. /\ StaticTree(bt'[r])
        /\ \A b \in bt'[r].blocks : b \in bt[r].blocks \/ block_justify(b) = pc
        /\ bt'[r].highest_pc \in {pc, bt[r].highest_pc}
        /\ bt'[r].locked_pc = lock
    BY <1>1, <1>7, HandledTree
  <1>9. Valid(lock) /\ (~is_genesis_pc(lock) => lock.view < view[r])
    <2>1. CASE is_genesis_pc(pc)
      BY <1>1, <1>7, <2>1 DEF TreesAreValid, PCsArePast
    <2>2. CASE ~is_genesis_pc(pc)
      <3>1. /\ lock \in PhaseCertificates /\ Valid(lock)
            /\ ~is_genesis_pc(lock) => lock.view < pc.view
        BY <1>7, <2>2, HandledLock
      <3>2. view[r] \in Nat /\ pc.view \in Nat /\ lock.view \in Nat
        BY <1>6, <3>1, CertificateFields DEF TypeOK
      <3>3. QED
        BY <1>6, <3>1, <3>2
    <2>3. QED
      BY <2>1, <2>2
  <1>10. TreesAreValid'
    <2>1. ASSUME NEW s \in Replicas
          PROVE  /\ StaticTree(bt[s])' /\ Valid(bt[s].highest_pc)' /\ Valid(bt[s].locked_pc)'
                 /\ \A b \in bt'[s].blocks : Valid(block_justify(b))'
      <3>1. PICK high, low : high = bt'[s].highest_pc /\ low = bt'[s].locked_pc
        OBVIOUS
      <3>2. StaticTree(bt'[s]) /\ Valid(high) /\ Valid(low)
        BY <1>1, <1>2, <1>6, <1>8, <1>9, <3>1 DEF TreesAreValid
      <3>3. Valid(high)' /\ Valid(low)'
        BY <1>3, <3>2
      <3>4. \A b \in bt'[s].blocks : Valid(block_justify(b))
        BY <1>1, <1>2, <1>6, <1>8 DEF TreesAreValid
      <3>5. QED
        BY <1>5, <3>1, <3>2, <3>3, <3>4 DEF StaticTree, Valid, is_genesis_pc, Signers
    <2>2. QED
      BY <2>1 DEF TreesAreValid
  <1>11. PCsArePast'
    <2>1. ASSUME NEW s \in Replicas
          PROVE  /\ bt'[s].highest_pc.view <= view'[s]
                 /\ ~is_genesis_pc(bt'[s].locked_pc) => bt'[s].locked_pc.view < view'[s]
      BY <1>1, <1>2, <1>6, <1>8, <1>9 DEF PCsArePast
    <2>2. ASSUME NEW n \in msgs'
          PROVE  /\ n.type = "Proposal" => block_justify(n.block)'.view <= n.view
                 /\ n.type = "NewView" => n.highest_pc.view <= n.view
      <3>1. CASE n \in msgs
        BY <1>1, <1>4, <3>1 DEF PCsArePast
      <3>2. CASE n \notin msgs
        BY <3>2, HandledVote
      <3>3. QED
        BY <3>1, <3>2
    <2>3. QED
      BY <2>1, <2>2 DEF PCsArePast, is_genesis_pc
  <1>12. VotesAreJustified'
    <2>1. ASSUME NEW n \in HonestVotes'
          PROVE  /\ n.block \in Hashes /\ Valid(block_justify(n.block))
                 /\ n.from \in Signers(block_justify(n.block)) => block_justify(n.block).view < n.view
      <3>1. CASE n \in msgs
        BY <1>1, <3>1 DEF VotesAreJustified, HonestVotes, PhaseVotes
      <3>2. CASE n \notin msgs
        <4>1. n \in msgs' \ msgs /\ n.from \notin Faulty
          BY <3>2 DEF HonestVotes, PhaseVotes
        <4>2. /\ n.from = r /\ n.view = view[r] /\ n.block \in Hashes /\ block_justify(n.block) = pc
              /\ r \notin Faulty /\ r \in Signers(pc) => pc.view < view[r]
          BY <4>1, HandledVote
        <4>3. QED
          BY <1>6, <4>1, <4>2
      <3>3. QED
        BY <3>1, <3>2
    <2>2. Hashes' = Hashes
      BY <1>2 DEF Hashes
    <2>3. QED
      BY <1>4, <1>5, <2>1, <2>2 DEF VotesAreJustified, Signers
  <1>13. QED
    BY <1>10, <1>11, <1>12 DEF StaticInv

\* A step keeps the invariant.
LEMMA StaticStep ==
  ASSUME NoUpdates, TypeOK, VoteInv, SignatureInv, BlocksOnParents, StaticInv, [Next]_vars
  PROVE  StaticInv'
  <1>1. TypeOK' /\ Grows
    BY NextInv, NextGrows
  <1>2. CASE UNCHANGED vars
    <2>1. HonestVotes' = HonestVotes
      BY <1>2 DEF vars, HonestVotes, PhaseVotes
    <2>2. \A s \in Replicas : SameTree(bt[s], bt'[s]) /\ view[s] <= view'[s]
      BY <1>2, SameTreeReflexive DEF vars, TypeOK
    <2>3. QED
      BY <1>1, <1>2, <2>1, <2>2, QuietStatic DEF vars
  <1>3. ASSUME NEW r \in Replicas, EnterView(r) PROVE StaticInv'
    BY <1>1, <1>3, EnterViewStatic
  <1>4. ASSUME NEW r \in Replicas, Misbehave(r) PROVE StaticInv'
    BY <1>1, <1>4, MisbehaveStatic
  <1>5. ASSUME NEW r \in Replicas, NEW m \in msgs, OnReceiveMsg(r, m) PROVE StaticInv'
    <2>1. CASE UNCHANGED <<preimage, bt, view, msgs>>
      <3>1. HonestVotes' = HonestVotes
        BY <2>1 DEF HonestVotes, PhaseVotes
      <3>2. \A s \in Replicas : SameTree(bt[s], bt'[s]) /\ view[s] <= view'[s]
        BY <2>1, SameTreeReflexive DEF TypeOK
      <3>3. QED
        BY <1>1, <2>1, <3>1, <3>2, QuietStatic
    <2>2. CASE \E pc, base : Handles(r, m, pc, base)
      BY <1>1, <2>2, HandleStatic
    <2>3. QED
      BY <1>5, <2>1, <2>2, OnReceiveMsgHandles
  <1>6. QED
    BY <1>2, <1>3, <1>4, <1>5 DEF Next

\* With a fixed validator set, in every behaviour, every certificate that a
\* replica holds is signed by a quorum of voters, is of a past view, and the
\* justify of a block that an honest replica votes for is of an earlier view.
THEOREM CertificatesAreValid ==
  ASSUME NoUpdates
  PROVE  Spec => []StaticInv
  <1>1. Init => StaticInv
    <2> SUFFICES ASSUME Init PROVE StaticInv
      OBVIOUS
    <2>1. \A r \in Replicas : bt[r] = initialize
      BY DEF Init
    <2>2. Valid(genesis_pc) /\ is_genesis_pc(genesis_pc)
      BY DEF Valid, is_genesis_pc
    <2>3. TreesAreValid
      BY <2>1, <2>2 DEF TreesAreValid, StaticTree, initialize
    <2>4. PCsArePast
      BY <2>1, <2>2 DEF Init, PCsArePast, initialize, genesis_pc
    <2>5. VotesAreJustified
      BY DEF Init, VotesAreJustified, HonestVotes, PhaseVotes
    <2>6. QED
      BY <2>3, <2>4, <2>5 DEF StaticInv
  <1>2. TypeOK /\ VoteInv /\ SignatureInv /\ BlocksOnParents /\ StaticInv /\ [Next]_vars => StaticInv'
    BY StaticStep
  <1>3. QED
    BY <1>1, <1>2, VoteSafety, SignaturesHeld, HeightsFollowParents, PTL DEF Spec

-----------------------------------------------------------------------------
(* Locks.  A vote for a block whose justify certifies a child of b, itself *)
(* justified by a certificate for b, locks the voter on that certificate.  *)
(* The lock gives way only to a newer one, unless a block was certified    *)
(* whose justify is older than the lock: an escape.                        *)

AtLeast(pc, v) == ~is_genesis_pc(pc) /\ pc.view >= v

\* The certificate that a voter for b locks.
LockOf(b) == block_justify(block_justify(b).block)

Locking(b) == ~is_genesis_pc(block_justify(b)) /\ ~is_genesis_pc(LockOf(b))

\* In a view after v and up to y a block was certified whose justify is of a
\* view before v.
Escape(v, y) ==
  \E n \in PhaseVotes : /\ Certified(n.view, n.block)
                        /\ v < n.view /\ n.view <= y
                        /\ ~AtLeast(block_justify(n.block), v)

\* An honest replica stays locked on what its votes have locked, or newer.
LocksAreKept ==
  \A m \in HonestVotes : Locking(m.block) =>
    \/ AtLeast(bt[m.from].locked_pc, LockOf(m.block).view)
    \/ Escape(LockOf(m.block).view, view[m.from])

\* What a lock of view v asks of a vote in view y for block e: that the justify
\* of e is not older, or it was not the lock that let the vote pass.
RespectsLock(y, e, v) ==
  \/ AtLeast(block_justify(e), v)
  \/ Escape(v, y - 1)
  \/ \E n \in PhaseVotes : n.view = y /\ n.block # e /\ Certified(y, n.block)

\* The voters in S for block e in view y respected their locks.
Respecting(S, y, e) ==
  \A m \in HonestVotes : m.from \in S /\ m.view < y /\ Locking(m.block) =>
    RespectsLock(y, e, LockOf(m.block).view)

\* The voters for block e in view y respected their locks, or a quorum of them.
Respected(y, e) ==
  \E S \in SUBSET VotersFor(y, e, "Generic") :
    /\ S = VotersFor(y, e, "Generic") \/ Power(S) >= quorum(InitialValidatorSet)
    /\ Respecting(S, y, e)

VotesRespectLocks == \A n \in PhaseVotes : Respected(n.view, n.block)

\* Without rollbacks a handler takes up only certificates newer than the lock.
LEMMA HandledIsNewer ==
  ASSUME NoUpdates, TypeOK, SignatureInv, StaticInv,
         NEW r \in Replicas, NEW m \in msgs, NEW pc, NEW base, Handles(r, m, pc, base),
         ~RollsBack(r, m), ~is_genesis_pc(bt[r].locked_pc)
  PROVE  ~is_genesis_pc(pc) /\ pc.view > bt[r].locked_pc.view
  <1> DEFINE lock == bt[r].locked_pc
  <1>1. lock \in PhaseCertificates /\ lock.view \in Nat /\ lock.block \in Hashes /\ view[r] \in Nat
    BY CertificateFields DEF TypeOK, BlockTrees
  <1>2. pc \in PhaseCertificates /\ pc.phase = "Generic"
    BY HandledIsValid DEF StaticInv
  <1>3. pc.view \in Nat
    BY <1>2, CertificateFields
  <1>4. is_genesis_pc(pc) => pc.view = 0
    BY DEF is_genesis_pc, genesis_pc
  <1>5. CASE m.type = "PhaseVote"
    <2>1. pc.view = view[r] /\ lock.view < view[r]
      BY <1>5 DEF Handles, StaticInv, PCsArePast
    <2>2. QED
      BY <1>1, <1>3, <1>4, <2>1
  <1>6. CASE m.type # "PhaseVote"
    <2>1. SUFFICES ASSUME ~(pc.view > lock.view) PROVE FALSE
      BY <1>1, <1>3, <1>4
    <2>2. extends_locked_pc_block(pc, bt[r]) /\ pc = JustifyOf(m)
      BY <1>6, <2>1 DEF Handles, safe_pc
    <2>3. Hashes \subseteq Nat \ {0} /\ bt[r].blocks \subseteq Hashes
      BY DEF TypeOK, Hashes, BlockTrees
    <2>4. ~is_genesis_pc(pc)
      <3>1. SUFFICES ASSUME is_genesis_pc(pc) PROVE FALSE
        OBVIOUS
      <3>2. pc.block = 0
        BY <3>1 DEF is_genesis_pc, genesis_pc, Genesis
      <3>3. lock.block \in {0, -1}
        BY <2>2, <2>3, <3>2 DEF extends_locked_pc_block, justified_by, NoBlock
      <3>4. QED
        BY <1>1, <2>3, <3>3
    <2> DEFINE q == block_justify(pc.block)
    <2>5. q \in PhaseCertificates /\ (~is_genesis_pc(q) => q.view < pc.view)
      BY <2>4, HandledLock
    <2>6. q.view \in Nat
      BY <2>5, CertificateFields
    <2>7. q # lock
      BY <1>1, <1>3, <2>1, <2>5
    <2>8. pc_to_lock(pc, bt[r]) = {q}
      BY <1>2, <2>4, <2>7 DEF pc_to_lock
    <2>9. ~(q.view < lock.view) /\ ~is_genesis_pc(q)
      <3>1. pc.view <= lock.view
        BY <1>1, <1>3, <2>1
      <3> HIDE DEF q
      <3>2. QED
        BY <1>6, <2>2, <2>8, <3>1 DEF RollsBack
    <2>10. QED
      BY <1>1, <1>3, <2>1, <2>5, <2>6, <2>9
  <1>7. QED
    BY <1>5, <1>6

\* A certificate that is valid, and so whose block was certified, is of a vote.
LEMMA CertifiedIsVoted ==
  ASSUME TypeOK, NEW v, NEW b, Certified(v, b)
  PROVE  \E n \in PhaseVotes : n.view = v /\ n.block = b
  BY CertifiedHasVoter DEF HonestVotes

\* The certificate that a voter for a block locks, and the block it is for.
LEMMA LockFields ==
  ASSUME TypeOK, NEW b \in Hashes, ~is_genesis_pc(block_justify(b))
  PROVE  /\ block_justify(b) \in PhaseCertificates /\ block_justify(b).view \in Nat
         /\ block_justify(b).block \in Hashes
         /\ LockOf(b) \in PhaseCertificates /\ LockOf(b).view \in Nat
         /\ ~is_genesis_pc(LockOf(b)) => LockOf(b).block \in Hashes
  <1>1. block_justify(b) \in PhaseCertificates
    BY BlockFields DEF TypeOK
  <1>2. block_justify(b).view \in Nat /\ block_justify(b).block \in Hashes
    BY <1>1, CertificateFields
  <1>3. LockOf(b) \in PhaseCertificates
    BY <1>2, BlockFields DEF TypeOK, LockOf
  <1>4. QED
    BY <1>1, <1>2, <1>3, CertificateFields

\* The hashes that votes refer to, and what they lock, never change.
LEMMA LockingStays ==
  ASSUME TypeOK, Grows, NEW b \in Hashes
  PROVE  Locking(b)' = Locking(b) /\ (Locking(b) => LockOf(b)' = LockOf(b))
  <1>1. block_justify(b)' = block_justify(b) /\ block_justify(b) \in PhaseCertificates
    BY JustifyStays, BlockFields DEF TypeOK
  <1>2. CASE is_genesis_pc(block_justify(b))
    BY <1>1, <1>2 DEF Locking, is_genesis_pc
  <1>3. CASE ~is_genesis_pc(block_justify(b))
    <2>1. PICK c : c = block_justify(b).block
      OBVIOUS
    <2>2. c \in Hashes /\ block_justify(b)'.block = c
      BY <1>1, <1>3, <2>1, CertificateFields
    <2>3. block_justify(c)' = block_justify(c)
      BY <2>2, JustifyStays
    <2>4. LockOf(b)' = LockOf(b)
      BY <2>1, <2>2, <2>3 DEF LockOf, block_justify
    <2>5. QED
      BY <1>1, <2>4 DEF Locking, is_genesis_pc
  <1>4. QED
    BY <1>2, <1>3

\* The fields of a vote have their types.
LEMMA VoteFields ==
  ASSUME TypeOK, NEW n \in PhaseVotes
  PROVE  n.from \in Replicas /\ n.view \in Nat /\ n.block \in Hashes /\ n.type = "PhaseVote"
  BY DEF TypeOK, PhaseVotes, IsMessage

\* An escape stays one, and is one up to every later view.
LEMMA EscapeStays ==
  ASSUME TypeOK, TypeOK', Grows, msgs \subseteq msgs',
         NEW v, NEW y \in Int, NEW z \in Int, y <= z, Escape(v, y)
  PROVE  Escape(v, z)'
  <1>1. PICK n \in PhaseVotes : /\ Certified(n.view, n.block)
                                /\ v < n.view /\ n.view <= y
                                /\ ~AtLeast(block_justify(n.block), v)
    BY DEF Escape
  <1>2. n \in PhaseVotes' /\ n.view \in Nat /\ n.block \in Hashes
    BY <1>1, VoteFields DEF PhaseVotes
  <1>3. Certified(n.view, n.block)'
    BY <1>1, ValidStays
  <1>4. block_justify(n.block)' = block_justify(n.block)
    BY <1>2, JustifyStays
  <1>5. ~AtLeast(block_justify(n.block), v)' /\ n.view <= z
    BY <1>1, <1>2, <1>4 DEF AtLeast, is_genesis_pc
  <1>6. QED
    BY <1>1, <1>2, <1>3, <1>5 DEF Escape

\* A lock that did not move is kept.
LEMMA LockStays ==
  ASSUME TypeOK, TypeOK', Grows, msgs \subseteq msgs', LocksAreKept,
         NEW m \in HonestVotes, Locking(m.block),
         bt'[m.from].locked_pc = bt[m.from].locked_pc, view[m.from] <= view'[m.from]
  PROVE  \/ AtLeast(bt[m.from].locked_pc, LockOf(m.block).view)'
         \/ Escape(LockOf(m.block).view, view[m.from])'
  <1>1. m.from \in Replicas /\ m.block \in Hashes
    BY VoteFields DEF HonestVotes
  <1>2. PICK v, y, z : v = LockOf(m.block).view /\ y = view[m.from] /\ z = view'[m.from]
    OBVIOUS
  <1>3. LockOf(m.block)'.view = v
    BY <1>1, <1>2, LockingStays
  <1>4. y \in Int /\ z \in Int /\ y <= z
    BY <1>1, <1>2 DEF TypeOK
  <1>5. AtLeast(bt[m.from].locked_pc, v) \/ Escape(v, y)
    BY <1>2 DEF LocksAreKept
  <1>6. CASE AtLeast(bt[m.from].locked_pc, v)
    BY <1>3, <1>6 DEF AtLeast, is_genesis_pc
  <1>7. CASE Escape(v, y)
    <2>1. Escape(v, z)'
      BY <1>4, <1>7, EscapeStays
    <2>2. QED
      BY <1>2, <1>3, <2>1 DEF Escape
  <1>8. QED
    BY <1>5, <1>6, <1>7

\* A step that moves no lock and sends no honest vote keeps the locks.
LEMMA QuietLocks ==
  ASSUME TypeOK, TypeOK', Grows, msgs \subseteq msgs', LocksAreKept, HonestVotes' = HonestVotes,
         \A s \in Replicas : SameTree(bt[s], bt'[s]) /\ view[s] <= view'[s]
  PROVE  LocksAreKept'
  <1>1. ASSUME NEW m \in HonestVotes, Locking(m.block)'
        PROVE  \/ AtLeast(bt[m.from].locked_pc, LockOf(m.block).view)'
               \/ Escape(LockOf(m.block).view, view[m.from])'
    <2>1. m.from \in Replicas /\ m.block \in Hashes
      BY VoteFields DEF HonestVotes
    <2>2. Locking(m.block)
      BY <1>1, <2>1, LockingStays
    <2>3. bt'[m.from].locked_pc = bt[m.from].locked_pc /\ view[m.from] <= view'[m.from]
      BY <2>1 DEF SameTree
    <2>4. QED
      BY <2>2, <2>3, LockStays
  <1>2. QED
    BY <1>1 DEF LocksAreKept

\* Without rollbacks a handler keeps the locks: the new lock is newer, or the
\* certificate taken up is of an escape.
LEMMA HandleLocks ==
  ASSUME NoUpdates, TypeOK, TypeOK', VoteInv, SignatureInv, StaticInv, Grows, LocksAreKept,
         NEW r \in Replicas, NEW m \in msgs, NEW pc, NEW base, Handles(r, m, pc, base),
         ~RollsBack(r, m)
  PROVE  LocksAreKept'
  <1>1. /\ preimage' = preimage /\ view' = view /\ msgs \subseteq msgs'
        /\ \A s \in Replicas \ {r} : bt'[s] = bt[s]
    BY DEF Handles
  <1>2. bt'[r].locked_pc = IF is_genesis_pc(pc) THEN bt[r].locked_pc ELSE block_justify(pc.block)
    BY HandledTree DEF StaticInv
  <1>3. pc \in PhaseCertificates /\ pc.view <= view[r] /\ view[r] \in Nat
    BY HandledIsValid DEF StaticInv, TypeOK
  <1>4. ASSUME NEW n \in HonestVotes', Locking(n.block)', n \in msgs
        PROVE  \/ AtLeast(bt[n.from].locked_pc, LockOf(n.block).view)'
               \/ Escape(LockOf(n.block).view, view[n.from])'
    <2>1. n \in HonestVotes /\ n.from \in Replicas /\ n.block \in Hashes
      BY <1>4, VoteFields DEF HonestVotes, PhaseVotes
    <2>2. Locking(n.block)
      BY <1>4, <2>1, LockingStays
    <2>3. view[n.from] <= view'[n.from]
      BY <1>1, <2>1 DEF TypeOK
    <2>4. CASE bt'[n.from].locked_pc = bt[n.from].locked_pc
      BY <1>1, <2>1, <2>2, <2>3, <2>4, LockStays
    <2>5. CASE bt'[n.from].locked_pc # bt[n.from].locked_pc
      <3>1. n.from = r /\ ~is_genesis_pc(pc)
        BY <1>1, <1>2, <2>1, <2>5
      <3>2. PICK v : v = LockOf(n.block).view
        OBVIOUS
      <3>3. LockOf(n.block)'.view = v /\ v \in Nat
        BY <2>1, <2>2, <3>2, LockingStays, LockFields DEF Locking
      <3>4. CASE Escape(v, view[r])
        <4>1. Escape(v, view[r])'
          <5>1. PICK y : y = view[r]
            OBVIOUS
          <5>2. Escape(v, y)'
            BY <1>1, <1>3, <3>4, <5>1, EscapeStays
          <5>3. QED
            BY <1>1, <5>1, <5>2 DEF Escape
        <4>2. QED
          BY <3>1, <3>3, <4>1 DEF Escape
      <3>5. CASE AtLeast(bt[r].locked_pc, v)
        <4>1. ~is_genesis_pc(bt[r].locked_pc) /\ bt[r].locked_pc.view >= v
          BY <3>5 DEF AtLeast
        <4>2. pc.view > bt[r].locked_pc.view
          BY <4>1, HandledIsNewer
        <4>3. bt[r].locked_pc.view \in Nat /\ pc.view \in Nat
          BY <1>3, CertificateFields DEF TypeOK, BlockTrees
        <4>4. v < pc.view
          BY <3>3, <4>1, <4>2, <4>3
        <4>5. bt'[r].locked_pc = block_justify(pc.block)
          BY <1>2, <3>1
        <4>6. CASE AtLeast(block_justify(pc.block), v)
          BY <3>1, <3>3, <4>5, <4>6 DEF AtLeast, is_genesis_pc
        <4>7. CASE ~AtLeast(block_justify(pc.block), v)
          <5>1. Certified(pc.view, pc.block)
            BY <3>1, HandledLock
          <5>2. PICK k \in PhaseVotes : k.view = pc.view /\ k.block = pc.block
            BY <5>1, CertifiedIsVoted
          <5>3. Escape(v, view[r])
            BY <1>3, <4>4, <4>7, <5>1, <5>2 DEF Escape
          <5>4. QED
            BY <3>4, <5>3
        <4>8. QED
          BY <4>6, <4>7
      <3>6. QED
        BY <2>1, <2>2, <3>1, <3>2, <3>4, <3>5 DEF LocksAreKept
    <2>6. QED
      BY <2>4, <2>5
  <1>5. ASSUME NEW n \in HonestVotes', Locking(n.block)', n \notin msgs
        PROVE  AtLeast(bt[n.from].locked_pc, LockOf(n.block).view)'
    <2>1. n \in msgs' \ msgs
      BY <1>5 DEF HonestVotes, PhaseVotes
    <2>2. n.from = r /\ n.block \in Hashes /\ block_justify(n.block) = pc
      BY <2>1, HandledVote
    <2>3. Locking(n.block) /\ LockOf(n.block)' = LockOf(n.block)
      BY <1>5, <2>2, LockingStays
    <2>4. ~is_genesis_pc(pc) /\ LockOf(n.block) = block_justify(pc.block)
      BY <2>2, <2>3 DEF Locking, LockOf
    <2>5. bt'[r].locked_pc = LockOf(n.block) /\ ~is_genesis_pc(LockOf(n.block))
      BY <1>2, <2>3, <2>4 DEF Locking
    <2>6. LockOf(n.block).view \in Nat
      BY <2>4, HandledLock, CertificateFields
    <2>7. QED
      BY <2>2, <2>3, <2>5, <2>6 DEF AtLeast, is_genesis_pc
  <1>6. QED
    BY <1>4, <1>5 DEF LocksAreKept

\* What nobody voted for respects all locks.
LEMMA AllRespected ==
  ASSUME VotesRespectLocks, NEW y, NEW e
  PROVE  Respected(y, e)
  <1>1. CASE \E n \in PhaseVotes : n.view = y /\ n.block = e
    BY <1>1 DEF VotesRespectLocks
  <1>2. CASE ~ \E n \in PhaseVotes : n.view = y /\ n.block = e
    <2>1. VotersFor(y, e, "Generic") = {}
      BY <1>2 DEF VotersFor
    <2>2. Respecting({}, y, e)
      BY DEF Respecting
    <2>3. QED
      BY <2>1, <2>2 DEF Respected
  <1>3. QED
    BY <1>1, <1>2

\* A vote that respects a lock goes on doing so.
LEMMA RespectsLockStays ==
  ASSUME TypeOK, TypeOK', Grows, msgs \subseteq msgs',
         NEW y \in Nat, NEW e \in Hashes, NEW v, RespectsLock(y, e, v)
  PROVE  RespectsLock(y, e, v)'
  <1>1. CASE AtLeast(block_justify(e), v)
    <2>1. AtLeast(block_justify(e), v)'
      BY <1>1, JustifyStays DEF AtLeast, is_genesis_pc
    <2>2. QED
      BY <2>1 DEF RespectsLock
  <1>2. CASE Escape(v, y - 1)
    <2>1. PICK z : z = y - 1
      OBVIOUS
    <2>2. Escape(v, z)'
      BY <1>2, <2>1, EscapeStays
    <2>3. QED
      BY <2>1, <2>2 DEF RespectsLock
  <1>3. CASE \E n \in PhaseVotes : n.view = y /\ n.block # e /\ Certified(y, n.block)
    <2>1. PICK n \in PhaseVotes : n.view = y /\ n.block # e /\ Certified(y, n.block)
      BY <1>3
    <2>2. n \in PhaseVotes' /\ Certified(y, n.block)'
      BY <2>1, ValidStays DEF PhaseVotes
    <2>3. QED
      BY <2>1, <2>2 DEF RespectsLock
  <1>4. QED
    BY <1>1, <1>2, <1>3 DEF RespectsLock

\* The voters for a block go on respecting their locks if the new ones do, and
\* no voter votes in an earlier view.
LEMMA RespectedStays ==
  ASSUME TypeOK, TypeOK', Grows, msgs \subseteq msgs',
         NEW y \in Nat, NEW e \in Hashes, Respected(y, e),
         \A m \in HonestVotes' \ HonestVotes :
           m.from \in VotersFor(y, e, "Generic")' => m.view >= y,
         \/ Certified(y, e)
         \/ \A k \in VotersFor(y, e, "Generic")' \ VotersFor(y, e, "Generic") :
              Respecting({k}, y, e)
  PROVE  Respected(y, e)'
  <1>0. PICK V, W : V = VotersFor(y, e, "Generic") /\ W = VotersFor(y, e, "Generic")'
    OBVIOUS
  <1>1. PICK S \in SUBSET V : /\ S = V \/ Power(S) >= quorum(InitialValidatorSet)
                              /\ Respecting(S, y, e)
    BY <1>0 DEF Respected
  <1>2. V \subseteq W /\ V \in SUBSET Replicas
    BY <1>0, VotersGrow, VotersAreReplicas
  <1>3. ASSUME NEW T \in SUBSET W, Respecting(T, y, e) PROVE Respecting(T, y, e)'
    <2>1. ASSUME NEW m \in HonestVotes', m.from \in T, m.view < y, Locking(m.block)'
          PROVE  RespectsLock(y, e, LockOf(m.block).view)'
      <3>1. m \in HonestVotes
        <4>1. SUFFICES ASSUME m \notin HonestVotes PROVE FALSE
          OBVIOUS
        <4>2. m.view >= y
          BY <1>0, <1>3, <2>1, <4>1
        <4>3. m.view \in Nat
          BY DEF HonestVotes, PhaseVotes, TypeOK, IsMessage
        <4>4. QED
          BY <2>1, <4>2, <4>3
      <3>2. m.block \in Hashes
        BY <3>1, VoteFields DEF HonestVotes
      <3>3. Locking(m.block) /\ LockOf(m.block)' = LockOf(m.block)
        BY <2>1, <3>2, LockingStays
      <3>4. PICK v : v = LockOf(m.block).view
        OBVIOUS
      <3>5. RespectsLock(y, e, v)
        BY <1>3, <2>1, <3>1, <3>3, <3>4 DEF Respecting
      <3>6. RespectsLock(y, e, v)'
        BY <3>5, RespectsLockStays
      <3>7. QED
        BY <3>3, <3>4, <3>6 DEF RespectsLock, Escape, AtLeast
    <2>2. QED
      BY <2>1 DEF Respecting
  <1>4. CASE Certified(y, e)
    <2>1. Power(S) >= quorum(InitialValidatorSet)
      BY <1>0, <1>1, <1>4 DEF Certified
    <2>2. S \in SUBSET W /\ Respecting(S, y, e)'
      BY <1>1, <1>2, <1>3
    <2>3. QED
      BY <1>0, <2>1, <2>2 DEF Respected, Power
  <1>5. CASE ~Certified(y, e)
    <2>1. S = V
      <3>1. SUFFICES ASSUME Power(S) >= quorum(InitialValidatorSet) PROVE Certified(y, e)
        BY <1>1, <1>5
      <3>2. Power(S) <= Power(V) /\ Power(S) \in Nat /\ Power(V) \in Nat
        BY <1>1, <1>2, PowerMonotone, PowerFacts DEF Power
      <3>3. quorum(InitialValidatorSet) \in Int
        BY PowerFacts DEF quorum
      <3>4. Power(V) >= quorum(InitialValidatorSet)
        BY <3>1, <3>2, <3>3
      <3>5. QED
        BY <1>0, <3>4 DEF Certified
    <2>2. Respecting(W, y, e)
      <3>1. \A k \in W : Respecting({k}, y, e)
        BY <1>0, <1>1, <1>5, <2>1 DEF Respecting
      <3>2. QED
        BY <3>1 DEF Respecting
    <2>3. Respecting(W, y, e)'
      BY <1>3, <2>2
    <2>4. QED
      BY <1>0, <2>3 DEF Respected, Respecting
  <1>6. QED
    BY <1>4, <1>5

\* A step that sends no honest vote keeps votes respecting locks.
LEMMA QuietRespect ==
  ASSUME TypeOK, TypeOK', Grows, msgs \subseteq msgs', VotesRespectLocks,
         HonestVotes' = HonestVotes, \A n \in PhaseVotes' : n.block \in Hashes
  PROVE  VotesRespectLocks'
  <1>1. ASSUME NEW n \in PhaseVotes' PROVE Respected(n.view, n.block)'
    <2>1. PICK y, e : y = n.view /\ e = n.block
      OBVIOUS
    <2>2. y \in Nat /\ e \in Hashes
      BY <2>1 DEF TypeOK, PhaseVotes, IsMessage
    <2>3. ASSUME NEW k \in VotersFor(y, e, "Generic")' \ VotersFor(y, e, "Generic")
          PROVE  Respecting({k}, y, e)
      <3>1. PICK q \in PhaseVotes' : q.from = k /\ q \notin PhaseVotes
        BY DEF VotersFor
      <3>2. k \in Faulty
        BY <3>1 DEF HonestVotes
      <3>3. QED
        BY <3>2 DEF Respecting, HonestVotes
    <2>4. Respected(y, e)
      BY AllRespected
    <2>5. Respected(y, e)'
      BY <2>2, <2>3, <2>4, RespectedStays
    <2>6. QED
      BY <2>1, <2>5
  <1>2. QED
    BY <1>1 DEF VotesRespectLocks

\* Without rollbacks the vote of a handler respects the locks of the voter.
LEMMA HandleRespect ==
  ASSUME NoUpdates, TypeOK, TypeOK', VoteInv, SignatureInv, StaticInv, Grows, LocksAreKept,
         VotesRespectLocks,
         NEW r \in Replicas, NEW m \in msgs, NEW pc, NEW base, Handles(r, m, pc, base),
         ~RollsBack(r, m)
  PROVE  VotesRespectLocks'
  <1>1. msgs \subseteq msgs' /\ view[r] \in Nat
    BY DEF Handles, TypeOK
  <1>2. ASSUME NEW n \in PhaseVotes' PROVE Respected(n.view, n.block)'
    <2>1. PICK y, e : y = n.view /\ e = n.block
      OBVIOUS
    <2>2. y \in Nat /\ e \in Hashes
      <3>1. CASE n \in msgs
        BY <2>1, <3>1, VoteFields DEF PhaseVotes
      <3>2. CASE n \notin msgs
        <4>1. n \in msgs' \ msgs
          BY <3>2 DEF PhaseVotes
        <4>2. QED
          BY <1>1, <2>1, <4>1, HandledVote
      <3>3. QED
        BY <3>1, <3>2
    <2>3. ASSUME NEW k \in HonestVotes' \ HonestVotes, k.from \in VotersFor(y, e, "Generic")'
          PROVE  k.view >= y
      <3>1. k \in msgs' \ msgs /\ k.from \notin Faulty
        BY DEF HonestVotes, PhaseVotes
      <3>2. k.from = r /\ k.view = view[r] /\ \A j \in HonestVotes : j.from = r => j.view < view[r]
        BY <3>1, HandledVote
      <3>3. PICK j \in PhaseVotes' : j.from = k.from /\ j.view = y
        BY <2>3 DEF VotersFor
      <3>4. CASE j \in msgs
        <4>1. j \in HonestVotes
          BY <3>1, <3>3, <3>4 DEF HonestVotes, PhaseVotes
        <4>2. QED
          BY <1>1, <2>2, <3>2, <3>3, <4>1
      <3>5. CASE j \notin msgs
        <4>1. j \in msgs' \ msgs
          BY <3>5 DEF PhaseVotes
        <4>2. j.view = view[r]
          BY <4>1, HandledVote
        <4>3. QED
          BY <1>1, <3>2, <3>3, <4>2
      <3>6. QED
        BY <3>4, <3>5
    <2>4. ASSUME ~Certified(y, e),
                 NEW k \in VotersFor(y, e, "Generic")' \ VotersFor(y, e, "Generic")
          PROVE  Respecting({k}, y, e)
      <3>1. PICK q \in PhaseVotes' : q.from = k /\ q.view = y /\ q.block = e /\ q \notin PhaseVotes
        BY DEF VotersFor
      <3>2. q \in msgs' \ msgs
        BY <3>1 DEF PhaseVotes
      <3>3. k = r /\ y = view[r] /\ block_justify(e) = pc
        BY <3>1, <3>2, HandledVote
      <3>4. ASSUME NEW j \in HonestVotes, j.from = r, Locking(j.block)
            PROVE  RespectsLock(y, e, LockOf(j.block).view)
        <4>1. PICK v : v = LockOf(j.block).view
          OBVIOUS
        <4>2. CASE AtLeast(bt[r].locked_pc, v)
          <5>1. ~is_genesis_pc(bt[r].locked_pc) /\ bt[r].locked_pc.view >= v
            BY <4>2 DEF AtLeast
          <5>2. ~is_genesis_pc(pc) /\ pc.view > bt[r].locked_pc.view
            BY <5>1, HandledIsNewer
          <5>3. pc.view \in Nat /\ bt[r].locked_pc.view \in Nat
            BY CertificateFields DEF Handles, TypeOK, BlockTrees
          <5>4. v \in Nat
            <6>1. j.block \in Hashes
              BY VoteFields DEF HonestVotes
            <6>2. QED
              BY <3>4, <4>1, <6>1, LockFields DEF Locking
          <5>5. AtLeast(block_justify(e), v)
            BY <3>3, <5>1, <5>2, <5>3, <5>4 DEF AtLeast
          <5>6. QED
            BY <4>1, <5>5 DEF RespectsLock
        <4>3. CASE Escape(v, y)
          <5>1. PICK i \in PhaseVotes : /\ Certified(i.view, i.block)
                                        /\ v < i.view /\ i.view <= y
                                        /\ ~AtLeast(block_justify(i.block), v)
            BY <4>3 DEF Escape
          <5>2. i.view \in Nat
            BY VoteFields
          <5>3. CASE i.view = y
            BY <2>4, <4>1, <5>1, <5>3 DEF RespectsLock
          <5>4. CASE i.view # y
            <6>1. i.view <= y - 1
              BY <2>2, <5>1, <5>2, <5>4
            <6>2. QED
              BY <4>1, <5>1, <6>1 DEF RespectsLock, Escape
          <5>5. QED
            BY <5>3, <5>4
        <4>4. QED
          BY <3>3, <3>4, <4>1, <4>2, <4>3 DEF LocksAreKept
      <3>5. QED
        BY <3>3, <3>4 DEF Respecting
    <2>5. Respected(y, e)
      BY AllRespected
    <2>6. Respected(y, e)'
      BY <1>1, <2>2, <2>3, <2>4, <2>5, RespectedStays
    <2>7. QED
      BY <2>1, <2>6
  <1>3. QED
    BY <1>2 DEF VotesRespectLocks

-----------------------------------------------------------------------------
(* Committed blocks.  A block is committed when it, a child and a          *)
(* grandchild are certified in consecutive views; the voters for the       *)
(* grandchild have locked the certificate of the block.                    *)

\* b is the head of three certificates of consecutive views.
IsHead(b) ==
  \E c \in Hashes : /\ Locking(c)
                    /\ LockOf(c).block = b
                    /\ block_justify(c).view = LockOf(c).view + 1
                    /\ Certified(LockOf(c).view + 2, c)

\* Every committed block is an ancestor of a head that the replica has
\* committed, or is one.
CommitsHaveHeads ==
  \A r \in Replicas : \A p \in bt[r].block_at_height :
    \E q \in bt[r].block_at_height : p[2] \in ancestry[q[2]] /\ IsHead(q[2])

\* A head stays one.
LEMMA HeadStays ==
  ASSUME TypeOK, TypeOK', Grows, msgs \subseteq msgs', NEW b, IsHead(b)
  PROVE  IsHead(b)'
  <1>1. PICK c \in Hashes : /\ Locking(c)
                            /\ LockOf(c).block = b
                            /\ block_justify(c).view = LockOf(c).view + 1
                            /\ Certified(LockOf(c).view + 2, c)
    BY DEF IsHead
  <1>2. PICK v : v = LockOf(c).view + 2
    OBVIOUS
  <1>3. Certified(v, c)'
    BY <1>1, <1>2, ValidStays
  <1>4. /\ c \in Hashes' /\ block_justify(c)' = block_justify(c)
        /\ Locking(c)' /\ LockOf(c)' = LockOf(c)
    BY <1>1, JustifyStays, LockingStays
  <1>5. LockOf(c)'.view + 2 = v
    BY <1>2, <1>4
  <1>6. Certified(LockOf(c).view + 2, c)'
    BY <1>3, <1>5 DEF Certified
  <1>7. QED
    BY <1>1, <1>4, <1>6 DEF IsHead

\* A step leaves the tree of a replica alone, or is a handler of the replica.
LEMMA NextHandles ==
  ASSUME TypeOK, [Next]_vars, NEW s \in Replicas
  PROVE  \/ SameTree(bt[s], bt'[s])
         \/ \E m \in msgs : \E pc, base : OnReceiveMsg(s, m) /\ Handles(s, m, pc, base)
  <1>1. CASE bt' = bt
    BY <1>1, SameTreeReflexive
  <1>2. ASSUME NEW r \in Replicas, EnterView(r) PROVE SameTree(bt[s], bt'[s])
    BY <1>2, EnterViewSameTree
  <1>3. ASSUME NEW r \in Replicas, NEW m \in msgs, OnReceiveMsg(r, m)
        PROVE  \/ SameTree(bt[s], bt'[s])
               \/ \E pc, base : OnReceiveMsg(s, m) /\ Handles(s, m, pc, base)
    <2>1. CASE UNCHANGED <<preimage, bt, view, msgs>>
      BY <2>1, SameTreeReflexive
    <2>2. ASSUME NEW pc, NEW base, Handles(r, m, pc, base), s # r
          PROVE  SameTree(bt[s], bt'[s])
      BY <2>2, SameTreeReflexive DEF Handles
    <2>3. QED
      BY <1>3, <2>1, <2>2, OnReceiveMsgHandles
  <1>4. ASSUME NEW r \in Replicas, Misbehave(r) PROVE bt' = bt
    BY <1>4 DEF Misbehave, Equivocate, DoubleVote
  <1>5. QED
    BY <1>1, <1>2, <1>3, <1>4 DEF Next, vars

\* No message sent is taken back.
LEMMA NextKeepsMsgs ==
  ASSUME TypeOK, [Next]_vars
  PROVE  msgs \subseteq msgs'
  <1>1. ASSUME NEW r \in Replicas, EnterView(r) PROVE msgs \subseteq msgs'
    BY <1>1 DEF EnterView, EnterViewFollower, EnterViewRepropose, EnterViewPropose,
                EnterViewNudge, StartView
  <1>2. ASSUME NEW r \in Replicas, NEW m \in msgs, OnReceiveMsg(r, m) PROVE msgs \subseteq msgs'
    BY <1>2, OnReceiveMsgHandles DEF Handles
  <1>3. ASSUME NEW r \in Replicas, Misbehave(r) PROVE msgs \subseteq msgs'
    BY <1>3 DEF Misbehave, Equivocate, DoubleVote
  <1>4. QED
    BY <1>1, <1>2, <1>3 DEF Next, vars

\* What a handler commits: nothing, or a head with the ancestors of it that are
\* above the last committed block.
LEMMA HandledCommit ==
  ASSUME NoUpdates, TypeOK, SignatureInv, BlocksOnParents, StaticInv, TreesAreWhole,
         NEW r \in Replicas, NEW m \in msgs, NEW pc, NEW base, Handles(r, m, pc, base)
  PROVE  /\ base \in BlockTrees /\ Whole(base)
         /\ base.highest_committed_block = bt[r].highest_committed_block
         /\ base.block_at_height = bt[r].block_at_height
         /\ \/ /\ bt'[r].block_at_height = bt[r].block_at_height
               /\ bt'[r].blocks = base.blocks
            \/ \E b \in block_to_commit(pc, base) :
                 /\ b \in Hashes /\ b \in base.blocks /\ IsHead(b)
                 /\ height(b) > highest_committed_block_height(base)
                 /\ b = LockOf(pc.block).block /\ Locking(pc.block) /\ pc.block \in Hashes
                 /\ pc.block \in bt[r].blocks /\ pc.view = LockOf(pc.block).view + 2
                 /\ Certified(pc.view, pc.block)
                 /\ bt'[r].block_at_height = bt[r].block_at_height
                      \cup {<<height(a), a>> : a \in uncommitted_blocks(b, base)}
                 /\ bt'[r].blocks = base.blocks \ pruned_by(uncommitted_blocks(b, base), base)
  <1>1. /\ bt[r] \in BlockTrees /\ Whole(bt[r]) /\ preimage \in Seq(BlockContents)
        /\ TreesAreValid /\ PCsArePast
    BY DEF TypeOK, TreesAreWhole, StaticInv
  <1>2. /\ pc \in PhaseCertificates /\ pc.phase = "Generic"
        /\ pc.block \in bt[r].blocks \/ is_genesis_pc(pc)
        /\ base \in BlockTrees /\ bt[r].blocks \subseteq base.blocks
        /\ base.block_at_height = bt[r].block_at_height
    BY <1>1, HandledIsValid
  <1>3. Whole(base) /\ base.highest_committed_block = bt[r].highest_committed_block
    <2>1. CASE m.type = "Proposal"
      <3>1. m.block \in Hashes /\ base = insert(m.block, bt[r]) /\ pc = block_justify(m.block)
        BY <2>1 DEF Handles, JustifyOf
      <3>2. parent(m.block) \in bt[r].blocks \cup {Genesis}
        BY <1>2, <3>1 DEF parent, is_genesis_pc, genesis_pc
      <3>3. insert(m.block, bt[r]).highest_committed_block = bt[r].highest_committed_block
        BY <1>1 DEF insert, BlockTrees
      <3>4. QED
        BY <1>1, <3>1, <3>2, <3>3, InsertWhole
    <2>2. CASE m.type # "Proposal"
      BY <1>1, <2>2 DEF Handles
    <2>3. QED
      BY <2>1, <2>2
  <1>4. /\ bt'[r].block_at_height = update(pc, base).block_at_height
        /\ bt'[r].blocks = update(pc, base).blocks
    BY DEF Handles, SameTree
  <1>5. ASSUME NEW b \in block_to_commit(pc, base)
        PROVE  /\ b \in Hashes /\ b \in base.blocks /\ IsHead(b)
               /\ height(b) > highest_committed_block_height(base)
               /\ b = LockOf(pc.block).block /\ Locking(pc.block) /\ pc.block \in Hashes
               /\ pc.block \in bt[r].blocks /\ pc.view = LockOf(pc.block).view + 2
               /\ Certified(pc.view, pc.block)
    <2> DEFINE c == pc.block
    <2>1. /\ ~is_genesis_pc(pc) /\ Locking(c) /\ b = LockOf(c).block
          /\ pc.view = block_justify(c).view + 1
          /\ block_justify(c).view = LockOf(c).view + 1
      BY <1>2 DEF block_to_commit, Locking, LockOf
    <2>2. Certified(pc.view, c) /\ c \in Hashes /\ c \in bt[r].blocks
      BY <2>1, HandledLock
    <2>3. b \in base.blocks /\ height(b) > highest_committed_block_height(base)
      BY <1>1, <1>2, <1>3, CommitsInTree, BlockToCommitIsHigher DEF Whole
    <2>4. c = pc.block
      OBVIOUS
    <2> HIDE DEF c
    <2>5. LockOf(c).view \in Nat /\ LockOf(c).block \in Hashes
      BY <2>1, <2>2, LockFields DEF Locking
    <2>6. pc.view = LockOf(c).view + 2
      BY <2>1, <2>5
    <2>7. IsHead(b)
      BY <2>1, <2>2, <2>6 DEF IsHead
    <2>8. QED
      BY <2>1, <2>2, <2>3, <2>4, <2>5, <2>6, <2>7
  <1>6. QED
    BY <1>1, <1>2, <1>3, <1>4, <1>5, UpdateCommits DEF Whole

\* A step keeps the heads of what is committed, and gives what it commits one.
LEMMA HeadsStep ==
  ASSUME NoUpdates, TypeOK, VoteInv, SignatureInv, BlocksOnParents, StaticInv, TreesAreWhole,
         CommitsHaveHeads, [Next]_vars
  PROVE  CommitsHaveHeads'
  <1>1. TypeOK' /\ Grows /\ \A b \in Hashes : ancestry'[b] = ancestry[b]
    BY NextInv, StepAncestry
  <1>2. msgs \subseteq msgs'
    BY NextKeepsMsgs
  <1>3. ASSUME NEW s \in Replicas, NEW p \in bt[s].block_at_height
        PROVE  \E q \in bt'[s].block_at_height : p[2] \in ancestry'[q[2]] /\ IsHead(q[2])'
    <2>1. PICK q \in bt[s].block_at_height : p[2] \in ancestry[q[2]] /\ IsHead(q[2])
      BY DEF CommitsHaveHeads
    <2>2. q \in bt'[s].block_at_height
      BY StepFills DEF TreesAreWhole, Whole, HeightsFilledBelow
    <2>3. q[2] \in Hashes
      BY DEF TypeOK, BlockTrees
    <2>4. PICK b : b = q[2]
      OBVIOUS
    <2>5. IsHead(b)'
      BY <1>1, <1>2, <2>1, <2>4, HeadStays
    <2>6. QED
      BY <1>1, <2>1, <2>2, <2>3, <2>4, <2>5
  <1>4. ASSUME NEW s \in Replicas, NEW p \in bt'[s].block_at_height
        PROVE  \E q \in bt'[s].block_at_height : p[2] \in ancestry'[q[2]] /\ IsHead(q[2])'
    <2>1. CASE bt'[s].block_at_height = bt[s].block_at_height
      BY <1>3, <2>1
    <2>2. ASSUME NEW m \in msgs, NEW pc, NEW base, Handles(s, m, pc, base)
          PROVE  \E q \in bt'[s].block_at_height : p[2] \in ancestry'[q[2]] /\ IsHead(q[2])'
      <3>1. CASE p \in bt[s].block_at_height
        BY <1>3, <3>1
      <3>2. CASE p \notin bt[s].block_at_height
        <4>1. PICK b \in Hashes :
                /\ IsHead(b) /\ b \in base.blocks /\ base \in BlockTrees
                /\ height(b) > highest_committed_block_height(base)
                /\ bt'[s].block_at_height = bt[s].block_at_height
                     \cup {<<height(a), a>> : a \in uncommitted_blocks(b, base)}
          BY <2>2, <3>2, HandledCommit
        <4>2. PICK a \in uncommitted_blocks(b, base) : p = <<height(a), a>>
          BY <3>2, <4>1
        <4>3. b \in uncommitted_blocks(b, base)
          <5>1. height(b) \in Nat /\ highest_committed_block_height(base) \in Nat \cup {-1}
            BY <4>1, BlockFields, HighestCommittedHeight DEF TypeOK, None
          <5>2. b \in ancestry[b]
            BY AncestrySelf
          <5>3. QED
            BY <4>1, <5>1, <5>2 DEF uncommitted_blocks
        <4>4. a \in ancestry'[b] /\ IsHead(b)'
          BY <1>1, <1>2, <4>1, <4>2, HeadStays DEF uncommitted_blocks
        <4>5. <<height(b), b>> \in bt'[s].block_at_height
          BY <4>1, <4>3
        <4>6. PICK q : q = <<height(b), b>>
          OBVIOUS
        <4>7. q \in bt'[s].block_at_height /\ p[2] \in ancestry'[q[2]] /\ q[2] = b
          BY <4>2, <4>4, <4>5, <4>6
        <4>8. QED
          BY <4>4, <4>7
      <3>3. QED
        BY <3>1, <3>2
    <2>3. SameTree(bt[s], bt'[s]) => bt'[s].block_at_height = bt[s].block_at_height
      BY DEF SameTree
    <2>4. QED
      BY <2>1, <2>2, <2>3, NextHandles
  <1>5. QED
    BY <1>4 DEF CommitsHaveHeads

LockInv == LocksAreKept /\ VotesRespectLocks

\* A step that takes up no certificate and sends no honest vote keeps the
\* invariant.
LEMMA QuietLockInv ==
  ASSUME TypeOK, TypeOK', Grows, msgs \subseteq msgs', LockInv, HonestVotes' = HonestVotes,
         \A n \in PhaseVotes' : n.block \in Hashes,
         \A b \in Hashes : ancestry'[b] = ancestry[b],
         \A s \in Replicas : SameTree(bt[s], bt'[s]) /\ view[s] <= view'[s]
  PROVE  LockInv'
  BY QuietLocks, QuietRespect DEF LockInv

\* Without rollbacks a step keeps the invariant.
LEMMA LockStep ==
  ASSUME NoUpdates, TypeOK, VoteInv, SignatureInv, BlocksOnParents, StaticInv, LockInv,
         [NextWithoutRollback]_vars
  PROVE  LockInv'
  <1>1. [Next]_vars
    BY DEF NextWithoutRollback, Next
  <1>2. TypeOK' /\ Grows /\ \A b \in Hashes : ancestry'[b] = ancestry[b]
    BY <1>1, NextInv, StepAncestry
  <1>3. \A n \in PhaseVotes : n.block \in Hashes
    BY VoteFields
  <1>4. CASE UNCHANGED <<preimage, bt, view, msgs>>
    <2>1. HonestVotes' = HonestVotes /\ PhaseVotes' = PhaseVotes
      BY <1>4 DEF HonestVotes, PhaseVotes
    <2>2. \A s \in Replicas : SameTree(bt[s], bt'[s]) /\ view[s] <= view'[s]
      BY <1>4, SameTreeReflexive DEF TypeOK
    <2>3. QED
      BY <1>2, <1>3, <1>4, <2>1, <2>2, QuietLockInv
  <1>5. ASSUME NEW r \in Replicas, EnterView(r) PROVE LockInv'
    <2>1. PICK v \in EntryViews[r] : /\ v > view[r]
                                     /\ \/ EnterViewFollower(r, v)
                                        \/ EnterViewRepropose(r, v)
                                        \/ EnterViewPropose(r, v)
                                        \/ EnterViewNudge(r, v)
      BY <1>5 DEF EnterView
    <2>2. PICK proposals : /\ StartView(r, v, proposals)
                           /\ \A m \in proposals : m.type # "PhaseVote"
      <3>1. CASE EnterViewFollower(r, v)
        BY <3>1 DEF EnterViewFollower
      <3>2. CASE EnterViewRepropose(r, v)
        BY <3>2 DEF EnterViewRepropose, Proposal
      <3>3. CASE EnterViewPropose(r, v)
        BY <3>3 DEF EnterViewPropose, Proposal
      <3>4. CASE EnterViewNudge(r, v)
        BY <3>4 DEF EnterViewNudge, Nudge
      <3>5. QED
        BY <2>1, <3>1, <3>2, <3>3, <3>4
    <2>3. msgs \subseteq msgs' /\ PhaseVotes' = PhaseVotes
      BY <2>2, StartViewVotes DEF StartView
    <2>4. v \in Nat /\ view[r] \in Nat
      BY ReplicasAssumption DEF TypeOK
    <2>5. \A s \in Replicas : SameTree(bt[s], bt'[s]) /\ view[s] <= view'[s]
      <3>1. \A s \in Replicas : SameTree(bt[s], bt'[s])
        BY <1>5, EnterViewSameTree
      <3>2. \A s \in Replicas : view[s] <= view'[s]
        BY <2>1, <2>2, <2>4 DEF StartView, TypeOK
      <3>3. QED
        BY <3>1, <3>2
    <2>6. HonestVotes' = HonestVotes
      BY <2>3 DEF HonestVotes
    <2>7. QED
      BY <1>2, <1>3, <2>3, <2>5, <2>6, QuietLockInv
  <1>6. ASSUME NEW r \in Replicas, Misbehave(r) PROVE LockInv'
    <2>1. UNCHANGED <<bt, view>> /\ msgs \subseteq msgs'
      BY <1>6 DEF Misbehave, Equivocate, DoubleVote
    <2>2. \A n \in msgs' \ msgs : n.type = "PhaseVote" => n.from \in Faulty /\ n.block \in Hashes
      <3>1. CASE Equivocate(r)
        BY <3>1 DEF Equivocate, Proposal
      <3>2. CASE DoubleVote(r)
        <4>1. PICK m \in msgs :
                /\ m.type = "Proposal"
                /\ \A n \in msgs' \ msgs : n.from = r /\ n.block = m.block
          BY <3>2 DEF DoubleVote, PhaseVote
        <4>2. QED
          BY <3>2, <4>1 DEF DoubleVote, TypeOK, IsMessage
      <3>3. QED
        BY <1>6, <3>1, <3>2 DEF Misbehave
    <2>3. \A s \in Replicas : SameTree(bt[s], bt'[s]) /\ view[s] <= view'[s]
      BY <2>1, SameTreeReflexive DEF TypeOK
    <2>4. HonestVotes' = HonestVotes /\ \A n \in PhaseVotes' : n.block \in Hashes
      BY <1>3, <2>1, <2>2 DEF HonestVotes, PhaseVotes
    <2>5. QED
      BY <1>2, <2>1, <2>3, <2>4, QuietLockInv
  <1>7. ASSUME NEW r \in Replicas, NEW m \in msgs, ~RollsBack(r, m), OnReceiveMsg(r, m),
               ~UNCHANGED <<preimage, bt, view, msgs>>
        PROVE  LockInv'
    <2>1. PICK pc, base : Handles(r, m, pc, base)
      BY <1>7, OnReceiveMsgHandles
    <2>2. QED
      BY <1>2, <1>7, <2>1, HandleLocks, HandleRespect DEF LockInv
  <1>8. CASE UNCHANGED vars
    BY <1>4, <1>8 DEF vars
  <1>9. QED
    BY <1>4, <1>5, <1>6, <1>7, <1>8 DEF NextWithoutRollback

\* After a head no block is certified whose justify is older than the head.
LEMMA HeadIsLocked ==
  ASSUME TypeOK, VoteInv, StaticInv, VotesRespectLocks,
         NEW c \in Hashes, Locking(c), block_justify(c).view = LockOf(c).view + 1,
         Certified(LockOf(c).view + 2, c),
         NEW w \in Nat, NEW e, w > LockOf(c).view, Certified(w, e)
  PROVE  AtLeast(block_justify(e), LockOf(c).view)
  <1> DEFINE v == LockOf(c).view
             Bad == {x \in Nat : x > v /\ \E d : Certified(x, d) /\ ~AtLeast(block_justify(d), v)}
  <1>1. /\ block_justify(c) \in PhaseCertificates /\ block_justify(c).block \in Hashes
        /\ v \in Nat /\ LockOf(c) \in PhaseCertificates
    BY LockFields DEF Locking
  <1>2. Certified(v + 1, block_justify(c).block)
    <2>1. Valid(block_justify(c)) /\ ~is_genesis_pc(block_justify(c))
      BY JustifiedBefore DEF StaticInv, Locking
    <2>2. QED
      BY <1>1, <2>1, ValidIsCertified
  <1> HIDE DEF v
  <1>3. SUFFICES ASSUME Bad # {} PROVE FALSE
    <2>1. w \notin Bad => AtLeast(block_justify(e), v)
      BY DEF v
    <2>2. QED
      BY <1>3, <2>1 DEF v
  <1>4. PICK y \in Bad : \A x \in Bad : y <= x
    <2>1. Bad \subseteq Nat
      OBVIOUS
    <2> HIDE DEF Bad
    <2>2. QED
      BY <1>3, <2>1, Minimum
  <1>5. y \in Nat /\ y > v
    OBVIOUS
  <1>6. PICK d : Certified(y, d) /\ ~AtLeast(block_justify(d), v)
    OBVIOUS
  <1>7. CASE y = v + 1
    <2>1. d = block_justify(c).block
      BY <1>2, <1>6, <1>7, CertifiedOnce
    <2>2. block_justify(d) = LockOf(c)
      BY <2>1 DEF LockOf
    <2>3. QED
      BY <1>1, <1>6, <2>2 DEF AtLeast, Locking, v
  <1>8. CASE y = v + 2
    <2>1. d = c
      BY <1>6, <1>8, CertifiedOnce DEF v
    <2>2. QED
      BY <1>1, <1>6, <2>1 DEF AtLeast, Locking, v
  <1>9. CASE y > v + 2
    <2>1. PICK S \in SUBSET VotersFor(y, d, "Generic") :
            /\ S = VotersFor(y, d, "Generic") \/ Power(S) >= quorum(InitialValidatorSet)
            /\ Respecting(S, y, d)
      BY AllRespected DEF Respected
    <2>2. S \in SUBSET Replicas /\ Power(S) >= quorum(InitialValidatorSet)
      BY <1>6, <2>1, VotersAreReplicas DEF Certified
    <2>3. PICK m \in HonestVotes : m.from \in S /\ m.view = v + 2 /\ m.block = c
      BY <2>2, CommonVoter DEF v
    <2>4. RespectsLock(y, d, v)
      BY <1>9, <2>1, <2>3 DEF Respecting, v
    <2>5. ~Escape(v, y - 1)
      <3>1. SUFFICES ASSUME NEW n \in PhaseVotes, Certified(n.view, n.block),
                            v < n.view, n.view <= y - 1, ~AtLeast(block_justify(n.block), v)
                     PROVE  FALSE
        BY DEF Escape
      <3>2. n.view \in Nat
        BY VoteFields
      <3>3. n.view \in Bad
        BY <1>1, <3>1, <3>2
      <3> HIDE DEF Bad
      <3>4. QED
        BY <1>4, <1>5, <3>1, <3>2, <3>3
    <2>6. \A n \in PhaseVotes : Certified(y, n.block) => n.block = d
      BY <1>6, CertifiedOnce
    <2>7. QED
      BY <1>6, <2>4, <2>5, <2>6 DEF RespectsLock
  <1>10. QED
    BY <1>1, <1>5, <1>7, <1>8, <1>9

\* Every block certified after a head descends from it.
LEMMA HeadIsAncestor ==
  ASSUME TypeOK, VoteInv, BlocksOnParents, StaticInv, VotesRespectLocks,
         NEW c \in Hashes, Locking(c), block_justify(c).view = LockOf(c).view + 1,
         Certified(LockOf(c).view + 2, c),
         NEW w \in Nat, NEW e, w >= LockOf(c).view, Certified(w, e)
  PROVE  LockOf(c).block \in ancestry[e]
  <1> DEFINE v == LockOf(c).view
             b == LockOf(c).block
             Bad == {x \in Nat : x >= v /\ \E d : Certified(x, d) /\ b \notin ancestry[d]}
  <1>1. /\ LockOf(c) \in PhaseCertificates /\ v \in Nat /\ b \in Hashes
        /\ block_justify(c) \in PhaseCertificates /\ block_justify(c).block \in Hashes
    BY LockFields DEF Locking
  <1>2. Certified(v, b)
    <2>1. Valid(block_justify(c))
      BY JustifiedBefore DEF StaticInv
    <2>2. Certified(block_justify(c).view, block_justify(c).block)
      BY <1>1, <2>1, ValidIsCertified DEF Locking
    <2>3. Valid(LockOf(c))
      BY <2>2, JustifiedBefore DEF StaticInv, LockOf
    <2>4. QED
      BY <1>1, <2>3, ValidIsCertified DEF Locking
  <1>3. SUFFICES ASSUME Bad # {} PROVE FALSE
    <2>1. w \notin Bad => b \in ancestry[e]
      OBVIOUS
    <2>2. QED
      BY <1>3, <2>1
  <1>4. PICK y \in Bad : \A x \in Bad : y <= x
    <2>1. Bad \subseteq Nat
      OBVIOUS
    <2> HIDE DEF Bad
    <2>2. QED
      BY <1>3, <2>1, Minimum
  <1>5. y \in Nat /\ y >= v
    OBVIOUS
  <1>6. PICK d : Certified(y, d) /\ b \notin ancestry[d]
    OBVIOUS
  <1>7. CASE y = v
    <2>1. d = b
      BY <1>2, <1>6, <1>7, CertifiedOnce
    <2>2. QED
      BY <1>1, <1>6, <2>1, AncestrySelf
  <1>8. CASE y # v
    <2> DEFINE q == block_justify(d)
    <2>1. AtLeast(q, v)
      <3>1. y > v
        BY <1>1, <1>5, <1>8
      <3>2. QED
        BY <1>5, <1>6, <3>1, HeadIsLocked
    <2>2. /\ d \in Hashes /\ q \in PhaseCertificates /\ Valid(q)
          /\ ~is_genesis_pc(q) /\ q.view < y /\ q.view >= v
      BY <1>6, <2>1, JustifiedBefore DEF StaticInv, AtLeast
    <2>3. Certified(q.view, q.block) /\ q.view \in Nat
      BY <2>2, ValidIsCertified, CertificateFields
    <2>4. q.view \notin Bad
      <3> HIDE DEF Bad
      <3>1. QED
        BY <1>4, <1>5, <2>2, <2>3
    <2>5. b \in ancestry[q.block]
      BY <2>2, <2>3, <2>4
    <2>6. ancestry[d] = {d} \cup ancestry[q.block]
      BY <2>2, AncestryWalks DEF AncestryIsWalk, parent
    <2>7. QED
      BY <1>6, <2>5, <2>6
  <1>9. QED
    BY <1>7, <1>8

\* Of two heads, one is an ancestor of the other.
LEMMA HeadsAreOrdered ==
  ASSUME TypeOK, VoteInv, BlocksOnParents, StaticInv, VotesRespectLocks,
         NEW a, NEW b, IsHead(a), IsHead(b)
  PROVE  a \in Hashes /\ b \in Hashes /\ (a \in ancestry[b] \/ b \in ancestry[a])
  <1>1. ASSUME NEW c \in Hashes, Locking(c), block_justify(c).view = LockOf(c).view + 1,
               Certified(LockOf(c).view + 2, c)
        PROVE  /\ LockOf(c).block \in Hashes /\ LockOf(c).view \in Nat
               /\ Certified(LockOf(c).view, LockOf(c).block)
    <2>1. /\ LockOf(c) \in PhaseCertificates /\ LockOf(c).view \in Nat /\ LockOf(c).block \in Hashes
          /\ block_justify(c) \in PhaseCertificates /\ block_justify(c).block \in Hashes
      BY <1>1, LockFields DEF Locking
    <2>2. Valid(block_justify(c))
      BY <1>1, JustifiedBefore DEF StaticInv
    <2>3. Certified(block_justify(c).view, block_justify(c).block)
      BY <1>1, <2>1, <2>2, ValidIsCertified DEF Locking
    <2>4. Valid(LockOf(c))
      BY <2>3, JustifiedBefore DEF StaticInv, LockOf
    <2>5. QED
      BY <1>1, <2>1, <2>4, ValidIsCertified DEF Locking
  <1>2. PICK c \in Hashes : /\ Locking(c) /\ LockOf(c).block = a
                            /\ block_justify(c).view = LockOf(c).view + 1
                            /\ Certified(LockOf(c).view + 2, c)
    BY DEF IsHead
  <1>3. PICK d \in Hashes : /\ Locking(d) /\ LockOf(d).block = b
                            /\ block_justify(d).view = LockOf(d).view + 1
                            /\ Certified(LockOf(d).view + 2, d)
    BY DEF IsHead
  <1>4. /\ a \in Hashes /\ LockOf(c).view \in Nat /\ Certified(LockOf(c).view, a)
        /\ b \in Hashes /\ LockOf(d).view \in Nat /\ Certified(LockOf(d).view, b)
    BY <1>1, <1>2, <1>3
  <1>5. CASE LockOf(c).view <= LockOf(d).view
    <2>1. LockOf(d).view >= LockOf(c).view
      BY <1>4, <1>5
    <2>2. QED
      BY <1>2, <1>4, <2>1, HeadIsAncestor
  <1>6. CASE ~(LockOf(c).view <= LockOf(d).view)
    <2>1. LockOf(c).view >= LockOf(d).view
      BY <1>4, <1>6
    <2>2. QED
      BY <1>3, <1>4, <2>1, HeadIsAncestor
  <1>7. QED
    BY <1>4, <1>5, <1>6

\* All committed blocks are on one chain.
LEMMA CommitsOnOneChain ==
  ASSUME TypeOK, VoteInv, BlocksOnParents, StaticInv, VotesRespectLocks, CommitsHaveHeads,
         NEW r \in Replicas, NEW s \in Replicas,
         NEW p \in bt[r].block_at_height, NEW q \in bt[s].block_at_height
  PROVE  \E b \in Hashes : IsHead(b) /\ p[2] \in ancestry[b] /\ q[2] \in ancestry[b]
  <1>0. \A k \in Replicas : \A x \in bt[k].block_at_height : x[2] \in Hashes
    BY DEF TypeOK, BlockTrees
  <1>1. PICK a \in Hashes : p[2] \in ancestry[a] /\ IsHead(a)
    BY <1>0 DEF CommitsHaveHeads
  <1>2. PICK b \in Hashes : q[2] \in ancestry[b] /\ IsHead(b)
    BY <1>0 DEF CommitsHaveHeads
  <1>3. a \in ancestry[b] \/ b \in ancestry[a]
    BY <1>1, <1>2, HeadsAreOrdered
  <1>4. CASE a \in ancestry[b]
    BY <1>1, <1>2, <1>4, AncestryTransitive
  <1>5. CASE b \in ancestry[a]
    BY <1>1, <1>2, <1>5, AncestryTransitive
  <1>6. QED
    BY <1>3, <1>4, <1>5

\* The invariant of every behaviour with a fixed validator set.
ChainInv ==
  TypeOK /\ VoteInv /\ SignatureInv /\ BlocksOnParents /\ StaticInv /\ TreesAreWhole
  /\ CommitsHaveHeads

\* Committed blocks have heads in every behaviour of a fixed validator set.
LEMMA HeadsHold ==
  ASSUME NoUpdates
  PROVE  Spec => []ChainInv
  <1>1. Init => CommitsHaveHeads
    BY DEF Init, CommitsHaveHeads, initialize
  <1>2. TypeOK /\ VoteInv /\ SignatureInv /\ BlocksOnParents /\ StaticInv /\ TreesAreWhole
          /\ CommitsHaveHeads /\ [Next]_vars => CommitsHaveHeads'
    BY HeadsStep
  <1>3. ChainInv <=> /\ TypeOK /\ VoteInv /\ SignatureInv /\ BlocksOnParents /\ StaticInv
                     /\ TreesAreWhole /\ CommitsHaveHeads
    BY DEF ChainInv
  <1>4. QED
    BY <1>1, <1>2, <1>3, VoteSafety, SignaturesHeld, HeightsFollowParents, CertificatesAreValid,
       TreesStayWhole, PTL DEF Spec

\* The locks hold in those in which no lock moves back.
LEMMA LocksHold ==
  ASSUME NoUpdates
  PROVE  SpecWithoutRollback => [](ChainInv /\ LockInv)
  <1>1. Init => LockInv
    BY DEF Init, LockInv, LocksAreKept, VotesRespectLocks, HonestVotes,
           PhaseVotes, initialize
  <1>2. ChainInv /\ LockInv /\ [NextWithoutRollback]_vars => LockInv'
    BY LockStep DEF ChainInv
  <1>3. [NextWithoutRollback]_vars => [Next]_vars
    BY DEF NextWithoutRollback, Next
  <1>4. SpecWithoutRollback => Spec
    BY <1>3, PTL DEF SpecWithoutRollback, Spec
  <1>5. QED
    BY <1>1, <1>2, <1>4, HeadsHold, PTL DEF SpecWithoutRollback

\* A head, its child and its grandchild are certified in consecutive views.
LEMMA HeadsAreThreeChains ==
  ASSUME TypeOK, VoteInv, BlocksOnParents, StaticInv, NEW b, IsHead(b)
  PROVE  IsThreeChain(b)
  <1>1. PICK c \in Hashes : /\ Locking(c) /\ LockOf(c).block = b
                            /\ block_justify(c).view = LockOf(c).view + 1
                            /\ Certified(LockOf(c).view + 2, c)
    BY DEF IsHead
  <1>2. PICK v, d : v = LockOf(c).view /\ d = block_justify(c).block
    OBVIOUS
  <1>3. /\ LockOf(c) \in PhaseCertificates /\ v \in Nat /\ b \in Hashes
        /\ block_justify(c) \in PhaseCertificates /\ d \in Hashes
    BY <1>1, <1>2, LockFields DEF Locking
  <1>4. Certified(v + 1, d)
    <2>1. Valid(block_justify(c))
      BY <1>1, JustifiedBefore DEF StaticInv
    <2>2. QED
      BY <1>1, <1>2, <1>3, <2>1, ValidIsCertified DEF Locking
  <1>5. Certified(v, b)
    <2>1. Valid(LockOf(c))
      BY <1>2, <1>4, JustifiedBefore DEF StaticInv, LockOf
    <2>2. QED
      BY <1>1, <1>2, <1>3, <2>1, ValidIsCertified DEF Locking
  <1>6. ASSUME NEW w, NEW e, Certified(w, e)
        PROVE  <<w, e, "Generic">> \in Certifiable(InitialValidatorSet)
    <2>1. PICK n \in PhaseVotes : n.view = w /\ n.block = e /\ n.phase = "Generic"
      <3>1. PICK s : s \in VotersFor(w, e, "Generic")
        BY <1>6, VotersAreReplicas, QuorumsIntersect DEF Certified
      <3>2. QED
        BY <3>1 DEF VotersFor
    <2>2. QED
      BY <1>6, <2>1 DEF Certifiable, Certified, Power
  <1>7. /\ <<v, b, "Generic">> \in Certifiable(InitialValidatorSet)
        /\ <<v + 1, d, "Generic">> \in Certifiable(InitialValidatorSet)
        /\ <<v + 2, c, "Generic">> \in Certifiable(InitialValidatorSet)
    BY <1>1, <1>2, <1>4, <1>5, <1>6
  <1>8. block_justify(d).block = b /\ block_justify(c).block = d
    BY <1>1, <1>2 DEF LockOf
  <1>9. PICK head : head = <<v, b, "Generic">>
    OBVIOUS
  <1>10. /\ head \in Certifiable(InitialValidatorSet) /\ head[1] = v /\ head[2] = b
         /\ c \in DOMAIN preimage /\ d \in DOMAIN preimage
    BY <1>1, <1>3, <1>7, <1>9 DEF Hashes
  <1>11. {<<head[1] + 1, d, "Generic">>, <<head[1] + 2, c, "Generic">>}
           \subseteq Certifiable(InitialValidatorSet)
    BY <1>7, <1>10
  <1>12. QED
    BY <1>8, <1>10, <1>11 DEF IsThreeChain

\* With a fixed validator set, a committed block is the head of three
\* certificates of consecutive views, backed by votes that were really sent,
\* or an ancestor of such a block that the replica has committed too, also in
\* the behaviours in which locks move back (block_to_commit).
THEOREM CommitsAreOfThreeChains ==
  ASSUME NoUpdates
  PROVE  Spec => []CommitsAreCertified
  <1>1. ChainInv => CommitsAreCertified
    BY HeadsAreThreeChains DEF ChainInv, CommitsHaveHeads, CommitsAreCertified
  <1>2. QED
    BY <1>1, HeadsHold, PTL

\* "The block trees of all honest replicas are identical below a certain block
\* height": with a fixed validator set, less than a third of whose power is
\* faulty, in every behaviour in which no replica takes up a certificate that
\* moves its lock back, no two replicas commit different blocks at a height,
\* whatever faulty leaders propose and faulty replicas vote for, and whichever
\* messages are lost, repeated or reordered (safe_pc, pc_to_lock and
\* block_to_commit).
THEOREM CommitsAgree ==
  ASSUME NoUpdates
  PROVE  SpecWithoutRollback => []Agreement
  <1>1. ChainInv /\ LockInv => Agreement
    <2> SUFFICES ASSUME ChainInv, LockInv,
                        NEW r \in Replicas, NEW s \in Replicas,
                        NEW p \in bt[r].block_at_height, NEW q \in bt[s].block_at_height,
                        p[1] = q[1]
                 PROVE  p[2] = q[2]
      BY DEF Agreement
    <2>1. PICK b \in Hashes : p[2] \in ancestry[b] /\ q[2] \in ancestry[b]
      BY CommitsOnOneChain DEF ChainInv, LockInv
    <2>2. height(p[2]) = height(q[2])
      BY DEF ChainInv, TreesAreWhole, Whole, Kept
    <2>3. QED
      BY <2>1, <2>2, AncestorAtHeight DEF ChainInv
  <1>2. QED
    BY <1>1, LocksHold, PTL

\* Committing a head, a replica finds the last block that it has committed
\* below the first block that it commits.
LEMMA CommitIsLinked ==
  ASSUME NoUpdates, ChainInv, VotesRespectLocks, NEW r \in Replicas,
         NEW base \in BlockTrees, Whole(base),
         base.block_at_height = bt[r].block_at_height,
         NEW b \in Hashes, b \in base.blocks, IsHead(b),
         height(b) > highest_committed_block_height(base),
         NEW a \in uncommitted_blocks(b, base),
         NEW next, next = base.block_at_height
                            \cup {<<height(c), c>> : c \in uncommitted_blocks(b, base)}
  PROVE  IF height(a) = 0 THEN parent(a) = Genesis ELSE <<height(a) - 1, parent(a)>> \in next
  <1> DEFINE top == highest_committed_block_height(base)
  <1>1. /\ TypeOK /\ VoteInv /\ BlocksOnParents /\ StaticInv /\ CommitsHaveHeads
        /\ preimage \in Seq(BlockContents)
    BY DEF ChainInv, TypeOK
  <1>2. /\ a \in base.blocks /\ a \in ancestry[b] /\ a \in Hashes
        /\ height(a) >= top + 1 /\ height(a) <= height(b)
        /\ height(a) \in Nat /\ top \in Nat \cup {-1} /\ height(b) \in Nat
    <2>1. a \in base.blocks /\ a \in ancestry[b] /\ height(a) \in top + 1 .. height(b)
      BY DEF uncommitted_blocks
    <2>2. a \in Hashes
      BY <2>1 DEF BlockTrees
    <2>3. height(a) \in Nat /\ top \in Nat \cup {-1} /\ height(b) \in Nat
      BY <1>1, <2>2, BlockFields, HighestCommittedHeight DEF None
    <2>4. QED
      BY <2>1, <2>2, <2>3
  <1>3. CASE height(a) = 0
    <2>1. parent(a) \notin Hashes
      <3>1. SUFFICES ASSUME parent(a) \in Hashes PROVE FALSE
        OBVIOUS
      <3>2. height(a) = height(parent(a)) + 1 /\ height(parent(a)) \in Nat
        BY <1>1, <1>2, <3>1, ParentFacts
      <3>3. QED
        BY <1>3, <3>2
    <2>2. QED
      BY <1>1, <1>2, <1>3, <2>1, ParentFacts
  <1>4. CASE height(a) # 0
    <2>1. parent(a) \in Hashes /\ parent(a) # Genesis
      BY <1>1, <1>2, <1>4, ParentFacts DEF Hashes
    <2>2. height(parent(a)) \in Nat /\ height(parent(a)) = height(a) - 1
      <3>1. height(parent(a)) \in Nat /\ height(a) = height(parent(a)) + 1
        BY <1>1, <1>2, <2>1, ParentFacts
      <3>2. QED
        BY <3>1
    <2>3. parent(a) \in base.blocks
      BY <1>2, <2>1 DEF Whole, Indexed
    <2>4. parent(a) \in ancestry[b]
      <3>1. parent(a) \in ancestry[a]
        BY <1>1, <1>2, <2>1, AncestryWalks, AncestrySelf DEF AncestryIsWalk
      <3>2. QED
        BY <1>1, <1>2, <3>1, AncestryTransitive
    <2>5. CASE height(parent(a)) > top
      <3>1. parent(a) \in uncommitted_blocks(b, base)
        BY <1>2, <2>2, <2>3, <2>4, <2>5 DEF uncommitted_blocks
      <3>2. QED
        BY <1>4, <2>2, <3>1
    <2>6. CASE ~(height(parent(a)) > top)
      <3>1. height(parent(a)) = top /\ top # -1
        BY <1>2, <2>2, <2>6
      <3> DEFINE h == base.highest_committed_block
                 p == <<height(h), h>>
      <3>2. height(h) = top /\ h # NoBlock
        BY <3>1 DEF highest_committed_block_height, None
      <3>3. p \in bt[r].block_at_height
        BY <3>2 DEF Whole, Topped
      <3>4. PICK q \in bt[r].block_at_height : p[2] \in ancestry[q[2]] /\ IsHead(q[2])
        BY <1>1, <3>3 DEF CommitsHaveHeads
      <3>5. PICK d : d = q[2]
        OBVIOUS
      <3>6. d \in Hashes /\ h \in ancestry[d] /\ IsHead(d)
        BY <1>1, <3>4, <3>5 DEF TypeOK, BlockTrees
      <3>7. d \in ancestry[b] \/ b \in ancestry[d]
        BY <1>1, <3>6, HeadsAreOrdered
      <3>8. h = parent(a)
        <4>1. height(h) = height(parent(a))
          BY <3>1, <3>2
        <4> HIDE DEF h
        <4>2. CASE d \in ancestry[b]
          <5>1. h \in ancestry[b]
            BY <1>1, <3>6, <4>2, AncestryTransitive
          <5>2. QED
            BY <1>1, <2>4, <4>1, <5>1, AncestorAtHeight
        <4>3. CASE b \in ancestry[d]
          <5>1. parent(a) \in ancestry[d]
            BY <1>1, <2>4, <3>6, <4>3, AncestryTransitive
          <5>2. QED
            BY <1>1, <3>6, <4>1, <5>1, AncestorAtHeight
        <4>4. QED
          BY <3>7, <4>2, <4>3
      <3>9. p = <<height(a) - 1, parent(a)>>
        BY <2>2, <3>8
      <3>10. QED
        BY <1>4, <3>3, <3>9
    <2>7. QED
      BY <2>5, <2>6
  <1>5. QED
    BY <1>3, <1>4

\* A step keeps the committed blocks linked.
LEMMA LinkedStep ==
  ASSUME NoUpdates, ChainInv, VotesRespectLocks, ChainIsLinked, [Next]_vars
  PROVE  ChainIsLinked'
  <1>1. /\ TypeOK /\ VoteInv /\ SignatureInv /\ BlocksOnParents /\ StaticInv /\ TreesAreWhole
        /\ Grows /\ HeightsFilledBelow
    BY StepAncestry DEF ChainInv, TreesAreWhole, Whole, HeightsFilledBelow
  <1>2. ASSUME NEW s \in Replicas, NEW p \in bt'[s].block_at_height
        PROVE  IF p[1] = 0 THEN block_justify(p[2]).block' = Genesis
               ELSE <<p[1] - 1, block_justify(p[2]).block'>> \in bt'[s].block_at_height
    <2>1. CASE p \in bt[s].block_at_height
      <3>1. p[2] \in Hashes
        BY <1>1, <2>1 DEF TypeOK, BlockTrees
      <3>2. block_justify(p[2])' = block_justify(p[2])
        BY <1>1, <3>1, JustifyStays
      <3>3. bt[s].block_at_height \subseteq bt'[s].block_at_height
        BY <1>1, StepFills
      <3>4. IF p[1] = 0 THEN block_justify(p[2]).block = Genesis
            ELSE <<p[1] - 1, block_justify(p[2]).block>> \in bt[s].block_at_height
        BY <2>1 DEF ChainIsLinked
      <3>5. QED
        BY <3>2, <3>3, <3>4
    <2>2. CASE p \notin bt[s].block_at_height
      <3>1. PICK m, pc, base : m \in msgs /\ Handles(s, m, pc, base)
        BY <1>1, <2>2, NextHandles DEF SameTree
      <3>2. PICK b \in Hashes :
              /\ IsHead(b) /\ b \in base.blocks
              /\ height(b) > highest_committed_block_height(base)
              /\ bt'[s].block_at_height = bt[s].block_at_height
                   \cup {<<height(a), a>> : a \in uncommitted_blocks(b, base)}
        BY <1>1, <2>2, <3>1, HandledCommit
      <3>3. /\ base \in BlockTrees /\ Whole(base)
            /\ base.block_at_height = bt[s].block_at_height
        BY <1>1, <3>1, HandledCommit
      <3>4. PICK a \in uncommitted_blocks(b, base) : p = <<height(a), a>>
        BY <2>2, <3>2
      <3>5. PICK next : next = bt'[s].block_at_height
        OBVIOUS
      <3>6. next = base.block_at_height
                     \cup {<<height(c), c>> : c \in uncommitted_blocks(b, base)}
        BY <3>2, <3>3, <3>5
      <3>7. IF height(a) = 0 THEN parent(a) = Genesis ELSE <<height(a) - 1, parent(a)>> \in next
        BY <3>2, <3>3, <3>6, CommitIsLinked
      <3>8. p[1] = height(a) /\ block_justify(p[2])'.block = parent(a)
        BY <3>1, <3>4 DEF Handles, parent, block_justify
      <3>9. QED
        BY <3>5, <3>7, <3>8
    <2>3. QED
      BY <2>1, <2>2
  <1>3. QED
    BY <1>2 DEF ChainIsLinked

\* With a fixed validator set, in every behaviour in which no lock moves back,
\* the committed blocks of a replica are one chain from genesis without gaps
\* (commit walks back from the block to the last committed one and finds it).
THEOREM CommitsAreLinked ==
  ASSUME NoUpdates
  PROVE  SpecWithoutRollback => []ChainIsLinked
  <1>1. Init => ChainIsLinked
    BY DEF Init, ChainIsLinked, initialize
  <1>2. ChainInv /\ LockInv /\ ChainIsLinked /\ [NextWithoutRollback]_vars => ChainIsLinked'
    BY LinkedStep DEF LockInv, NextWithoutRollback, Next
  <1>3. QED
    BY <1>1, <1>2, LocksHold, PTL DEF SpecWithoutRollback

\* A step keeps the block of the highest PC in the tree: the PC is not older
\* than the one that commits, so that its block descends from the head.
LEMMA HighestPCStep ==
  ASSUME NoUpdates, ChainInv, VotesRespectLocks, HighestPCInTree, [Next]_vars
  PROVE  HighestPCInTree'
  <1>1. /\ TypeOK /\ VoteInv /\ SignatureInv /\ BlocksOnParents /\ StaticInv /\ TreesAreWhole
        /\ TreesAreValid /\ PCsArePast /\ preimage \in Seq(BlockContents)
    BY DEF ChainInv, StaticInv, TypeOK
  <1>2. ASSUME NEW s \in Replicas
        PROVE  bt'[s].highest_pc.block \in bt'[s].blocks \cup {Genesis}
    <2>1. CASE SameTree(bt[s], bt'[s])
      BY <2>1 DEF SameTree, HighestPCInTree
    <2>2. ASSUME NEW m \in msgs, NEW pc, NEW base, Handles(s, m, pc, base)
          PROVE  bt'[s].highest_pc.block \in bt'[s].blocks \cup {Genesis}
      <3>1. PICK hp : hp = bt'[s].highest_pc
        OBVIOUS
      <3>2. /\ pc \in PhaseCertificates /\ Valid(pc)
            /\ pc.block \in bt[s].blocks \/ is_genesis_pc(pc)
            /\ base \in BlockTrees /\ bt[s].blocks \subseteq base.blocks
            /\ base.highest_pc = bt[s].highest_pc
        BY <1>1, <2>2, HandledIsValid
      <3>3. hp \in {pc, bt[s].highest_pc} /\ hp.view >= pc.view
        <4>1. hp = update(pc, base).highest_pc
          BY <2>2, <3>1 DEF Handles, SameTree
        <4>2. QED
          BY <1>1, <3>2, <4>1, UpdatePCs
      <3>4. hp \in PhaseCertificates /\ Valid(hp) /\ hp.block \in base.blocks \cup {Genesis}
        <4>1. /\ bt[s].highest_pc \in PhaseCertificates /\ Valid(bt[s].highest_pc)
              /\ bt[s].highest_pc.block \in bt[s].blocks \cup {Genesis}
          BY <1>1 DEF TypeOK, BlockTrees, TreesAreValid, HighestPCInTree
        <4>2. pc.block \in bt[s].blocks \cup {Genesis}
          BY <3>2 DEF is_genesis_pc, genesis_pc
        <4>3. QED
          BY <3>2, <3>3, <4>1, <4>2
      <3>5. CASE bt'[s].blocks = base.blocks
        BY <3>1, <3>4, <3>5
      <3>6. CASE bt'[s].blocks # base.blocks
        <4>1. PICK b \in block_to_commit(pc, base) :
                /\ b \in Hashes /\ b \in base.blocks /\ IsHead(b)
                /\ b = LockOf(pc.block).block /\ Locking(pc.block) /\ pc.block \in Hashes
                /\ pc.view = LockOf(pc.block).view + 2
                /\ Certified(pc.view, pc.block)
                /\ bt'[s].blocks = base.blocks \ pruned_by(uncommitted_blocks(b, base), base)
          BY <1>1, <2>2, <3>6, HandledCommit
        <4>2. SUFFICES ASSUME hp.block # Genesis PROVE hp.block \in bt'[s].blocks
          BY <3>1
        <4>3. ~is_genesis_pc(hp) /\ hp.block \in base.blocks
          BY <3>4, <4>2 DEF is_genesis_pc, genesis_pc
        <4>4. Certified(hp.view, hp.block) /\ hp.view \in Nat
          BY <1>1, <3>4, <4>3, ValidIsCertified, CertificateFields
        <4>5. PICK c : c = pc.block
          OBVIOUS
        <4>6. LockOf(c).view \in Nat /\ block_justify(c).view \in Nat
          BY <1>1, <4>1, <4>5, LockFields DEF Locking
        <4>7. block_justify(c).view = LockOf(c).view + 1
          BY <3>2, <4>1, <4>5 DEF block_to_commit, Locking, LockOf, Valid, is_genesis_pc, genesis_pc
        <4>8. hp.view >= LockOf(c).view
          BY <3>3, <4>1, <4>4, <4>5, <4>6
        <4>9. LockOf(c).block \in ancestry[hp.block]
          BY <1>1, <4>1, <4>4, <4>5, <4>7, <4>8, HeadIsAncestor
        <4>10. b \in ancestry[hp.block]
          BY <4>1, <4>5, <4>9
        <4>11. Indexed(base)
          BY <1>1, <2>2, HandledCommit DEF Whole
        <4>12. hp.block \notin pruned_by(uncommitted_blocks(b, base), base)
          <5>1. PICK C, P : C = uncommitted_blocks(b, base) /\ P = pruned_by(C, base)
            OBVIOUS
          <5>2. \A x \in P : b \notin ancestry[x]
            BY <1>1, <3>2, <4>1, <4>11, <5>1, PruneFacts
          <5>3. QED
            BY <4>10, <5>1, <5>2
        <4>13. QED
          BY <4>1, <4>3, <4>12
      <3>7. QED
        BY <3>5, <3>6
    <2>3. QED
      BY <1>1, <2>1, <2>2, NextHandles
  <1>3. QED
    BY <1>2 DEF HighestPCInTree

\* With a fixed validator set, in every behaviour in which no lock moves back,
\* the block of the highest PC is never pruned: a leader that enters a view
\* finds the block it has to build on (delete_siblings against enter_view).
THEOREM HighestPCsStayInTree ==
  ASSUME NoUpdates
  PROVE  SpecWithoutRollback => []HighestPCInTree
  <1>1. Init => HighestPCInTree
    BY DEF Init, HighestPCInTree, initialize, genesis_pc
  <1>2. ChainInv /\ LockInv /\ HighestPCInTree /\ [NextWithoutRollback]_vars => HighestPCInTree'
    BY HighestPCStep DEF LockInv, NextWithoutRollback, Next
  <1>3. QED
    BY <1>1, <1>2, LocksHold, PTL DEF SpecWithoutRollback

\* "A quorum of replicas is currently locked on the block": with a fixed
\* validator set and no faulty replica, in every behaviour in which no lock
\* moves back, while a block is committed anywhere, replicas with the power of
\* a quorum are locked on it or on a descendant (pc_to_lock against
\* block_to_commit).
THEOREM CommitsAreLockedOn ==
  ASSUME NoUpdates, Faulty = {}
  PROVE  SpecWithoutRollback => []CommittedIsLockedByQuorum
  <1>1. ASSUME ChainInv, LockInv, NEW r \in Replicas, NEW p \in bt[r].block_at_height
        PROVE  power_of(InitialValidatorSet,
                        {s \in Replicas : p[2] \in ancestry[bt[s].locked_pc.block]})
                 >= quorum(InitialValidatorSet)
    <2>1. /\ TypeOK /\ VoteInv /\ BlocksOnParents /\ StaticInv /\ TreesAreValid
          /\ CommitsHaveHeads /\ LocksAreKept /\ VotesRespectLocks
      BY <1>1 DEF ChainInv, StaticInv, LockInv
    <2>2. PICK q \in bt[r].block_at_height : p[2] \in ancestry[q[2]] /\ IsHead(q[2])
      BY <2>1 DEF CommitsHaveHeads
    <2>3. PICK c \in Hashes : /\ Locking(c) /\ LockOf(c).block = q[2]
                              /\ block_justify(c).view = LockOf(c).view + 1
                              /\ Certified(LockOf(c).view + 2, c)
      BY <2>2 DEF IsHead
    <2>4. PICK v : v = LockOf(c).view
      OBVIOUS
    <2>5. v \in Nat
      BY <2>1, <2>3, <2>4, LockFields DEF Locking
    <2> DEFINE T == {s \in Replicas : p[2] \in ancestry[bt[s].locked_pc.block]}
               S == VotersFor(v + 2, c, "Generic")
    <2>6. ASSUME NEW s \in S PROVE s \in T
      <3>1. PICK n \in PhaseVotes : n.from = s /\ n.block = c
        BY DEF VotersFor
      <3>2. n \in HonestVotes /\ s \in Replicas
        BY <1>1, <2>1, <3>1, VotersAreReplicas DEF HonestVotes
      <3>3. view[s] \in Nat /\ bt[s].locked_pc \in PhaseCertificates /\ Valid(bt[s].locked_pc)
        BY <2>1, <3>2 DEF TypeOK, BlockTrees, TreesAreValid
      <3>4. ~Escape(v, view[s])
        <4>1. SUFFICES ASSUME NEW k \in PhaseVotes, Certified(k.view, k.block), v < k.view,
                              ~AtLeast(block_justify(k.block), v)
                       PROVE  FALSE
          BY DEF Escape
        <4>2. k.view \in Nat
          BY <2>1, VoteFields
        <4>3. k.view > LockOf(c).view
          BY <2>4, <2>5, <4>1, <4>2
        <4>4. AtLeast(block_justify(k.block), LockOf(c).view)
          BY <2>1, <2>3, <4>1, <4>2, <4>3, HeadIsLocked
        <4>5. QED
          BY <2>4, <4>1, <4>4
      <3>5. AtLeast(bt[s].locked_pc, v)
        BY <2>1, <2>3, <2>4, <3>1, <3>2, <3>4 DEF LocksAreKept
      <3>6. PICK l : l = bt[s].locked_pc
        OBVIOUS
      <3>7. Certified(l.view, l.block) /\ l.view \in Nat /\ l.block \in Hashes /\ l.view >= v
        BY <2>1, <3>3, <3>5, <3>6, ValidIsCertified, CertificateFields DEF AtLeast
      <3>8. q[2] \in ancestry[l.block]
        BY <2>1, <2>3, <2>4, <3>7, HeadIsAncestor
      <3>9. p[2] \in ancestry[l.block]
        BY <2>1, <2>2, <3>7, <3>8, AncestryTransitive
      <3>10. QED
        BY <3>2, <3>6, <3>9
    <2>7. S \in SUBSET T /\ T \in SUBSET Replicas
      BY <2>6
    <2>8. Power(S) >= quorum(InitialValidatorSet)
      BY <2>3, <2>4 DEF Certified
    <2> HIDE DEF S, T
    <2>9. Power(S) <= Power(T)
      BY <2>7, PowerMonotone
    <2>10. Power(S) \in Nat /\ Power(T) \in Nat /\ quorum(InitialValidatorSet) \in Nat
      <3>1. S \in SUBSET Replicas /\ total_power(InitialValidatorSet) \in Nat
        BY <2>7, PowerFacts
      <3>2. QED
        BY <2>7, <3>1, PowerFacts DEF Power, quorum
    <2>11. Power(T) >= quorum(InitialValidatorSet)
      BY <2>8, <2>9, <2>10
    <2>12. QED
      BY <2>11 DEF Power, T
  <1>2. ChainInv /\ LockInv => CommittedIsLockedByQuorum
    BY <1>1 DEF CommittedIsLockedByQuorum
  <1>3. QED
    BY <1>2, LocksHold, PTL

-----------------------------------------------------------------------------
(* The common chain.                                                       *)

\* The function of committed blocks has those of block_at_height, and is a
\* chain without gaps.
ChainsAreCommitted ==
  \A r \in Replicas \ Faulty :
    /\ \A h \in DOMAIN committed_chain(r) : <<h, committed_chain(r)[h]>> \in bt[r].block_at_height
    /\ \A p \in bt[r].block_at_height : p[1] \in DOMAIN committed_chain(r)
    /\ Common!IsChain(committed_chain(r))

\* A set of heights each of which has the one below it has no gaps: by the
\* least height from which one is missing.
LEMMA LinkedHasNoGaps ==
  ASSUME NEW heights, heights \subseteq Nat, \A h \in heights : h = 0 \/ h - 1 \in heights,
         NEW top \in heights
  PROVE  0 .. top \subseteq heights
  <1> DEFINE Bad == {h \in heights : ~(0 .. h \subseteq heights)}
  <1>1. SUFFICES ASSUME Bad # {} PROVE FALSE
    BY <1>1
  <1>2. PICK h \in Bad : \A k \in Bad : h <= k
    BY <1>1, Minimum
  <1>3. h \in Nat /\ h # 0
    BY <1>2
  <1>4. h - 1 \in heights /\ h - 1 \notin Bad
    BY <1>2, <1>3
  <1>5. 0 .. h \subseteq heights
    BY <1>2, <1>3, <1>4
  <1>6. QED
    BY <1>2, <1>5

\* Agreement makes block_at_height a function, links make it a chain.
LEMMA CommitsAreChains ==
  ASSUME TypeOK, Agreement, ChainIsLinked
  PROVE  ChainsAreCommitted
  <1> SUFFICES ASSUME NEW r \in Replicas \ Faulty
               PROVE  /\ \A h \in DOMAIN committed_chain(r) :
                            <<h, committed_chain(r)[h]>> \in bt[r].block_at_height
                      /\ \A p \in bt[r].block_at_height : p[1] \in DOMAIN committed_chain(r)
                      /\ Common!IsChain(committed_chain(r))
    BY DEF ChainsAreCommitted
  <1> DEFINE heights == {p[1] : p \in bt[r].block_at_height}
  <1>1. bt[r].block_at_height \subseteq Nat \X Hashes
    BY DEF TypeOK, BlockTrees
  <1>2. DOMAIN committed_chain(r) = heights
    BY DEF committed_chain
  <1>3. ASSUME NEW h \in heights
        PROVE  <<h, committed_chain(r)[h]>> \in bt[r].block_at_height
    <2>1. PICK b \in Hashes : <<h, b>> \in bt[r].block_at_height
      BY <1>1
    <2>2. committed_chain(r)[h] = CHOOSE c \in Hashes : <<h, c>> \in bt[r].block_at_height
      BY DEF committed_chain
    <2>3. QED
      BY <2>1, <2>2
  <1>4. heights \subseteq Nat
    BY <1>1
  <1>5. ASSUME NEW h \in heights PROVE h = 0 \/ h - 1 \in heights
    <2>1. PICK p \in bt[r].block_at_height : h = p[1]
      OBVIOUS
    <2>2. h = 0 \/ <<h - 1, block_justify(p[2]).block>> \in bt[r].block_at_height
      BY <2>1 DEF ChainIsLinked
    <2>3. QED
      BY <2>2
  <1>6. \A h \in heights : 0 .. h \subseteq heights
    <2> HIDE DEF heights
    <2> QED
      BY <1>4, <1>5, LinkedHasNoGaps
  <1>7. Common!IsChain(committed_chain(r))
    BY <1>2, <1>4, <1>6 DEF Common!IsChain
  <1>8. QED
    BY <1>2, <1>3, <1>7

\* A step changes what one replica has committed, or nothing.
LEMMA OneCommits ==
  ASSUME TypeOK, [Next]_vars
  PROVE  \/ \A s \in Replicas : bt'[s].block_at_height = bt[s].block_at_height
         \/ \E r \in Replicas : \A s \in Replicas \ {r} :
              bt'[s].block_at_height = bt[s].block_at_height
  <1>1. CASE \A s \in Replicas : SameTree(bt[s], bt'[s])
    BY <1>1 DEF SameTree
  <1>2. ASSUME NEW r \in Replicas, ~SameTree(bt[r], bt'[r])
        PROVE  \A s \in Replicas \ {r} : bt'[s].block_at_height = bt[s].block_at_height
    <2>1. PICK m \in msgs : \E pc, base : Handles(r, m, pc, base)
      BY <1>2, NextHandles
    <2>2. QED
      BY <2>1 DEF Handles
  <1>3. QED
    BY <1>1, <1>2

\* Functions whose graphs lie in sets of pairs that agree, agree.
LEMMA GraphsAgree ==
  ASSUME NEW f, NEW g, NEW P, NEW Q,
         \A h \in DOMAIN f : <<h, f[h]>> \in P,
         \A h \in DOMAIN g : <<h, g[h]>> \in Q,
         \A p \in P, q \in Q : p[1] = q[1] => p[2] = q[2]
  PROVE  \A h \in DOMAIN f \cap DOMAIN g : f[h] = g[h]
  <1> SUFFICES ASSUME NEW h \in DOMAIN f \cap DOMAIN g PROVE f[h] = g[h]
    OBVIOUS
  <1>1. <<h, f[h]>> \in P /\ <<h, g[h]>> \in Q
    OBVIOUS
  <1>2. <<h, f[h]>>[1] = <<h, g[h]>>[1] => <<h, f[h]>>[2] = <<h, g[h]>>[2]
    BY <1>1, Zenon
  <1>3. QED
    BY <1>2

\* A step that keeps the invariants commits blocks of the common chain.
LEMMA CommonStep ==
  ASSUME TypeOK, HeightsFilledBelow, [Next]_vars,
         ChainsAreCommitted, Agreement, ChainsAreCommitted', Agreement'
  PROVE  [Common!Next]_([r \in Replicas \ Faulty |-> committed_chain(r)])
  <1> DEFINE Members == Replicas \ Faulty
             chain   == [r \in Members |-> committed_chain(r)]
  <1>1. ASSUME NEW r \in Members
        PROVE  /\ \A h \in DOMAIN chain[r] : <<h, chain[r][h]>> \in bt[r].block_at_height
               /\ \A p \in bt[r].block_at_height : p[1] \in DOMAIN chain[r]
               /\ \A h \in DOMAIN chain'[r] : <<h, chain'[r][h]>> \in bt'[r].block_at_height
               /\ \A p \in bt'[r].block_at_height : p[1] \in DOMAIN chain'[r]
               /\ bt[r].block_at_height \subseteq bt'[r].block_at_height
               /\ Common!IsChain(chain'[r])
    BY <1>1, StepFills DEF ChainsAreCommitted, Common!IsChain
  <1>2. ASSUME NEW r \in Members, NEW s \in Members
        PROVE  \A h \in DOMAIN chain'[r] \cap DOMAIN chain'[s] : chain'[r][h] = chain'[s][h]
    <2>1. \A p \in bt'[r].block_at_height, q \in bt'[s].block_at_height : p[1] = q[1] => p[2] = q[2]
      BY DEF Agreement
    <2> HIDE DEF chain
    <2>2. QED
      BY <1>1, <2>1, GraphsAgree
  <1>3. ASSUME NEW r \in Members
        PROVE  /\ DOMAIN chain[r] \subseteq DOMAIN chain'[r]
               /\ \A h \in DOMAIN chain[r] : chain'[r][h] = chain[r][h]
    <2>1. \A p \in bt'[r].block_at_height, q \in bt[r].block_at_height : p[1] = q[1] => p[2] = q[2]
      BY <1>1 DEF Agreement
    <2> HIDE DEF chain
    <2>2. ASSUME NEW h \in DOMAIN chain[r] PROVE h \in DOMAIN chain'[r]
      <3>1. <<h, chain[r][h]>> \in bt'[r].block_at_height
        BY <1>1
      <3>2. <<h, chain[r][h]>>[1] \in DOMAIN chain'[r]
        BY <1>1, <3>1, Zenon
      <3>3. QED
        BY <3>2
    <2>3. QED
      BY <1>1, <2>1, <2>2, GraphsAgree
  <1>4. ASSUME NEW s \in Members, bt'[s].block_at_height = bt[s].block_at_height
        PROVE  chain'[s] = chain[s]
    <2>1. DOMAIN chain'[s] = DOMAIN chain[s]
      BY <1>4 DEF committed_chain
    <2>2. /\ chain[s] = [h \in DOMAIN chain[s] |-> chain[s][h]]
          /\ chain'[s] = [h \in DOMAIN chain'[s] |-> chain'[s][h]]
      <3>1. chain[s] = committed_chain(s) /\ chain'[s] = committed_chain(s)'
        OBVIOUS
      <3>2. QED
        BY <3>1 DEF committed_chain
    <2> HIDE DEF chain
    <2>3. QED
      BY <1>3, <2>1, <2>2
  <1>5. ASSUME NEW r \in Members, \A s \in Members \ {r} : chain'[s] = chain[s]
        PROVE  Common!Next
    <2>1. /\ Common!Extends(chain'[r], chain[r])
          /\ \A s \in Members \ {r} : Common!Agrees(chain'[r], chain[s])
      BY <1>2, <1>3, <1>5 DEF Common!Extends, Common!Agrees
    <2>2. chain' = [chain EXCEPT ![r] = chain'[r]]
      BY <1>5
    <2>3. Common!Commit(r)
      BY <1>1, <2>1, <2>2 DEF Common!Commit
    <2>4. QED
      BY <2>3 DEF Common!Next
  <1>6. CASE \A s \in Members : chain'[s] = chain[s]
    <2>1. chain' = chain
      BY <1>6
    <2>2. QED
      BY <2>1
  <1>7. QED
    BY <1>4, <1>5, <1>6, OneCommits

\* With a fixed validator set, less than a third of whose power is faulty, and
\* in the behaviours in which no lock moves back, HotStuff implements the
\* common chain: in every step at most one replica commits, and what it commits
\* continues the chain it has, on which all others are, ahead or behind.
THEOREM HotStuffImplementsCommonChain ==
  ASSUME NoUpdates
  PROVE  SpecWithoutRollback => ImplementsCommonChain
  <1>1. [NextWithoutRollback]_vars => [Next]_vars
    BY DEF NextWithoutRollback, Next
  <1>2. SpecWithoutRollback => Spec
    BY <1>1, PTL DEF SpecWithoutRollback, Spec
  <1>3. SpecWithoutRollback => [](Agreement /\ ChainIsLinked)
    BY CommitsAgree, CommitsAreLinked, PTL
  <1>4. Spec => [](TypeOK /\ HeightsFilledBelow)
    BY TypeCorrect, HeightsFilled, PTL
  <1>5. TypeOK /\ Agreement /\ ChainIsLinked => ChainsAreCommitted
    BY CommitsAreChains
  <1>6. Init => Common!Init
    <2> SUFFICES ASSUME Init PROVE Common!Init
      OBVIOUS
    <2>1. \A r \in Replicas : bt[r].block_at_height = {}
      BY DEF Init, initialize
    <2>2. \A r \in Replicas : {p[1] : p \in bt[r].block_at_height} = {}
      BY <2>1
    <2>3. \A r \in Replicas : committed_chain(r) = [h \in {} |-> 0]
      BY <2>2 DEF committed_chain
    <2>4. QED
      BY <2>3 DEF Common!Init
  <1>7. /\ TypeOK /\ HeightsFilledBelow /\ Agreement /\ ChainsAreCommitted
        /\ Agreement' /\ ChainsAreCommitted' /\ [Next]_vars
        => [Common!Next]_([r \in Replicas \ Faulty |-> committed_chain(r)])
    BY CommonStep
  <1>8. QED
    BY <1>1, <1>2, <1>3, <1>4, <1>5, <1>6, <1>7, PTL
       DEF SpecWithoutRollback, ImplementsCommonChain, Common!Spec
=============================================================================
