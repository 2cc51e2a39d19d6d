--------------------------- MODULE PacemakerProofs ---------------------------
(***************************************************************************)
(* Safety of the pacemaker, for every number of replicas, length of        *)
(* epochs, history of validator sets and number of restarts: states and    *)
(* messages are type correct; no view that a replica is to enter lacks a   *)
(* deadline; whoever's signature is in a TimeoutCertificate has voted to   *)
(* leave its view; nobody leaves an epoch without a quorum; and as long as *)
(* views are left by timeouts only, nobody is asked to go back to one.     *)
(***************************************************************************)
EXTENDS Pacemaker, FiniteTheorems

Views == Nat \cup {None}

\* The senders of timeout votes for a view, among a set of messages.
SendersIn(sent, v) == {m.from : m \in {n \in sent : n.type = "TimeoutVote" /\ n.view = v}}

\* The signers of a certificate have voted to leave its view.
IsVoted(tc, sent) ==
  /\ tc.view \in Views
  /\ Range(tc.signatures) \ {NoSignature} \subseteq SendersIn(sent, tc.view) \cup Faulty

\* ... and so have those of the certificate that a message carries.
CarriesVoted(m, sent) ==
  /\ m.type = "TimeoutVote" => IsVoted(m.highest_tc, sent)
  /\ m.type = "AdvanceView" /\ m.kind = "TC" => IsVoted(m.cert, sent)

\* Collectors and pairs of them that hold signatures of a set of signers.
CollectsFrom(col, signers) ==
  /\ col = [vs |-> col.vs, votes |-> col.votes]
  /\ col.votes \subseteq signers

PairCollectsFrom(pair, signers) ==
  /\ pair = [cvs |-> pair.cvs, pvs |-> pair.pvs]
  /\ CollectsFrom(pair.cvs, signers)
  /\ \A col \in pair.pvs : CollectsFrom(col, signers)

\* Messages have the fields of their type, and views.
IsMessage(m) ==
  \/ /\ m = TimeoutVote(m.from, m.view, m.highest_tc)
     /\ m.highest_tc.view \in Views
     /\ m.view \in Views
  \/ /\ m = AdvanceView(m.from, m.kind, m.cert)
     /\ m.view = m.cert.view
     /\ m.view \in Views

\* The views that a replica knows of, and what it can be in.
ViewsOK ==
  /\ view \in [Replicas -> Nat]
  /\ highest_view_entered \in [Replicas -> Nat]
  /\ DOMAIN timeouts = Replicas
  /\ DOMAIN error = Replicas
  /\ DOMAIN highest_tc = Replicas
  /\ DOMAIN highest_pc = Replicas
  /\ \A r \in Replicas : highest_tc[r].view \in Views /\ highest_pc[r].view \in Views
  /\ \A m \in msgs : IsMessage(m)

\* A replica has deadlines from its view on to the end of the view's epoch.
DeadlinesReach ==
  \A r \in Replicas : view[r] .. epoch(view[r]) * EpochLength \subseteq timeouts[r]

DeadlineInv == ViewsOK /\ DeadlinesReach /\ DeadlineKnown

\* What collectors hold, for their replica's view, was sent.
CollectorsHoldVotes ==
  /\ DOMAIN collectors = Replicas
  /\ \A r \in Replicas : PairCollectsFrom(collectors[r], SendersIn(msgs, view[r]) \cup Faulty)

VotedInv == CollectorsHoldVotes /\ TimeoutCertificatesAreVotedFor

\* The inductive invariant.
PacemakerInv == DeadlineInv /\ VotedInv

-----------------------------------------------------------------------------
(* Epochs.                                                                 *)

\* The last view of its epoch is not below a view.
LEMMA EpochCovers ==
  ASSUME NEW v \in Nat
  PROVE  epoch(v) * EpochLength \in Nat /\ v <= epoch(v) * EpochLength
  <1> DEFINE E == EpochLength
             x == v + E - 1
             q == x \div E
  <1>1. E \in Nat /\ E > 0 /\ x \in Nat
    BY PacemakerAssumption
  <1> HIDE DEF E, x
  <1>2. q \in Nat
    BY <1>1
  <1>3. x < (q + 1) * E
    BY <1>1
  <1>4. QED
    BY <1>1, <1>2, <1>3 DEF epoch, E, x

-----------------------------------------------------------------------------
(* What the operators of the pacemaker return.                             *)

\* A replica starts again in a view.
LEMMA InitViewType ==
  ASSUME ViewsOK, NEW r \in Replicas
  PROVE  init_view(r) \in Nat
  <1> DEFINE a == highest_view_entered[r]
             b == highest_pc[r].view
             c == highest_tc[r].view
             progress == {a, b, c}
             highest == CHOOSE v \in progress : \A w \in progress : w <= v
  <1>1. a \in Nat /\ b \in Int /\ c \in Int
    BY DEF ViewsOK, Views, None
  <1>2. init_view(r) = IF highest = 0 THEN 0 ELSE highest + 1
    BY DEF init_view
  <1> HIDE DEF a, b, c
  <1>3. \E v \in progress : \A w \in progress : w <= v
    <2>1. CASE a >= b /\ a >= c
      BY <1>1, <2>1
    <2>2. CASE b >= a /\ b >= c
      BY <1>1, <2>2
    <2>3. CASE c >= a /\ c >= b
      BY <1>1, <2>3
    <2>4. QED
      BY <1>1, <2>1, <2>2, <2>3
  <1>4. highest \in progress /\ \A w \in progress : w <= highest
    BY <1>3
  <1> HIDE DEF highest
  <1>5. highest \in Int /\ a <= highest
    BY <1>1, <1>4
  <1>6. QED
    BY <1>1, <1>2, <1>5

\* update_view keeps what DeadlineInv says of views and deadlines.
LEMMA UpdateViewKnows ==
  ASSUME DeadlineInv, NEW r \in Replicas, NEW next \in Nat, UpdateView(r, next)
  PROVE  /\ view' \in [Replicas -> Nat]
         /\ DOMAIN timeouts' = Replicas
         /\ DOMAIN error' = Replicas
         /\ DeadlinesReach'
         /\ DeadlineKnown'
  <1> DEFINE increasing == next > view[r]
             known == IF epoch(view[r]) = epoch(next) THEN timeouts[r] ELSE update_timeouts(r, next)
             entering == increasing /\ next \in known
  <1>1. /\ view[r] \in Nat
        /\ DOMAIN error = Replicas /\ DOMAIN timeouts = Replicas /\ view \in [Replicas -> Nat]
        /\ view[r] .. epoch(view[r]) * EpochLength \subseteq timeouts[r]
        /\ error[r] # "GetViewTimeoutError"
    BY DEF DeadlineInv, ViewsOK, DeadlinesReach, DeadlineKnown
  <1>2. epoch(next) * EpochLength \in Nat /\ next <= epoch(next) * EpochLength
    BY EpochCovers
  <1>3. ASSUME increasing
        PROVE  next .. epoch(next) * EpochLength \subseteq known
    <2>1. CASE epoch(view[r]) = epoch(next)
      BY <1>1, <1>2, <1>3, <2>1
    <2>2. CASE epoch(view[r]) # epoch(next)
      BY <2>2 DEF update_timeouts
    <2>3. QED
      BY <2>1, <2>2
  <1>4. increasing => entering
    BY <1>2, <1>3
  <1>5. /\ error' = [error EXCEPT ![r] = CASE ~increasing -> "NonIncreasingViewError"
                                           [] increasing /\ ~entering -> "GetViewTimeoutError"
                                           [] entering -> NoError]
        /\ timeouts' = [timeouts EXCEPT ![r] = IF increasing THEN known ELSE @]
        /\ view' = [view EXCEPT ![r] = IF entering THEN next ELSE @]
    BY DEF UpdateView
  <1> HIDE DEF known
  <1>6. error'[r] # "GetViewTimeoutError" /\ DOMAIN error' = Replicas
    BY <1>1, <1>4, <1>5 DEF NoError
  <1>7. DeadlineKnown'
    BY <1>5, <1>6 DEF DeadlineInv, DeadlineKnown
  <1>8. view' \in [Replicas -> Nat] /\ DOMAIN timeouts' = Replicas
    BY <1>1, <1>5
  <1>9. view'[r] .. epoch(view'[r]) * EpochLength \subseteq timeouts'[r]
    BY <1>1, <1>3, <1>4, <1>5
  <1>10. DeadlinesReach'
    BY <1>1, <1>5, <1>9 DEF DeadlineInv, DeadlinesReach, epoch
  <1>11. QED
    BY <1>6, <1>7, <1>8, <1>10

\* The signatures in a vector are of its signers.
LEMMA SignaturesOfSigners ==
  ASSUME NEW vs, NEW signers
  PROVE  Range(signature_set(vs, signers)) \ {NoSignature} \subseteq signers
  BY DEF signature_set, Range

\* A certificate that a collector completes has the view and signatures of
\* votes that it holds.
LEMMA CollectTimeoutFrom ==
  ASSUME NEW signers, NEW col, CollectsFrom(col, signers), NEW m, NEW v,
         m.view = v => m.from \in signers
  PROVE  LET c == collect_timeout(col, m, v) IN
         /\ CollectsFrom(c.col, signers)
         /\ \A tc \in c.certs :
              tc.view = v /\ v = m.view /\ Range(tc.signatures) \ {NoSignature} \subseteq signers
  <1> DEFINE all == col.votes \cup {m.from}
             added == [col EXCEPT !.votes = all]
             tc == [view |-> v, signatures |-> signature_set(col.vs, all)]
             c == collect_timeout(col, m, v)
  <1>1. CASE c = [col |-> col, certs |-> {}]
    BY <1>1
  <1>2. CASE m.view = v /\ c.col = added /\ c.certs \subseteq {tc}
    <2>1. all \subseteq signers
      BY <1>2 DEF CollectsFrom
    <2>2. CollectsFrom(added, signers)
      BY <2>1 DEF CollectsFrom
    <2>3. Range(tc.signatures) \ {NoSignature} \subseteq signers
      BY <2>1, SignaturesOfSigners
    <2> HIDE DEF added, c
    <2>4. tc.view = v
      OBVIOUS
    <2> HIDE DEF tc
    <2>5. QED
      BY <1>2, <2>2, <2>3, <2>4 DEF c
  <1>3. c = [col |-> col, certs |-> {}] \/ (m.view = v /\ c.col = added /\ c.certs \subseteq {tc})
    BY DEF collect_timeout
  <1>4. QED
    BY <1>1, <1>2, <1>3

\* The same for the pair of collectors.
LEMMA CollectFrom ==
  ASSUME NEW signers, NEW r, PairCollectsFrom(collectors[r], signers), NEW m,
         m.view = view[r] => m.from \in signers
  PROVE  /\ PairCollectsFrom(collect(r, m).pair, signers)
         /\ \A tc \in collect(r, m).certs :
              tc.view = view[r] /\ view[r] = m.view /\ Range(tc.signatures) \ {NoSignature} \subseteq signers
  <1> DEFINE pair == collectors[r]
             c == collect_timeout(pair.cvs, m, view[r])
             col == CHOOSE x \in pair.pvs : TRUE
             p == collect_timeout(col, m, view[r])
  <1>1. /\ CollectsFrom(c.col, signers)
        /\ \A tc \in c.certs :
             tc.view = view[r] /\ view[r] = m.view /\ Range(tc.signatures) \ {NoSignature} \subseteq signers
    <2>1. CollectsFrom(pair.cvs, signers)
      BY DEF PairCollectsFrom
    <2>2. QED
      BY <2>1, CollectTimeoutFrom
  <1>2. CASE c.certs # {} \/ pair.pvs = {}
    <2>1. collect(r, m) = [pair |-> [pair EXCEPT !.cvs = c.col], certs |-> c.certs]
      BY <1>2 DEF collect, collect_in
    <2> HIDE DEF c
    <2>2. QED
      BY <1>1, <2>1 DEF PairCollectsFrom
  <1>3. CASE ~(c.certs # {} \/ pair.pvs = {})
    <2>1. collect(r, m) = [pair |-> [cvs |-> c.col, pvs |-> {p.col}], certs |-> p.certs]
      BY <1>3 DEF collect, collect_in
    <2>2. CollectsFrom(col, signers)
      BY <1>3 DEF PairCollectsFrom
    <2>3. /\ CollectsFrom(p.col, signers)
          /\ \A tc \in p.certs :
               tc.view = view[r] /\ view[r] = m.view /\ Range(tc.signatures) \ {NoSignature} \subseteq signers
      BY <2>2, CollectTimeoutFrom
    <2> HIDE DEF c, p
    <2>4. QED
      BY <1>1, <2>1, <2>3 DEF PairCollectsFrom
  <1>4. QED
    BY <1>2, <1>3

\* New collectors are empty.
LEMMA NewPairCollectsFrom ==
  ASSUME NEW signers, NEW sets
  PROVE  PairCollectsFrom(new_pair(sets), signers)
  BY DEF new_pair, new_collector, PairCollectsFrom, CollectsFrom

\* update_validator_sets drops votes and adds none.
LEMMA UpdatedPairCollectsFrom ==
  ASSUME NEW signers, NEW sets, NEW pair, PairCollectsFrom(pair, signers)
  PROVE  PairCollectsFrom(update_validator_sets(pair, sets), signers)
  BY DEF update_validator_sets, new_collector, PairCollectsFrom, CollectsFrom

-----------------------------------------------------------------------------
(* What a step has to show.                                                *)

\* Messages stay sent.
LEMMA VotesStay ==
  ASSUME NEW sent, NEW more, sent \subseteq more
  PROVE  /\ \A v : SendersIn(sent, v) \subseteq SendersIn(more, v)
         /\ \A tc : IsVoted(tc, sent) => IsVoted(tc, more)
         /\ \A m : CarriesVoted(m, sent) => CarriesVoted(m, more)
  <1>1. \A v : SendersIn(sent, v) \subseteq SendersIn(more, v)
    BY DEF SendersIn
  <1>2. \A tc : IsVoted(tc, sent) => IsVoted(tc, more)
    BY <1>1 DEF IsVoted
  <1>3. QED
    BY <1>1, <1>2 DEF CarriesVoted

\* TimeoutCertificatesAreVotedFor, in terms of replicas and messages.
LEMMA KnownCertificates ==
  ASSUME ViewsOK
  PROVE  TimeoutCertificatesAreVotedFor <=>
           /\ \A r \in Replicas : IsVoted(highest_tc[r], msgs)
           /\ \A m \in msgs : CarriesVoted(m, msgs)
  <1>1. \A v : Senders(v) = SendersIn(msgs, v)
    BY DEF Senders, SendersIn
  <1>2. \A m \in msgs : m.type = "TimeoutVote" => m.highest_tc.view \in Views
    BY DEF ViewsOK, IsMessage, AdvanceView
  <1>3. \A m \in msgs : m.type = "AdvanceView" => m.cert.view \in Views
    BY DEF ViewsOK, IsMessage, TimeoutVote
  <1>4. \A r \in Replicas : highest_tc[r].view \in Views
    BY DEF ViewsOK
  <1>5. \A tc \in KnownTCs : tc.view \in Views
    BY <1>2, <1>3, <1>4 DEF KnownTCs
  <1>6. TimeoutCertificatesAreVotedFor <=> \A tc \in KnownTCs : IsVoted(tc, msgs)
    BY <1>1, <1>5 DEF TimeoutCertificatesAreVotedFor, IsVoted
  <1>7. QED
    BY <1>6 DEF KnownTCs, CarriesVoted

\* A step of replica r keeps the invariant if it leaves the others alone and
\* what it holds and sends is voted for.
LEMMA ReplicaSteps ==
  ASSUME PacemakerInv, NEW r \in Replicas,
         view' \in [Replicas -> Nat], DOMAIN timeouts' = Replicas, DOMAIN error' = Replicas,
         DeadlinesReach', DeadlineKnown',
         highest_view_entered' \in [Replicas -> Nat],
         DOMAIN highest_tc' = Replicas, DOMAIN highest_pc' = Replicas, DOMAIN collectors' = Replicas,
         \A s \in Replicas \ {r} : /\ view'[s] = view[s]
                                   /\ highest_tc'[s] = highest_tc[s]
                                   /\ highest_pc'[s] = highest_pc[s]
                                   /\ collectors'[s] = collectors[s],
         msgs \subseteq msgs',
         \A m \in msgs' \ msgs : IsMessage(m) /\ CarriesVoted(m, msgs'),
         highest_pc'[r].view \in Views,
         IsVoted(highest_tc'[r], msgs'),
         PairCollectsFrom(collectors'[r], SendersIn(msgs', view'[r]) \cup Faulty)
  PROVE  PacemakerInv'
  <1>1. /\ \A s \in Replicas : IsVoted(highest_tc[s], msgs)
        /\ \A m \in msgs : CarriesVoted(m, msgs)
    BY KnownCertificates DEF PacemakerInv, DeadlineInv, VotedInv
  <1>2. /\ \A s \in Replicas : IsVoted(highest_tc'[s], msgs')
        /\ \A m \in msgs' : CarriesVoted(m, msgs')
    BY <1>1, VotesStay
  <1>3. ViewsOK'
    <2>1. \A s \in Replicas : highest_tc'[s].view \in Views
      BY <1>2 DEF IsVoted
    <2>2. \A s \in Replicas : highest_pc'[s].view \in Views
      BY DEF PacemakerInv, DeadlineInv, ViewsOK
    <2>3. \A m \in msgs' : IsMessage(m)
      BY DEF PacemakerInv, DeadlineInv, ViewsOK
    <2>4. QED
      BY <2>1, <2>2, <2>3 DEF ViewsOK, IsMessage, TimeoutVote, AdvanceView
  <1>4. TimeoutCertificatesAreVotedFor'
    <2>1. \A tc \in KnownTCs' : IsVoted(tc, msgs')
      BY <1>2 DEF KnownTCs, CarriesVoted
    <2>2. \A v : Senders(v)' = SendersIn(msgs', v)
      BY DEF Senders, SendersIn
    <2>3. QED
      BY <2>1, <2>2 DEF TimeoutCertificatesAreVotedFor, IsVoted
  <1>5. CollectorsHoldVotes'
    <2>1. \A s \in Replicas \ {r} : PairCollectsFrom(collectors[s], SendersIn(msgs, view[s]) \cup Faulty)
      BY DEF PacemakerInv, VotedInv, CollectorsHoldVotes
    <2>2. \A v : SendersIn(msgs, v) \subseteq SendersIn(msgs', v)
      BY VotesStay
    <2>3. \A s \in Replicas : PairCollectsFrom(collectors'[s], SendersIn(msgs', view'[s]) \cup Faulty)
      <3> SUFFICES ASSUME NEW s \in Replicas, s # r
                   PROVE  PairCollectsFrom(collectors'[s], SendersIn(msgs', view'[s]) \cup Faulty)
        OBVIOUS
      <3>1. collectors'[s] = collectors[s] /\ view'[s] = view[s]
        OBVIOUS
      <3>2. QED
        BY <2>1, <2>2, <3>1 DEF PairCollectsFrom, CollectsFrom
    <2>4. QED
      BY <2>3 DEF CollectorsHoldVotes, PairCollectsFrom, CollectsFrom, SendersIn
  <1>6. QED
    BY <1>3, <1>4, <1>5 DEF PacemakerInv, DeadlineInv, VotedInv

\* The facts about replica r that the proofs of its actions use.
LEMMA ReplicaFacts ==
  ASSUME PacemakerInv, NEW r \in Replicas
  PROVE  /\ view \in [Replicas -> Nat] /\ view[r] \in Nat
         /\ highest_view_entered \in [Replicas -> Nat]
         /\ DOMAIN timeouts = Replicas /\ DOMAIN error = Replicas /\ DOMAIN collectors = Replicas
         /\ DOMAIN highest_tc = Replicas /\ DOMAIN highest_pc = Replicas
         /\ DeadlinesReach /\ DeadlineKnown
         /\ highest_pc[r].view \in Views
         /\ IsVoted(highest_tc[r], msgs)
         /\ PairCollectsFrom(collectors[r], SendersIn(msgs, view[r]) \cup Faulty)
         /\ \A m \in msgs : IsMessage(m) /\ CarriesVoted(m, msgs)
  <1>1. /\ \A s \in Replicas : IsVoted(highest_tc[s], msgs)
        /\ \A m \in msgs : CarriesVoted(m, msgs)
    BY KnownCertificates DEF PacemakerInv, DeadlineInv, VotedInv
  <1>2. QED
    BY <1>1 DEF PacemakerInv, DeadlineInv, VotedInv, ViewsOK, CollectorsHoldVotes

\* Steps in which r only looks at its deadline or at messages keep deadlines.
LEMMA SameView ==
  ASSUME PacemakerInv, NEW r \in Replicas, UNCHANGED <<view, error>>,
         timeouts' = timeouts \/ timeouts' = [timeouts EXCEPT ![r] = extend_view(r)]
  PROVE  DOMAIN timeouts' = Replicas /\ DeadlinesReach' /\ DeadlineKnown'
  <1>1. DOMAIN timeouts = Replicas /\ DeadlinesReach /\ DeadlineKnown
    BY DEF PacemakerInv, DeadlineInv, ViewsOK
  <1>2. DOMAIN timeouts' = Replicas /\ \A s \in Replicas : timeouts[s] \subseteq timeouts'[s]
    BY <1>1 DEF extend_view
  <1>3. QED
    BY <1>1, <1>2 DEF DeadlinesReach, DeadlineKnown, epoch

\* update_view throws the votes of the view away.
LEMMA UpdateViewClears ==
  ASSUME PacemakerInv, NEW r \in Replicas, NEW next \in Nat, UpdateView(r, next), msgs \subseteq msgs'
  PROVE  /\ DOMAIN collectors' = Replicas
         /\ \A s \in Replicas \ {r} : view'[s] = view[s] /\ collectors'[s] = collectors[s]
         /\ PairCollectsFrom(collectors'[r], SendersIn(msgs', view'[r]) \cup Faulty)
  <1>1. /\ view \in [Replicas -> Nat]
        /\ DOMAIN collectors = Replicas
        /\ PairCollectsFrom(collectors[r], SendersIn(msgs, view[r]) \cup Faulty)
    BY ReplicaFacts
  <1>2. PICK entering \in BOOLEAN :
          /\ view' = [view EXCEPT ![r] = IF entering THEN next ELSE @]
          /\ collectors' = [collectors EXCEPT ![r] = IF entering THEN new_collectors(r) ELSE @]
    <2> DEFINE known == IF epoch(view[r]) = epoch(next) THEN timeouts[r] ELSE update_timeouts(r, next)
    <2> WITNESS (next > view[r] /\ next \in known) \in BOOLEAN
    <2>1. QED
      BY DEF UpdateView
  <1>3. PairCollectsFrom(collectors'[r], SendersIn(msgs', view'[r]) \cup Faulty)
    <2>1. CASE entering
      BY <1>1, <1>2, <2>1, NewPairCollectsFrom DEF new_collectors
    <2>2. CASE ~entering
      <3>1. collectors'[r] = collectors[r] /\ view'[r] = view[r]
        BY <1>1, <1>2, <2>2
      <3>2. SendersIn(msgs, view[r]) \subseteq SendersIn(msgs', view[r])
        BY VotesStay
      <3>3. QED
        BY <1>1, <3>1, <3>2 DEF PairCollectsFrom, CollectsFrom
    <2>3. QED
      BY <2>1, <2>2
  <1>4. QED
    BY <1>1, <1>2, <1>3

-----------------------------------------------------------------------------
(* The actions.                                                            *)

\* tick after the deadline of an epoch-change view.
LEMMA TickTimeoutVoteStep ==
  ASSUME PacemakerInv, NEW r \in Replicas, TickTimeoutVote(r)
  PROVE  PacemakerInv'
  <1> DEFINE m == TimeoutVote(r, view[r], highest_tc[r])
  <1>1. UNCHANGED <<view, error, collectors, highest_tc, highest_pc>>
    BY DEF TickTimeoutVote, Ticks
  <1>2. DOMAIN timeouts' = Replicas /\ DeadlinesReach' /\ DeadlineKnown'
    BY <1>1, SameView DEF TickTimeoutVote
  <1>3. msgs \subseteq msgs' /\ msgs' \subseteq msgs \cup {m}
    BY DEF TickTimeoutVote
  <1>4. IsVoted(highest_tc[r], msgs')
    BY <1>3, ReplicaFacts, VotesStay
  <1>5. IsMessage(m) /\ CarriesVoted(m, msgs')
    BY <1>4, ReplicaFacts DEF IsMessage, CarriesVoted, TimeoutVote, IsVoted, Views
  <1>6. highest_view_entered' \in [Replicas -> Nat]
    BY <1>1, ReplicaFacts DEF TickTimeoutVote, Ticks
  <1>7. PairCollectsFrom(collectors'[r], SendersIn(msgs', view'[r]) \cup Faulty)
    BY <1>1, <1>3, ReplicaFacts, VotesStay DEF PairCollectsFrom, CollectsFrom
  <1> HIDE DEF m
  <1>8. QED
    BY <1>1, <1>2, <1>3, <1>4, <1>5, <1>6, <1>7, ReplicaFacts, ReplicaSteps

\* tick after the deadline of another view.
LEMMA TickNextViewStep ==
  ASSUME PacemakerInv, NEW r \in Replicas, TickNextView(r)
  PROVE  PacemakerInv'
  <1>1. /\ UNCHANGED <<msgs, highest_tc, highest_pc>>
        /\ UpdateView(r, view[r] + 1)
        /\ view[r] + 1 \in Nat
    <2>1. UNCHANGED <<msgs, highest_tc, highest_pc>> /\ UpdateView(r, view[r] + 1)
      BY Zenon DEF TickNextView, Ticks
    <2>2. view[r] \in Nat
      BY ReplicaFacts
    <2>3. QED
      BY <2>1, <2>2
  <1>2. /\ view' \in [Replicas -> Nat]
        /\ DOMAIN timeouts' = Replicas /\ DOMAIN error' = Replicas
        /\ DeadlinesReach' /\ DeadlineKnown'
    BY <1>1, UpdateViewKnows DEF PacemakerInv
  <1>3. /\ DOMAIN collectors' = Replicas
        /\ \A s \in Replicas \ {r} : view'[s] = view[s] /\ collectors'[s] = collectors[s]
        /\ PairCollectsFrom(collectors'[r], SendersIn(msgs', view'[r]) \cup Faulty)
    BY <1>1, UpdateViewClears
  <1>4. highest_view_entered' \in [Replicas -> Nat]
    BY <1>2, ReplicaFacts DEF TickNextView, Ticks
  <1>5. IsVoted(highest_tc'[r], msgs')
    BY <1>1, ReplicaFacts
  <1>6. QED
    BY <1>1, <1>2, <1>3, <1>4, <1>5, ReplicaFacts, ReplicaSteps

\* tick in time.
LEMMA TickInTimeStep ==
  ASSUME PacemakerInv, NEW r \in Replicas, TickInTime(r)
  PROVE  PacemakerInv'
  <1> DEFINE m == AdvanceView(r, "PC", highest_pc[r])
  <1>1. /\ UNCHANGED <<view, timeouts, error, highest_tc, highest_pc>>
        /\ collectors' = [collectors EXCEPT ![r] = update_validator_sets(@, vss(r))]
    BY DEF TickInTime, Ticks
  <1>2. DOMAIN timeouts' = Replicas /\ DeadlinesReach' /\ DeadlineKnown'
    BY <1>1, SameView
  <1>3. msgs \subseteq msgs' /\ msgs' \subseteq msgs \cup {m}
    BY DEF TickInTime
  <1>4. IsVoted(highest_tc[r], msgs')
    BY <1>3, ReplicaFacts, VotesStay
  <1>5. IsMessage(m) /\ CarriesVoted(m, msgs')
    BY ReplicaFacts DEF IsMessage, CarriesVoted, AdvanceView
  <1>6. highest_view_entered' \in [Replicas -> Nat]
    BY <1>1, ReplicaFacts DEF TickInTime, Ticks
  <1>7. PairCollectsFrom(collectors'[r], SendersIn(msgs', view'[r]) \cup Faulty)
    <2>1. PairCollectsFrom(collectors[r], SendersIn(msgs', view[r]) \cup Faulty)
      BY <1>3, ReplicaFacts, VotesStay DEF PairCollectsFrom, CollectsFrom
    <2>2. collectors'[r] = update_validator_sets(collectors[r], vss(r))
      BY <1>1, ReplicaFacts
    <2>3. QED
      BY <1>1, <2>1, <2>2, UpdatedPairCollectsFrom
  <1>8. /\ DOMAIN collectors' = Replicas
        /\ \A s \in Replicas \ {r} : collectors'[s] = collectors[s]
    BY <1>1, ReplicaFacts
  <1> HIDE DEF m
  <1>9. QED
    BY <1>1, <1>2, <1>3, <1>4, <1>5, <1>6, <1>7, <1>8, ReplicaFacts, ReplicaSteps

\* recv, when nothing comes that makes a difference to the pacemaker.
LEMMA ReceiveNothingStep ==
  ASSUME PacemakerInv, NEW r \in Replicas,
         UNCHANGED <<view, timeouts, error, collectors, highest_tc, highest_view_entered, msgs>>,
         DOMAIN highest_pc' = Replicas,
         \A s \in Replicas \ {r} : highest_pc'[s] = highest_pc[s],
         highest_pc'[r].view \in Views
  PROVE  PacemakerInv'
  <1>1. DOMAIN timeouts' = Replicas /\ DeadlinesReach' /\ DeadlineKnown'
    BY SameView
  <1>2. /\ IsVoted(highest_tc'[r], msgs')
        /\ PairCollectsFrom(collectors'[r], SendersIn(msgs', view'[r]) \cup Faulty)
    BY ReplicaFacts
  <1>3. QED
    BY <1>1, <1>2, ReplicaFacts, ReplicaSteps

\* A vote that is in the network and collected in its view is of a sender.
LEMMA SenderOfVote ==
  ASSUME NEW r, NEW m, IsVoteFor(r, m)
  PROVE  m \in msgs /\ m.type = "TimeoutVote" /\ m.from \in SendersIn(msgs, m.view)
  BY DEF IsVoteFor, SendersIn

\* A vote that completes a certificate.
LEMMA CollectStep ==
  ASSUME PacemakerInv, NEW r \in Replicas, NEW m, OnReceiveTimeoutVoteCollect(r, m)
  PROVE  PacemakerInv'
  <1> DEFINE c == collect(r, m)
             signers == SendersIn(msgs, view[r]) \cup Faulty
  <1>1. /\ PairCollectsFrom(c.pair, signers)
        /\ \A tc \in c.certs :
             tc.view = view[r] /\ Range(tc.signatures) \ {NoSignature} \subseteq signers
    <2>1. IsVoteFor(r, m)
      BY DEF OnReceiveTimeoutVoteCollect
    <2>2. m.view = view[r] => m.from \in signers
      BY <2>1, SenderOfVote
    <2>3. PairCollectsFrom(collectors[r], signers)
      BY ReplicaFacts
    <2> HIDE DEF signers
    <2>4. QED
      BY <2>2, <2>3, CollectFrom
  <1>2. PICK tc \in c.certs, advancing \in BOOLEAN :
          /\ highest_tc' = [highest_tc EXCEPT ![r] = IF newer(tc, r) THEN tc ELSE @]
          /\ msgs' = msgs \cup IF advancing THEN {AdvanceView(r, "TC", tc)} ELSE {}
    <2>1. PICK tc \in c.certs :
            /\ highest_tc' = [highest_tc EXCEPT ![r] = IF newer(tc, r) THEN tc ELSE @]
            /\ \/ msgs' = msgs \cup {AdvanceView(r, "TC", tc)}
               \/ msgs' = msgs \cup {}
      BY DEF OnReceiveTimeoutVoteCollect
    <2>2. QED
      BY <2>1
  <1>3. /\ UNCHANGED <<view, timeouts, error, highest_pc, highest_view_entered>>
        /\ collectors' = [collectors EXCEPT ![r] = c.pair]
    BY DEF OnReceiveTimeoutVoteCollect, Receives
  <1> HIDE DEF c
  <1>4. DOMAIN timeouts' = Replicas /\ DeadlinesReach' /\ DeadlineKnown'
    BY <1>3, SameView
  <1>5. msgs \subseteq msgs' /\ msgs' \subseteq msgs \cup {AdvanceView(r, "TC", tc)}
    BY <1>2
  <1>6. IsVoted(tc, msgs)
    BY <1>1, ReplicaFacts DEF IsVoted, Views
  <1>7. IsVoted(tc, msgs') /\ IsVoted(highest_tc[r], msgs')
    BY <1>5, <1>6, ReplicaFacts, VotesStay
  <1>8. LET a == AdvanceView(r, "TC", tc) IN IsMessage(a) /\ CarriesVoted(a, msgs')
    BY <1>7 DEF IsMessage, CarriesVoted, AdvanceView, IsVoted
  <1>9. /\ DOMAIN highest_tc' = Replicas
        /\ \A s \in Replicas \ {r} : highest_tc'[s] = highest_tc[s]
        /\ IsVoted(highest_tc'[r], msgs')
    BY <1>2, <1>7, ReplicaFacts
  <1>10. /\ DOMAIN collectors' = Replicas
         /\ \A s \in Replicas \ {r} : collectors'[s] = collectors[s]
         /\ collectors'[r] = c.pair
    BY <1>3, ReplicaFacts
  <1>11. PairCollectsFrom(collectors'[r], SendersIn(msgs', view'[r]) \cup Faulty)
    BY <1>1, <1>3, <1>5, <1>10, VotesStay DEF PairCollectsFrom, CollectsFrom
  <1>12. QED
    BY <1>3, <1>4, <1>5, <1>8, <1>9, <1>10, <1>11, ReplicaFacts, ReplicaSteps

\* A vote that does not, with a newer certificate.
LEMMA FallbackStep ==
  ASSUME PacemakerInv, NEW r \in Replicas, NEW m, OnReceiveTimeoutVoteFallback(r, m)
  PROVE  PacemakerInv'
  <1>1. /\ IsVoteFor(r, m)
        /\ newer(m.highest_tc, r)
        /\ highest_tc' = [highest_tc EXCEPT ![r] = m.highest_tc]
        /\ UpdateView(r, m.highest_tc.view + 1)
        /\ UNCHANGED <<highest_pc, highest_view_entered, msgs>>
    BY Zenon DEF OnReceiveTimeoutVoteFallback, Receives
  <1>2. IsVoted(m.highest_tc, msgs)
    BY <1>1, SenderOfVote, ReplicaFacts DEF CarriesVoted
  <1>3. m.highest_tc.view + 1 \in Nat
    <2>1. m.highest_tc.view \in Views
      BY <1>2 DEF IsVoted
    <2>2. QED
      BY <2>1 DEF Views, None
  <1>4. /\ view' \in [Replicas -> Nat]
        /\ DOMAIN timeouts' = Replicas /\ DOMAIN error' = Replicas
        /\ DeadlinesReach' /\ DeadlineKnown'
    BY <1>1, <1>3, UpdateViewKnows DEF PacemakerInv
  <1>5. /\ DOMAIN collectors' = Replicas
        /\ \A s \in Replicas \ {r} : view'[s] = view[s] /\ collectors'[s] = collectors[s]
        /\ PairCollectsFrom(collectors'[r], SendersIn(msgs', view'[r]) \cup Faulty)
    BY <1>1, <1>3, UpdateViewClears
  <1>6. /\ DOMAIN highest_tc' = Replicas
        /\ \A s \in Replicas \ {r} : highest_tc'[s] = highest_tc[s]
        /\ IsVoted(highest_tc'[r], msgs')
    BY <1>1, <1>2, ReplicaFacts
  <1>7. QED
    BY <1>1, <1>4, <1>5, <1>6, ReplicaFacts, ReplicaSteps

\* A vote that is only collected.
LEMMA VoteOnlyStep ==
  ASSUME PacemakerInv, NEW r \in Replicas, NEW m, OnReceiveTimeoutVoteOnly(r, m)
  PROVE  PacemakerInv'
  <1> DEFINE c == collect(r, m)
             signers == SendersIn(msgs, view[r]) \cup Faulty
  <1>1. PairCollectsFrom(c.pair, signers)
    <2>1. IsVoteFor(r, m)
      BY DEF OnReceiveTimeoutVoteOnly
    <2>2. m.view = view[r] => m.from \in signers
      BY <2>1, SenderOfVote
    <2>3. PairCollectsFrom(collectors[r], signers)
      BY ReplicaFacts
    <2> HIDE DEF signers
    <2>4. QED
      BY <2>2, <2>3, CollectFrom
  <1>2. /\ UNCHANGED <<view, timeouts, error, highest_tc, highest_pc, highest_view_entered, msgs>>
        /\ collectors' = [collectors EXCEPT ![r] = c.pair]
    BY DEF OnReceiveTimeoutVoteOnly, Receives
  <1> HIDE DEF c
  <1>3. DOMAIN timeouts' = Replicas /\ DeadlinesReach' /\ DeadlineKnown'
    BY <1>2, SameView
  <1>4. /\ DOMAIN collectors' = Replicas
        /\ \A s \in Replicas \ {r} : collectors'[s] = collectors[s]
        /\ PairCollectsFrom(collectors'[r], SendersIn(msgs', view'[r]) \cup Faulty)
    BY <1>1, <1>2, ReplicaFacts
  <1>5. IsVoted(highest_tc'[r], msgs')
    BY <1>2, ReplicaFacts
  <1>6. QED
    BY <1>2, <1>3, <1>4, <1>5, ReplicaFacts, ReplicaSteps

\* on_receive_advance_view.
LEMMA AdvanceViewStep ==
  ASSUME PacemakerInv, NEW r \in Replicas, NEW m, OnReceiveAdvanceView(r, m)
  PROVE  PacemakerInv'
  <1> DEFINE sent == [m EXCEPT !.from = r]
  <1>1. /\ m \in msgs /\ m.type = "AdvanceView" /\ m.view >= view[r]
        /\ \/ highest_tc' = [highest_tc EXCEPT ![r] = m.cert] /\ m.kind = "TC"
           \/ highest_tc' = [highest_tc EXCEPT ![r] = @]
        /\ msgs' = msgs \cup {sent} \/ msgs' = msgs \cup {}
        /\ UNCHANGED <<highest_pc, highest_view_entered>>
    <2> DEFINE advancing == is_validator(r, vss(r)) /\ MayAdvance(r)
               learning  == m.kind = "TC" /\ newer(m.cert, r)
    <2>1. /\ m \in msgs /\ m.type = "AdvanceView" /\ m.view >= view[r]
          /\ highest_tc' = [highest_tc EXCEPT ![r] = IF learning THEN m.cert ELSE @]
          /\ msgs' = msgs \cup IF advancing THEN {sent} ELSE {}
          /\ UNCHANGED <<highest_pc, highest_view_entered>>
      BY Zenon DEF OnReceiveAdvanceView, Receives
    <2>2. QED
      BY <2>1
  <1>2. UpdateView(r, m.view + 1)
    BY Zenon DEF OnReceiveAdvanceView
  <1>3. m = AdvanceView(m.from, m.kind, m.cert) /\ m.view = m.cert.view /\ m.view \in Views
    <2>1. IsMessage(m) /\ m.type = "AdvanceView"
      BY <1>1, ReplicaFacts
    <2>2. m # TimeoutVote(m.from, m.view, m.highest_tc)
      BY <2>1 DEF TimeoutVote
    <2>3. QED
      BY <2>1, <2>2 DEF IsMessage
  <1>4. sent = AdvanceView(r, m.kind, m.cert)
    BY <1>3 DEF AdvanceView
  <1> HIDE DEF sent
  <1>5. m.view + 1 \in Nat
    BY <1>3 DEF Views, None
  <1>6. msgs \subseteq msgs' /\ msgs' \subseteq msgs \cup {sent}
    BY <1>1
  <1>7. m.kind = "TC" => IsVoted(m.cert, msgs')
    BY <1>1, <1>6, ReplicaFacts, VotesStay DEF CarriesVoted
  <1>8. IsMessage(sent) /\ CarriesVoted(sent, msgs')
    BY <1>3, <1>4, <1>7 DEF IsMessage, CarriesVoted, AdvanceView
  <1>9. /\ view' \in [Replicas -> Nat]
        /\ DOMAIN timeouts' = Replicas /\ DOMAIN error' = Replicas
        /\ DeadlinesReach' /\ DeadlineKnown'
    BY <1>2, <1>5, UpdateViewKnows DEF PacemakerInv
  <1>10. /\ DOMAIN collectors' = Replicas
         /\ \A s \in Replicas \ {r} : view'[s] = view[s] /\ collectors'[s] = collectors[s]
         /\ PairCollectsFrom(collectors'[r], SendersIn(msgs', view'[r]) \cup Faulty)
    BY <1>2, <1>5, <1>6, UpdateViewClears
  <1>11. IsVoted(highest_tc[r], msgs')
    BY <1>6, ReplicaFacts, VotesStay
  <1>12. /\ DOMAIN highest_tc' = Replicas
         /\ \A s \in Replicas \ {r} : highest_tc'[s] = highest_tc[s]
         /\ IsVoted(highest_tc'[r], msgs')
    BY <1>1, <1>7, <1>11, ReplicaFacts
  <1>13. QED
    BY <1>1, <1>6, <1>8, <1>9, <1>10, <1>12, ReplicaFacts, ReplicaSteps

\* A message to HotStuff.
LEMMA HotStuffStep ==
  ASSUME PacemakerInv, NEW r \in Replicas,
         ReceiveNothing(r) \/ HotStuffCertifies(r) \/ HotStuffUpdates(r)
  PROVE  PacemakerInv'
  <1>1. UNCHANGED <<view, timeouts, error, collectors, highest_tc, highest_view_entered, msgs>>
    BY DEF ReceiveNothing, HotStuffCertifies, HotStuffUpdates, Receives, pacemaker
  <1>2. \/ UNCHANGED highest_pc
        \/ \E vs : highest_pc' = [highest_pc EXCEPT ![r] = [view |-> view[r], vs |-> vs]]
    BY DEF ReceiveNothing, HotStuffCertifies, HotStuffUpdates
  <1>3. /\ DOMAIN highest_pc' = Replicas
        /\ \A s \in Replicas \ {r} : highest_pc'[s] = highest_pc[s]
        /\ highest_pc'[r].view \in Views
    <2>1. DOMAIN highest_pc = Replicas /\ highest_pc[r].view \in Views /\ view[r] \in Views
      BY ReplicaFacts DEF Views
    <2>2. CASE UNCHANGED highest_pc
      BY <2>1, <2>2
    <2>3. CASE \E vs : highest_pc' = [highest_pc EXCEPT ![r] = [view |-> view[r], vs |-> vs]]
      BY <2>1, <2>3
    <2>4. QED
      BY <1>2, <2>2, <2>3
  <1>4. QED
    BY <1>1, <1>3, ReceiveNothingStep

\* A restart: Algorithm::new.
LEMMA RestartStep ==
  ASSUME PacemakerInv, NEW r \in Replicas, Restart(r)
  PROVE  PacemakerInv'
  <1> DEFINE v == init_view(r)
  <1>1. /\ view' = [view EXCEPT ![r] = v]
        /\ timeouts' = [timeouts EXCEPT ![r] = initial_timeouts(v)]
        /\ collectors' = [collectors EXCEPT ![r] = new_collectors(r)]
        /\ error' = [error EXCEPT ![r] = IF v \in timeouts'[r] THEN NoError ELSE "GetViewTimeoutError"]
        /\ UNCHANGED <<highest_tc, highest_pc, highest_view_entered, msgs>>
    BY DEF Restart
  <1>2. v \in Nat
    BY InitViewType DEF PacemakerInv, DeadlineInv
  <1> HIDE DEF v
  <1>3. timeouts'[r] = v .. epoch(v) * EpochLength /\ DOMAIN timeouts' = Replicas
    BY <1>1, ReplicaFacts DEF initial_timeouts
  <1>4. v \in timeouts'[r]
    BY <1>2, <1>3, EpochCovers
  <1>5. DOMAIN error' = Replicas /\ DeadlineKnown'
    BY <1>1, <1>4, ReplicaFacts DEF DeadlineKnown, NoError
  <1>6. /\ view' \in [Replicas -> Nat] /\ view'[r] = v
        /\ \A s \in Replicas \ {r} : view'[s] = view[s] /\ timeouts'[s] = timeouts[s]
    BY <1>1, <1>2, ReplicaFacts
  <1>7. DeadlinesReach'
    BY <1>3, <1>6, ReplicaFacts DEF DeadlinesReach, epoch
  <1>8. /\ DOMAIN collectors' = Replicas
        /\ \A s \in Replicas \ {r} : collectors'[s] = collectors[s]
        /\ collectors'[r] = new_collectors(r)
    BY <1>1, ReplicaFacts
  <1>9. PairCollectsFrom(collectors'[r], SendersIn(msgs', view'[r]) \cup Faulty)
    BY <1>8, NewPairCollectsFrom DEF new_collectors
  <1>10. IsVoted(highest_tc'[r], msgs')
    BY <1>1, ReplicaFacts
  <1>11. QED
    BY <1>1, <1>3, <1>5, <1>6, <1>7, <1>8, <1>9, <1>10, ReplicaFacts, ReplicaSteps

\* Whatever a faulty replica sends, nobody else's signature is in it that has
\* not been sent.
LEMMA ForgeStep ==
  ASSUME PacemakerInv, NEW r \in Replicas, Forge(r)
  PROVE  PacemakerInv'
  <1>1. UNCHANGED <<view, timeouts, error, collectors, highest_tc, highest_pc, highest_view_entered>>
    BY DEF Forge, pacemaker
  <1>2. PICK v \in ForgedViews :
          \/ \E s \in Replicas : msgs' = msgs \cup {TimeoutVote(r, v, highest_tc[s])}
          \/ \E vs \in ValidatorSetsOfHistory :
               msgs' = msgs \cup {AdvanceView(r, "TC", [view |-> v, signatures |-> signature_set(vs, Faulty)])}
    BY DEF Forge
  <1>3. v \in Views
    BY PacemakerAssumption DEF Views
  <1>4. msgs \subseteq msgs'
    BY <1>2
  <1>5. \A m \in msgs' \ msgs : IsMessage(m) /\ CarriesVoted(m, msgs')
    <2>1. CASE \E s \in Replicas : msgs' = msgs \cup {TimeoutVote(r, v, highest_tc[s])}
      <3>1. PICK s \in Replicas : msgs' = msgs \cup {TimeoutVote(r, v, highest_tc[s])}
        BY <2>1
      <3>2. IsVoted(highest_tc[s], msgs')
        BY <1>4, ReplicaFacts, VotesStay
      <3>3. LET m == TimeoutVote(r, v, highest_tc[s]) IN IsMessage(m) /\ CarriesVoted(m, msgs')
        BY <1>3, <3>2 DEF IsMessage, CarriesVoted, TimeoutVote, IsVoted
      <3>4. QED
        BY <3>1, <3>3
    <2>2. CASE \E vs \in ValidatorSetsOfHistory :
                 msgs' = msgs \cup {AdvanceView(r, "TC", [view |-> v, signatures |-> signature_set(vs, Faulty)])}
      <3>1. PICK vs \in ValidatorSetsOfHistory :
              msgs' = msgs \cup {AdvanceView(r, "TC", [view |-> v, signatures |-> signature_set(vs, Faulty)])}
        BY <2>2
      <3> DEFINE tc == [view |-> v, signatures |-> signature_set(vs, Faulty)]
      <3>2. IsVoted(tc, msgs') /\ tc.view = v
        BY <1>3, SignaturesOfSigners DEF IsVoted
      <3> HIDE DEF tc
      <3>3. IsMessage(AdvanceView(r, "TC", tc)) /\ CarriesVoted(AdvanceView(r, "TC", tc), msgs')
        BY <1>3, <3>2 DEF IsMessage, CarriesVoted, AdvanceView
      <3>4. QED
        BY <3>1, <3>3 DEF tc
    <2>3. QED
      BY <1>2, <2>1, <2>2
  <1>6. DOMAIN timeouts' = Replicas /\ DeadlinesReach' /\ DeadlineKnown'
    BY <1>1, SameView
  <1>7. IsVoted(highest_tc'[r], msgs')
    BY <1>1, <1>4, ReplicaFacts, VotesStay
  <1>8. PairCollectsFrom(collectors'[r], SendersIn(msgs', view'[r]) \cup Faulty)
    BY <1>1, <1>4, ReplicaFacts, VotesStay DEF PairCollectsFrom, CollectsFrom
  <1>9. QED
    BY <1>1, <1>4, <1>5, <1>6, <1>7, <1>8, ReplicaFacts, ReplicaSteps

-----------------------------------------------------------------------------
(* The theorems.                                                           *)

\* Replicas start with deadlines for the first epoch and no certificates.
LEMMA Starts == Init => PacemakerInv
  <1> SUFFICES ASSUME Init PROVE PacemakerInv
    OBVIOUS
  <1>1. ViewsOK
    BY DEF Init, ViewsOK, Views, NoTC, NoPC
  <1>2. DeadlinesReach
    BY DEF Init, DeadlinesReach, initial_timeouts
  <1>3. DeadlineKnown
    BY DEF Init, DeadlineKnown, NoError
  <1>4. CollectorsHoldVotes
    BY NewPairCollectsFrom DEF Init, CollectorsHoldVotes
  <1>5. \A r \in Replicas : IsVoted(highest_tc[r], msgs)
    BY DEF Init, IsVoted, NoTC, Views, Range
  <1>6. TimeoutCertificatesAreVotedFor
    BY <1>1, <1>5, KnownCertificates DEF Init
  <1>7. QED
    BY <1>1, <1>2, <1>3, <1>4, <1>6 DEF PacemakerInv, DeadlineInv, VotedInv

\* In every behaviour of the replicas (Pacemaker::tick, on_receive_msg,
\* update_view and restarts) the inductive invariant holds.
THEOREM PacemakerIsConsistent == Spec => []PacemakerInv
  <1>1. ASSUME PacemakerInv, [Next]_vars
        PROVE  PacemakerInv'
    <2>1. ASSUME NEW r \in Replicas \ Faulty, Tick(r)
          PROVE  PacemakerInv'
      BY <1>1, <2>1, TickTimeoutVoteStep, TickNextViewStep, TickInTimeStep DEF Tick
    <2>2. ASSUME NEW r \in Replicas \ Faulty, Receive(r)
          PROVE  PacemakerInv'
      BY <1>1, <2>2, HotStuffStep, CollectStep, FallbackStep, VoteOnlyStep, AdvanceViewStep
         DEF Receive, Handle, OnReceiveTimeoutVote
    <2>3. ASSUME NEW r \in Replicas \ Faulty, Restart(r)
          PROVE  PacemakerInv'
      BY <1>1, <2>3, RestartStep
    <2>4. ASSUME NEW r \in Faulty, Forge(r)
          PROVE  PacemakerInv'
      <3>1. r \in Replicas
        BY PacemakerAssumption
      <3>2. QED
        BY <1>1, <2>4, <3>1, ForgeStep
    <2>5. CASE UNCHANGED vars
      BY <1>1, <2>5 DEF vars, pacemaker, PacemakerInv, DeadlineInv, VotedInv, ViewsOK, DeadlinesReach, epoch,
                  DeadlineKnown, CollectorsHoldVotes, TimeoutCertificatesAreVotedFor, KnownTCs, Senders,
                  SendersIn, IsMessage, TimeoutVote, AdvanceView, PairCollectsFrom, CollectsFrom
    <2>6. QED
      BY <1>1, <2>1, <2>2, <2>3, <2>4, <2>5 DEF Next
  <1>2. QED
    BY Starts, <1>1, PTL DEF Spec

\* update_view and Pacemaker::new never find a view without a deadline: no
\* GetViewTimeoutError, whatever the epochs, the views skipped and restarts.
THEOREM DeadlinesAreKnown == Spec => []DeadlineKnown
  <1>1. PacemakerInv => DeadlineKnown
    BY DEF PacemakerInv, DeadlineInv
  <1>2. QED
    BY <1>1, PacemakerIsConsistent, PTL

\* Whoever's signature is in a TimeoutCertificate that is held or sent is
\* faulty or has voted to leave its view (TimeoutVoteCollector::collect and the
\* collectors that update_view makes).
THEOREM CertificatesOfTimeouts == Spec => []TimeoutCertificatesAreVotedFor
  <1>1. PacemakerInv => TimeoutCertificatesAreVotedFor
    BY DEF PacemakerInv, VotedInv
  <1>2. QED
    BY <1>1, PacemakerIsConsistent, PTL

-----------------------------------------------------------------------------
(* Types.                                                                  *)

\* A message comes from a replica, and carries certificates.
IsTyped(m) ==
  /\ m.from \in Replicas
  /\ m.type = "TimeoutVote" => m.highest_tc \in TimeoutCertificates
  /\ m.type = "AdvanceView" => /\ m.kind \in {"PC", "TC"}
                               /\ m.kind = "TC" => m.cert \in TimeoutCertificates

TypeInv == TypeOK /\ \A m \in msgs : IsTyped(m)

\* The replicas that may have voted in a view, by the views they entered and
\* started in.
VotersIn(entered, from, v) == {s \in Replicas : entered[s] >= v \/ from[s] >= v} \cup Faulty

\* A quorum may have signed a phase certificate.
IsReached(pc, entered, from) ==
  /\ pc.view \in Nat \ {0}
  /\ pc.vs \in ValidatorSetsOfHistory
  /\ power_of(pc.vs, VotersIn(entered, from, pc.view)) >= quorum(pc.vs)

\* A quorum is behind whoever leaves an epoch-change view.
IsLeft(e, sent, entered, from) ==
  \E vs \in ValidatorSetsOfHistory, v \in e .. MaxView :
    \/ power_of(vs, SendersIn(sent, v) \cup Faulty) >= quorum(vs)
    \/ v > 0 /\ power_of(vs, VotersIn(entered, from, v)) >= quorum(vs)

\* A replica is not below the view that it entered last or started in, and a
\* restart would not take it below that.
ViewsReached ==
  \A r \in Replicas :
    /\ highest_view_entered[r] <= view[r]
    /\ started[r] <= view[r]
    /\ started[r] <= init_view(r)

\* Phase certificates are of views that a quorum has reached.
CertificatesAreReached ==
  /\ \A r \in Replicas :
       highest_pc[r] = NoPC \/ IsReached(highest_pc[r], highest_view_entered, started)
  /\ \A m \in msgs :
       m.type = "AdvanceView" /\ m.kind = "PC" => IsReached(m.cert, highest_view_entered, started)

EpochInv == ViewsReached /\ CertificatesAreReached /\ EpochsLeftByQuorum

\* The collectors of a pair are of validator sets and hold votes of theirs.
IsPair(pair) == IsCollector(pair.cvs) /\ \A col \in pair.pvs : IsCollector(col)

\* What TypeInv says of one replica.
LEMMA TypeFacts ==
  ASSUME TypeInv, NEW r \in Replicas
  PROVE  /\ view \in [Replicas -> 0 .. MaxView] /\ view[r] \in 0 .. MaxView
         /\ timeouts \in [Replicas -> SUBSET Nat]
         /\ IsPair(collectors[r])
         /\ last_advance_view \in [Replicas -> Nat \cup {None}]
         /\ highest_tc \in [Replicas -> TimeoutCertificates]
         /\ highest_view_entered \in [Replicas -> 0 .. MaxView]
         /\ started \in [Replicas -> 0 .. MaxView]
         /\ update \in [Replicas -> DOMAIN History]
         /\ MaxView \in Nat
         /\ DOMAIN collectors = Replicas => \A s \in Replicas : IsPair(collectors[s])
  BY PacemakerAssumption DEF TypeInv, TypeOK, IsPair

\* The validator sets of a replica are of the history.
LEMMA StateTypes ==
  ASSUME TypeInv, NEW r \in Replicas
  PROVE  /\ vss(r).cvs \in ValidatorSetsOfHistory /\ vss(r).pvs \in ValidatorSetsOfHistory
         /\ \A vs \in ValidatorSetsOfHistory : DOMAIN vs \subseteq Replicas
  BY PacemakerAssumption DEF TypeInv, TypeOK, vss, ValidatorSetsOfHistory

\* New and updated collectors.
LEMMA NewPairTypes ==
  ASSUME TypeInv, NEW r \in Replicas
  PROVE  /\ IsPair(new_pair(vss(r)))
         /\ \A pair : IsPair(pair) => IsPair(update_validator_sets(pair, vss(r)))
  <1>1. \A vs \in ValidatorSetsOfHistory : IsCollector(new_collector(vs))
    BY DEF IsCollector, new_collector
  <1>2. vss(r).cvs \in ValidatorSetsOfHistory /\ vss(r).pvs \in ValidatorSetsOfHistory
    BY StateTypes
  <1>3. IsPair(new_pair(vss(r)))
    BY <1>1, <1>2 DEF IsPair, new_pair
  <1>4. ASSUME NEW pair, IsPair(pair)
        PROVE  IsPair(update_validator_sets(pair, vss(r)))
    BY <1>1, <1>2, <1>4 DEF IsPair, update_validator_sets
  <1>5. QED
    BY <1>3, <1>4

\* A vector of signatures of replicas.
LEMMA SignatureTypes ==
  ASSUME NEW vs \in ValidatorSetsOfHistory, NEW signers \in SUBSET Replicas, NEW v \in Nat
  PROVE  [view |-> v, signatures |-> signature_set(vs, signers)] \in TimeoutCertificates
  <1> DEFINE n == Cardinality(DOMAIN vs)
             order == validators(vs)
             sigs == signature_set(vs, signers)
             S == Replicas \cup {NoSignature}
  <1>1. DOMAIN vs \subseteq Replicas
    BY PacemakerAssumption DEF ValidatorSetsOfHistory
  <1>2. n \in Nat
    BY <1>1, PacemakerAssumption, FS_Subset, FS_CardinalityType
  <1>3. Len(order) = n
    BY <1>2 DEF validators
  <1> HIDE DEF order, n
  <1>4. sigs = [i \in 1 .. n |-> IF order[i] \in signers THEN order[i] ELSE NoSignature]
    BY <1>3 DEF signature_set, order
  <1>5. sigs \in [1 .. n -> S]
    BY <1>4
  <1>6. sigs \in Seq(S)
    BY <1>2, <1>5
  <1> HIDE DEF sigs
  <1>7. QED
    BY <1>6 DEF TimeoutCertificates, sigs

\* Collecting a vote.
LEMMA CollectTypes ==
  ASSUME NEW signers, NEW col, CollectsFrom(col, signers), IsCollector(col), NEW m, NEW v \in Nat
  PROVE  /\ IsCollector(collect_timeout(col, m, v).col)
         /\ collect_timeout(col, m, v).certs \subseteq TimeoutCertificates
  <1> DEFINE all == col.votes \cup {m.from}
             added == [col EXCEPT !.votes = all]
             tc == [view |-> v, signatures |-> signature_set(col.vs, all)]
             c == collect_timeout(col, m, v)
  <1>1. c = [col |-> col, certs |-> {}] \/ (m.from \in DOMAIN col.vs /\ c.col = added /\ c.certs \subseteq {tc})
    BY DEF collect_timeout
  <1>2. CASE c = [col |-> col, certs |-> {}]
    BY <1>2
  <1>3. CASE m.from \in DOMAIN col.vs /\ c.col = added /\ c.certs \subseteq {tc}
    <2>1. all \subseteq DOMAIN col.vs /\ col.vs \in ValidatorSetsOfHistory
      BY <1>3 DEF IsCollector
    <2>2. all \subseteq Replicas
      BY <2>1, PacemakerAssumption DEF ValidatorSetsOfHistory
    <2>3. added.vs = col.vs /\ added.votes = all
      BY DEF CollectsFrom
    <2>4. IsCollector(added)
      BY <2>1, <2>3 DEF IsCollector
    <2>5. tc \in TimeoutCertificates
      BY <2>1, <2>2, SignatureTypes
    <2> HIDE DEF c, added, tc
    <2>6. QED
      BY <1>3, <2>4, <2>5 DEF c
  <1>4. QED
    BY <1>1, <1>2, <1>3

\* The same for a pair.
LEMMA CollectInTypes ==
  ASSUME PacemakerInv, TypeInv, NEW r \in Replicas, NEW m
  PROVE  IsPair(collect(r, m).pair) /\ collect(r, m).certs \subseteq TimeoutCertificates
  <1> DEFINE pair == collectors[r]
             c == collect_timeout(pair.cvs, m, view[r])
             col == CHOOSE x \in pair.pvs : TRUE
             p == collect_timeout(col, m, view[r])
  <1>1. PICK signers : PairCollectsFrom(pair, signers)
    BY ReplicaFacts
  <1>2. IsPair(pair) /\ view[r] \in Nat
    BY TypeFacts
  <1>3. IsCollector(c.col) /\ c.certs \subseteq TimeoutCertificates
    BY <1>1, <1>2, CollectTypes DEF IsPair, PairCollectsFrom
  <1>4. CASE c.certs # {} \/ pair.pvs = {}
    <2>1. collect(r, m) = [pair |-> [pair EXCEPT !.cvs = c.col], certs |-> c.certs]
      BY <1>4 DEF collect, collect_in
    <2> HIDE DEF c
    <2>2. QED
      BY <1>1, <1>2, <1>3, <2>1 DEF IsPair, PairCollectsFrom
  <1>5. CASE ~(c.certs # {} \/ pair.pvs = {})
    <2>1. collect(r, m) = [pair |-> [cvs |-> c.col, pvs |-> {p.col}], certs |-> p.certs]
      BY <1>5 DEF collect, collect_in
    <2>2. col \in pair.pvs
      BY <1>5
    <2>3. IsCollector(p.col) /\ p.certs \subseteq TimeoutCertificates
      BY <1>1, <1>2, <2>2, CollectTypes DEF IsPair, PairCollectsFrom
    <2> HIDE DEF c, p
    <2>4. QED
      BY <1>3, <2>1, <2>3 DEF IsPair
  <1>6. QED
    BY <1>4, <1>5

\* update_view.
LEMMA UpdateViewTypes ==
  ASSUME PacemakerInv, TypeInv, NEW r \in Replicas, NEW next \in 0 .. MaxView, UpdateView(r, next)
  PROVE  /\ view' \in [Replicas -> 0 .. MaxView]
         /\ timeouts' \in [Replicas -> SUBSET Nat]
         /\ error' \in [Replicas -> {NoError, "NonIncreasingViewError", "GetViewTimeoutError"}]
         /\ \A s \in Replicas : IsPair(collectors'[s])
  <1> DEFINE increasing == next > view[r]
             known == IF epoch(view[r]) = epoch(next) THEN timeouts[r] ELSE update_timeouts(r, next)
             entering == increasing /\ next \in known
             outcome == CASE ~increasing -> "NonIncreasingViewError"
                          [] increasing /\ ~entering -> "GetViewTimeoutError"
                          [] entering -> NoError
  <1>1. /\ error' = [error EXCEPT ![r] = outcome]
        /\ timeouts' = [timeouts EXCEPT ![r] = IF increasing THEN known ELSE @]
        /\ view' = [view EXCEPT ![r] = IF entering THEN next ELSE @]
        /\ collectors' = [collectors EXCEPT ![r] = IF entering THEN new_collectors(r) ELSE @]
    BY DEF UpdateView
  <1>2. next \in Nat /\ view[r] \in Nat
    BY TypeFacts
  <1>3. outcome \in {NoError, "NonIncreasingViewError", "GetViewTimeoutError"}
    OBVIOUS
  <1>4. known \subseteq Nat
    <2>1. epoch(next) * EpochLength \in Nat
      BY <1>2, EpochCovers
    <2>2. timeouts[r] \subseteq Nat
      BY TypeFacts
    <2>3. QED
      BY <1>2, <2>1, <2>2 DEF update_timeouts
  <1>5. DOMAIN collectors = Replicas /\ (\A s \in Replicas : IsPair(collectors[s])) /\ IsPair(new_collectors(r))
    BY ReplicaFacts, TypeFacts, NewPairTypes DEF new_collectors
  <1> HIDE DEF outcome, known, entering
  <1>6. view' \in [Replicas -> 0 .. MaxView]
    BY <1>1, TypeFacts
  <1>7. timeouts' \in [Replicas -> SUBSET Nat]
    BY <1>1, <1>4, TypeFacts
  <1>8. error' \in [Replicas -> {NoError, "NonIncreasingViewError", "GetViewTimeoutError"}]
    BY <1>1, <1>3 DEF TypeInv, TypeOK
  <1>9. \A s \in Replicas : IsPair(collectors'[s])
    BY <1>1, <1>5
  <1>10. QED
    BY <1>6, <1>7, <1>8, <1>9

\* The main loop's part of a step.
LEMMA LoopTypes ==
  ASSUME TypeInv, NEW r \in Replicas, Ticks(r) \/ Receives(r), view' \in [Replicas -> 0 .. MaxView]
  PROVE  /\ ticked' \in [Replicas -> BOOLEAN]
         /\ highest_view_entered' \in [Replicas -> 0 .. MaxView]
         /\ started' = started /\ restarts' = restarts
         /\ Ticks(r) => UNCHANGED <<highest_tc, highest_pc, update>>
  BY DEF TypeInv, TypeOK, Ticks, Receives, life

\* A tick or a message keeps TypeInv if what it changes has its type.
LEMMA TypeSteps ==
  ASSUME TypeInv, NEW r \in Replicas, Ticks(r) \/ Receives(r),
         view' \in [Replicas -> 0 .. MaxView],
         timeouts' \in [Replicas -> SUBSET Nat],
         error' \in [Replicas -> {NoError, "NonIncreasingViewError", "GetViewTimeoutError"}],
         \A s \in Replicas : IsPair(collectors'[s]),
         last_advance_view' \in [Replicas -> Nat \cup {None}],
         Receives(r) => /\ highest_tc' \in [Replicas -> TimeoutCertificates]
                        /\ highest_pc' \in [Replicas -> {NoPC} \cup [view : Nat, vs : ValidatorSetsOfHistory]]
                        /\ update' \in [Replicas -> DOMAIN History],
         \A m \in msgs' \ msgs : IsTyped(m)
  PROVE  TypeInv'
  <1>1. /\ ticked' \in [Replicas -> BOOLEAN]
        /\ highest_view_entered' \in [Replicas -> 0 .. MaxView]
        /\ started' = started /\ restarts' = restarts
        /\ Ticks(r) => UNCHANGED <<highest_tc, highest_pc, update>>
    BY LoopTypes
  <1>2. /\ highest_tc' \in [Replicas -> TimeoutCertificates]
        /\ highest_pc' \in [Replicas -> {NoPC} \cup [view : Nat, vs : ValidatorSetsOfHistory]]
        /\ update' \in [Replicas -> DOMAIN History]
    <2>1. CASE Receives(r)
      BY <2>1
    <2>2. CASE Ticks(r)
      BY <1>1, <2>2 DEF TypeInv, TypeOK
    <2>3. QED
      BY <2>1, <2>2
  <1>3. \A m \in msgs' : IsTyped(m)
    BY DEF TypeInv
  <1>4. TypeOK'
    BY <1>1, <1>2 DEF TypeInv, TypeOK, IsPair, IsCollector
  <1>5. QED
    BY <1>3, <1>4 DEF TypeInv, IsTyped

\* What the variables are that a step leaves alone.
LEMMA KeptTypes ==
  ASSUME TypeInv
  PROVE  /\ view \in [Replicas -> 0 .. MaxView]
         /\ timeouts \in [Replicas -> SUBSET Nat]
         /\ error \in [Replicas -> {NoError, "NonIncreasingViewError", "GetViewTimeoutError"}]
         /\ \A s \in Replicas : IsPair(collectors[s])
         /\ last_advance_view \in [Replicas -> Nat \cup {None}]
         /\ highest_tc \in [Replicas -> TimeoutCertificates]
         /\ highest_pc \in [Replicas -> {NoPC} \cup [view : Nat, vs : ValidatorSetsOfHistory]]
         /\ update \in [Replicas -> DOMAIN History]
  BY DEF TypeInv, TypeOK, IsPair

\* Ticks.
LEMMA TickTypes ==
  ASSUME PacemakerInv, TypeInv, NEW r \in Replicas, Tick(r)
  PROVE  TypeInv'
  <1>1. view[r] \in Nat /\ view[r] <= MaxView /\ MaxView \in Nat /\ DOMAIN collectors = Replicas
    <2>1. view[r] \in 0 .. MaxView /\ MaxView \in Nat
      BY TypeFacts
    <2>2. DOMAIN collectors = Replicas
      BY ReplicaFacts
    <2>3. QED
      BY <2>1, <2>2
  <1>2. CASE TickTimeoutVote(r)
    <2>1. /\ UNCHANGED <<view, collectors, last_advance_view, error>> /\ Ticks(r)
          /\ timeouts' = [timeouts EXCEPT ![r] = extend_view(r)]
          /\ \A m \in msgs' \ msgs : m = TimeoutVote(r, view[r], highest_tc[r])
      BY <1>2 DEF TickTimeoutVote
    <2>2. timeouts' \in [Replicas -> SUBSET Nat]
      BY <1>1, <2>1, KeptTypes DEF extend_view
    <2>3. IsTyped(TimeoutVote(r, view[r], highest_tc[r]))
      BY KeptTypes DEF IsTyped, TimeoutVote
    <2>4. /\ view' \in [Replicas -> 0 .. MaxView]
          /\ error' \in [Replicas -> {NoError, "NonIncreasingViewError", "GetViewTimeoutError"}]
          /\ \A s \in Replicas : IsPair(collectors'[s])
          /\ last_advance_view' \in [Replicas -> Nat \cup {None}]
      BY <2>1, KeptTypes
    <2>5. ~Receives(r)
      BY <2>1 DEF Ticks, Receives
    <2>6. QED
      BY <2>1, <2>2, <2>3, <2>4, <2>5, TypeSteps
  <1>3. CASE TickNextView(r)
    <2>1. view[r] + 1 \in 0 .. MaxView /\ UpdateView(r, view[r] + 1) /\ Ticks(r)
          /\ UNCHANGED <<last_advance_view, msgs>>
      BY <1>1, <1>3 DEF TickNextView
    <2>2. /\ view' \in [Replicas -> 0 .. MaxView]
          /\ timeouts' \in [Replicas -> SUBSET Nat]
          /\ error' \in [Replicas -> {NoError, "NonIncreasingViewError", "GetViewTimeoutError"}]
          /\ \A s \in Replicas : IsPair(collectors'[s])
      BY <2>1, UpdateViewTypes
    <2>3. last_advance_view' \in [Replicas -> Nat \cup {None}]
      BY <2>1, KeptTypes
    <2>4. ~Receives(r)
      BY <2>1 DEF Ticks, Receives
    <2>5. QED
      BY <2>1, <2>2, <2>3, <2>4, TypeSteps
  <1>4. CASE TickInTime(r)
    <2>1. /\ UNCHANGED <<view, timeouts, error>> /\ Ticks(r)
          /\ collectors' = [collectors EXCEPT ![r] = update_validator_sets(@, vss(r))]
          /\ \A m \in msgs' \ msgs : m = AdvanceView(r, "PC", highest_pc[r])
          /\ \/ UNCHANGED last_advance_view
             \/ last_advance_view' = [last_advance_view EXCEPT ![r] = view[r]]
      <3>1. [last_advance_view EXCEPT ![r] = last_advance_view[r]] = last_advance_view
        BY KeptTypes
      <3>2. QED
        BY <1>4, <3>1 DEF TickInTime
    <2>2. last_advance_view' \in [Replicas -> Nat \cup {None}]
      BY <1>1, <2>1, KeptTypes
    <2>3. \A s \in Replicas : IsPair(collectors'[s])
      BY <1>1, <2>1, KeptTypes, NewPairTypes
    <2>4. IsTyped(AdvanceView(r, "PC", highest_pc[r]))
      BY DEF IsTyped, AdvanceView
    <2>5. /\ view' \in [Replicas -> 0 .. MaxView]
          /\ timeouts' \in [Replicas -> SUBSET Nat]
          /\ error' \in [Replicas -> {NoError, "NonIncreasingViewError", "GetViewTimeoutError"}]
      BY <2>1, KeptTypes
    <2>6. ~Receives(r)
      BY <2>1 DEF Ticks, Receives
    <2>7. QED
      BY <2>1, <2>2, <2>3, <2>4, <2>5, <2>6, TypeSteps
  <1>5. QED
    BY <1>2, <1>3, <1>4 DEF Tick

\* Messages to HotStuff.
LEMMA HotStuffTypes ==
  ASSUME TypeInv, NEW r \in Replicas, ReceiveNothing(r) \/ HotStuffCertifies(r) \/ HotStuffUpdates(r)
  PROVE  TypeInv'
  <1>1. UNCHANGED <<view, timeouts, error, collectors, last_advance_view, highest_tc, msgs>> /\ Receives(r)
    BY DEF ReceiveNothing, HotStuffCertifies, HotStuffUpdates, pacemaker
  <1>2. highest_pc' \in [Replicas -> {NoPC} \cup [view : Nat, vs : ValidatorSetsOfHistory]]
    <2>1. CASE UNCHANGED highest_pc
      BY <2>1, KeptTypes
    <2>2. CASE HotStuffCertifies(r)
      <3>1. PICK vs \in {vss(r).cvs, vss(r).pvs} :
              highest_pc' = [highest_pc EXCEPT ![r] = [view |-> view[r], vs |-> vs]]
        BY <2>2 DEF HotStuffCertifies
      <3>2. vs \in ValidatorSetsOfHistory /\ view[r] \in Nat
        BY StateTypes, TypeFacts
      <3>3. [view |-> view[r], vs |-> vs] \in [view : Nat, vs : ValidatorSetsOfHistory]
        BY <3>2
      <3>4. QED
        BY <3>1, <3>3, KeptTypes
    <2>3. QED
      BY <2>1, <2>2 DEF ReceiveNothing, HotStuffUpdates
  <1>3. update' \in [Replicas -> DOMAIN History]
    <2>1. CASE UNCHANGED update
      BY <2>1, KeptTypes
    <2>2. CASE HotStuffUpdates(r)
      <3>1. update[r] < Len(History) /\ update' = [update EXCEPT ![r] = update[r] + 1]
        BY <2>2, KeptTypes DEF HotStuffUpdates
      <3>2. update[r] \in 1 .. Len(History) /\ Len(History) \in Nat /\ DOMAIN History = 1 .. Len(History)
        BY KeptTypes, PacemakerAssumption
      <3>3. update[r] + 1 \in DOMAIN History
        BY <3>1, <3>2
      <3>4. QED
        BY <3>1, <3>3, KeptTypes
    <2>3. QED
      BY <2>1, <2>2 DEF ReceiveNothing, HotStuffCertifies
  <1>4. /\ view' \in [Replicas -> 0 .. MaxView]
        /\ timeouts' \in [Replicas -> SUBSET Nat]
        /\ error' \in [Replicas -> {NoError, "NonIncreasingViewError", "GetViewTimeoutError"}]
        /\ \A s \in Replicas : IsPair(collectors'[s])
        /\ last_advance_view' \in [Replicas -> Nat \cup {None}]
        /\ highest_tc' \in [Replicas -> TimeoutCertificates]
    BY <1>1, KeptTypes
  <1>5. QED
    BY <1>1, <1>2, <1>3, <1>4, TypeSteps

\* Timeout votes.
LEMMA TimeoutVoteTypes ==
  ASSUME PacemakerInv, TypeInv, NEW r \in Replicas, NEW m \in msgs, OnReceiveTimeoutVote(r, m)
  PROVE  TypeInv'
  <1>1. view[r] \in Nat /\ MaxView \in Nat /\ DOMAIN collectors = Replicas
    BY TypeFacts, ReplicaFacts
  <1>2. IsTyped(m) /\ IsMessage(m)
    BY ReplicaFacts DEF TypeInv
  <1>3. CASE OnReceiveTimeoutVoteCollect(r, m)
    <2>1. /\ UNCHANGED <<view, timeouts, error, highest_pc, update>> /\ Receives(r)
          /\ collectors' = [collectors EXCEPT ![r] = collect(r, m).pair]
      BY <1>3 DEF OnReceiveTimeoutVoteCollect
    <2>2. PICK tc \in collect(r, m).certs :
            /\ highest_tc' = [highest_tc EXCEPT ![r] = IF newer(tc, r) THEN tc ELSE @]
            /\ \A n \in msgs' \ msgs : n = AdvanceView(r, "TC", tc)
            /\ \/ UNCHANGED last_advance_view
               \/ last_advance_view' = [last_advance_view EXCEPT ![r] = view[r]]
      <3>1. PICK tc \in collect(r, m).certs :
              LET advancing == /\ newer(tc, r)
                               /\ \/ is_validator(r, vss(r)) /\ last_advance_view[r] = None
                                  \/ last_advance_view[r] # None /\ MayAdvance(r)
              IN  /\ highest_tc' = [highest_tc EXCEPT ![r] = IF newer(tc, r) THEN tc ELSE @]
                  /\ msgs' = msgs \cup IF advancing THEN {AdvanceView(r, "TC", tc)} ELSE {}
                  /\ last_advance_view' = [last_advance_view EXCEPT ![r] = IF advancing THEN view[r] ELSE @]
        BY <1>3 DEF OnReceiveTimeoutVoteCollect
      <3>2. last_advance_view \in [Replicas -> Nat \cup {None}]
        BY KeptTypes
      <3>3. QED
        BY <3>1, <3>2
    <2>3. tc \in TimeoutCertificates /\ IsPair(collect(r, m).pair)
      BY CollectInTypes
    <2>4. highest_tc' \in [Replicas -> TimeoutCertificates]
      BY <2>2, <2>3, KeptTypes
    <2>5. last_advance_view' \in [Replicas -> Nat \cup {None}]
      BY <1>1, <2>2, KeptTypes
    <2>6. IsTyped(AdvanceView(r, "TC", tc))
      BY <2>3 DEF IsTyped, AdvanceView
    <2>7. \A s \in Replicas : IsPair(collectors'[s])
      BY <1>1, <2>1, <2>3, KeptTypes
    <2>8. /\ view' \in [Replicas -> 0 .. MaxView]
          /\ timeouts' \in [Replicas -> SUBSET Nat]
          /\ error' \in [Replicas -> {NoError, "NonIncreasingViewError", "GetViewTimeoutError"}]
          /\ highest_pc' \in [Replicas -> {NoPC} \cup [view : Nat, vs : ValidatorSetsOfHistory]]
          /\ update' \in [Replicas -> DOMAIN History]
      BY <2>1, KeptTypes
    <2>9. QED
      BY <2>1, <2>2, <2>4, <2>5, <2>6, <2>7, <2>8, TypeSteps
  <1>4. CASE OnReceiveTimeoutVoteFallback(r, m)
    <2>1. /\ m.type = "TimeoutVote" /\ m.highest_tc.view < MaxView /\ Receives(r)
          /\ highest_tc' = [highest_tc EXCEPT ![r] = m.highest_tc]
          /\ UpdateView(r, m.highest_tc.view + 1)
          /\ UNCHANGED <<last_advance_view, highest_pc, update, msgs>>
      BY <1>4 DEF OnReceiveTimeoutVoteFallback, IsVoteFor
    <2>2. m.highest_tc \in TimeoutCertificates /\ m.highest_tc.view \in Views
      BY <1>2, <2>1 DEF IsTyped, IsMessage, AdvanceView
    <2>3. m.highest_tc.view + 1 \in 0 .. MaxView
      BY <1>1, <2>1, <2>2 DEF Views, None
    <2>4. /\ view' \in [Replicas -> 0 .. MaxView]
          /\ timeouts' \in [Replicas -> SUBSET Nat]
          /\ error' \in [Replicas -> {NoError, "NonIncreasingViewError", "GetViewTimeoutError"}]
          /\ \A s \in Replicas : IsPair(collectors'[s])
      BY <2>1, <2>3, UpdateViewTypes
    <2>5. highest_tc' \in [Replicas -> TimeoutCertificates]
      BY <2>1, <2>2, KeptTypes
    <2>6. /\ last_advance_view' \in [Replicas -> Nat \cup {None}]
          /\ highest_pc' \in [Replicas -> {NoPC} \cup [view : Nat, vs : ValidatorSetsOfHistory]]
          /\ update' \in [Replicas -> DOMAIN History]
      BY <2>1, KeptTypes
    <2>7. QED
      BY <2>1, <2>4, <2>5, <2>6, TypeSteps
  <1>5. CASE OnReceiveTimeoutVoteOnly(r, m)
    <2>1. /\ UNCHANGED <<view, timeouts, last_advance_view, error, highest_tc, highest_pc, update, msgs>>
          /\ Receives(r)
          /\ collectors' = [collectors EXCEPT ![r] = collect(r, m).pair]
      BY <1>5 DEF OnReceiveTimeoutVoteOnly
    <2>2. \A s \in Replicas : IsPair(collectors'[s])
      BY <1>1, <2>1, KeptTypes, CollectInTypes
    <2>3. /\ view' \in [Replicas -> 0 .. MaxView]
          /\ timeouts' \in [Replicas -> SUBSET Nat]
          /\ error' \in [Replicas -> {NoError, "NonIncreasingViewError", "GetViewTimeoutError"}]
          /\ last_advance_view' \in [Replicas -> Nat \cup {None}]
          /\ highest_tc' \in [Replicas -> TimeoutCertificates]
          /\ highest_pc' \in [Replicas -> {NoPC} \cup [view : Nat, vs : ValidatorSetsOfHistory]]
          /\ update' \in [Replicas -> DOMAIN History]
      BY <2>1, KeptTypes
    <2>4. QED
      BY <2>1, <2>2, <2>3, TypeSteps
  <1>6. QED
    BY <1>3, <1>4, <1>5 DEF OnReceiveTimeoutVote

\* AdvanceView messages.
LEMMA AdvanceViewTypes ==
  ASSUME PacemakerInv, TypeInv, NEW r \in Replicas, NEW m \in msgs, OnReceiveAdvanceView(r, m)
  PROVE  TypeInv'
  <1>1. view[r] \in Nat /\ MaxView \in Nat
    BY TypeFacts
  <1>2. IsTyped(m) /\ IsMessage(m)
    BY ReplicaFacts DEF TypeInv
  <1>3. /\ m.type = "AdvanceView" /\ m.view >= view[r] /\ m.view < MaxView /\ Receives(r)
        /\ UpdateView(r, m.view + 1) /\ UNCHANGED <<highest_pc, update>>
        /\ highest_tc' = [highest_tc EXCEPT ![r] = IF m.kind = "TC" /\ newer(m.cert, r) THEN m.cert ELSE @]
        /\ \A n \in msgs' \ msgs : n = [m EXCEPT !.from = r]
        /\ last_advance_view' = [last_advance_view EXCEPT
                                   ![r] = IF is_validator(r, vss(r)) /\ MayAdvance(r) THEN view[r] ELSE @]
    BY DEF OnReceiveAdvanceView
  <1>4. m.view \in Views
    BY <1>2 DEF IsMessage
  <1>5. m.view + 1 \in 0 .. MaxView
    BY <1>1, <1>3, <1>4 DEF Views, None
  <1>6. /\ view' \in [Replicas -> 0 .. MaxView]
        /\ timeouts' \in [Replicas -> SUBSET Nat]
        /\ error' \in [Replicas -> {NoError, "NonIncreasingViewError", "GetViewTimeoutError"}]
        /\ \A s \in Replicas : IsPair(collectors'[s])
    BY <1>3, <1>5, UpdateViewTypes
  <1>7. m.kind = "TC" => m.cert \in TimeoutCertificates
    BY <1>2, <1>3 DEF IsTyped
  <1>8. highest_tc' \in [Replicas -> TimeoutCertificates]
    BY <1>3, <1>7, KeptTypes
  <1>9. last_advance_view' \in [Replicas -> Nat \cup {None}]
    BY <1>1, <1>3, KeptTypes
  <1>10. IsTyped([m EXCEPT !.from = r])
    <2>1. m = AdvanceView(m.from, m.kind, m.cert)
      BY <1>2, <1>3 DEF IsMessage, TimeoutVote
    <2>2. [m EXCEPT !.from = r] = AdvanceView(r, m.kind, m.cert)
      BY <2>1 DEF AdvanceView
    <2>3. m.kind \in {"PC", "TC"}
      BY <1>2, <1>3 DEF IsTyped
    <2>4. IsTyped(AdvanceView(r, m.kind, m.cert))
      BY <1>7, <2>3 DEF IsTyped, AdvanceView
    <2>5. QED
      BY <2>2, <2>4
  <1>11. /\ highest_pc' \in [Replicas -> {NoPC} \cup [view : Nat, vs : ValidatorSetsOfHistory]]
         /\ update' \in [Replicas -> DOMAIN History]
    BY <1>3, KeptTypes
  <1>12. QED
    BY <1>3, <1>6, <1>8, <1>9, <1>10, <1>11, TypeSteps

\* A restart.
LEMMA RestartTypes ==
  ASSUME PacemakerInv, TypeInv, NEW r \in Replicas, Restart(r)
  PROVE  TypeInv'
  <1> DEFINE v == init_view(r)
  <1>1. /\ restarts[r] < MaxRestarts /\ v <= MaxView
        /\ restarts' = [restarts EXCEPT ![r] = @ + 1]
        /\ started' = [started EXCEPT ![r] = v]
        /\ view' = [view EXCEPT ![r] = v]
        /\ timeouts' = [timeouts EXCEPT ![r] = initial_timeouts(v)]
        /\ collectors' = [collectors EXCEPT ![r] = new_collectors(r)]
        /\ last_advance_view' = [last_advance_view EXCEPT ![r] = None]
        /\ error' = [error EXCEPT ![r] = IF v \in timeouts'[r] THEN NoError ELSE "GetViewTimeoutError"]
        /\ ticked' = [ticked EXCEPT ![r] = FALSE]
        /\ UNCHANGED <<highest_tc, highest_pc, highest_view_entered, update, msgs>>
    BY DEF Restart
  <1>2. v \in Nat /\ MaxView \in Nat /\ MaxRestarts \in Nat /\ DOMAIN collectors = Replicas
    BY InitViewType, ReplicaFacts, PacemakerAssumption DEF PacemakerInv, DeadlineInv
  <1> HIDE DEF v
  <1>3. v \in 0 .. MaxView /\ initial_timeouts(v) \subseteq Nat
    BY <1>1, <1>2, EpochCovers DEF initial_timeouts
  <1>4. view' \in [Replicas -> 0 .. MaxView] /\ started' \in [Replicas -> 0 .. MaxView]
    BY <1>1, <1>3 DEF TypeInv, TypeOK
  <1>5. timeouts' \in [Replicas -> SUBSET Nat]
    BY <1>1, <1>3, KeptTypes
  <1>6. \A s \in Replicas : IsPair(collectors'[s])
    BY <1>1, <1>2, KeptTypes, NewPairTypes DEF new_collectors
  <1>7. /\ error' \in [Replicas -> {NoError, "NonIncreasingViewError", "GetViewTimeoutError"}]
        /\ last_advance_view' \in [Replicas -> Nat \cup {None}]
    BY <1>1, KeptTypes
  <1>8. restarts' \in [Replicas -> 0 .. MaxRestarts]
    BY <1>1, <1>2 DEF TypeInv, TypeOK
  <1>9. ticked' \in [Replicas -> BOOLEAN]
    BY <1>1 DEF TypeInv, TypeOK
  <1>10. TypeOK'
    BY <1>1, <1>4, <1>5, <1>6, <1>7, <1>8, <1>9 DEF TypeInv, TypeOK, IsPair, IsCollector
  <1>11. QED
    BY <1>1, <1>10 DEF TypeInv, IsTyped

\* A faulty replica sends messages of the right type.
LEMMA ForgeTypes ==
  ASSUME TypeInv, NEW r \in Replicas, Forge(r)
  PROVE  TypeInv'
  <1>1. UNCHANGED <<pacemaker, ticked, life, highest_tc, highest_pc, highest_view_entered, update>>
    BY DEF Forge
  <1>2. PICK v \in ForgedViews :
          \/ \E s \in Replicas : msgs' = msgs \cup {TimeoutVote(r, v, highest_tc[s])}
          \/ \E vs \in ValidatorSetsOfHistory :
               msgs' = msgs \cup {AdvanceView(r, "TC", [view |-> v, signatures |-> signature_set(vs, Faulty)])}
    BY DEF Forge
  <1>3. \A s \in Replicas : IsTyped(TimeoutVote(r, v, highest_tc[s]))
    BY KeptTypes DEF IsTyped, TimeoutVote
  <1>4. \A vs \in ValidatorSetsOfHistory :
          IsTyped(AdvanceView(r, "TC", [view |-> v, signatures |-> signature_set(vs, Faulty)]))
    <2> TAKE vs \in ValidatorSetsOfHistory
    <2> DEFINE tc == [view |-> v, signatures |-> signature_set(vs, Faulty)]
    <2>1. tc \in TimeoutCertificates
      BY PacemakerAssumption, SignatureTypes
    <2> HIDE DEF tc
    <2>2. IsTyped(AdvanceView(r, "TC", tc))
      BY <2>1 DEF IsTyped, AdvanceView
    <2>3. QED
      BY <2>2 DEF tc
  <1>5. \A m \in msgs' : IsTyped(m)
    <2>1. \A m \in msgs : IsTyped(m)
      BY DEF TypeInv
    <2>2. CASE \E s \in Replicas : msgs' = msgs \cup {TimeoutVote(r, v, highest_tc[s])}
      BY <1>3, <2>1, <2>2
    <2>3. CASE \E vs \in ValidatorSetsOfHistory :
                 msgs' = msgs \cup {AdvanceView(r, "TC", [view |-> v, signatures |-> signature_set(vs, Faulty)])}
      BY <1>4, <2>1, <2>3
    <2>4. QED
      BY <1>2, <2>2, <2>3
  <1>6. TypeOK'
    BY <1>1 DEF TypeInv, TypeOK, IsCollector, pacemaker, life
  <1>7. QED
    BY <1>5, <1>6 DEF TypeInv, IsTyped

\* Initially.
LEMMA InitTypes == Init => TypeInv
  <1> SUFFICES ASSUME Init PROVE TypeInv
    OBVIOUS
  <1>1. MaxView \in Nat /\ MaxRestarts \in Nat /\ 1 \in DOMAIN History
    BY PacemakerAssumption
  <1>2. initial_timeouts(0) \subseteq Nat
    BY EpochCovers DEF initial_timeouts
  <1>3. History[1].cvs \in ValidatorSetsOfHistory /\ History[1].pvs \in ValidatorSetsOfHistory
    BY <1>1 DEF ValidatorSetsOfHistory
  <1>4. IsPair(new_pair(History[1]))
    BY <1>3 DEF IsPair, IsCollector, new_pair, new_collector
  <1>5. \A r \in Replicas : IsPair(collectors[r])
    BY <1>4 DEF Init
  <1>6. NoTC \in TimeoutCertificates
    BY DEF TimeoutCertificates
  <1>7. TypeOK
    BY <1>1, <1>2, <1>5, <1>6 DEF Init, TypeOK, IsPair
  <1>8. QED
    BY <1>7 DEF TypeInv, Init

\* Every step keeps the types.
LEMMA TypeStep ==
  ASSUME PacemakerInv, TypeInv, [Next]_vars
  PROVE  TypeInv'
  <1>1. CASE \E r \in Replicas \ Faulty : Tick(r) \/ Receive(r) \/ Restart(r)
    BY <1>1, TickTypes, HotStuffTypes, TimeoutVoteTypes, AdvanceViewTypes, RestartTypes DEF Receive, Handle
  <1>2. CASE \E r \in Faulty : Forge(r)
    BY <1>2, PacemakerAssumption, ForgeTypes
  <1>3. CASE UNCHANGED vars
    BY <1>3 DEF vars, pacemaker, life, TypeInv, TypeOK, IsCollector, IsTyped
  <1>4. QED
    BY <1>1, <1>2, <1>3 DEF Next

\* Every variable of the pacemaker has its type, and a collector only holds
\* signatures of validators of its own set (TimeoutVoteCollector::collect).
THEOREM PacemakerTypes == Spec => []TypeOK
  <1>1. TypeInv => TypeOK
    BY DEF TypeInv
  <1>2. QED
    BY <1>1, InitTypes, TypeStep, PacemakerIsConsistent, PTL DEF Spec

-----------------------------------------------------------------------------
(* Epochs are left by quorums.                                             *)

\* The view that a restart takes a replica to, from the views of its progress.
StartFrom(a, b, c) ==
  LET progress == {a, b, c}
      highest  == CHOOSE v \in progress : \A w \in progress : w <= v
  IN  IF highest = 0 THEN 0 ELSE highest + 1

\* It is not below the view entered, and more progress does not lower it.
LEMMA StartsHigher ==
  ASSUME NEW a \in Nat, NEW b \in Views, NEW c \in Views
  PROVE  /\ StartFrom(a, b, c) \in Nat
         /\ a <= StartFrom(a, b, c)
         /\ \A d \in Nat, e \in Views, f \in Views :
              a <= d /\ b <= e /\ c <= f => StartFrom(a, b, c) <= StartFrom(d, e, f)
  <1> DEFINE Top(x, y, z) == CHOOSE v \in {x, y, z} : \A w \in {x, y, z} : w <= v
  <1>1. ASSUME NEW x \in Nat, NEW y \in Views, NEW z \in Views
        PROVE  /\ Top(x, y, z) \in {x, y, z} /\ Top(x, y, z) \in Nat
               /\ x <= Top(x, y, z) /\ y <= Top(x, y, z) /\ z <= Top(x, y, z)
               /\ StartFrom(x, y, z) = IF Top(x, y, z) = 0 THEN 0 ELSE Top(x, y, z) + 1
    <2>1. x \in Int /\ y \in Int /\ z \in Int
      BY DEF Views, None
    <2>2. \E v \in {x, y, z} : \A w \in {x, y, z} : w <= v
      <3>1. CASE x >= y /\ x >= z
        BY <2>1, <3>1
      <3>2. CASE y >= x /\ y >= z
        BY <2>1, <3>2
      <3>3. CASE z >= x /\ z >= y
        BY <2>1, <3>3
      <3>4. QED
        BY <2>1, <3>1, <3>2, <3>3
    <2>3. Top(x, y, z) \in {x, y, z} /\ \A w \in {x, y, z} : w <= Top(x, y, z)
      BY <2>2
    <2>4. StartFrom(x, y, z) = IF Top(x, y, z) = 0 THEN 0 ELSE Top(x, y, z) + 1
      BY DEF StartFrom
    <2> HIDE DEF Top
    <2>5. QED
      BY <2>1, <2>3, <2>4
  <1> HIDE DEF Top
  <1>2. StartFrom(a, b, c) \in Nat /\ a <= StartFrom(a, b, c)
    BY <1>1
  <1>3. ASSUME NEW d \in Nat, NEW e \in Views, NEW f \in Views, a <= d, b <= e, c <= f
        PROVE  StartFrom(a, b, c) <= StartFrom(d, e, f)
    <2>1. a \in Int /\ b \in Int /\ c \in Int /\ d \in Int /\ e \in Int /\ f \in Int
      BY DEF Views, None
    <2>2. /\ Top(a, b, c) \in {a, b, c} /\ Top(a, b, c) \in Nat
          /\ StartFrom(a, b, c) = IF Top(a, b, c) = 0 THEN 0 ELSE Top(a, b, c) + 1
      BY <1>1
    <2>3. /\ d <= Top(d, e, f) /\ e <= Top(d, e, f) /\ f <= Top(d, e, f) /\ Top(d, e, f) \in Nat
          /\ StartFrom(d, e, f) = IF Top(d, e, f) = 0 THEN 0 ELSE Top(d, e, f) + 1
      BY <1>1
    <2>4. Top(a, b, c) <= Top(d, e, f)
      BY <1>3, <2>1, <2>2, <2>3
    <2>5. QED
      BY <2>2, <2>3, <2>4
  <1>4. QED
    BY <1>2, <1>3

\* init_view is that view.
LEMMA InitViewIs ==
  ASSUME NEW r
  PROVE  init_view(r) = StartFrom(highest_view_entered[r], highest_pc[r].view, highest_tc[r].view)
  BY DEF init_view, StartFrom

\* More signers have no less power (ValidatorSet::power, quorum).
LEMMA PowerFacts ==
  ASSUME NEW vs \in ValidatorSetsOfHistory
  PROVE  /\ quorum(vs) \in Nat
         /\ \A S \in SUBSET Replicas : power_of(vs, S) \in Nat
         /\ \A S, T \in SUBSET Replicas : S \subseteq T => power_of(vs, S) <= power_of(vs, T)
  <1> DEFINE D == DOMAIN vs
  <1>1. D \subseteq Replicas /\ \A v \in D : vs[v] \in Nat
    BY PacemakerAssumption DEF ValidatorSetsOfHistory
  <1>2. IsFiniteSet(D) /\ \A S : IsFiniteSet(S \cap D)
    BY <1>1, PacemakerAssumption, FS_Subset
  <1> HIDE DEF D
  <1>3. quorum(vs) \in Nat
    <2>1. total_power(vs) \in Nat
      BY <1>1, <1>2, SumType DEF total_power, D
    <2>2. QED
      BY <2>1 DEF quorum
  <1>4. \A S \in SUBSET Replicas : power_of(vs, S) \in Nat
    BY <1>1, <1>2, SumType DEF power_of, D
  <1>5. ASSUME NEW S \in SUBSET Replicas, NEW T \in SUBSET Replicas, S \subseteq T
        PROVE  power_of(vs, S) <= power_of(vs, T)
    <2>1. S \cap D \in SUBSET (T \cap D)
      BY <1>5
    <2>2. SumFunctionOnSet(vs, S \cap D) <= SumFunctionOnSet(vs, T \cap D)
      BY <1>1, <1>2, <2>1, SumMonotone
    <2>3. QED
      BY <2>2 DEF power_of, D
  <1>6. QED
    BY <1>3, <1>4, <1>5

\* Sets of signers that grow, keep their quorums.
LEMMA QuorumsStay ==
  ASSUME NEW vs \in ValidatorSetsOfHistory, NEW S \in SUBSET Replicas, NEW T \in SUBSET Replicas,
         S \subseteq T, power_of(vs, S) >= quorum(vs)
  PROVE  power_of(vs, T) >= quorum(vs)
  <1>1. quorum(vs) \in Nat /\ power_of(vs, S) \in Nat /\ power_of(vs, T) \in Nat
    BY PowerFacts
  <1>2. power_of(vs, S) <= power_of(vs, T)
    BY PowerFacts
  <1>3. QED
    BY <1>1, <1>2

\* Messages stay sent, and views entered and started in do not go back: what
\* was reached or left stays so.
LEMMA ReachedStays ==
  ASSUME NEW sent, NEW more, sent \subseteq more, \A m \in more : m.from \in Replicas,
         NEW entered \in [Replicas -> Nat], NEW from \in [Replicas -> Nat],
         NEW entered2 \in [Replicas -> Nat], NEW from2 \in [Replicas -> Nat],
         \A s \in Replicas : entered[s] <= entered2[s] /\ from[s] <= from2[s]
  PROVE  /\ \A pc : IsReached(pc, entered, from) => IsReached(pc, entered2, from2)
         /\ \A e \in Nat : IsLeft(e, sent, entered, from) => IsLeft(e, more, entered2, from2)
  <1>1. ASSUME NEW v \in Nat
        PROVE  /\ VotersIn(entered, from, v) \subseteq VotersIn(entered2, from2, v)
               /\ VotersIn(entered2, from2, v) \subseteq Replicas
    <2>1. ASSUME NEW s \in Replicas, entered[s] >= v \/ from[s] >= v
          PROVE  entered2[s] >= v \/ from2[s] >= v
      <3>1. entered[s] \in Nat /\ from[s] \in Nat /\ entered2[s] \in Nat /\ from2[s] \in Nat
        OBVIOUS
      <3>2. entered[s] <= entered2[s] /\ from[s] <= from2[s]
        OBVIOUS
      <3>3. QED
        BY <2>1, <3>1, <3>2
    <2>2. Faulty \subseteq Replicas
      BY PacemakerAssumption
    <2>3. QED
      BY <2>1, <2>2 DEF VotersIn
  <1>2. ASSUME NEW v
        PROVE  SendersIn(sent, v) \subseteq SendersIn(more, v) /\ SendersIn(more, v) \subseteq Replicas
    BY DEF SendersIn
  <1>3. ASSUME NEW pc, IsReached(pc, entered, from)
        PROVE  IsReached(pc, entered2, from2)
    <2>1. pc.view \in Nat \ {0} /\ pc.vs \in ValidatorSetsOfHistory
          /\ power_of(pc.vs, VotersIn(entered, from, pc.view)) >= quorum(pc.vs)
      BY <1>3 DEF IsReached
    <2>2. power_of(pc.vs, VotersIn(entered2, from2, pc.view)) >= quorum(pc.vs)
      BY <1>1, <2>1, QuorumsStay
    <2>3. QED
      BY <2>1, <2>2 DEF IsReached
  <1>4. ASSUME NEW e \in Nat, IsLeft(e, sent, entered, from)
        PROVE  IsLeft(e, more, entered2, from2)
    <2>1. PICK vs \in ValidatorSetsOfHistory, v \in e .. MaxView :
            \/ power_of(vs, SendersIn(sent, v) \cup Faulty) >= quorum(vs)
            \/ v > 0 /\ power_of(vs, VotersIn(entered, from, v)) >= quorum(vs)
      BY <1>4 DEF IsLeft
    <2>2. v \in Nat /\ Faulty \subseteq Replicas
      BY PacemakerAssumption
    <2>3. CASE power_of(vs, SendersIn(sent, v) \cup Faulty) >= quorum(vs)
      <3>1. SendersIn(sent, v) \cup Faulty \subseteq SendersIn(more, v) \cup Faulty
            /\ SendersIn(more, v) \cup Faulty \subseteq Replicas
        BY <1>2, <2>2
      <3>2. power_of(vs, SendersIn(more, v) \cup Faulty) >= quorum(vs)
        BY <2>3, <3>1, QuorumsStay
      <3>3. QED
        BY <3>2 DEF IsLeft
    <2>4. CASE v > 0 /\ power_of(vs, VotersIn(entered, from, v)) >= quorum(vs)
      <3>1. power_of(vs, VotersIn(entered2, from2, v)) >= quorum(vs)
        BY <1>1, <2>2, <2>4, QuorumsStay
      <3>2. QED
        BY <2>4, <3>1 DEF IsLeft
    <2>5. QED
      BY <2>1, <2>3, <2>4
  <1>5. QED
    BY <1>3, <1>4

\* The epoch-change views that a replica has left since it started.
EpochsLeft(from, to) == {v \in from .. to - 1 : is_epoch_change_view(v)}

\* EpochsLeftByQuorum in these terms.
LEMMA LeftByQuorum ==
  EpochsLeftByQuorum <=>
    \A r \in Replicas \ Faulty : \A e \in EpochsLeft(started[r], view[r]) :
      IsLeft(e, msgs, highest_view_entered, started)
  <1>1. \A v : Senders(v) = SendersIn(msgs, v)
    BY DEF Senders, SendersIn
  <1>2. \A v : MayHaveVoted(v) = VotersIn(highest_view_entered, started, v)
    BY DEF MayHaveVoted, VotersIn
  <1>3. QED
    BY <1>1, <1>2 DEF EpochsLeftByQuorum, EpochsLeft, IsLeft

\* A step of replica r keeps the invariant if it goes forward, and leaves an
\* epoch-change view only with a quorum behind it.
LEMMA EpochSteps ==
  ASSUME PacemakerInv, TypeInv, EpochInv, PacemakerInv', TypeInv', NEW r \in Replicas,
         \A s \in Replicas \ {r} : /\ view'[s] = view[s]
                                   /\ highest_view_entered'[s] = highest_view_entered[s]
                                   /\ started'[s] = started[s]
                                   /\ highest_pc'[s] = highest_pc[s]
                                   /\ highest_tc'[s] = highest_tc[s],
         msgs \subseteq msgs',
         highest_view_entered[r] <= highest_view_entered'[r], highest_view_entered'[r] <= view'[r],
         started[r] <= started'[r], started'[r] <= view'[r],
         started'[r] <= StartFrom(highest_view_entered'[r], highest_pc'[r].view, highest_tc'[r].view),
         \/ highest_pc'[r] = highest_pc[r]
         \/ IsReached(highest_pc'[r], highest_view_entered, started),
         \A m \in msgs' \ msgs :
           m.type = "AdvanceView" /\ m.kind = "PC" => IsReached(m.cert, highest_view_entered, started),
         \A e \in EpochsLeft(started'[r], view'[r]) :
           e \in EpochsLeft(started[r], view[r]) \/ IsLeft(e, msgs, highest_view_entered, started)
  PROVE  EpochInv'
  <1>1. /\ highest_view_entered \in [Replicas -> Nat] /\ started \in [Replicas -> Nat]
        /\ highest_view_entered' \in [Replicas -> Nat] /\ started' \in [Replicas -> Nat]
        /\ view \in [Replicas -> Nat] /\ view' \in [Replicas -> Nat]
    BY DEF TypeInv, TypeOK
  <1>2. \A m \in msgs' : m.from \in Replicas
    BY DEF TypeInv, IsTyped
  <1>3. \A s \in Replicas : highest_view_entered[s] <= highest_view_entered'[s] /\ started[s] <= started'[s]
    <2> TAKE s \in Replicas
    <2>1. CASE s = r
      BY <2>1
    <2>2. CASE s # r
      <3>1. highest_view_entered[s] \in Nat /\ started[s] \in Nat
        BY <1>1
      <3>2. QED
        BY <2>2, <3>1
    <2>3. QED
      BY <2>1, <2>2
  <1>4. /\ \A pc : IsReached(pc, highest_view_entered, started) => IsReached(pc, highest_view_entered', started')
        /\ \A e \in Nat : IsLeft(e, msgs, highest_view_entered, started)
                            => IsLeft(e, msgs', highest_view_entered', started')
    BY <1>1, <1>2, <1>3, ReachedStays
  <1>5. ViewsReached'
    <2> SUFFICES ASSUME NEW s \in Replicas
                 PROVE  /\ highest_view_entered'[s] <= view'[s]
                        /\ started'[s] <= view'[s]
                        /\ started'[s] <= StartFrom(highest_view_entered'[s], highest_pc'[s].view, highest_tc'[s].view)
      BY InitViewIs DEF ViewsReached, init_view, StartFrom
    <2>1. CASE s = r
      BY <2>1
    <2>2. CASE s # r
      <3>1. /\ highest_view_entered[s] <= view[s] /\ started[s] <= view[s]
            /\ started[s] <= StartFrom(highest_view_entered[s], highest_pc[s].view, highest_tc[s].view)
        BY InitViewIs DEF EpochInv, ViewsReached
      <3>2. QED
        BY <2>2, <3>1
    <2>3. QED
      BY <2>1, <2>2
  <1>6. CertificatesAreReached'
    <2>1. ASSUME NEW s \in Replicas
          PROVE  highest_pc'[s] = NoPC \/ IsReached(highest_pc'[s], highest_view_entered', started')
      <3>1. highest_pc[s] = NoPC \/ IsReached(highest_pc[s], highest_view_entered, started)
        BY DEF EpochInv, CertificatesAreReached
      <3>2. CASE highest_pc'[s] = highest_pc[s]
        BY <1>4, <3>1, <3>2
      <3>3. CASE highest_pc'[s] # highest_pc[s]
        BY <1>4, <3>3
      <3>4. QED
        BY <3>2, <3>3
    <2>2. ASSUME NEW m \in msgs', m.type = "AdvanceView", m.kind = "PC"
          PROVE  IsReached(m.cert, highest_view_entered', started')
      <3>1. IsReached(m.cert, highest_view_entered, started)
        BY <2>2 DEF EpochInv, CertificatesAreReached
      <3>2. QED
        BY <1>4, <3>1
    <2>3. QED
      BY <2>1, <2>2 DEF CertificatesAreReached, IsReached, VotersIn, NoPC
  <1>7. EpochsLeftByQuorum'
    <2>1. ASSUME NEW s \in Replicas \ Faulty, NEW e \in EpochsLeft(started'[s], view'[s])
          PROVE  IsLeft(e, msgs', highest_view_entered', started')
      <3>1. e \in Nat
        BY <1>1 DEF EpochsLeft
      <3>2. \A x \in EpochsLeft(started[s], view[s]) : IsLeft(x, msgs, highest_view_entered, started)
        BY LeftByQuorum DEF EpochInv
      <3>3. e \in EpochsLeft(started[s], view[s]) \/ IsLeft(e, msgs, highest_view_entered, started)
        <4>1. CASE s = r
          BY <2>1, <4>1
        <4>2. CASE s # r
          <5>1. started'[s] = started[s] /\ view'[s] = view[s]
            BY <4>2
          <5>2. QED
            BY <5>1
        <4>3. QED
          BY <4>1, <4>2
      <3>4. QED
        BY <1>4, <3>1, <3>2, <3>3
    <2>2. \A v : Senders(v)' = SendersIn(msgs', v)
      BY DEF Senders, SendersIn
    <2>3. \A v : MayHaveVoted(v)' = VotersIn(highest_view_entered', started', v)
      BY DEF MayHaveVoted, VotersIn
    <2>4. QED
      BY <2>1, <2>2, <2>3 DEF EpochsLeftByQuorum, EpochsLeft, IsLeft, is_epoch_change_view
  <1>8. QED
    BY <1>5, <1>6, <1>7 DEF EpochInv

\* A tick or a message that takes r from its view to a view that is not lower.
LEMMA EpochLoop ==
  ASSUME PacemakerInv, TypeInv, EpochInv, PacemakerInv', TypeInv', NEW r \in Replicas,
         Ticks(r) \/ Receives(r),
         view[r] <= view'[r],
         highest_pc[r].view <= highest_pc'[r].view,
         highest_tc[r].view <= highest_tc'[r].view,
         \A s \in Replicas \ {r} : /\ view'[s] = view[s]
                                   /\ highest_pc'[s] = highest_pc[s]
                                   /\ highest_tc'[s] = highest_tc[s],
         msgs \subseteq msgs',
         \/ highest_pc'[r] = highest_pc[r]
         \/ IsReached(highest_pc'[r], highest_view_entered, started),
         \A m \in msgs' \ msgs :
           m.type = "AdvanceView" /\ m.kind = "PC" => IsReached(m.cert, highest_view_entered, started),
         \A e \in EpochsLeft(view[r], view'[r]) : IsLeft(e, msgs, highest_view_entered, started)
  PROVE  EpochInv'
  <1>1. /\ highest_view_entered \in [Replicas -> Nat] /\ started \in [Replicas -> Nat]
        /\ view \in [Replicas -> Nat] /\ view' \in [Replicas -> Nat]
        /\ view[r] \in Nat /\ started[r] \in Nat /\ highest_view_entered[r] \in Nat /\ view'[r] \in Nat
    BY DEF TypeInv, TypeOK
  <1>2. /\ highest_pc[r].view \in Views /\ highest_tc[r].view \in Views
        /\ highest_pc'[r].view \in Views /\ highest_tc'[r].view \in Views
    BY DEF PacemakerInv, DeadlineInv, ViewsOK
  <1>3. /\ highest_view_entered[r] <= view[r] /\ started[r] <= view[r]
        /\ started[r] <= StartFrom(highest_view_entered[r], highest_pc[r].view, highest_tc[r].view)
    BY InitViewIs DEF EpochInv, ViewsReached
  <1>4. /\ started' = started
        /\ \A s \in Replicas \ {r} : highest_view_entered'[s] = highest_view_entered[s]
        /\ \/ highest_view_entered'[r] = highest_view_entered[r]
           \/ highest_view_entered'[r] = view'[r]
    BY <1>1 DEF Ticks, Receives, life
  <1>5. /\ highest_view_entered'[r] \in Nat
        /\ highest_view_entered[r] <= highest_view_entered'[r] /\ highest_view_entered'[r] <= view'[r]
    BY <1>1, <1>3, <1>4
  <1>6. started'[r] <= StartFrom(highest_view_entered'[r], highest_pc'[r].view, highest_tc'[r].view)
    <2>1. StartFrom(highest_view_entered[r], highest_pc[r].view, highest_tc[r].view)
            <= StartFrom(highest_view_entered'[r], highest_pc'[r].view, highest_tc'[r].view)
      BY <1>1, <1>2, <1>5, StartsHigher
    <2>2. /\ StartFrom(highest_view_entered[r], highest_pc[r].view, highest_tc[r].view) \in Nat
          /\ StartFrom(highest_view_entered'[r], highest_pc'[r].view, highest_tc'[r].view) \in Nat
      BY <1>1, <1>2, <1>5, StartsHigher
    <2>3. QED
      BY <1>1, <1>3, <1>4, <2>1, <2>2
  <1>7. started[r] <= started'[r] /\ started'[r] <= view'[r]
    BY <1>1, <1>3, <1>4
  <1>8. ASSUME NEW e \in EpochsLeft(started'[r], view'[r])
        PROVE  e \in EpochsLeft(started[r], view[r]) \/ IsLeft(e, msgs, highest_view_entered, started)
    <2>1. e \in started[r] .. view'[r] - 1 /\ is_epoch_change_view(e)
      BY <1>4 DEF EpochsLeft
    <2>2. e \in started[r] .. view[r] - 1 \/ e \in view[r] .. view'[r] - 1
      BY <1>1, <2>1
    <2>3. QED
      BY <2>1, <2>2 DEF EpochsLeft
  <1>9. QED
    BY <1>4, <1>5, <1>6, <1>7, <1>8, EpochSteps

\* update_view goes forward or stays.
LEMMA UpdateViewMoves ==
  ASSUME TypeInv, NEW r \in Replicas, NEW next \in Nat, UpdateView(r, next)
  PROVE  /\ \A s \in Replicas \ {r} : view'[s] = view[s]
         /\ view'[r] = view[r] \/ (view'[r] = next /\ next > view[r])
         /\ view[r] <= view'[r]
  <1>1. view \in [Replicas -> Nat] /\ view[r] \in Nat
    BY DEF TypeInv, TypeOK
  <1>2. /\ \A s \in Replicas \ {r} : view'[s] = view[s]
        /\ view'[r] = view[r] \/ (view'[r] = next /\ next > view[r])
    BY <1>1 DEF UpdateView
  <1>3. QED
    BY <1>1, <1>2

\* A correct timeout certificate has a quorum behind it.
LEMMA CorrectCertificate ==
  ASSUME PacemakerInv, TypeInv, NEW r \in Replicas, NEW tc, is_correct(tc, r), IsVoted(tc, msgs),
         NEW e \in Nat, e <= tc.view, tc.view \in Nat, tc.view <= MaxView
  PROVE  IsLeft(e, msgs, highest_view_entered, started)
  <1> DEFINE signers == Range(tc.signatures) \ {NoSignature}
  <1>1. PICK vs \in {vss(r).cvs, vss(r).pvs} : power_of(vs, signers) >= quorum(vs)
    BY DEF is_correct, is_correctly_signed
  <1>2. vs \in ValidatorSetsOfHistory
    BY StateTypes
  <1>3. signers \subseteq SendersIn(msgs, tc.view) \cup Faulty
    BY DEF IsVoted
  <1>4. SendersIn(msgs, tc.view) \cup Faulty \subseteq Replicas
    BY PacemakerAssumption DEF SendersIn, TypeInv, IsTyped
  <1> HIDE DEF signers
  <1>5. power_of(vs, SendersIn(msgs, tc.view) \cup Faulty) >= quorum(vs)
    BY <1>1, <1>2, <1>3, <1>4, QuorumsStay
  <1>6. tc.view \in e .. MaxView
    BY PacemakerAssumption
  <1>7. QED
    BY <1>2, <1>5, <1>6 DEF IsLeft

\* What is common to the replica's views.
LEMMA ProgressTypes ==
  ASSUME PacemakerInv, TypeInv, NEW r \in Replicas
  PROVE  /\ highest_pc[r].view \in Int /\ highest_tc[r].view \in Int
         /\ highest_pc[r].view <= highest_pc[r].view /\ highest_tc[r].view <= highest_tc[r].view
         /\ view[r] \in Nat /\ view[r] <= view[r]
         /\ EpochsLeft(view[r], view[r]) = {}
  <1>1. view[r] \in Nat
    BY DEF TypeInv, TypeOK
  <1>2. highest_pc[r].view \in Int /\ highest_tc[r].view \in Int
    BY DEF PacemakerInv, DeadlineInv, ViewsOK, Views, None
  <1>3. EpochsLeft(view[r], view[r]) = {}
    BY <1>1 DEF EpochsLeft
  <1>4. QED
    BY <1>1, <1>2, <1>3

\* Ticks.
LEMMA TickEpochs ==
  ASSUME PacemakerInv, TypeInv, EpochInv, PacemakerInv', TypeInv', NEW r \in Replicas, Tick(r)
  PROVE  EpochInv'
  <1>1. /\ highest_pc[r].view <= highest_pc[r].view /\ highest_tc[r].view <= highest_tc[r].view
        /\ view[r] \in Nat /\ view[r] <= view[r]
        /\ EpochsLeft(view[r], view[r]) = {}
    BY ProgressTypes
  <1>2. Ticks(r) /\ UNCHANGED <<highest_pc, highest_tc>> /\ msgs \subseteq msgs'
    BY DEF Tick, TickTimeoutVote, TickNextView, TickInTime, Ticks
  <1>3. CASE TickTimeoutVote(r)
    <2>1. UNCHANGED view /\ \A m \in msgs' \ msgs : m.type = "TimeoutVote"
      BY <1>3 DEF TickTimeoutVote, TimeoutVote
    <2>2. QED
      BY <1>1, <1>2, <2>1, EpochLoop
  <1>4. CASE TickNextView(r)
    <2>1. ~is_epoch_change_view(view[r]) /\ UpdateView(r, view[r] + 1) /\ msgs' = msgs
      BY <1>4 DEF TickNextView
    <2>2. /\ \A s \in Replicas \ {r} : view'[s] = view[s]
          /\ view'[r] = view[r] \/ view'[r] = view[r] + 1
          /\ view[r] <= view'[r]
      BY <1>1, <2>1, UpdateViewMoves
    <2>3. EpochsLeft(view[r], view'[r]) = {}
      BY <1>1, <2>1, <2>2 DEF EpochsLeft
    <2>4. QED
      BY <1>1, <1>2, <2>1, <2>2, <2>3, EpochLoop
  <1>5. CASE TickInTime(r)
    <2>1. /\ UNCHANGED view
          /\ \A m \in msgs' \ msgs : m = AdvanceView(r, "PC", highest_pc[r]) /\ highest_pc[r] # NoPC
      BY <1>5 DEF TickInTime
    <2>2. \A m \in msgs' \ msgs : IsReached(m.cert, highest_view_entered, started)
      BY <2>1 DEF EpochInv, CertificatesAreReached, AdvanceView
    <2>3. QED
      BY <1>1, <1>2, <2>1, <2>2, EpochLoop
  <1>6. QED
    BY <1>3, <1>4, <1>5 DEF Tick

\* Messages to HotStuff.
LEMMA HotStuffEpochs ==
  ASSUME PacemakerInv, TypeInv, EpochInv, PacemakerInv', TypeInv', NEW r \in Replicas,
         ReceiveNothing(r) \/ HotStuffCertifies(r) \/ HotStuffUpdates(r)
  PROVE  EpochInv'
  <1>1. /\ highest_pc[r].view \in Int
        /\ highest_pc[r].view <= highest_pc[r].view /\ highest_tc[r].view <= highest_tc[r].view
        /\ view[r] \in Nat /\ view[r] <= view[r]
        /\ EpochsLeft(view[r], view[r]) = {}
    BY ProgressTypes
  <1>2. UNCHANGED <<view, highest_tc, msgs>> /\ Receives(r)
    BY DEF ReceiveNothing, HotStuffCertifies, HotStuffUpdates, pacemaker
  <1>3. CASE UNCHANGED highest_pc
    BY <1>1, <1>2, <1>3, EpochLoop
  <1>4. CASE HotStuffCertifies(r)
    <2>1. PICK vs \in {vss(r).cvs, vss(r).pvs} :
            /\ power_of(vs, MayHaveVoted(view[r])) >= quorum(vs)
            /\ highest_pc' = [highest_pc EXCEPT ![r] = [view |-> view[r], vs |-> vs]]
      BY <1>4 DEF HotStuffCertifies
    <2>2. vs \in ValidatorSetsOfHistory /\ view[r] # 0 /\ highest_pc[r].view < view[r]
      BY <1>4, StateTypes DEF HotStuffCertifies
    <2>3. DOMAIN highest_pc = Replicas
      BY ReplicaFacts
    <2>4. /\ highest_pc'[r] = [view |-> view[r], vs |-> vs]
          /\ \A s \in Replicas \ {r} : highest_pc'[s] = highest_pc[s]
      BY <2>1, <2>3
    <2>5. highest_pc'[r].view = view[r] /\ highest_pc'[r].vs = vs
      BY <2>4
    <2>6. IsReached(highest_pc'[r], highest_view_entered, started)
      BY <1>1, <2>1, <2>2, <2>5 DEF IsReached, MayHaveVoted, VotersIn
    <2>7. highest_pc[r].view <= highest_pc'[r].view
      BY <1>1, <2>2, <2>5
    <2>8. QED
      BY <1>1, <1>2, <2>4, <2>6, <2>7, EpochLoop
  <1>5. QED
    BY <1>3, <1>4 DEF ReceiveNothing, HotStuffUpdates

\* Timeout votes.
LEMMA TimeoutVoteEpochs ==
  ASSUME PacemakerInv, TypeInv, EpochInv, PacemakerInv', TypeInv', NEW r \in Replicas,
         NEW m \in msgs, OnReceiveTimeoutVote(r, m)
  PROVE  EpochInv'
  <1>1. /\ highest_tc[r].view \in Int
        /\ highest_pc[r].view <= highest_pc[r].view /\ highest_tc[r].view <= highest_tc[r].view
        /\ view[r] \in Nat /\ view[r] <= view[r]
        /\ EpochsLeft(view[r], view[r]) = {}
    BY ProgressTypes
  <1>2. DOMAIN highest_tc = Replicas
    BY ReplicaFacts
  <1>3. CASE OnReceiveTimeoutVoteCollect(r, m)
    <2>1. UNCHANGED <<view, highest_pc>> /\ Receives(r)
      BY <1>3 DEF OnReceiveTimeoutVoteCollect
    <2>2. PICK tc : /\ highest_tc' = [highest_tc EXCEPT ![r] = IF newer(tc, r) THEN tc ELSE @]
                    /\ msgs' = msgs \/ msgs' = msgs \cup {AdvanceView(r, "TC", tc)}
      BY <1>3 DEF OnReceiveTimeoutVoteCollect
    <2>3. \A n \in msgs' \ msgs : n.kind = "TC"
      BY <2>2 DEF AdvanceView
    <2>4. \A s \in Replicas \ {r} : highest_tc'[s] = highest_tc[s]
      BY <1>2, <2>2
    <2>5. highest_tc[r].view <= highest_tc'[r].view
      <3>1. CASE newer(tc, r)
        <4>1. highest_tc'[r] = tc /\ tc.view > highest_tc[r].view
          BY <1>2, <2>2, <3>1 DEF newer
        <4>2. highest_tc'[r].view \in Int
          BY DEF PacemakerInv, DeadlineInv, ViewsOK, Views, None
        <4>3. QED
          BY <1>1, <4>1, <4>2
      <3>2. CASE ~newer(tc, r)
        BY <1>1, <1>2, <2>2, <3>2
      <3>3. QED
        BY <3>1, <3>2
    <2>6. msgs \subseteq msgs' /\ \A n \in msgs' \ msgs : n.kind # "PC"
      BY <2>2, <2>3
    <2>7. QED
      BY <1>1, <2>1, <2>4, <2>5, <2>6, EpochLoop
  <1>4. CASE OnReceiveTimeoutVoteFallback(r, m)
    <2> DEFINE tc == m.highest_tc
    <2>1. /\ m.type = "TimeoutVote" /\ is_correct(tc, r) /\ newer(tc, r) /\ tc.view < MaxView
          /\ highest_tc' = [highest_tc EXCEPT ![r] = tc]
          /\ UpdateView(r, tc.view + 1) /\ UNCHANGED <<highest_pc, msgs>> /\ Receives(r)
      BY <1>4 DEF OnReceiveTimeoutVoteFallback, IsVoteFor
    <2>2. IsVoted(tc, msgs) /\ tc.view \in Int /\ tc.view + 1 \in Nat
      <3>1. IsVoted(tc, msgs)
        BY <2>1, ReplicaFacts DEF CarriesVoted
      <3>2. QED
        BY <3>1 DEF IsVoted, Views, None
    <2> HIDE DEF tc
    <2>3. /\ \A s \in Replicas \ {r} : view'[s] = view[s]
          /\ view'[r] = view[r] \/ view'[r] = tc.view + 1
          /\ view[r] <= view'[r]
      BY <2>1, <2>2, UpdateViewMoves
    <2>4. \A s \in Replicas \ {r} : highest_tc'[s] = highest_tc[s]
      BY <1>2, <2>1
    <2>5. highest_tc[r].view <= highest_tc'[r].view
      BY <1>1, <1>2, <2>1, <2>2 DEF newer
    <2>6. ASSUME NEW e \in EpochsLeft(view[r], view'[r])
          PROVE  IsLeft(e, msgs, highest_view_entered, started)
      <3>1. e \in Nat /\ e <= tc.view /\ tc.view \in Nat /\ tc.view <= MaxView
        BY <1>1, <2>1, <2>2, <2>3, PacemakerAssumption DEF EpochsLeft
      <3>2. QED
        BY <2>1, <2>2, <3>1, CorrectCertificate
    <2>7. QED
      BY <1>1, <2>1, <2>3, <2>4, <2>5, <2>6, EpochLoop
  <1>5. CASE OnReceiveTimeoutVoteOnly(r, m)
    <2>1. UNCHANGED <<view, highest_tc, highest_pc, msgs>> /\ Receives(r)
      BY <1>5 DEF OnReceiveTimeoutVoteOnly
    <2>2. QED
      BY <1>1, <2>1, EpochLoop
  <1>6. QED
    BY <1>3, <1>4, <1>5 DEF OnReceiveTimeoutVote

\* AdvanceView messages.
LEMMA AdvanceViewEpochs ==
  ASSUME PacemakerInv, TypeInv, EpochInv, PacemakerInv', TypeInv', NEW r \in Replicas,
         NEW m \in msgs, OnReceiveAdvanceView(r, m)
  PROVE  EpochInv'
  <1>1. /\ highest_tc[r].view \in Int
        /\ highest_pc[r].view <= highest_pc[r].view /\ highest_tc[r].view <= highest_tc[r].view
        /\ view[r] \in Nat /\ DOMAIN highest_tc = Replicas /\ MaxView \in Nat
    BY ProgressTypes, ReplicaFacts, PacemakerAssumption
  <1>2. /\ m.type = "AdvanceView" /\ m.view >= view[r] /\ m.view < MaxView /\ Receives(r)
        /\ IsValid(r, m)
        /\ UpdateView(r, m.view + 1) /\ UNCHANGED highest_pc
        /\ highest_tc' = [highest_tc EXCEPT ![r] = IF m.kind = "TC" /\ newer(m.cert, r) THEN m.cert ELSE @]
        /\ msgs \subseteq msgs'
        /\ \A n \in msgs' \ msgs : n = [m EXCEPT !.from = r]
    BY DEF OnReceiveAdvanceView
  <1>3. /\ m = AdvanceView(m.from, m.kind, m.cert) /\ m.view = m.cert.view /\ m.view \in Views
        /\ m.kind \in {"PC", "TC"} /\ CarriesVoted(m, msgs)
    <2>1. IsMessage(m) /\ CarriesVoted(m, msgs)
      BY ReplicaFacts
    <2>2. IsTyped(m)
      BY DEF TypeInv
    <2>3. QED
      BY <1>2, <2>1, <2>2 DEF IsMessage, IsTyped, TimeoutVote
  <1>4. m.view \in Nat
    BY <1>1, <1>2, <1>3 DEF Views, None
  <1>5. /\ \A s \in Replicas \ {r} : view'[s] = view[s]
        /\ view'[r] = view[r] \/ view'[r] = m.view + 1
        /\ view[r] <= view'[r]
    BY <1>2, <1>4, UpdateViewMoves
  <1>6. /\ \A s \in Replicas \ {r} : highest_tc'[s] = highest_tc[s]
        /\ highest_tc[r].view <= highest_tc'[r].view
    BY <1>1, <1>2, <1>3, <1>4 DEF newer
  <1>7. m.kind = "PC" => IsReached(m.cert, highest_view_entered, started)
    BY <1>2 DEF EpochInv, CertificatesAreReached
  <1>8. ASSUME NEW n \in msgs' \ msgs, n.kind = "PC"
        PROVE  IsReached(n.cert, highest_view_entered, started)
    <2>1. n = [m EXCEPT !.from = r]
      BY <1>2
    <2>2. n.kind = m.kind /\ n.cert = m.cert
      BY <1>3, <2>1 DEF AdvanceView
    <2>3. QED
      BY <1>7, <1>8, <2>2
  <1>9. ASSUME NEW e \in EpochsLeft(view[r], view'[r])
        PROVE  IsLeft(e, msgs, highest_view_entered, started)
    <2>1. e \in Nat /\ e <= m.view /\ m.view <= MaxView
      BY <1>1, <1>2, <1>4, <1>5 DEF EpochsLeft
    <2>2. CASE m.kind = "TC"
      <3>1. IsVoted(m.cert, msgs) /\ is_correct(m.cert, r)
        BY <1>2, <1>3, <2>2 DEF CarriesVoted, IsValid
      <3>2. QED
        BY <1>3, <1>4, <2>1, <3>1, CorrectCertificate
    <2>3. CASE m.kind = "PC"
      <3>1. /\ m.cert.view \in Nat \ {0} /\ m.cert.vs \in ValidatorSetsOfHistory
            /\ power_of(m.cert.vs, VotersIn(highest_view_entered, started, m.cert.view)) >= quorum(m.cert.vs)
        BY <1>7, <2>3 DEF IsReached
      <3>2. m.cert.view \in e .. MaxView /\ m.cert.view > 0
        BY <1>1, <1>3, <2>1, <3>1
      <3>3. QED
        BY <3>1, <3>2 DEF IsLeft
    <2>4. QED
      BY <1>3, <2>2, <2>3
  <1>10. QED
    BY <1>1, <1>2, <1>5, <1>6, <1>8, <1>9, EpochLoop

\* A restart, which leaves epoch-change views behind but none since.
LEMMA RestartEpochs ==
  ASSUME PacemakerInv, TypeInv, EpochInv, PacemakerInv', TypeInv', NEW r \in Replicas, Restart(r)
  PROVE  EpochInv'
  <1> DEFINE v == init_view(r)
  <1>1. /\ view' = [view EXCEPT ![r] = v] /\ started' = [started EXCEPT ![r] = v]
        /\ UNCHANGED <<highest_tc, highest_pc, highest_view_entered, msgs>>
    BY DEF Restart
  <1>2. v = StartFrom(highest_view_entered[r], highest_pc[r].view, highest_tc[r].view)
    BY InitViewIs
  <1>3. started[r] <= v
    BY DEF EpochInv, ViewsReached
  <1> HIDE DEF v
  <1>4. /\ view \in [Replicas -> Nat] /\ started \in [Replicas -> Nat]
        /\ highest_view_entered[r] \in Nat
    BY DEF TypeInv, TypeOK
  <1>5. highest_pc[r].view \in Views /\ highest_tc[r].view \in Views
    BY DEF PacemakerInv, DeadlineInv, ViewsOK
  <1>6. v \in Nat /\ highest_view_entered[r] <= v
    BY <1>2, <1>4, <1>5, StartsHigher
  <1>7. /\ view'[r] = v /\ started'[r] = v
        /\ \A s \in Replicas \ {r} : view'[s] = view[s] /\ started'[s] = started[s]
    BY <1>1, <1>4
  <1>8. EpochsLeft(started'[r], view'[r]) = {}
    BY <1>6, <1>7 DEF EpochsLeft
  <1>9. /\ highest_view_entered[r] <= highest_view_entered'[r] /\ highest_view_entered'[r] <= view'[r]
        /\ started[r] <= started'[r] /\ started'[r] <= view'[r]
        /\ started'[r] <= StartFrom(highest_view_entered'[r], highest_pc'[r].view, highest_tc'[r].view)
    BY <1>1, <1>2, <1>3, <1>4, <1>6, <1>7
  <1>10. QED
    BY <1>1, <1>7, <1>8, <1>9, EpochSteps

\* A faulty replica changes nobody's views.
LEMMA ForgeEpochs ==
  ASSUME PacemakerInv, TypeInv, EpochInv, PacemakerInv', TypeInv', NEW r \in Replicas, Forge(r)
  PROVE  EpochInv'
  <1>1. UNCHANGED <<view, started, highest_tc, highest_pc, highest_view_entered>> /\ msgs \subseteq msgs'
    BY DEF Forge, pacemaker, life
  <1>2. \A m \in msgs' \ msgs : ~(m.type = "AdvanceView" /\ m.kind = "PC")
    BY DEF Forge, TimeoutVote, AdvanceView
  <1>3. /\ view[r] \in Nat /\ started[r] \in Nat /\ highest_view_entered[r] \in Nat
    BY DEF TypeInv, TypeOK
  <1>4. /\ highest_view_entered[r] <= view[r] /\ started[r] <= view[r]
        /\ started[r] <= StartFrom(highest_view_entered[r], highest_pc[r].view, highest_tc[r].view)
    BY InitViewIs DEF EpochInv, ViewsReached
  <1>5. /\ highest_view_entered[r] <= highest_view_entered'[r] /\ highest_view_entered'[r] <= view'[r]
        /\ started[r] <= started'[r] /\ started'[r] <= view'[r]
        /\ started'[r] <= StartFrom(highest_view_entered'[r], highest_pc'[r].view, highest_tc'[r].view)
    BY <1>1, <1>3, <1>4
  <1>6. EpochsLeft(started'[r], view'[r]) = EpochsLeft(started[r], view[r])
    BY <1>1
  <1>7. QED
    BY <1>1, <1>2, <1>5, <1>6, EpochSteps

\* Initially nobody has left a view.
LEMMA InitEpochs == Init => EpochInv
  <1> SUFFICES ASSUME Init PROVE EpochInv
    OBVIOUS
  <1>1. \A r \in Replicas : /\ view[r] = 0 /\ started[r] = 0 /\ highest_view_entered[r] = 0
                            /\ highest_pc[r] = NoPC /\ highest_tc[r] = NoTC
    BY DEF Init
  <1>2. NoPC.view \in Views /\ NoTC.view \in Views
    BY DEF NoPC, NoTC, Views
  <1>3. ViewsReached
    <2>1. StartFrom(0, NoPC.view, NoTC.view) \in Nat
      BY <1>2, StartsHigher
    <2>2. \A r \in Replicas : init_view(r) \in Nat
      BY <1>1, <2>1, InitViewIs
    <2>3. QED
      BY <1>1, <2>2 DEF ViewsReached
  <1>4. CertificatesAreReached
    BY <1>1 DEF CertificatesAreReached, Init
  <1>5. EpochsLeft(0, 0) = {}
    BY DEF EpochsLeft
  <1>6. EpochsLeftByQuorum
    BY <1>1, <1>5, LeftByQuorum
  <1>7. QED
    BY <1>3, <1>4, <1>6 DEF EpochInv

\* Every step keeps the invariant.
LEMMA EpochStep ==
  ASSUME PacemakerInv, TypeInv, EpochInv, PacemakerInv', TypeInv', [Next]_vars
  PROVE  EpochInv'
  <1>1. CASE \E r \in Replicas \ Faulty : Tick(r) \/ Receive(r) \/ Restart(r)
    BY <1>1, TickEpochs, HotStuffEpochs, TimeoutVoteEpochs, AdvanceViewEpochs, RestartEpochs
       DEF Receive, Handle
  <1>2. CASE \E r \in Faulty : Forge(r)
    BY <1>2, PacemakerAssumption, ForgeEpochs
  <1>3. CASE UNCHANGED vars
    <2>1. UNCHANGED <<view, started, highest_tc, highest_pc, highest_view_entered, msgs>>
      BY <1>3 DEF vars, pacemaker, life
    <2>2. ViewsReached'
      BY <2>1 DEF EpochInv, ViewsReached, init_view
    <2>3. CertificatesAreReached'
      BY <2>1 DEF EpochInv, CertificatesAreReached, IsReached, VotersIn
    <2>4. EpochsLeftByQuorum'
      <3>1. (\A v : Senders(v)' = Senders(v)) /\ (\A v : MayHaveVoted(v)' = MayHaveVoted(v))
        BY <2>1 DEF Senders, MayHaveVoted
      <3>2. QED
        BY <2>1, <3>1 DEF EpochInv, EpochsLeftByQuorum, is_epoch_change_view
    <2>5. QED
      BY <2>2, <2>3, <2>4 DEF EpochInv
  <1>4. QED
    BY <1>1, <1>2, <1>3 DEF Next

\* Whoever is beyond an epoch-change view that it did not start beyond has a
\* quorum behind it, of timeout votes or of replicas that reached a view in
\* which HotStuff made progress (tick, on_receive_timeout_vote,
\* on_receive_advance_view), whatever the history of validator sets.
THEOREM EpochsAreLeftByQuorum == Spec => []EpochsLeftByQuorum
  <1>1. EpochInv => EpochsLeftByQuorum
    BY DEF EpochInv
  <1>2. Spec => [](PacemakerInv /\ TypeInv)
    BY InitTypes, TypeStep, PacemakerIsConsistent, PTL DEF Spec
  <1>3. QED
    BY <1>1, <1>2, InitEpochs, EpochStep, PTL DEF Spec

-----------------------------------------------------------------------------
(* Views left by timeouts only.                                            *)

\* A timeout certificate is of an epoch-change view.
OfEpoch(tc) == tc = NoTC \/ is_epoch_change_view(tc.view)

\* There are no phase certificates, and whoever is beyond an epoch-change view
\* has a timeout certificate of that view or a later one.
IncreaseInv ==
  /\ \A r \in Replicas :
       /\ highest_pc[r] = NoPC
       /\ OfEpoch(highest_tc[r])
       /\ \A e \in 0 .. view[r] - 1 : is_epoch_change_view(e) => e <= highest_tc[r].view
  /\ \A m \in msgs :
       /\ m.type = "TimeoutVote" => OfEpoch(m.highest_tc)
       /\ m.type = "AdvanceView" => m.kind = "TC"
  /\ ViewsIncrease

\* A step of r keeps it.
LEMMA IncreaseSteps ==
  ASSUME IncreaseInv, NEW r \in Replicas,
         \A s \in Replicas \ {r} : /\ view'[s] = view[s]
                                   /\ highest_tc'[s] = highest_tc[s]
                                   /\ error'[s] = error[s],
         highest_pc' = highest_pc,
         error'[r] # "NonIncreasingViewError",
         OfEpoch(highest_tc'[r]),
         \A e \in 0 .. view'[r] - 1 : is_epoch_change_view(e) => e <= highest_tc'[r].view,
         \A m \in msgs' \ msgs : /\ m.type = "TimeoutVote" => OfEpoch(m.highest_tc)
                                 /\ m.type = "AdvanceView" => m.kind = "TC"
  PROVE  IncreaseInv'
  <1>1. ViewsIncrease'
    BY DEF IncreaseInv, ViewsIncrease
  <1>2. ASSUME NEW s \in Replicas
        PROVE  /\ highest_pc'[s] = NoPC
               /\ OfEpoch(highest_tc'[s])
               /\ \A e \in 0 .. view'[s] - 1 : is_epoch_change_view(e) => e <= highest_tc'[s].view
    <2>1. CASE s = r
      BY <2>1 DEF IncreaseInv
    <2>2. CASE s # r
      <3>1. view'[s] = view[s] /\ highest_tc'[s] = highest_tc[s]
        BY <2>2
      <3>2. QED
        BY <3>1 DEF IncreaseInv
    <2>3. QED
      BY <2>1, <2>2
  <1>3. ASSUME NEW m \in msgs'
        PROVE  /\ m.type = "TimeoutVote" => OfEpoch(m.highest_tc)
               /\ m.type = "AdvanceView" => m.kind = "TC"
    BY DEF IncreaseInv
  <1>4. QED
    BY <1>1, <1>2, <1>3 DEF IncreaseInv, OfEpoch, is_epoch_change_view, NoTC, NoPC

\* update_view to a higher view is no error.
LEMMA UpdateViewIncreases ==
  ASSUME PacemakerInv, TypeInv, IncreaseInv, NEW r \in Replicas, NEW next \in Nat, UpdateView(r, next),
         next > view[r]
  PROVE  /\ error'[r] # "NonIncreasingViewError"
         /\ \A s \in Replicas \ {r} : error'[s] = error[s] /\ view'[s] = view[s]
         /\ view'[r] = view[r] \/ view'[r] = next
  <1> DEFINE increasing == next > view[r]
             known == IF epoch(view[r]) = epoch(next) THEN timeouts[r] ELSE update_timeouts(r, next)
             entering == increasing /\ next \in known
  <1>1. error' = [error EXCEPT ![r] = CASE ~increasing -> "NonIncreasingViewError"
                                        [] increasing /\ ~entering -> "GetViewTimeoutError"
                                        [] entering -> NoError]
    BY DEF UpdateView
  <1>2. DOMAIN error = Replicas
    BY ReplicaFacts
  <1> HIDE DEF known
  <1>3. error'[r] # "NonIncreasingViewError" /\ \A s \in Replicas \ {r} : error'[s] = error[s]
    BY <1>1, <1>2 DEF NoError
  <1>4. QED
    BY <1>3, UpdateViewMoves

\* Every step keeps it, as long as nothing is certified and nobody restarts.
LEMMA IncreaseStep ==
  ASSUME CertifiedViews = {}, MaxRestarts = 0,
         PacemakerInv, TypeInv, IncreaseInv, PacemakerInv', TypeInv', [Next]_vars
  PROVE  IncreaseInv'
  <1>1. ASSUME NEW r \in Replicas
        PROVE  /\ view[r] \in Nat /\ highest_tc[r].view \in Int /\ error[r] # "NonIncreasingViewError"
               /\ highest_pc[r] = NoPC /\ OfEpoch(highest_tc[r])
               /\ \A e \in 0 .. view[r] - 1 : is_epoch_change_view(e) => e <= highest_tc[r].view
               /\ DOMAIN highest_tc = Replicas /\ DOMAIN error = Replicas
               /\ view \in [Replicas -> Nat]
    BY ProgressTypes, ReplicaFacts DEF IncreaseInv, ViewsIncrease
  <1>2. ASSUME NEW r \in Replicas, Tick(r) PROVE IncreaseInv'
    <2>1. Ticks(r) /\ UNCHANGED <<highest_pc, highest_tc>>
      BY <1>2 DEF Tick, TickTimeoutVote, TickNextView, TickInTime, Ticks
    <2>2. CASE TickTimeoutVote(r)
      <3>1. UNCHANGED <<view, error>> /\ \A m \in msgs' \ msgs : m = TimeoutVote(r, view[r], highest_tc[r])
        BY <2>2 DEF TickTimeoutVote
      <3>2. \A m \in msgs' \ msgs : m.type = "TimeoutVote" /\ m.highest_tc = highest_tc[r]
        BY <3>1 DEF TimeoutVote
      <3>3. QED
        BY <1>1, <2>1, <3>1, <3>2, IncreaseSteps
    <2>3. CASE TickNextView(r)
      <3>1. ~is_epoch_change_view(view[r]) /\ UpdateView(r, view[r] + 1) /\ msgs' = msgs
        BY <2>3 DEF TickNextView
      <3>2. /\ error'[r] # "NonIncreasingViewError"
            /\ \A s \in Replicas \ {r} : error'[s] = error[s] /\ view'[s] = view[s]
            /\ view'[r] = view[r] \/ view'[r] = view[r] + 1
        BY <1>1, <3>1, UpdateViewIncreases
      <3>3. ASSUME NEW e \in 0 .. view'[r] - 1, is_epoch_change_view(e)
            PROVE  e <= highest_tc[r].view
        <4>1. view[r] \in Nat /\ e # view[r]
          BY <1>1, <3>1, <3>3
        <4>2. e \in 0 .. view[r] - 1
          BY <3>2, <4>1
        <4>3. QED
          BY <1>1, <3>3, <4>2
      <3>4. QED
        BY <1>1, <2>1, <3>1, <3>2, <3>3, IncreaseSteps
    <2>4. CASE TickInTime(r)
      <3>1. UNCHANGED <<view, error>> /\ \A m \in msgs' \ msgs : highest_pc[r] # NoPC
        BY <2>4 DEF TickInTime
      <3>2. msgs' \ msgs = {}
        BY <1>1, <3>1
      <3>3. QED
        BY <1>1, <2>1, <3>1, <3>2, IncreaseSteps
    <2>5. QED
      BY <1>2, <2>2, <2>3, <2>4 DEF Tick
  <1>3. ASSUME NEW r \in Replicas, ReceiveNothing(r) \/ HotStuffCertifies(r) \/ HotStuffUpdates(r)
        PROVE  IncreaseInv'
    <2>1. UNCHANGED <<view, error, highest_tc, highest_pc, msgs>>
      BY <1>3 DEF ReceiveNothing, HotStuffCertifies, HotStuffUpdates, pacemaker
    <2>2. QED
      BY <1>1, <2>1, IncreaseSteps
  <1>4. ASSUME NEW r \in Replicas, NEW m \in msgs, OnReceiveTimeoutVote(r, m)
        PROVE  IncreaseInv'
    <2>1. CASE OnReceiveTimeoutVoteCollect(r, m)
      <3>1. UNCHANGED <<view, error, highest_pc>> /\ IsVoteFor(r, m)
        BY <2>1 DEF OnReceiveTimeoutVoteCollect
      <3>2. PICK tc \in collect(r, m).certs :
              /\ highest_tc' = [highest_tc EXCEPT ![r] = IF newer(tc, r) THEN tc ELSE @]
              /\ msgs' = msgs \/ msgs' = msgs \cup {AdvanceView(r, "TC", tc)}
        BY <2>1 DEF OnReceiveTimeoutVoteCollect
      <3>3. tc.view = view[r] /\ view[r] = m.view
        <4>1. PairCollectsFrom(collectors[r], SendersIn(msgs, view[r]) \cup Faulty)
          BY ReplicaFacts
        <4>2. m.view = view[r] => m.from \in SendersIn(msgs, view[r]) \cup Faulty
          BY <3>1, SenderOfVote
        <4>3. \A x \in collect(r, m).certs : x.view = view[r] /\ view[r] = m.view
          BY ONLY <4>1, <4>2, CollectFrom
        <4>4. QED
          BY <4>3
      <3>4. is_epoch_change_view(tc.view)
        BY <3>1, <3>3 DEF IsVoteFor
      <3>5. \A n \in msgs' \ msgs : n.type = "AdvanceView" /\ n.kind = "TC"
        BY <3>2 DEF AdvanceView
      <3>6. CASE newer(tc, r)
        <4>1. highest_tc'[r] = tc /\ \A s \in Replicas \ {r} : highest_tc'[s] = highest_tc[s]
          BY <1>1, <3>2, <3>6
        <4>2. \A e \in 0 .. view[r] - 1 : e <= tc.view
          BY <1>1, <3>3
        <4>3. QED
          BY <1>1, <3>1, <3>4, <3>5, <4>1, <4>2, IncreaseSteps DEF OfEpoch
      <3>7. CASE ~newer(tc, r)
        <4>1. highest_tc' = highest_tc
          BY <3>2, <3>7, KeptTypes
        <4>2. QED
          BY <1>1, <3>1, <3>5, <4>1, IncreaseSteps
      <3>8. QED
        BY <3>6, <3>7
    <2>2. CASE OnReceiveTimeoutVoteFallback(r, m)
      <3> DEFINE tc == m.highest_tc
      <3>1. /\ m.type = "TimeoutVote" /\ tc # NoTC /\ newer(tc, r)
            /\ highest_tc' = [highest_tc EXCEPT ![r] = tc]
            /\ UpdateView(r, tc.view + 1) /\ UNCHANGED <<highest_pc, msgs>>
        BY <2>2 DEF OnReceiveTimeoutVoteFallback, IsVoteFor
      <3>2. tc.view \in Views /\ is_epoch_change_view(tc.view)
        BY <3>1, ReplicaFacts DEF CarriesVoted, IsVoted, IncreaseInv, OfEpoch
      <3> HIDE DEF tc
      <3>3. tc.view \in Nat /\ tc.view > highest_tc[r].view
        <4>1. highest_tc[r].view \in Views
          BY DEF PacemakerInv, DeadlineInv, ViewsOK
        <4>2. QED
          BY <3>1, <3>2, <4>1 DEF newer, Views, None
      <3>4. tc.view >= view[r]
        <4>1. SUFFICES ASSUME tc.view < view[r] PROVE FALSE
          BY <1>1, <3>3
        <4>2. tc.view \in 0 .. view[r] - 1
          BY <1>1, <3>3, <4>1
        <4>3. tc.view <= highest_tc[r].view
          BY <1>1, <3>2, <4>2
        <4>4. QED
          BY <1>1, <3>3, <4>3
      <3>5. /\ error'[r] # "NonIncreasingViewError"
            /\ \A s \in Replicas \ {r} : error'[s] = error[s] /\ view'[s] = view[s]
            /\ view'[r] = view[r] \/ view'[r] = tc.view + 1
        BY <1>1, <3>1, <3>3, <3>4, UpdateViewIncreases
      <3>6. highest_tc'[r] = tc /\ \A s \in Replicas \ {r} : highest_tc'[s] = highest_tc[s]
        BY <1>1, <3>1
      <3>7. \A e \in 0 .. view'[r] - 1 : e <= tc.view
        BY <1>1, <3>3, <3>4, <3>5
      <3>8. QED
        BY <3>1, <3>2, <3>5, <3>6, <3>7, IncreaseSteps DEF OfEpoch
    <2>3. CASE OnReceiveTimeoutVoteOnly(r, m)
      <3>1. UNCHANGED <<view, error, highest_tc, highest_pc, msgs>>
        BY <2>3 DEF OnReceiveTimeoutVoteOnly
      <3>2. QED
        BY <1>1, <3>1, IncreaseSteps
    <2>4. QED
      BY <1>4, <2>1, <2>2, <2>3 DEF OnReceiveTimeoutVote
  <1>5. ASSUME NEW r \in Replicas, NEW m \in msgs, OnReceiveAdvanceView(r, m)
        PROVE  IncreaseInv'
    <2>1. /\ m.type = "AdvanceView" /\ m.view >= view[r] /\ IsValid(r, m)
          /\ UpdateView(r, m.view + 1) /\ UNCHANGED highest_pc
          /\ highest_tc' = [highest_tc EXCEPT ![r] = IF m.kind = "TC" /\ newer(m.cert, r) THEN m.cert ELSE @]
          /\ \A n \in msgs' \ msgs : n = [m EXCEPT !.from = r]
      BY <1>5 DEF OnReceiveAdvanceView
    <2>2. m.kind = "TC"
      BY <2>1 DEF IncreaseInv
    <2>3. /\ m = AdvanceView(m.from, m.kind, m.cert) /\ m.view = m.cert.view /\ m.view \in Views
          /\ is_epoch_change_view(m.cert.view)
      <3>1. IsMessage(m)
        BY ReplicaFacts
      <3>2. QED
        BY <2>1, <2>2, <3>1 DEF IsMessage, TimeoutVote, IsValid
    <2>4. m.view \in Nat
      BY <1>1, <2>1, <2>3 DEF Views, None
    <2>5. /\ error'[r] # "NonIncreasingViewError"
          /\ \A s \in Replicas \ {r} : error'[s] = error[s] /\ view'[s] = view[s]
          /\ view'[r] = view[r] \/ view'[r] = m.view + 1
      BY <1>1, <2>1, <2>4, UpdateViewIncreases
    <2>6. /\ OfEpoch(highest_tc'[r]) /\ highest_tc'[r].view \in Int /\ m.view <= highest_tc'[r].view
          /\ \A s \in Replicas \ {r} : highest_tc'[s] = highest_tc[s]
      <3>1. CASE newer(m.cert, r)
        <4>1. highest_tc'[r] = m.cert
          BY <1>1, <2>1, <2>2, <3>1
        <4>2. QED
          BY <1>1, <2>1, <2>3, <2>4, <4>1 DEF OfEpoch
      <3>2. CASE ~newer(m.cert, r)
        <4>1. highest_tc' = highest_tc
          BY <2>1, <3>2, KeptTypes
        <4>2. QED
          BY <1>1, <2>3, <2>4, <3>2, <4>1 DEF newer
      <3>3. QED
        BY <3>1, <3>2
    <2>7. \A e \in 0 .. view'[r] - 1 : e <= highest_tc'[r].view
      BY <1>1, <2>1, <2>4, <2>5, <2>6
    <2>8. \A n \in msgs' \ msgs : n.type = "AdvanceView" /\ n.kind = "TC"
      BY <2>1, <2>2, <2>3 DEF AdvanceView
    <2>9. QED
      BY <2>1, <2>5, <2>6, <2>7, <2>8, IncreaseSteps
  <1>6. ASSUME NEW r \in Replicas, Restart(r) PROVE FALSE
    <2>1. restarts[r] \in 0 .. 0
      BY DEF TypeInv, TypeOK
    <2>2. QED
      BY <1>6, <2>1 DEF Restart
  <1>7. ASSUME NEW r \in Replicas, Forge(r) PROVE IncreaseInv'
    <2>1. UNCHANGED <<view, error, highest_tc, highest_pc>>
      BY <1>7 DEF Forge, pacemaker
    <2>2. PICK v \in ForgedViews :
            \/ \E s \in Replicas : msgs' = msgs \cup {TimeoutVote(r, v, highest_tc[s])}
            \/ \E vs \in ValidatorSetsOfHistory :
                 msgs' = msgs \cup {AdvanceView(r, "TC", [view |-> v, signatures |-> signature_set(vs, Faulty)])}
      BY <1>7 DEF Forge
    <2>3. \A n \in msgs' \ msgs : /\ n.type = "TimeoutVote" => OfEpoch(n.highest_tc)
                                  /\ n.type = "AdvanceView" => n.kind = "TC"
      <3>1. CASE \E s \in Replicas : msgs' = msgs \cup {TimeoutVote(r, v, highest_tc[s])}
        BY <1>1, <3>1 DEF TimeoutVote
      <3>2. CASE \E vs \in ValidatorSetsOfHistory :
                 msgs' = msgs \cup {AdvanceView(r, "TC", [view |-> v, signatures |-> signature_set(vs, Faulty)])}
        BY <3>2 DEF AdvanceView
      <3>3. QED
        BY <2>2, <3>1, <3>2
    <2>4. QED
      BY <1>1, <2>1, <2>3, IncreaseSteps
  <1>8. CASE UNCHANGED vars
    BY <1>8 DEF vars, pacemaker, IncreaseInv, ViewsIncrease, OfEpoch, is_epoch_change_view
  <1>9. QED
    BY <1>2, <1>3, <1>4, <1>5, <1>6, <1>7, <1>8, PacemakerAssumption DEF Next, Receive, Handle

\* While views are only left by timeouts, that is while HotStuff certifies
\* nothing and nobody restarts, update_view is never asked for a view that is
\* not higher (no NonIncreasingViewError), faulty replicas or not.
THEOREM TimeoutsIncreaseViews ==
  ASSUME CertifiedViews = {}, MaxRestarts = 0
  PROVE  Spec => []ViewsIncrease
  <1>1. IncreaseInv => ViewsIncrease
    BY DEF IncreaseInv
  <1>2. Spec => [](PacemakerInv /\ TypeInv)
    BY InitTypes, TypeStep, PacemakerIsConsistent, PTL DEF Spec
  <1>3. Init => IncreaseInv
    <2> SUFFICES ASSUME Init PROVE IncreaseInv
      OBVIOUS
    <2>1. \A r \in Replicas : view[r] = 0 /\ highest_pc[r] = NoPC /\ highest_tc[r] = NoTC /\ error[r] = NoError
      BY DEF Init
    <2>2. 0 .. 0 - 1 = {}
      OBVIOUS
    <2>3. QED
      BY <2>1, <2>2 DEF Init, IncreaseInv, ViewsIncrease, OfEpoch, NoError
  <1>4. PacemakerInv /\ TypeInv /\ IncreaseInv /\ PacemakerInv' /\ TypeInv' /\ [Next]_vars => IncreaseInv'
    BY IncreaseStep
  <1>5. QED
    BY <1>1, <1>2, <1>3, <1>4, PTL DEF Spec
=============================================================================
