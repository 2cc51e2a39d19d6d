----------------------------- MODULE Pacemaker -----------------------------
(***************************************************************************)
(* The Pacemaker subprotocol of a network of replicas, driven by the main  *)
(* loop of src/algorithm.rs: tick, let HotStuff enter the view, receive    *)
(* one message.  Each action is one of these calls in full.                *)
(*                                                                         *)
(* Time is abstract: a deadline may have passed at any tick.  What is kept *)
(* of `timeouts` is the views that have a deadline, because update_view    *)
(* fails for one that has none.  A call that returns an error makes the    *)
(* algorithm thread panic: the replica takes no further step until it is   *)
(* restarted.                                                              *)
(*                                                                         *)
(* A replica may crash between any two calls.  When it restarts, the       *)
(* pacemaker starts from what the block tree has kept.                     *)
(*                                                                         *)
(* HotStuff is abstracted to its effects on what the pacemaker reads from  *)
(* the block tree: it enters the pacemaker's view, it may collect a phase  *)
(* certificate of the current view once a quorum has reached the view, and *)
(* it may change the validator set state along History.                    *)
(*                                                                         *)
(* The network is the set of messages sent, as in HotStuff.  A pacemaker   *)
(* message of the current view or a later one is handled when it arrives,  *)
(* one of a later view also again in that view (networking/receiving.rs).  *)
(***************************************************************************)
EXTENDS VoteCollectors

CONSTANTS
  Replicas,             \* the keys of the replicas, positive naturals
  Faulty,               \* the replicas that do not follow the code
  EpochLength,
  History,              \* the validator set states that the chain goes through
  MaxView,              \* bound: the highest view entered
  CertifiedViews,       \* bound: the views in which HotStuff may make progress
  ForgedViews,          \* bound: the views of forged messages
  MaxRestarts           \* bound: the restarts of each replica

VARIABLES
  view,                 \* view[r]: view_info.view
  timeouts,             \* timeouts[r]: the views with a deadline
  collectors,           \* collectors[r]: timeout_vote_collectors
  last_advance_view,    \* last_advance_view[r]
  error,                \* error[r]: the error that r has panicked with
  ticked,               \* ticked[r]: the main loop is between tick and recv
  started,              \* started[r]: the view that r started in, last time
  restarts,             \* restarts[r]: how often r was restarted
  highest_tc,           \* highest_tc[r], of the block tree
  highest_pc,           \* highest_pc[r], of the block tree
  highest_view_entered, \* highest_view_entered[r], of the block tree
  update,               \* update[r]: the place of r in History
  msgs                  \* every message sent

pacemaker == <<view, timeouts, collectors, last_advance_view, error>>
life == <<started, restarts>>
vars == <<pacemaker, ticked, life, highest_tc, highest_pc, highest_view_entered, update, msgs>>

None == -1
NoTC == [view |-> None, signatures |-> <<>>]
NoPC == [view |-> None, vs |-> <<>>]      \* the genesis PC
NoError == "none"

ASSUME PacemakerAssumption ==
  /\ Replicas \subseteq Nat \ {0} /\ IsFiniteSet(Replicas)
  /\ Faulty \subseteq Replicas
  /\ EpochLength \in Nat \ {0}
  /\ MaxView \in Nat
  /\ ForgedViews \subseteq Nat
  /\ MaxRestarts \in Nat
  /\ Len(History) \in Nat \ {0} /\ DOMAIN History = 1 .. Len(History)
  /\ \A i \in DOMAIN History :
       /\ DOMAIN History[i].cvs \subseteq Replicas /\ DOMAIN History[i].pvs \subseteq Replicas
       /\ History[i].cvs \in [DOMAIN History[i].cvs -> Nat]
       /\ History[i].pvs \in [DOMAIN History[i].pvs -> Nat]

ValidatorSetsOfHistory ==
  {History[i].cvs : i \in DOMAIN History} \cup {History[i].pvs : i \in DOMAIN History}

\* The validator set state of r.
vss(r) == History[update[r]]

-----------------------------------------------------------------------------
(* Epochs.                                                                 *)

is_epoch_change_view(v) == v % EpochLength = 0

epoch(v) == (v + EpochLength - 1) \div EpochLength

-----------------------------------------------------------------------------
(* TimeoutCertificates and TimeoutVoteCollectors.                          *)

\* Seeded fault: the signatures are not checked.
is_correct_unsigned(tc, r) == TRUE

is_correct(tc, r) ==
  \/ is_correctly_signed(tc, vss(r).cvs)
  \/ ~vss(r).update_decided /\ is_correctly_signed(tc, vss(r).pvs)

\* Seeded fault: votes of replicas outside the validator set are collected.
collect_of_anyone(col, vote, v) ==
  LET signers == col.votes \cup {vote.from} IN
  IF vote.view # v \/ vote.from \in col.votes
  THEN [col |-> col, certs |-> {}]
  ELSE [col   |-> [col EXCEPT !.votes = signers],
        certs |-> IF power_of(col.vs, signers) < quorum(col.vs) THEN {}
                  ELSE {[view |-> v, signatures |-> signature_set(col.vs, signers)]}]

\* A collector of view v holds the signers of the votes collected.  It keeps
\* them after a certificate, so that every further vote completes another.
collect_timeout(col, vote, v) ==
  LET signers == col.votes \cup {vote.from} IN
  IF vote.view # v \/ vote.from \notin DOMAIN col.vs \/ vote.from \in col.votes
  THEN [col |-> col, certs |-> {}]
  ELSE [col   |-> [col EXCEPT !.votes = signers],
        certs |-> IF power_of(col.vs, signers) < quorum(col.vs) THEN {}
                  ELSE {[view |-> v, signatures |-> signature_set(col.vs, signers)]}]

collect(r, vote) ==
  LET collect_one(col, m) == collect_timeout(col, m, view[r])
  IN  collect_in(collect_one, collectors[r], vote)

-----------------------------------------------------------------------------
(* Messages.                                                               *)

TimeoutVote(r, v, tc) == [type |-> "TimeoutVote", from |-> r, view |-> v, highest_tc |-> tc]

AdvanceView(r, kind, cert) ==
  [type |-> "AdvanceView", from |-> r, view |-> cert.view, kind |-> kind, cert |-> cert]

\* Seeded fault: a replica broadcasts one AdvanceView in its life.
MayAdvanceOnce(r) == last_advance_view[r] = None

\* r has not broadcast an AdvanceView in its current view.  A replica that has
\* never done so has last_advance_view None, which is below every view.
MayAdvance(r) == last_advance_view[r] < view[r]

-----------------------------------------------------------------------------
(* update_view, with the errors it returns.  What else is left of the      *)
(* state of a replica that panics is not looked at.                        *)

\* Seeded fault: the pacemaker always starts in the first epoch.
initial_timeouts_first_epoch(v) == v .. EpochLength

\* The views that have a deadline when the pacemaker starts in view v.
initial_timeouts(v) == v .. epoch(v) * EpochLength

\* Entering a view of another epoch gives the rest of that epoch deadlines.
update_timeouts(r, next) ==
  {v \in timeouts[r] : v >= next} \cup next .. epoch(next) * EpochLength

\* Seeded fault: the votes collected in the view left are kept.
collectors_kept(r) == collectors[r]

new_collectors(r) == new_pair(vss(r))

UpdateView(r, next) ==
  LET increasing == next > view[r]
      known == IF epoch(view[r]) = epoch(next) THEN timeouts[r] ELSE update_timeouts(r, next)
      entering == increasing /\ next \in known
  IN  /\ error' = [error EXCEPT ![r] = CASE ~increasing -> "NonIncreasingViewError"
                                         [] increasing /\ ~entering -> "GetViewTimeoutError"
                                         [] entering -> NoError]
      /\ timeouts' = [timeouts EXCEPT ![r] = IF increasing THEN known ELSE @]
      /\ view' = [view EXCEPT ![r] = IF entering THEN next ELSE @]
      /\ collectors' = [collectors EXCEPT ![r] = IF entering THEN new_collectors(r) ELSE @]

\* The deadline of the view is set again.
extend_view(r) == timeouts[r] \cup {view[r]}

-----------------------------------------------------------------------------
(* The first half of an iteration of the main loop: tick, then enter_view  *)
(* of HotStuff if the view is new: HotStuff starts in the pacemaker's view *)
(* without entering it.                                                    *)

Ticks(r) ==
  /\ error[r] = NoError
  /\ ~ticked[r]
  /\ ticked' = [ticked EXCEPT ![r] = TRUE]
  /\ highest_view_entered' = [highest_view_entered EXCEPT
                                ![r] = IF view'[r] = started[r] THEN @ ELSE view'[r]]
  /\ UNCHANGED <<life, highest_tc, highest_pc, update>>

\* The deadline of an epoch-change view has passed.
TickTimeoutVote(r) ==
  /\ is_epoch_change_view(view[r])
  /\ msgs' = msgs \cup
       IF is_validator(r, vss(r)) THEN {TimeoutVote(r, view[r], highest_tc[r])} ELSE {}
  /\ timeouts' = [timeouts EXCEPT ![r] = extend_view(r)]
  /\ UNCHANGED <<view, collectors, last_advance_view, error>>
  /\ Ticks(r)

\* Seeded fault: an epoch-change view is left like any other.
TickNextViewAlways(r) ==
  /\ view[r] < MaxView
  /\ UpdateView(r, view[r] + 1)
  /\ UNCHANGED <<last_advance_view, msgs>>
  /\ Ticks(r)

\* The deadline of another view has passed.
TickNextView(r) ==
  /\ ~is_epoch_change_view(view[r])
  /\ view[r] < MaxView
  /\ UpdateView(r, view[r] + 1)
  /\ UNCHANGED <<last_advance_view, msgs>>
  /\ Ticks(r)

\* No deadline has passed.
TickInTime(r) ==
  LET advancing == /\ highest_pc[r].view >= view[r]
                   /\ highest_pc[r] # NoPC
                   /\ is_validator(r, vss(r))
                   /\ MayAdvance(r)
  IN  /\ collectors' = [collectors EXCEPT ![r] = update_validator_sets(@, vss(r))]
      /\ msgs' = msgs \cup IF advancing THEN {AdvanceView(r, "PC", highest_pc[r])} ELSE {}
      /\ last_advance_view' = [last_advance_view EXCEPT ![r] = IF advancing THEN view[r] ELSE @]
      /\ UNCHANGED <<view, timeouts, error>>
      /\ Ticks(r)

-----------------------------------------------------------------------------
(* The second half: recv and the handler of the message received.          *)

Receives(r) ==
  /\ error[r] = NoError
  /\ ticked[r]
  /\ ticked' = [ticked EXCEPT ![r] = FALSE]
  /\ UNCHANGED <<life, highest_view_entered>>

\* Nothing arrives in time, or a message that is ignored.
ReceiveNothing(r) ==
  /\ UNCHANGED <<pacemaker, highest_tc, highest_pc, update, msgs>>
  /\ Receives(r)

\* Seeded fault: a certificate of the same view counts as newer.
newer_or_equal(tc, r) == tc.view >= highest_tc[r].view

newer(tc, r) == tc.view > highest_tc[r].view

\* A vote that may be collected.
IsVoteFor(r, m) ==
  /\ m \in msgs
  /\ m.type = "TimeoutVote"
  /\ m.view >= view[r]
  /\ is_validator(m.from, vss(r))
  /\ is_epoch_change_view(m.view)

\* The vote completes a certificate.  The condition for broadcasting it is
\* that of the code: && binds more tightly than ||.
OnReceiveTimeoutVoteCollect(r, m) ==
  LET c == collect(r, m) IN
  /\ IsVoteFor(r, m)
  /\ collectors' = [collectors EXCEPT ![r] = c.pair]
  /\ \E tc \in c.certs :
       LET advancing == /\ newer(tc, r)
                        /\ \/ is_validator(r, vss(r)) /\ last_advance_view[r] = None
                           \/ last_advance_view[r] # None /\ MayAdvance(r)
       IN  /\ highest_tc' = [highest_tc EXCEPT ![r] = IF newer(tc, r) THEN tc ELSE @]
           /\ msgs' = msgs \cup IF advancing THEN {AdvanceView(r, "TC", tc)} ELSE {}
           /\ last_advance_view' = [last_advance_view EXCEPT ![r] = IF advancing THEN view[r] ELSE @]
  /\ UNCHANGED <<view, timeouts, error, highest_pc, update>>
  /\ Receives(r)

\* It does not, and it brings a certificate that r did not have.
OnReceiveTimeoutVoteFallback(r, m) ==
  /\ IsVoteFor(r, m)
  /\ collect(r, m).certs = {}
  /\ m.highest_tc # NoTC
  /\ is_correct(m.highest_tc, r)
  /\ newer(m.highest_tc, r)
  /\ m.highest_tc.view < MaxView
  /\ highest_tc' = [highest_tc EXCEPT ![r] = m.highest_tc]
  /\ UpdateView(r, m.highest_tc.view + 1)
  /\ UNCHANGED <<last_advance_view, highest_pc, update, msgs>>
  /\ Receives(r)

\* It does not, and brings nothing new.
OnReceiveTimeoutVoteOnly(r, m) ==
  LET c == collect(r, m) IN
  /\ IsVoteFor(r, m)
  /\ c.certs = {}
  /\ m.highest_tc # NoTC => ~is_correct(m.highest_tc, r) \/ ~newer(m.highest_tc, r)
  /\ collectors' = [collectors EXCEPT ![r] = c.pair]
  /\ UNCHANGED <<view, timeouts, last_advance_view, error, highest_tc, highest_pc, update, msgs>>
  /\ Receives(r)

\* Phase certificates are judged by the sets that may have signed them: which
\* of the two it is depends on block heights, which are not in this module.
IsValid(r, m) ==
  IF m.kind = "PC" THEN m.cert.vs \in {vss(r).cvs, vss(r).pvs}
  ELSE is_correct(m.cert, r) /\ is_epoch_change_view(m.cert.view)

OnReceiveAdvanceView(r, m) ==
  LET advancing == is_validator(r, vss(r)) /\ MayAdvance(r)
      learning  == m.kind = "TC" /\ newer(m.cert, r)
  IN  /\ m \in msgs
      /\ m.type = "AdvanceView"
      /\ m.view >= view[r]
      /\ m.view < MaxView
      /\ is_validator(m.from, vss(r))
      /\ IsValid(r, m)
      /\ highest_tc' = [highest_tc EXCEPT ![r] = IF learning THEN m.cert ELSE @]
      /\ msgs' = msgs \cup IF advancing THEN {[m EXCEPT !.from = r]} ELSE {}
      /\ last_advance_view' = [last_advance_view EXCEPT ![r] = IF advancing THEN view[r] ELSE @]
      /\ UpdateView(r, m.view + 1)
      /\ UNCHANGED <<highest_pc, update>>
      /\ Receives(r)

-----------------------------------------------------------------------------
(* What HotStuff does with a message, as far as the pacemaker sees it.     *)

\* The replicas that may have voted in view v.
MayHaveVoted(v) == {s \in Replicas : highest_view_entered[s] >= v \/ started[s] >= v} \cup Faulty

\* Nothing is proposed in view 0, which replicas start in without entering it.
HotStuffCertifies(r) ==
  /\ view[r] \in CertifiedViews \ {0}
  /\ highest_pc[r].view < view[r]
  /\ \E vs \in {vss(r).cvs, vss(r).pvs} :
       /\ power_of(vs, MayHaveVoted(view[r])) >= quorum(vs)
       /\ highest_pc' = [highest_pc EXCEPT ![r] = [view |-> view[r], vs |-> vs]]
  /\ UNCHANGED <<pacemaker, highest_tc, update, msgs>>
  /\ Receives(r)

HotStuffUpdates(r) ==
  /\ update[r] < Len(History)
  /\ update' = [update EXCEPT ![r] = @ + 1]
  /\ UNCHANGED <<pacemaker, highest_tc, highest_pc, msgs>>
  /\ Receives(r)

-----------------------------------------------------------------------------
(* Faulty replicas do not run the code.  They send votes for any view,     *)
(* with any certificate there is, and certificates that only they signed.  *)

Forge(r) ==
  /\ \E v \in ForgedViews :
       \/ \E s \in Replicas : msgs' = msgs \cup {TimeoutVote(r, v, highest_tc[s])}
       \/ \E vs \in ValidatorSetsOfHistory :
            LET tc == [view |-> v, signatures |-> signature_set(vs, Faulty)]
            IN  msgs' = msgs \cup {AdvanceView(r, "TC", tc)}
  /\ UNCHANGED <<pacemaker, ticked, life, highest_tc, highest_pc, highest_view_entered, update>>

-----------------------------------------------------------------------------
(* Crashes.                                                                *)

\* The first view of a replica, from what its block tree holds.
init_view(r) ==
  LET progress == {highest_view_entered[r], highest_pc[r].view, highest_tc[r].view}
      highest  == CHOOSE v \in progress : \A w \in progress : w <= v
  IN  IF highest = 0 THEN 0 ELSE highest + 1

\* r stops, in whatever state, and is started again: Algorithm::new.
Restart(r) ==
  /\ restarts[r] < MaxRestarts
  /\ init_view(r) <= MaxView
  /\ restarts' = [restarts EXCEPT ![r] = @ + 1]
  /\ started' = [started EXCEPT ![r] = init_view(r)]
  /\ view' = [view EXCEPT ![r] = init_view(r)]
  /\ timeouts' = [timeouts EXCEPT ![r] = initial_timeouts(init_view(r))]
  /\ collectors' = [collectors EXCEPT ![r] = new_collectors(r)]
  /\ last_advance_view' = [last_advance_view EXCEPT ![r] = None]
  /\ error' = [error EXCEPT ![r] = IF init_view(r) \in timeouts'[r] THEN NoError
                                    ELSE "GetViewTimeoutError"]
  /\ ticked' = [ticked EXCEPT ![r] = FALSE]
  /\ UNCHANGED <<highest_tc, highest_pc, highest_view_entered, update, msgs>>

-----------------------------------------------------------------------------

Init ==
  /\ view = [r \in Replicas |-> 0]
  /\ timeouts = [r \in Replicas |-> initial_timeouts(0)]
  /\ update = [r \in Replicas |-> 1]
  /\ collectors = [r \in Replicas |-> new_pair(History[1])]
  /\ last_advance_view = [r \in Replicas |-> None]
  /\ error = [r \in Replicas |-> NoError]
  /\ ticked = [r \in Replicas |-> FALSE]
  /\ started = [r \in Replicas |-> 0]
  /\ restarts = [r \in Replicas |-> 0]
  /\ highest_tc = [r \in Replicas |-> NoTC]
  /\ highest_pc = [r \in Replicas |-> NoPC]
  /\ highest_view_entered = [r \in Replicas |-> 0]
  /\ msgs = {}

Tick(r) == TickTimeoutVote(r) \/ TickNextView(r) \/ TickInTime(r)

OnReceiveTimeoutVote(r, m) ==
  \/ OnReceiveTimeoutVoteCollect(r, m)
  \/ OnReceiveTimeoutVoteFallback(r, m)
  \/ OnReceiveTimeoutVoteOnly(r, m)

Handle(r) == \E m \in msgs : OnReceiveTimeoutVote(r, m) \/ OnReceiveAdvanceView(r, m)

Receive(r) ==
  \/ ReceiveNothing(r)
  \/ Handle(r)
  \/ HotStuffCertifies(r)
  \/ HotStuffUpdates(r)

Next ==
  \/ \E r \in Replicas \ Faulty : Tick(r) \/ Receive(r) \/ Restart(r)
  \/ \E r \in Faulty : Forge(r)

Spec == Init /\ [][Next]_vars

\* The main loop of a correct replica goes on; time passes, so that a replica
\* that stays in a view sees its deadline pass; and while there are messages
\* that make a difference, one of them is handled: messages may be late but
\* arrive, and votes are repeated whenever an epoch-change view times out.
FairReplica(r) ==
  /\ WF_vars(Tick(r) \/ Receive(r))
  /\ SF_vars(TickTimeoutVote(r) \/ TickNextView(r))
  /\ SF_pacemaker(Handle(r))

FairSpec == Spec /\ \A r \in Replicas \ Faulty : FairReplica(r)

-----------------------------------------------------------------------------
(* Properties.                                                             *)

TimeoutCertificates == [view : Nat, signatures : Seq(Replicas \cup {NoSignature})] \cup {NoTC}

IsCollector(col) == col.vs \in ValidatorSetsOfHistory /\ col.votes \subseteq DOMAIN col.vs

\* Every variable has its type, and a collector holds signatures of validators
\* of its own set only (TimeoutVoteCollector::collect for both active sets).
TypeOK ==
  /\ view \in [Replicas -> 0 .. MaxView]
  /\ timeouts \in [Replicas -> SUBSET Nat]
  /\ \A r \in Replicas :
       IsCollector(collectors[r].cvs) /\ \A col \in collectors[r].pvs : IsCollector(col)
  /\ last_advance_view \in [Replicas -> Nat \cup {None}]
  /\ error \in [Replicas -> {NoError, "NonIncreasingViewError", "GetViewTimeoutError"}]
  /\ ticked \in [Replicas -> BOOLEAN]
  /\ highest_tc \in [Replicas -> TimeoutCertificates]
  /\ highest_pc \in [Replicas -> {NoPC} \cup [view : Nat, vs : ValidatorSetsOfHistory]]
  /\ highest_view_entered \in [Replicas -> 0 .. MaxView]
  /\ started \in [Replicas -> 0 .. MaxView]
  /\ restarts \in [Replicas -> 0 .. MaxRestarts]
  /\ update \in [Replicas -> DOMAIN History]

Senders(v) == {m.from : m \in {n \in msgs : n.type = "TimeoutVote" /\ n.view = v}}

\* "Leaving an Epoch-Change View after it has timed out requires an explicit
\* voting step": whoever is beyond an epoch-change view has a quorum behind it
\* that timed out in an epoch-change view at or above it, or that reached a
\* view at or above it in which HotStuff could make progress.  Only a restart
\* takes a replica out of an epoch-change view without one (init_view).
EpochsLeftByQuorum ==
  \A r \in Replicas \ Faulty : \A e \in {v \in started[r] .. view[r] - 1 : is_epoch_change_view(v)} :
    \E vs \in ValidatorSetsOfHistory, v \in e .. MaxView :
      \/ power_of(vs, Senders(v) \cup Faulty) >= quorum(vs)
      \/ v > 0 /\ power_of(vs, MayHaveVoted(v)) >= quorum(vs)

KnownTCs ==
  {highest_tc[r] : r \in Replicas}
  \cup {m.highest_tc : m \in {n \in msgs : n.type = "TimeoutVote"}}
  \cup {m.cert : m \in {n \in msgs : n.type = "AdvanceView" /\ n.kind = "TC"}}

\* Whoever's signature is in a TimeoutCertificate has voted to leave its view,
\* also when replicas collect votes for one view and leave it by a certificate
\* that others collected (the new collectors of update_view).
TimeoutCertificatesAreVotedFor ==
  \A tc \in KnownTCs : Range(tc.signatures) \ {NoSignature} \subseteq Senders(tc.view) \cup Faulty

\* "The Pacemaker should be able to provide the timeout of any view": every
\* view that update_view is asked for has a deadline, across the boundaries of
\* epochs, when views are skipped and after a restart in the middle of an
\* epoch (GetViewTimeoutError).
DeadlineKnown == \A r \in Replicas : error[r] # "GetViewTimeoutError"

\* Replicas "get going again when there's again a quorum of validators in the
\* view": unless one of them panics, all correct replicas leave every
\* epoch-change view within the bound.
ReplicasGetGoing ==
  <>(\/ \E r \in Replicas : error[r] # NoError
     \/ \A r \in Replicas \ Faulty : \A e \in 0 .. MaxView - 1 : is_epoch_change_view(e) => view[r] > e)

\* update_view "should only be called if next_view is greater than the current
\* view".  It holds as long as views are only left by timeouts; a replica that
\* left one by a PC is asked to go back by a TimeoutVote with the TC that it
\* has not seen (on_receive_timeout_vote).
ViewsIncrease == \A r \in Replicas : error[r] # "NonIncreasingViewError"
=============================================================================
