--------------------------- MODULE ValidatorSets ---------------------------
(***************************************************************************)
(* Validator sets, the leader rotation and the roles of replicas:          *)
(* src/types/validator_set.rs, select_leader of src/pacemaker and          *)
(* src/hotstuff/roles.rs.                                                  *)
(*                                                                         *)
(* A verifying key is a positive natural number; the order of the numbers  *)
(* stands for the byte order in which ValidatorSet keeps its keys.  A      *)
(* validator set is a function from its validators to their powers.        *)
(*                                                                         *)
(* The operators on a validator set state take any record `vss` with the   *)
(* fields cvs (committed_validator_set), pvs (previous_validator_set),     *)
(* update_height and update_decided: the block tree's record has them.     *)
(***************************************************************************)
EXTENDS Integers, Sequences, FiniteSets, Functions

\* The power that a set of signers has in a validator set.
power_of(vs, signers) == SumFunctionOnSet(vs, signers \cap DOMAIN vs)

total_power(vs) == SumFunctionOnSet(vs, DOMAIN vs)

\* Seeded fault: two thirds of the power, rounded down, are enough.
quorum_two_thirds(vs) == (total_power(vs) * 2) \div 3

quorum(vs) == (total_power(vs) * 2) \div 3 + 1

\* Insertions first, then deletions, as in the code.
apply_updates(vs, updates) ==
  [v \in (DOMAIN vs \cup DOMAIN updates.inserts) \ updates.deletes |->
     IF v \in DOMAIN updates.inserts THEN updates.inserts[v] ELSE vs[v]]

\* The validators in ascending order of their keys.
validators(vs) ==
  [i \in 1 .. Cardinality(DOMAIN vs) |->
     CHOOSE v \in DOMAIN vs : Cardinality({w \in DOMAIN vs : w < v}) = i - 1]

-----------------------------------------------------------------------------
(* Leader selection: Interleaved Weighted Round Robin.                     *)

\* A slot <<t, v>> of the abstract array of leaders: v has a power of at
\* least t.  The array is ordered by threshold, then by key.
slots(vs) == UNION {(1 .. vs[v]) \X {v} : v \in DOMAIN vs}

precedes(s, t) == s[1] < t[1] \/ (s[1] = t[1] /\ s[2] < t[2])

select_leader(view, vs) ==
  LET all   == slots(vs)
      index == view % total_power(vs)
  IN  (CHOOSE s \in all : Cardinality({t \in all : precedes(t, s)}) = index)[2]

-----------------------------------------------------------------------------
(* Roles, as functions of the validator set state.                         *)

is_validator(replica, vss) ==
  \/ replica \in DOMAIN vss.cvs
  \/ ~vss.update_decided /\ replica \in DOMAIN vss.pvs

is_proposer(replica, view, vss) ==
  \/ replica = select_leader(view, vss.cvs)
  \/ ~vss.update_decided /\ replica = select_leader(view, vss.pvs)

is_phase_voter(replica, vss, justify) ==
  IF vss.update_decided \/ justify.phase = "Commit"
  THEN replica \in DOMAIN vss.cvs
  ELSE replica \in DOMAIN vss.pvs

\* The leader that collects the votes of a view is the leader of the next.
phase_vote_recipient(view, phase, vss) ==
  IF vss.update_decided \/ phase = "Decide"
  THEN select_leader(view + 1, vss.cvs)
  ELSE select_leader(view + 1, vss.pvs)

new_view_recipients(view, vss) ==
  {select_leader(view + 1, vss.cvs)} \cup
  (IF vss.update_decided THEN {} ELSE {select_leader(view + 1, vss.pvs)})
=============================================================================
