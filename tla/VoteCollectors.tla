--------------------------- MODULE VoteCollectors ---------------------------
(***************************************************************************)
(* Certificates and the collectors that votes are gathered in:             *)
(* src/types/signed_messages.rs, and is_correctly_signed, which phase and  *)
(* timeout certificates share.                                             *)
(*                                                                         *)
(* A certificate holds one optional signature per position of the          *)
(* validator set it was collected with; a signature is the signer's key.   *)
(* A collector is a record of its validator set and the votes it holds;    *)
(* what a vote is, and how one is collected, is left to its user.          *)
(***************************************************************************)
EXTENDS ValidatorSets

NoSignature == 0

\* The signature vector of a set of signers of a validator set.
signature_set(vs, signers) ==
  LET order == validators(vs) IN
  [i \in 1 .. Len(order) |-> IF order[i] \in signers THEN order[i] ELSE NoSignature]

is_correctly_signed(cert, vs) ==
  LET order   == validators(vs)
      signers == Range(cert.signatures) \ {NoSignature}
  IN  /\ Len(cert.signatures) = Len(order)
      /\ \A i \in DOMAIN order : cert.signatures[i] \in {order[i], NoSignature}
      /\ power_of(vs, signers) >= quorum(vs)

-----------------------------------------------------------------------------
(* ActiveCollectorPair: pvs is the set of the previous set's collector, or *)
(* empty.                                                                  *)

new_collector(vs) == [vs |-> vs, votes |-> {}]

new_pair(vss) ==
  [cvs |-> new_collector(vss.cvs),
   pvs |-> IF vss.update_decided THEN {} ELSE {new_collector(vss.pvs)}]

\* Collecting a vote returns the collector (col) and the certificates that the
\* vote completed (certs), one or none.  The committed set's collector collects
\* first, the previous set's only if no certificate came out of it.
collect_in(collect_with(_, _), pair, vote) ==
  LET c == collect_with(pair.cvs, vote) IN
  IF c.certs # {} \/ pair.pvs = {}
  THEN [pair |-> [pair EXCEPT !.cvs = c.col], certs |-> c.certs]
  ELSE LET p == collect_with(CHOOSE col \in pair.pvs : TRUE, vote)
       IN  [pair |-> [cvs |-> c.col, pvs |-> {p.col}], certs |-> p.certs]

update_validator_sets(pair, vss) ==
  LET cvs == IF vss.cvs # pair.cvs.vs THEN new_collector(vss.cvs) ELSE pair.cvs
      stale == pair.pvs = {} \/ \E col \in pair.pvs : col.vs # vss.pvs
      pvs == IF vss.update_decided /\ pair.pvs # {} THEN {}
             ELSE IF stale THEN {IF vss.pvs = cvs.vs THEN cvs ELSE new_collector(vss.pvs)}
             ELSE pair.pvs
  IN  [cvs |-> cvs, pvs |-> pvs]
=============================================================================
