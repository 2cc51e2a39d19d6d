----------------------------- MODULE CommonChain -----------------------------
(***************************************************************************)
(* What the library promises its users: the replicas that follow the code  *)
(* commit the blocks of one growing chain.  Each holds a part of it from   *)
(* height 0 up, which only gets longer, and which another replica may have *)
(* got ahead of or fallen behind.                                          *)
(***************************************************************************)
EXTENDS Integers

CONSTANT
  Members               \* the replicas that follow the code

VARIABLE
  chain                 \* chain[r][h] is the block that r has committed at height h

\* From height 0 up, without gaps.
IsChain(blocks) == \A h \in DOMAIN blocks : h \in Nat /\ 0 .. h \subseteq DOMAIN blocks

\* Two parts of one chain.
Agrees(blocks, others) == \A h \in DOMAIN blocks \cap DOMAIN others : blocks[h] = others[h]

Extends(longer, blocks) == DOMAIN blocks \subseteq DOMAIN longer /\ Agrees(longer, blocks)

Init == chain = [r \in Members |-> [h \in {} |-> 0]]

\* r commits the next blocks of the chain: those that others have committed
\* already, or new ones.
Commit(r) ==
  /\ IsChain(chain'[r])
  /\ Extends(chain'[r], chain[r])
  /\ \A s \in Members \ {r} : Agrees(chain'[r], chain[s])
  /\ chain' = [chain EXCEPT ![r] = chain'[r]]

Next == \E r \in Members : Commit(r)

Spec == Init /\ [][Next]_chain
=============================================================================
