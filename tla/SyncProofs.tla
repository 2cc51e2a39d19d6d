----------------------------- MODULE SyncProofs -----------------------------
(***************************************************************************)
(* What holds of block sync, for every set of servers and whatever those   *)
(* that are not honest do.  In two parts:                                  *)
(*                                                                         *)
(* The account that the client keeps of its servers: a sync runs with a    *)
(* server that is registered, has promised enough, and is not blacklisted. *)
(*                                                                         *)
(* Agreement of chains: if the certificates of quorums commit one chain    *)
(* (CertificatesAssumption), then whatever the trees of the client and the *)
(* honest servers have committed is of that chain.  The invariant is that  *)
(* a tree holds blocks of Contents and certificates that were sent, and    *)
(* that each committed block is an ancestor of a block that such a         *)
(* certificate commits; lineages are walked block by block.                *)
(***************************************************************************)
EXTENDS BlockSync, FiniteTheorems

Entries == [server : Servers, expired : BOOLEAN]

\* Promises are heights and are only kept of servers.
RegistryOK ==
  /\ DOMAIN available \subseteq Servers
  /\ \A s \in DOMAIN available : available[s] \in Nat
  /\ blacklist \in Seq(Entries)

\* Nobody is both available and blacklisted.
Disjoint == \A s \in DOMAIN available : ~blacklist_contains(s)

\* The fields of a call of sync_with that do not change.
IsCall(call) == {"peer", "init_height"} \subseteq DOMAIN call

\* sync_with keeps the algorithm thread: nothing is received meanwhile.
SessionOK ==
  /\ session # {} => at = "sync"
  /\ \A call \in session : IsCall(call)

\* The inductive invariant.
SyncInv == RegistryOK /\ Disjoint /\ SessionOK /\ PromiseCoversStart

-----------------------------------------------------------------------------

\* sync starts with a server whose promise covers what the client has.
LEMMA SyncStarts ==
  ASSUME SyncInv, NEW next \in {"recv", "tick"}, at \in {"recv", "tick"}, Sync(next), UNCHANGED available
  PROVE  SessionOK' /\ PromiseCoversStart'
  <1>1. session = {}
    BY DEF SyncInv, SessionOK
  <1>2. CASE sync_servers(available) = {} /\ UNCHANGED session
    BY <1>1, <1>2 DEF SessionOK, PromiseCoversStart
  <1>3. CASE at' = "sync" /\ \E s \in sync_servers(available) :
               session' = {[peer |-> s, init_height |-> committed_height(Client), synced |-> 0, next |-> next,
                            blocks |-> <<>>, stored |-> FALSE, highest_pc |-> genesis_pc]}
    <2>1. PICK s \in sync_servers(available) :
            session' = {[peer |-> s, init_height |-> committed_height(Client), synced |-> 0, next |-> next,
                         blocks |-> <<>>, stored |-> FALSE, highest_pc |-> genesis_pc]}
      BY <1>3
    <2>2. SessionOK'
      BY <1>3, <2>1 DEF SessionOK, IsCall
    <2>3. s \in DOMAIN available /\ available[s] >= committed_height(Client)
      <3>1. CASE tree[Client].highest_committed_block = NoBlock
        BY <3>1 DEF sync_servers, committed_height, SyncInv, RegistryOK
      <3>2. CASE tree[Client].highest_committed_block # NoBlock
        BY <3>2 DEF sync_servers
      <3>3. QED
        BY <3>1, <3>2
    <2>4. \A call \in session' : call.peer = s /\ call.init_height = committed_height(Client)
      BY <2>1
    <2>5. QED
      BY <2>2, <2>3, <2>4 DEF PromiseCoversStart
  <1>4. QED
    BY <1>2, <1>3 DEF Sync

\* Blacklisting a server takes it off the available ones.
LEMMA BlacklistStep ==
  ASSUME SyncInv, NEW s \in Servers, Blacklist(s)
  PROVE  RegistryOK' /\ Disjoint'
  <1>1. available' = [t \in DOMAIN available \ {s} |-> available[t]]
    BY DEF Blacklist, unregistered
  <1>2. blacklist \in Seq(Entries) /\ blacklist' = Append(blacklist, [server |-> s, expired |-> FALSE])
    BY DEF Blacklist, SyncInv, RegistryOK
  <1>3. [server |-> s, expired |-> FALSE] \in Entries
    BY DEF Entries
  <1>4. RegistryOK'
    BY <1>1, <1>2, <1>3 DEF SyncInv, RegistryOK
  <1>5. \A i \in DOMAIN blacklist' : \/ i \in DOMAIN blacklist /\ blacklist'[i] = blacklist[i]
                                     \/ blacklist'[i].server = s
    BY <1>2, <1>3
  <1>6. QED
    BY <1>1, <1>4, <1>5 DEF SyncInv, Disjoint, blacklist_contains

\* What remove_expired_blacklisted_servers leaves was there before.
LEMMA RemovedFrom ==
  ASSUME SyncInv, blacklist' = remove_expired_blacklisted_servers
  PROVE  /\ blacklist' \in Seq(Entries)
         /\ \A s : blacklist_contains(s)' => blacklist_contains(s)
  <1> DEFINE kept == {i \in DOMAIN blacklist : blacklist[i].expired}
             first == CHOOSE i \in kept : \A j \in kept : i <= j
  <1>1. blacklist \in Seq(Entries)
    BY DEF SyncInv, RegistryOK
  <1>2. CASE kept = {}
    <2>1. blacklist' = <<>>
      BY <1>2 DEF remove_expired_blacklisted_servers
    <2>2. QED
      BY <2>1 DEF blacklist_contains
  <1>3. CASE kept # {}
    <2>1. blacklist' = SubSeq(blacklist, first, Len(blacklist))
      BY <1>3 DEF remove_expired_blacklisted_servers
    <2>2. \E i \in kept : \A j \in kept : i <= j
      <3>1. kept \subseteq Nat
        BY <1>1
      <3> HIDE DEF kept
      <3>2. QED
        BY <1>3, <3>1, Minimum
    <2>3. first \in DOMAIN blacklist
      BY <2>2
    <2> HIDE DEF first
    <2>4. first \in 1 .. Len(blacklist)
      BY <1>1, <2>3
    <2>5. blacklist' \in Seq(Entries) /\ Len(blacklist') = Len(blacklist) - first + 1
      BY <1>1, <2>1, <2>4
    <2>6. \A i \in DOMAIN blacklist' : i + first - 1 \in DOMAIN blacklist /\ blacklist'[i] = blacklist[i + first - 1]
      BY <1>1, <2>1, <2>4, <2>5
    <2>7. QED
      BY <2>5, <2>6 DEF blacklist_contains
  <1>4. QED
    BY <1>2, <1>3

-----------------------------------------------------------------------------
(* The actions.                                                            *)

\* Steps that leave the client alone, and responses that it drops.
LEMMA ElsewhereStep ==
  ASSUME SyncInv, UNCHANGED client
  PROVE  SyncInv'
  BY DEF SyncInv, client, RegistryOK, Disjoint, SessionOK, IsCall, PromiseCoversStart, blacklist_contains

\* Receiving nothing, or a proposal.
LEMMA ReceiveStep ==
  ASSUME SyncInv, ReceiveNothing \/ OnReceiveProposal
  PROVE  SyncInv'
  <1>1. at = "recv" /\ at' = "tick" /\ UNCHANGED <<available, blacklist, session>>
    BY DEF ReceiveNothing, OnReceiveProposal, Receives
  <1>2. session = {}
    BY <1>1 DEF SyncInv, SessionOK
  <1>3. QED
    BY <1>1, <1>2 DEF SyncInv, RegistryOK, Disjoint, SessionOK, PromiseCoversStart, blacklist_contains

\* on_receive_advertise_block registers a server that is not blacklisted.
LEMMA AdvertiseBlockStep ==
  ASSUME SyncInv, NEW s \in Servers, OnReceiveAdvertiseBlock(s)
  PROVE  SyncInv'
  <1>1. at = "recv" /\ ~blacklist_contains(s) /\ UNCHANGED <<blacklist, session>>
    BY DEF OnReceiveAdvertiseBlock, Receives
  <1>2. PICK h \in advertised_heights(s) :
          available' = [t \in DOMAIN available \cup {s} |-> IF t = s THEN h ELSE available[t]]
    BY DEF OnReceiveAdvertiseBlock
  <1>3. h \in Nat
    BY SyncAssumption DEF advertised_heights
  <1>4. session = {}
    BY <1>1 DEF SyncInv, SessionOK
  <1>5. RegistryOK'
    BY <1>1, <1>2, <1>3 DEF SyncInv, RegistryOK
  <1>6. Disjoint'
    BY <1>1, <1>2 DEF SyncInv, Disjoint, blacklist_contains
  <1>7. QED
    BY <1>1, <1>4, <1>5, <1>6 DEF SyncInv, SessionOK, PromiseCoversStart

\* on_receive_advertise_pc may start a sync.
LEMMA AdvertisePCStep ==
  ASSUME SyncInv, NEW s \in Servers, OnReceiveAdvertisePC(s)
  PROVE  SyncInv'
  <1>1. at = "recv" /\ Sync("tick") /\ UNCHANGED <<available, blacklist>>
    BY DEF OnReceiveAdvertisePC, Receives
  <1>2. SessionOK' /\ PromiseCoversStart'
    BY <1>1, SyncStarts
  <1>3. QED
    BY <1>1, <1>2 DEF SyncInv, RegistryOK, Disjoint, blacklist_contains

\* tick shortens the blacklist and may start a sync.
LEMMA TickStep ==
  ASSUME SyncInv, Tick
  PROVE  SyncInv'
  <1>1. at = "tick" /\ blacklist' = remove_expired_blacklisted_servers /\ UNCHANGED available
    BY DEF Tick
  <1>2. RegistryOK' /\ Disjoint'
    BY <1>1, RemovedFrom DEF SyncInv, RegistryOK, Disjoint
  <1>3. CASE Sync("recv")
    BY <1>1, <1>2, <1>3, SyncStarts DEF SyncInv
  <1>4. CASE UNCHANGED session
    <2>1. session = {}
      BY <1>1 DEF SyncInv, SessionOK
    <2>2. QED
      BY <1>2, <1>4, <2>1 DEF SyncInv, SessionOK, PromiseCoversStart
  <1>5. QED
    BY <1>3, <1>4 DEF Tick

\* The steps with which sync_with goes on keep its peer and its start.
LEMMA GoOnStep ==
  ASSUME SyncInv, OnResponseWithBlocks \/ SyncBlock
  PROVE  SyncInv'
  <1>1. UNCHANGED <<available, blacklist, at>>
    BY DEF OnResponseWithBlocks, SyncBlock
  <1>2. PICK call \in session :
          \A c \in session' : IsCall(c) /\ c.peer = call.peer /\ c.init_height = call.init_height
    <2>1. CASE OnResponseWithBlocks
      <3> DEFINE response == Head(responses)
      <3>1. PICK call \in Waiting :
              session' = {[call EXCEPT !.blocks = new_blocks(response.blocks), !.stored = response.stored,
                                       !.highest_pc = response.highest_pc]}
        BY <2>1 DEF OnResponseWithBlocks
      <3>2. call \in session /\ IsCall(call)
        BY DEF Waiting, SyncInv, SessionOK
      <3> DEFINE next == [call EXCEPT !.blocks = new_blocks(response.blocks), !.stored = response.stored,
                                      !.highest_pc = response.highest_pc]
      <3>3. IsCall(next) /\ next.peer = call.peer /\ next.init_height = call.init_height
        BY <3>2 DEF IsCall
      <3>4. session' = {next}
        BY <3>1
      <3> HIDE DEF next
      <3>5. QED
        BY <3>2, <3>3, <3>4
    <2>2. CASE SyncBlock
      <3>1. PICK call \in session \ Waiting :
              session' = {[call EXCEPT !.blocks = Tail(@), !.synced = counted(@ + 1, call.peer)]}
        BY <2>2 DEF SyncBlock
      <3>2. IsCall(call)
        BY DEF SyncInv, SessionOK
      <3> DEFINE next == [call EXCEPT !.blocks = Tail(@), !.synced = counted(@ + 1, call.peer)]
      <3>3. IsCall(next) /\ next.peer = call.peer /\ next.init_height = call.init_height
        BY <3>2 DEF IsCall
      <3>4. session' = {next}
        BY <3>1
      <3> HIDE DEF next
      <3>5. QED
        BY <3>2, <3>3, <3>4
    <2>3. QED
      BY <2>1, <2>2
  <1>3. IsCall(call) /\ at = "sync" /\ call.peer \in DOMAIN available /\ available[call.peer] >= call.init_height
    BY DEF SyncInv, SessionOK, PromiseCoversStart
  <1>4. SessionOK' /\ PromiseCoversStart'
    BY <1>1, <1>2, <1>3 DEF SessionOK, PromiseCoversStart, IsCall
  <1>5. QED
    BY <1>1, <1>4 DEF SyncInv, RegistryOK, Disjoint, blacklist_contains

\* The steps that end it may blacklist the peer.
LEMMA EndStep ==
  ASSUME SyncInv, NEW call \in session, EndSync(call),
         Blacklist(call.peer) \/ UNCHANGED <<available, blacklist>>
  PROVE  SyncInv'
  <1>1. session' = {}
    BY DEF EndSync
  <1>2. CASE Blacklist(call.peer)
    <2>1. call.peer \in Servers
      BY DEF SyncInv, RegistryOK, PromiseCoversStart
    <2>2. RegistryOK' /\ Disjoint'
      BY <1>2, <2>1, BlacklistStep
    <2>3. QED
      BY <1>1, <2>2 DEF SyncInv, SessionOK, PromiseCoversStart
  <1>3. CASE UNCHANGED <<available, blacklist>>
    BY <1>1, <1>3 DEF SyncInv, RegistryOK, Disjoint, blacklist_contains, SessionOK, PromiseCoversStart
  <1>4. QED
    BY <1>2, <1>3

\* RefuseBlock, responses without blocks and the timeout end it.
LEMMA EndingStep ==
  ASSUME SyncInv, RefuseBlock \/ OnResponseWithoutBlocks \/ OnTimeout
  PROVE  SyncInv'
  <1>1. \E call \in session : EndSync(call) /\ (Blacklist(call.peer) \/ UNCHANGED <<available, blacklist>>)
    BY DEF RefuseBlock, OnResponseWithoutBlocks, OnTimeout, Conclude, Waiting
  <1>2. QED
    BY <1>1, EndStep

\* The end of a blacklisting passes; the entry stays.
LEMMA ExpireStep ==
  ASSUME SyncInv, Expire
  PROVE  SyncInv'
  <1>1. PICK i \in DOMAIN blacklist : blacklist' = [blacklist EXCEPT ![i].expired = TRUE]
    BY DEF Expire
  <1>2. UNCHANGED <<available, session, at>>
    BY DEF Expire
  <1>3. blacklist \in Seq(Entries) /\ blacklist[i] \in Entries
    BY DEF SyncInv, RegistryOK
  <1>4. [blacklist[i] EXCEPT !.expired = TRUE] \in Entries
    BY <1>3 DEF Entries
  <1>5. blacklist' \in Seq(Entries) /\ DOMAIN blacklist' = DOMAIN blacklist
    BY <1>1, <1>3, <1>4
  <1>6. \A j \in DOMAIN blacklist : blacklist'[j].server = blacklist[j].server
    BY <1>1, <1>3 DEF Entries
  <1>7. QED
    BY <1>2, <1>5, <1>6 DEF SyncInv, RegistryOK, Disjoint, blacklist_contains, SessionOK, IsCall, PromiseCoversStart

-----------------------------------------------------------------------------
(* The theorems.                                                           *)

\* In every behaviour of the client (on_receive_msg, tick, sync_with) the
\* inductive invariant holds.
THEOREM SyncIsAccounted == Spec => []SyncInv
  <1>1. Init => SyncInv
    BY DEF Init, SyncInv, RegistryOK, Disjoint, SessionOK, PromiseCoversStart, blacklist_contains, Entries
  <1>2. ASSUME SyncInv, [Next]_vars
        PROVE  SyncInv'
    <2>1. CASE ClientStep
      BY <1>2, <2>1, ReceiveStep, TickStep, GoOnStep, EndingStep, AdvertiseBlockStep, AdvertisePCStep,
         ElsewhereStep DEF ClientStep, SyncStep, OnResponseOfOther
    <2>2. CASE \E s \in Honest : Respond(s) \/ ServerHears(s)
      <3>1. UNCHANGED client
        BY <2>2 DEF Respond, ServerHears
      <3>2. QED
        BY <1>2, <3>1, ElsewhereStep
    <2>3. CASE \E s \in Servers \ Honest : RespondAnything(s)
      <3>1. UNCHANGED client
        BY <2>3 DEF RespondAnything
      <3>2. QED
        BY <1>2, <3>1, ElsewhereStep
    <2>4. CASE Expire
      BY <1>2, <2>4, ExpireStep
    <2>5. CASE UNCHANGED vars
      <3>1. UNCHANGED client
        BY <2>5 DEF vars
      <3>2. QED
        BY <1>2, <3>1, ElsewhereStep
    <2>6. QED
      BY <1>2, <2>1, <2>2, <2>3, <2>4, <2>5 DEF Next
  <1>3. QED
    BY <1>1, <1>2, PTL DEF Spec

\* The `unwrap` of the peer's promise and the subtraction of the start from it,
\* at the end of sync_with, never panic or wrap around.
THEOREM PromisesCover == Spec => []PromiseCoversStart
  <1>1. SyncInv => PromiseCoversStart
    BY DEF SyncInv
  <1>2. QED
    BY <1>1, SyncIsAccounted, PTL

\* sync_with runs with no server that is on the blacklist.
THEOREM BlacklistIsHeeded == Spec => []BlacklistedNotAsked
  <1>1. SyncInv => BlacklistedNotAsked
    BY DEF SyncInv, Disjoint, PromiseCoversStart, BlacklistedNotAsked
  <1>2. QED
    BY <1>1, SyncIsAccounted, PTL

-----------------------------------------------------------------------------
(* Recursion along the blocks, each of which was made after its parent.    *)

Blocks == DOMAIN Contents

Parent(b) == Contents[b].justify.block

-----------------------------------------------------------------------------
(* Blocks and their lineage.                                               *)

\* What a block is, and where its parent is.
LEMMA BlockFacts ==
  ASSUME NEW b \in Blocks
  PROVE  /\ b \in 1 .. Len(Contents) /\ b # Genesis
         /\ Contents[b].height \in Nat
         /\ Contents[b].justify \in Certificates
         /\ Parent(b) \in Blocks \cup {Genesis}
         /\ Parent(b) \in Nat /\ Parent(b) < b
         /\ Parent(b) = Genesis <=> is_genesis_pc(Contents[b].justify)
         /\ Parent(b) \in Blocks => Contents[b].height = Contents[Parent(b)].height + 1
         /\ Parent(b) = Genesis => Contents[b].height = 0
  <1>1. Contents \in Seq(BlockContents)
    BY ContentsAssumption
  <1>2. b \in 1 .. Len(Contents) /\ Len(Contents) \in Nat /\ Blocks = 1 .. Len(Contents)
    BY <1>1 DEF Blocks
  <1>3. Contents[b].height \in Nat
    <2>1. Contents[b] \in BlockContents
      BY <1>1, <1>2
    <2>2. QED
      BY <2>1 DEF BlockContents
  <1>4. IF is_genesis_pc(Contents[b].justify) THEN Contents[b].height = 0
        ELSE Parent(b) \in 1 .. b - 1 /\ Contents[b].height = Contents[Parent(b)].height + 1
    BY ContentsAssumption DEF Blocks, Parent
  <1>5. is_genesis_pc(Contents[b].justify) => Parent(b) = Genesis
    BY DEF Parent, is_genesis_pc, genesis_pc
  <1>6. QED
    BY <1>2, <1>3, <1>4, <1>5 DEF Certificates, Genesis, Blocks

\* The blocks as nodes of a forest.
Up == [b \in Blocks |-> Parent(b)]
Level == [b \in Blocks |-> Contents[b].height]

LEMMA BlocksAreForest ==
  /\ Len(Contents) \in Nat /\ Blocks = 1 .. Len(Contents)
  /\ Descends(Up, Len(Contents))
  /\ Levels(Level, Up, Len(Contents))
  <1>1. Len(Contents) \in Nat /\ Blocks = 1 .. Len(Contents)
    BY ContentsAssumption DEF Blocks
  <1>2. \A b \in Blocks : Up[b] = Parent(b) /\ Level[b] = Contents[b].height
    BY DEF Up, Level
  <1>3. Descends(Up, Len(Contents))
    BY <1>1, <1>2, BlockFacts DEF Descends, Genesis
  <1>4. ASSUME NEW b \in Blocks
        PROVE  /\ Level[b] \in Nat
               /\ IF Up[b] = 0 THEN Level[b] = 0 ELSE Level[b] = Level[Up[b]] + 1
    BY <1>2, BlockFacts DEF Genesis
  <1>5. QED
    BY <1>1, <1>3, <1>4 DEF Levels

\* A fact about blocks holds if it holds for a block whenever it holds for all
\* blocks made before.
LEMMA BlockInduction ==
  ASSUME NEW T \in SUBSET Blocks,
         \A b \in Blocks : (\A a \in Blocks : a < b => a \in T) => b \in T
  PROVE  T = Blocks
  BY BlocksAreForest, NodeInduction

\* The places of a sequence, with that of genesis.
LEMMA Places ==
  /\ Len(Contents) \in Nat
  /\ \A b \in 0 .. Len(Contents) : b = Genesis \/ b \in Blocks
  /\ Blocks \cup {Genesis} = 0 .. Len(Contents)
  BY ContentsAssumption DEF Blocks, Genesis

\* `lineage` is what its definition says: nothing for genesis, and for a block
\* the block and the lineage of its parent.
LEMMA LineageIsLine == Lines(lineage, Up, Len(Contents))
  <1> DEFINE n == Len(Contents)
  <1>1. n \in Nat /\ Blocks = 1 .. n /\ Descends(Up, n)
    BY BlocksAreForest
  <1>2. \A b \in 0 .. n : b # 0 => Up[b] = Parent(b)
    BY <1>1 DEF Up
  <1> HIDE DEF n
  <1>3. PICK f : f = [b \in 0 .. n |-> IF b = 0 THEN {} ELSE {b} \cup f[Up[b]]]
    BY <1>1, LinesExist
  <1>4. f = [b \in 0 .. n |-> IF b = Genesis THEN {} ELSE {b} \cup f[Parent(b)]]
    BY <1>2, <1>3 DEF Genesis
  <1>5. lineage = [b \in 0 .. n |-> IF b = Genesis THEN {} ELSE {b} \cup lineage[Parent(b)]]
    BY <1>4 DEF lineage, Parent, n
  <1>6. lineage[0] = {} /\ \A b \in 1 .. n : lineage[b] = {b} \cup lineage[Parent(b)]
    <2>1. DOMAIN lineage = 0 .. n
          /\ \A b \in 0 .. n : lineage[b] = IF b = Genesis THEN {} ELSE {b} \cup lineage[Parent(b)]
      BY <1>5
    <2>2. QED
      BY <1>1, <2>1 DEF Genesis
  <1>7. QED
    BY <1>1, <1>2, <1>6 DEF Lines, n

LEMMA LineageWalks ==
  /\ lineage[Genesis] = {}
  /\ \A b \in Blocks : lineage[b] = {b} \cup lineage[Parent(b)]
  BY LineageIsLine, BlocksAreForest DEF Lines, Up, Genesis

\* `ancestry`, in a tree over the contents, is the lineage.
LEMMA AncestryIsLineage == preimage = Contents => ancestry = lineage
  BY DEF ancestry, lineage, block_justify

\* The lineage of a block consists of blocks, and all but itself are lower.
LEMMA LineageLower ==
  ASSUME NEW b \in Blocks, NEW a \in lineage[b]
  PROVE  a \in Blocks /\ (a = b \/ (a < b /\ Contents[a].height < Contents[b].height))
  <1>1. a \in Blocks /\ (a = b \/ (a < b /\ Level[a] < Level[b]))
    BY BlocksAreForest, LineageIsLine, LineLower
  <1>2. QED
    BY <1>1 DEF Level

\* Every block is of its own lineage.
LEMMA LineageSelf ==
  ASSUME NEW b \in Blocks
  PROVE  b \in lineage[b]
  BY LineageWalks

\* Whoever is of the lineage of an ancestor is of the lineage.
LEMMA LineageTransitive ==
  ASSUME NEW c \in Blocks, NEW b \in lineage[c], NEW a \in lineage[b]
  PROVE  a \in lineage[c]
  <1>1. lineage[b] \subseteq lineage[c]
    BY BlocksAreForest, LineageIsLine, LineTransitive
  <1>2. QED
    BY <1>1

\* A lineage has at most one block of a height.
LEMMA LineageAtHeight ==
  ASSUME NEW b \in Blocks, NEW x \in lineage[b], NEW y \in lineage[b],
         Contents[x].height = Contents[y].height
  PROVE  x = y
  <1>1. Level[x] = Level[y]
    BY LineageLower DEF Level
  <1>2. QED
    BY <1>1, BlocksAreForest, LineageIsLine, LineAtLevel

-----------------------------------------------------------------------------
(* A block tree whose blocks were certified by quorums: what it commits is *)
(* what certificates of quorums commit.                                    *)

\* Quorums certified all that b is made on.
Backed(b) == \A a \in lineage[b] : IsQuorate(Contents[a].justify)

\* p says that a block on the chain of a committed head is at its height.
OnAHead(p) == \E b \in Heads : p[2] \in lineage[b] /\ p[1] = Contents[p[2]].height

\* The fields of a tree that the argument reads.
TreeFields == {"blocks", "pending_updates", "cvs", "pvs", "highest_pc", "highest_committed_block",
               "block_at_height"}

Genuine(bt) ==
  /\ TreeFields \subseteq DOMAIN bt
  /\ \A b \in bt.blocks : b \in Blocks /\ Backed(b)
  /\ \A b \in bt.pending_updates : b \in Blocks /\ Contents[b].data \in UpdatingData
  /\ bt.cvs \in ValidatorSets /\ bt.pvs \in ValidatorSets
  /\ bt.highest_pc \in Certificates
  /\ bt.highest_committed_block \in Blocks \cup {NoBlock}
  /\ \A p \in bt.block_at_height : OnAHead(p)

\* The fields of certificates.
LEMMA CertificateFacts ==
  ASSUME NEW pc \in Certificates
  PROVE  /\ pc.phase \in Phases /\ pc.view \in Nat
         /\ is_genesis_pc(pc) \/ pc.block \in Blocks
  <1>1. CASE pc = genesis_pc
    BY <1>1 DEF genesis_pc, is_genesis_pc, Phases
  <1>2. CASE \E b \in DOMAIN Contents : pc = Contents[b].justify
    <2>1. PICK b \in Blocks : pc = Contents[b].justify
      BY <1>2 DEF Blocks
    <2>2. Contents[b] \in BlockContents
      BY ContentsAssumption DEF Blocks
    <2>3. pc.phase \in Phases /\ pc.view \in Nat
      BY <2>1, <2>2 DEF BlockContents
    <2>4. is_genesis_pc(pc) \/ pc.block \in Blocks
      BY <2>1, BlockFacts DEF Parent
    <2>5. QED
      BY <2>3, <2>4
  <1>3. QED
    BY <1>1, <1>2 DEF Certificates

\* A certificate that is_correct accepts was signed by a quorum.
LEMMA CorrectIsQuorate ==
  ASSUME preimage = Contents, NEW bt, Genuine(bt), NEW pc, is_correct(pc, bt)
  PROVE  IsQuorate(pc)
  <1>1. ASSUME NEW vs \in ValidatorSets, is_correctly_signed(pc, vs)
        PROVE  IsQuorate(pc)
    BY <1>1 DEF IsQuorate
  <1>2. CASE is_genesis_pc(pc)
    BY <1>2 DEF IsQuorate
  <1>3. CASE is_correctly_signed(pc, bt.cvs) \/ is_correctly_signed(pc, bt.pvs)
    BY <1>1, <1>3 DEF Genuine
  <1>4. CASE /\ contains_updates(bt, pc.block) /\ pc.block \notin bt.committed_updates
             /\ is_correctly_signed(pc, apply_updates(bt.cvs, UpdatesOf[data(pc.block)]))
    <2>1. data(pc.block) \in UpdatingData
      BY <1>4 DEF contains_updates, Genuine, data
    <2>2. apply_updates(bt.cvs, UpdatesOf[data(pc.block)]) \in ValidatorSets
      BY <2>1, ValidatorsAssumption DEF Genuine
    <2>3. QED
      BY <1>1, <1>4, <2>2
  <1>5. QED
    BY <1>2, <1>3, <1>4, Zenon DEF is_correct

\* What block_to_commit returns is committed by certificates of quorums.
LEMMA CommitsAreHeads ==
  ASSUME preimage = Contents, NEW bt, Genuine(bt), NEW pc \in Certificates, IsQuorate(pc),
         pc.block \in bt.blocks \/ is_genesis_pc(pc)
  PROVE  block_to_commit(pc, bt) \subseteq Heads
  <1> DEFINE parent_justify == Contents[pc.block].justify
             grandparent_justify == Contents[parent_justify.block].justify
  <1>1. CASE is_genesis_pc(pc)
    BY <1>1 DEF block_to_commit
  <1>2. CASE ~is_genesis_pc(pc)
    <2>1. pc \in Certificates \ {genesis_pc} /\ pc.block \in Blocks /\ Backed(pc.block)
      BY <1>2 DEF is_genesis_pc, Genuine
    <2>2. IsQuorate(parent_justify)
      BY <2>1, LineageSelf DEF Backed
    <2>3. ~is_genesis_pc(parent_justify) =>
            /\ parent_justify.block \in Blocks
            /\ IsQuorate(grandparent_justify)
            /\ ~is_genesis_pc(grandparent_justify) => grandparent_justify.block \in Blocks
      <3>1. SUFFICES ASSUME ~is_genesis_pc(parent_justify)
                     PROVE  /\ parent_justify.block \in Blocks
                            /\ IsQuorate(grandparent_justify)
                            /\ ~is_genesis_pc(grandparent_justify) => grandparent_justify.block \in Blocks
        OBVIOUS
      <3>2. Parent(pc.block) \in Blocks
        BY <2>1, <3>1, BlockFacts DEF Parent
      <3>3. Parent(pc.block) \in lineage[pc.block]
        BY <2>1, <3>2, LineageWalks, LineageSelf
      <3>4. IsQuorate(Contents[Parent(pc.block)].justify)
        BY <2>1, <3>3 DEF Backed
      <3>5. ~is_genesis_pc(Contents[Parent(pc.block)].justify) => Parent(Parent(pc.block)) \in Blocks
        BY <3>2, BlockFacts
      <3>6. QED
        BY <3>2, <3>4, <3>5 DEF Parent
    <2>4. block_justify(pc.block) = parent_justify
          /\ block_justify(parent_justify.block) = grandparent_justify
      BY DEF block_justify
    <2>5. CASE pc.phase = "Generic"
      <3>1. ASSUME NEW b \in block_to_commit(pc, bt)
            PROVE  b \in Blocks /\ EndsThreeChain(pc, b)
        <4>1. /\ ~is_genesis_pc(parent_justify)
              /\ ~is_genesis_pc(grandparent_justify)
              /\ pc.view = parent_justify.view + 1
              /\ parent_justify.view = grandparent_justify.view + 1
              /\ b = grandparent_justify.block
          BY <1>2, <2>4, <2>5, <3>1 DEF block_to_commit
        <4>2. QED
          BY <2>2, <2>3, <4>1 DEF EndsThreeChain
      <3>2. QED
        BY <2>1, <2>5, <3>1 DEF Heads, Blocks
    <2>6. CASE pc.phase # "Generic"
      <3>1. ASSUME NEW b \in block_to_commit(pc, bt)
            PROVE  pc.phase \in {"Commit", "Decide"} /\ b = pc.block
        <4>1. pc.phase \in Phases
          BY CertificateFacts
        <4>2. QED
          BY <1>2, <2>6, <3>1, <4>1 DEF block_to_commit, Phases
      <3>2. QED
        BY <2>1, <3>1 DEF Heads, Blocks
    <2>7. QED
      BY <2>5, <2>6
  <1>3. QED
    BY <1>1, <1>2

\* initialize makes a genuine tree.
LEMMA InitialGenuine == Genuine(initialize)
  <1>1. genesis_pc \in Certificates
    BY DEF Certificates
  <1>2. QED
    BY <1>1, ValidatorsAssumption DEF Genuine, initialize, TreeFields

\* insert keeps a tree genuine if the block's justify is correct and certifies
\* a block of the tree.
LEMMA InsertGenuine ==
  ASSUME preimage = Contents, NEW bt, Genuine(bt), NEW b \in Blocks,
         is_correct(block_justify(b), bt),
         block_justify(b).block \in bt.blocks \/ is_genesis_pc(block_justify(b))
  PROVE  Genuine(insert(b, bt)) /\ insert(b, bt).blocks = bt.blocks \cup {b}
  <1> DEFINE pending == IF data(b) \in UpdatingData THEN bt.pending_updates \cup {b} ELSE bt.pending_updates
  <1>1. IsQuorate(Contents[b].justify)
    BY CorrectIsQuorate DEF block_justify
  <1>2. Backed(b)
    <2>1. CASE Parent(b) = Genesis
      <3>1. lineage[b] = {b}
        BY <2>1, LineageWalks
      <3>2. QED
        BY <1>1, <3>1 DEF Backed
    <2>2. CASE Parent(b) \in Blocks
      <3>1. ~is_genesis_pc(block_justify(b))
        BY <2>2, BlockFacts DEF block_justify, Genesis
      <3>2. Parent(b) \in bt.blocks
        BY <3>1 DEF block_justify, Parent
      <3>3. QED
        BY <1>1, <3>2, LineageWalks DEF Backed, Genuine
    <2>3. QED
      BY <2>1, <2>2, BlockFacts
  <1>3. insert(b, bt).blocks = bt.blocks \cup {b} /\ insert(b, bt).pending_updates = pending
    BY DEF insert, Genuine, TreeFields
  <1>4. /\ DOMAIN insert(b, bt) = DOMAIN bt
        /\ \A field \in TreeFields \ {"blocks", "pending_updates"} : insert(b, bt)[field] = bt[field]
    BY DEF insert, Genuine, TreeFields
  <1>5. \A a \in pending : a \in Blocks /\ Contents[a].data \in UpdatingData
    BY DEF Genuine, data
  <1> HIDE DEF pending
  <1>6. QED
    BY <1>2, <1>3, <1>4, <1>5 DEF Genuine, TreeFields

\* Of the updating blocks that a commit commits one is the last.
LEMMA LastUpdating ==
  ASSUME preimage = Contents, NEW bt, Genuine(bt), NEW b \in Blocks, NEW updating,
         updating = uncommitted_blocks(b, bt) \cap bt.pending_updates, updating # {}
  PROVE  \E a \in updating : \A c \in updating : height(c) <= height(a)
  <1> DEFINE depth(a) == height(b) - height(a)
             depths == {depth(a) : a \in updating}
  <1>1. \A a \in Blocks : height(a) \in Nat
    BY BlockFacts DEF height
  <1>2. highest_committed_block_height(bt) \in Int
    BY <1>1 DEF highest_committed_block_height, Genuine, None
  <1>3. \A a \in updating : height(a) \in Nat /\ height(a) <= height(b)
    BY <1>1, <1>2 DEF uncommitted_blocks, Genuine
  <1>4. depths \subseteq Nat /\ depths # {}
    BY <1>1, <1>3
  <1>5. PICK d \in depths : \A e \in depths : d <= e
    <2> HIDE DEF depths
    <2>1. QED
      BY <1>4, Minimum
  <1>6. PICK a \in updating : d = depth(a)
    OBVIOUS
  <1>7. ASSUME NEW c \in updating PROVE height(c) <= height(a)
    <2>1. depth(c) \in depths
      OBVIOUS
    <2>2. height(b) - height(a) <= height(b) - height(c)
      BY <1>5, <1>6, <2>1
    <2>3. QED
      BY <1>1, <1>3, <2>2
  <1>8. QED
    BY <1>7

\* commit keeps a tree genuine if it commits a head.
LEMMA CommitGenuine ==
  ASSUME preimage = Contents, NEW bt, Genuine(bt), NEW b \in Heads
  PROVE  Genuine(commit(b, bt))
  <1> DEFINE committing == uncommitted_blocks(b, bt)
             pruned     == pruned_by(committing, bt)
             updating   == committing \cap bt.pending_updates
             marked     == IF updating = {} THEN {} ELSE {b}
             edges      == {<<block_justify(a).block, a>> : a \in committing}
             parents    == {block_justify(a).block : a \in committing}
             placed     == {<<height(a), a>> : a \in committing}
             kept       == {p \in bt.block_at_height : \A a \in committing : p[1] # height(a)}
             left       == {e \in bt.children : e[1] \notin pruned \cup parents}
             new == [bt EXCEPT
        !.blocks = @ \ pruned,
        !.children = left \cup edges,
        !.pending_app_updates = @ \ (pruned \cup committing),
        !.app_state = Append(@, committing \cap bt.pending_app_updates),
        !.pending_updates = (@ \ pruned) \ marked,
        !.committed_updates = (@ \ pruned) \cup marked,
        !.block_at_height = kept \cup placed,
        !.highest_committed_block = b]
             last == CHOOSE a \in updating : \A c \in updating : height(c) <= height(a)
             next == [new EXCEPT !.cvs = apply_updates(bt.cvs, UpdatesOf[data(last)]),
                                 !.pvs = bt.cvs,
                                 !.update_height = height(last),
                                 !.update_decided = FALSE]
  <1>1. b \in Blocks
    BY DEF Heads, Blocks
  <1>2. \A p \in kept \cup placed : OnAHead(p)
    <2>1. \A p \in kept : OnAHead(p)
      BY DEF Genuine
    <2>2. ASSUME NEW a \in committing PROVE OnAHead(<<height(a), a>>)
      BY <2>2, AncestryIsLineage DEF uncommitted_blocks, OnAHead, height
    <2>3. QED
      BY <2>1, <2>2
  <1>3. commit(b, bt) = IF updating = {} THEN new ELSE next
    BY Zenon DEF commit
  <1>4. updating # {} => last \in updating
    <2>1. updating # {} => \E a \in updating : \A c \in updating : height(c) <= height(a)
      <3> HIDE DEF updating, last, new, next
      <3>1. QED
        BY <1>1, LastUpdating DEF updating, committing
    <2>2. QED
      BY <2>1
  <1>5. updating # {} => apply_updates(bt.cvs, UpdatesOf[data(last)]) \in ValidatorSets
    <2>1. updating # {} => data(last) \in UpdatingData
      <3>1. updating \subseteq bt.pending_updates
        OBVIOUS
      <3> HIDE DEF updating, last
      <3>2. QED
        BY <1>4, <3>1 DEF Genuine, data
    <2> HIDE DEF updating, last
    <2>2. QED
      BY <2>1, ValidatorsAssumption DEF Genuine
  <1> HIDE DEF committing, pruned, updating, marked, edges, placed, kept, left, last
  <1>6. /\ DOMAIN new = DOMAIN bt
        /\ new.blocks = bt.blocks \ pruned
        /\ new.pending_updates = (bt.pending_updates \ pruned) \ marked
        /\ new.block_at_height = kept \cup placed
        /\ new.highest_committed_block = b
        /\ new.cvs = bt.cvs /\ new.pvs = bt.pvs /\ new.highest_pc = bt.highest_pc
    BY DEF Genuine, TreeFields
  <1>7. Genuine(new)
    <2> HIDE DEF new
    <2>1. QED
      BY <1>1, <1>2, <1>6 DEF Genuine
  <1>8. updating # {} => Genuine(next)
    <2>1. /\ DOMAIN next = DOMAIN new
          /\ \A field \in TreeFields \ {"cvs", "pvs"} : next[field] = new[field]
          /\ next.cvs = apply_updates(bt.cvs, UpdatesOf[data(last)])
          /\ next.pvs = bt.cvs
      <3> HIDE DEF new
      <3>1. QED
        BY <1>7 DEF Genuine, TreeFields
    <2> HIDE DEF new, next
    <2>2. QED
      BY <1>5, <1>7, <2>1 DEF Genuine, TreeFields
  <1>9. QED
    BY <1>3, <1>7, <1>8

\* update keeps a tree genuine if its justify was signed by a quorum and
\* certifies a block of the tree.
LEMMA UpdateGenuine ==
  ASSUME preimage = Contents, NEW bt, Genuine(bt), NEW pc \in Certificates, IsQuorate(pc),
         pc.block \in bt.blocks \/ is_genesis_pc(pc)
  PROVE  Genuine(update(pc, bt))
  <1> DEFINE to_commit == block_to_commit(pc, bt)
             head      == CHOOSE b \in to_commit : TRUE
             committed == IF to_commit = {} THEN bt ELSE commit(head, bt)
             to_lock   == pc_to_lock(pc, bt)
             locked    == IF to_lock = {} THEN committed.locked_pc ELSE CHOOSE q \in to_lock : TRUE
             new == [committed EXCEPT
                       !.highest_pc = IF pc.view > committed.highest_pc.view THEN pc ELSE committed.highest_pc,
                       !.locked_pc  = locked,
                       !.update_decided = committed.update_decided \/ pc.phase = "Decide"]
  <1>1. update(pc, bt) = new
    BY DEF update
  <1>2. to_commit # {} => head \in Heads
    <2>1. to_commit \subseteq Heads
      BY CommitsAreHeads
    <2> HIDE DEF to_commit
    <2>2. QED
      BY <2>1
  <1> HIDE DEF to_commit, head
  <1>3. Genuine(committed)
    BY <1>2, CommitGenuine
  <1> HIDE DEF committed, locked
  <1>4. /\ DOMAIN new = DOMAIN committed
        /\ \A field \in TreeFields \ {"highest_pc"} : new[field] = committed[field]
        /\ new.highest_pc \in {pc, committed.highest_pc}
    BY <1>3 DEF Genuine, TreeFields
  <1> HIDE DEF new
  <1>5. Genuine(new)
    BY <1>3, <1>4 DEF Genuine, TreeFields
  <1>6. QED
    BY <1>1, <1>5

\* Two genuine trees have the same block at a height.
LEMMA GenuineAgree ==
  ASSUME NEW bt1, NEW bt2, Genuine(bt1), Genuine(bt2),
         NEW p \in bt1.block_at_height, NEW q \in bt2.block_at_height, p[1] = q[1]
  PROVE  p[2] = q[2]
  <1>1. PICK a \in Heads : p[2] \in lineage[a] /\ p[1] = Contents[p[2]].height
    BY DEF Genuine, OnAHead
  <1>2. PICK b \in Heads : q[2] \in lineage[b] /\ q[1] = Contents[q[2]].height
    BY DEF Genuine, OnAHead
  <1>3. a \in Blocks /\ b \in Blocks
    BY DEF Heads, Blocks
  <1>4. CASE a \in lineage[b]
    <2>1. p[2] \in lineage[b]
      BY <1>1, <1>2, <1>3, <1>4, LineageTransitive
    <2>2. \A x, y \in lineage[b] : Contents[x].height = Contents[y].height => x = y
      BY <1>3, LineageAtHeight
    <2>3. QED
      BY <1>1, <1>2, <2>1, <2>2
  <1>5. CASE b \in lineage[a]
    <2>1. q[2] \in lineage[a]
      BY <1>1, <1>2, <1>3, <1>5, LineageTransitive
    <2>2. \A x, y \in lineage[a] : Contents[x].height = Contents[y].height => x = y
      BY <1>3, LineageAtHeight
    <2>3. QED
      BY <1>1, <1>2, <2>1, <2>2
  <1>6. QED
    BY <1>4, <1>5, CertificatesAssumption

-----------------------------------------------------------------------------
(* What an honest server serves are blocks.                                *)

\* A server's walk may end with NoBlock.
Walks == Seq(Blocks \cup {NoBlock})

\* f walks from the newest block down to the highest committed one.
WalksDown(f, bt) ==
  f = [b \in Nat |->
         IF b \notin bt.blocks THEN <<NoBlock>>
         ELSE IF block_justify(b).block = bt.highest_committed_block \/ is_genesis_pc(block_justify(b))
         THEN <<b>>
         ELSE Append(f[block_justify(b).block], b)]

\* The walk exists, and consists of blocks but for NoBlock.
LEMMA WalkDown ==
  ASSUME preimage = Contents, NEW bt, Genuine(bt)
  PROVE  /\ \E f : WalksDown(f, bt)
         /\ \A f : WalksDown(f, bt) => \A b \in Blocks : f[b] \in Walks
  <1> DEFINE n == Len(Contents)
             ends(b) == block_justify(b).block = bt.highest_committed_block \/ is_genesis_pc(block_justify(b))
             L == {b \in 0 .. n : b \notin bt.blocks \/ ends(b)}
             base == [b \in 0 .. n |-> IF b \notin bt.blocks THEN <<NoBlock>> ELSE <<b>>]
             above == [b \in 0 .. n |-> Parent(b)]
             step == [p \in (0 .. n) \X Walks |-> IF p[1] \in Blocks THEN Append(p[2], p[1]) ELSE p[2]]
  <1>1. n \in Nat /\ Blocks \subseteq 0 .. n /\ 0 .. n \subseteq Nat
    BY Places DEF Genesis
  <1>2. \A b \in bt.blocks : b \in Blocks
    BY DEF Genuine
  <1>3. base \in [0 .. n -> Walks]
    <2>1. \A b \in 0 .. n : <<NoBlock>> \in Walks /\ (b \in bt.blocks => <<b>> \in Walks)
      BY <1>2 DEF Walks
    <2>2. QED
      BY <2>1
  <1>4. step \in [(0 .. n) \X Walks -> Walks]
    <2>1. \A b \in Blocks, s \in Walks : Append(s, b) \in Walks
      BY DEF Walks
    <2>2. QED
      BY <2>1
  <1>5. \A b \in (0 .. n) \ L : b \in bt.blocks /\ b \in Blocks /\ ~ends(b)
    BY <1>2
  <1>6. \A b \in (0 .. n) \ L : above[b] \in Nat /\ above[b] < b /\ above[b] \in 0 .. n
                                /\ above[b] = block_justify(b).block
    <2>1. SUFFICES ASSUME NEW b \in Blocks
                   PROVE  Parent(b) \in Nat /\ Parent(b) < b /\ Parent(b) \in 0 .. n
                          /\ Parent(b) = block_justify(b).block
      BY <1>1, <1>5
    <2>2. QED
      BY BlockFacts, Places DEF Parent, block_justify
  <1>7. \A b \in 0 .. n : b \in L <=> (b \notin bt.blocks \/ ends(b))
    OBVIOUS
  <1>8. \A b \in 0 .. n : base[b] = IF b \notin bt.blocks THEN <<NoBlock>> ELSE <<b>>
    OBVIOUS
  <1>9. \A b \in Blocks, s \in Walks : step[<<b, s>>] = Append(s, b)
    BY <1>1
  <1> HIDE DEF n, L, base, above, step, ends
  <1>10. ASSUME NEW f, \A b \in 0 .. n : f[b] \in Walks
         PROVE  Recurs(f, 0 .. n, L, base, above, step) <=>
                \A b \in 0 .. n :
                  f[b] = IF b \notin bt.blocks THEN <<NoBlock>>
                         ELSE IF ends(b) THEN <<b>> ELSE Append(f[block_justify(b).block], b)
    <2>1. ASSUME NEW b \in 0 .. n
          PROVE  (IF b \in L THEN base[b] ELSE step[<<b, f[above[b]]>>])
                 = (IF b \notin bt.blocks THEN <<NoBlock>>
                    ELSE IF ends(b) THEN <<b>> ELSE Append(f[block_justify(b).block], b))
      <3>1. CASE b \in L
        BY <1>7, <1>8, <3>1
      <3>2. CASE b \notin L
        <4>1. step[<<b, f[above[b]]>>] = Append(f[above[b]], b)
          BY <1>5, <1>6, <1>9, <1>10, <3>2
        <4>2. QED
          BY <1>5, <1>6, <3>2, <4>1
      <3>3. QED
        BY <3>1, <3>2
    <2>2. QED
      BY <2>1 DEF Recurs
  <1>11. \E f : WalksDown(f, bt)
    <2>1. PICK f \in [0 .. n -> Walks] : Recurs(f, 0 .. n, L, base, above, step)
      BY <1>1, <1>3, <1>4, <1>6, RecursionExists
    <2> DEFINE g == [b \in Nat |-> IF b \in 0 .. n THEN f[b] ELSE <<NoBlock>>]
    <2>2. \A b \in 0 .. n :
            f[b] = IF b \notin bt.blocks THEN <<NoBlock>>
                   ELSE IF ends(b) THEN <<b>> ELSE Append(f[block_justify(b).block], b)
      BY <1>10, <2>1
    <2>3. ASSUME NEW b \in Nat
          PROVE  g[b] = IF b \notin bt.blocks THEN <<NoBlock>>
                        ELSE IF ends(b) THEN <<b>> ELSE Append(g[block_justify(b).block], b)
      <3>1. CASE b \notin bt.blocks
        BY <2>2, <3>1
      <3>2. CASE b \in bt.blocks
        <4>1. b \in 0 .. n
          BY <1>1, <1>2, <3>2
        <4>2. ~ends(b) => block_justify(b).block \in 0 .. n
          BY <1>6, <1>7, <3>2, <4>1
        <4>3. QED
          BY <1>1, <2>2, <4>1, <4>2
      <3>3. QED
        BY <3>1, <3>2
    <2>4. g = [b \in Nat |-> IF b \notin bt.blocks THEN <<NoBlock>>
                             ELSE IF ends(b) THEN <<b>> ELSE Append(g[block_justify(b).block], b)]
      BY <2>3
    <2>5. WalksDown(g, bt)
      <3> HIDE DEF g
      <3>1. QED
        BY <2>4 DEF WalksDown, ends
    <2>6. QED
      BY <2>5
  <1>12. ASSUME NEW f, WalksDown(f, bt)
         PROVE  \A b \in Blocks : f[b] \in Walks
    <2>1. ASSUME NEW b \in 0 .. n
          PROVE  f[b] = IF b \notin bt.blocks THEN <<NoBlock>>
                        ELSE IF ends(b) THEN <<b>> ELSE Append(f[block_justify(b).block], b)
      BY <1>1, <1>12 DEF WalksDown, ends
    <2> DEFINE Bad == {b \in 0 .. n : f[b] \notin Walks}
    <2>2. SUFFICES ASSUME Bad # {} PROVE FALSE
      BY <1>1
    <2>3. PICK b \in Bad : \A c \in Bad : b <= c
      <3>1. Bad \subseteq Nat
        BY <1>1
      <3> HIDE DEF Bad
      <3>2. QED
        BY <2>2, <3>1, Minimum
    <2>4. b \in bt.blocks => <<b>> \in Walks
      BY <1>2 DEF Walks
    <2>5. <<NoBlock>> \in Walks
      BY DEF Walks
    <2>6. b \notin L
      BY <1>7, <2>1, <2>4, <2>5
    <2>7. f[above[b]] \in Walks
      BY <1>1, <1>6, <2>3, <2>6
    <2>8. Append(f[above[b]], b) \in Walks
      BY <1>5, <2>6, <2>7 DEF Walks
    <2>9. QED
      BY <1>5, <1>6, <2>1, <2>6, <2>8
  <1>13. QED
    BY <1>11, <1>12

\* The blocks on top of the highest committed one.
LEMMA NewestType ==
  ASSUME preimage = Contents, NEW s, Genuine(tree[s]), newest[s] \in Blocks \cup {NoBlock}
  PROVE  blocks_from_newest_to_committed(s) \in Walks
  <1> DEFINE from == CHOOSE f : WalksDown(f, tree[s])
  <1>1. blocks_from_newest_to_committed(s) = IF newest[s] = NoBlock THEN <<>> ELSE from[newest[s]]
    BY DEF blocks_from_newest_to_committed, WalksDown
  <1>2. WalksDown(from, tree[s])
    BY WalkDown
  <1> HIDE DEF from
  <1>3. \A b \in Blocks : from[b] \in Walks
    BY <1>2, WalkDown
  <1>4. <<>> \in Walks
    BY DEF Walks
  <1>5. QED
    BY <1>1, <1>3, <1>4

\* Heights are lower than the places of their blocks.
LEMMA HeightBounded ==
  ASSUME NEW b \in Blocks
  PROVE  Contents[b].height < b
  <1> DEFINE T == {d \in Blocks : Contents[d].height < d}
  <1>1. ASSUME NEW d \in Blocks, \A c \in Blocks : c < d => c \in T
        PROVE  d \in T
    <2>1. CASE Parent(d) = Genesis
      BY <2>1, BlockFacts DEF Genesis
    <2>2. CASE Parent(d) \in Blocks
      <3>1. Parent(d) \in T
        BY <1>1, <2>2, BlockFacts
      <3>2. /\ Contents[d].height = Contents[Parent(d)].height + 1 /\ Contents[Parent(d)].height \in Nat
            /\ Parent(d) \in Nat /\ d \in Nat /\ Parent(d) < d
        BY <2>2, BlockFacts
      <3>3. QED
        BY <3>1, <3>2
    <2>3. QED
      BY <2>1, <2>2, BlockFacts
  <1>2. T = Blocks
    <2> HIDE DEF T
    <2>1. T \in SUBSET Blocks
      BY DEF T
    <2>2. QED
      BY <1>1, <2>1, BlockInduction
  <1>3. QED
    BY <1>2

\* Whether a block is committed at height h, and which.
PlacedAt(h, bt) == \E p \in bt.block_at_height : p[1] = h
BlockAt(h, bt) == (CHOOSE p \in bt.block_at_height : p[1] = h)[2]

\* f climbs over the committed blocks from height to height.
Climbs(f, bt) ==
  f = [h \in Nat |-> IF PlacedAt(h, bt) THEN <<BlockAt(h, bt)>> \o f[h + 1] ELSE <<>>]

\* The climb exists, and consists of blocks.
LEMMA ClimbUp ==
  ASSUME NEW bt, Genuine(bt)
  PROVE  /\ \E f : Climbs(f, bt)
         /\ \A f : Climbs(f, bt) => \A h \in Nat : f[h] \in Seq(Blocks)
  <1> DEFINE n == Len(Contents)
             V == Seq(Blocks)
             L == {k \in 0 .. n : ~PlacedAt(n - k, bt)}
             base == [k \in 0 .. n |-> <<>>]
             above == [k \in 0 .. n |-> k - 1]
             step == [p \in (0 .. n) \X V |->
                        IF PlacedAt(n - p[1], bt) THEN <<BlockAt(n - p[1], bt)>> \o p[2] ELSE p[2]]
  <1>1. n \in Nat
    BY Places
  <1>2. ASSUME NEW h, PlacedAt(h, bt)
        PROVE  h \in Nat /\ h < n /\ BlockAt(h, bt) \in Blocks
    <2>1. PICK p \in bt.block_at_height : p[1] = h /\ p[2] = BlockAt(h, bt)
      BY <1>2 DEF PlacedAt, BlockAt
    <2>2. PICK b \in Heads : p[2] \in lineage[b] /\ p[1] = Contents[p[2]].height
      BY <2>1 DEF Genuine, OnAHead
    <2>3. p[2] \in Blocks
      BY <2>2, LineageLower DEF Heads, Blocks
    <2>4. Contents[p[2]].height \in Nat /\ Contents[p[2]].height < p[2] /\ p[2] \in 1 .. n
      BY <2>3, HeightBounded, BlockFacts
    <2>5. QED
      BY <1>1, <2>1, <2>2, <2>3, <2>4
  <1>3. base \in [0 .. n -> V]
    OBVIOUS
  <1>4. ASSUME NEW h, PlacedAt(h, bt), NEW s \in V
        PROVE  <<BlockAt(h, bt)>> \o s \in V
    BY <1>2, <1>4
  <1>5. step \in [(0 .. n) \X V -> V]
    <2>1. \A k \in 0 .. n, s \in V : PlacedAt(n - k, bt) => <<BlockAt(n - k, bt)>> \o s \in V
      BY <1>4
    <2> HIDE DEF n, V
    <2>2. QED
      BY <2>1
  <1>6. \A k \in (0 .. n) \ L : above[k] \in Nat /\ above[k] < k
    <2>1. 0 \in L
      BY <1>1, <1>2
    <2>2. QED
      BY <1>1, <2>1
  <1>7. \A k \in 0 .. n : (k \in L <=> ~PlacedAt(n - k, bt)) /\ base[k] = <<>> /\ above[k] = k - 1
    OBVIOUS
  <1>8. \A k \in 0 .. n, s \in V : PlacedAt(n - k, bt) => step[<<k, s>>] = <<BlockAt(n - k, bt)>> \o s
    OBVIOUS
  <1>9. <<>> \in V
    OBVIOUS
  <1> HIDE DEF n, V, L, base, above, step
  <1>10. \E f : Climbs(f, bt)
    <2>1. PICK f \in [0 .. n -> V] : Recurs(f, 0 .. n, L, base, above, step)
      BY <1>1, <1>3, <1>5, <1>6, RecursionExists
    <2>2. ASSUME NEW k \in 0 .. n
          PROVE  f[k] = IF PlacedAt(n - k, bt) THEN <<BlockAt(n - k, bt)>> \o f[k - 1] ELSE <<>>
      <3>1. f[k] = IF k \in L THEN base[k] ELSE step[<<k, f[above[k]]>>]
        BY <2>1 DEF Recurs
      <3>2. k \notin L => f[above[k]] \in V /\ above[k] = k - 1
        BY <1>1, <1>6, <1>7, <2>1
      <3>3. k \notin L => step[<<k, f[above[k]]>>] = <<BlockAt(n - k, bt)>> \o f[above[k]]
        BY <1>7, <1>8, <3>2
      <3>4. CASE k \in L
        BY <1>7, <3>1, <3>4
      <3>5. CASE k \notin L
        <4>1. f[k] = <<BlockAt(n - k, bt)>> \o f[k - 1]
          BY <3>1, <3>2, <3>3, <3>5
        <4>2. QED
          BY <1>7, <3>5, <4>1
      <3>6. QED
        BY <3>4, <3>5
    <2> DEFINE g == [h \in Nat |-> IF h <= n THEN f[n - h] ELSE <<>>]
    <2>3. ASSUME NEW h \in Nat
          PROVE  g[h] = IF PlacedAt(h, bt) THEN <<BlockAt(h, bt)>> \o g[h + 1] ELSE <<>>
      <3>1. CASE PlacedAt(h, bt)
        <4>1. h < n
          BY <1>2, <3>1
        <4>2. n - h \in 0 .. n /\ n - (n - h) = h /\ (n - h) - 1 = n - (h + 1) /\ h + 1 <= n /\ h + 1 \in Nat
          BY <1>1, <4>1
        <4>3. f[n - h] = <<BlockAt(h, bt)>> \o f[n - (h + 1)]
          BY <2>2, <3>1, <4>2
        <4>4. g[h] = f[n - h] /\ g[h + 1] = f[n - (h + 1)]
          BY <1>1, <4>1, <4>2
        <4> HIDE DEF g
        <4>5. QED
          BY <3>1, <4>3, <4>4
      <3>2. CASE ~PlacedAt(h, bt)
        <4>1. h <= n => n - h \in 0 .. n /\ n - (n - h) = h
          BY <1>1
        <4>2. h <= n => f[n - h] = <<>>
          BY <2>2, <3>2, <4>1
        <4>3. QED
          BY <3>2, <4>2
      <3>3. QED
        BY <3>1, <3>2
    <2>4. g = [h \in Nat |-> IF PlacedAt(h, bt) THEN <<BlockAt(h, bt)>> \o g[h + 1] ELSE <<>>]
      BY <2>3
    <2>5. QED
      <3> HIDE DEF g
      <3>1. QED
        BY <2>4 DEF Climbs
  <1>11. ASSUME NEW f, Climbs(f, bt)
         PROVE  \A h \in Nat : f[h] \in V
    <2>1. \A h \in Nat : f[h] = IF PlacedAt(h, bt) THEN <<BlockAt(h, bt)>> \o f[h + 1] ELSE <<>>
      BY <1>11 DEF Climbs
    <2> DEFINE Bad == {k \in 0 .. n : f[n - k] \notin V}
    <2>2. \A h \in Nat : ~PlacedAt(h, bt) => f[h] \in V
      BY <1>9, <2>1
    <2>3. SUFFICES ASSUME Bad # {} PROVE FALSE
      <3>1. ASSUME NEW h \in Nat, Bad = {}
            PROVE  f[h] \in V
        <4>1. CASE PlacedAt(h, bt)
          <5>1. n - h \in 0 .. n /\ n - (n - h) = h
            BY <1>1, <1>2, <4>1
          <5>2. n - h \notin Bad
            BY <3>1
          <5>3. QED
            BY <5>1, <5>2
        <4>2. QED
          BY <2>2, <4>1
      <3>2. QED
        BY <3>1
    <2>4. PICK k \in Bad : \A c \in Bad : k <= c
      <3>1. Bad \subseteq Nat
        BY <1>1
      <3> HIDE DEF Bad
      <3>2. QED
        BY <2>3, <3>1, Minimum
    <2>5. k \in 0 .. n /\ f[n - k] \notin V /\ n - k \in Nat
      BY <1>1
    <2>6. PlacedAt(n - k, bt)
      BY <2>2, <2>5
    <2>7. k - 1 \in 0 .. n /\ n - (k - 1) = (n - k) + 1
      BY <1>1, <1>2, <2>5, <2>6
    <2>8. k - 1 \notin Bad
      <3> HIDE DEF Bad
      <3>1. QED
        BY <1>1, <2>4, <2>5
    <2>9. f[(n - k) + 1] \in V
      BY <2>7, <2>8
    <2>10. QED
      BY <1>4, <2>1, <2>5, <2>6, <2>9
  <1>12. QED
    BY <1>10, <1>11 DEF V

\* What a server answers with NoBlock absent is a sequence of blocks.
LEMMA ServedAreBlocks ==
  ASSUME preimage = Contents, NEW s, Genuine(tree[s]), newest[s] \in Blocks \cup {NoBlock},
         NEW start \in Nat, NEW limit \in Nat,
         NoBlock \notin Range(blocks_from_height_to_newest(s, start, limit))
  PROVE  blocks_from_height_to_newest(s, start, limit) \in Seq(Blocks)
  <1> DEFINE chain == CHOOSE f : Climbs(f, tree[s])
             all == committed_from(s, start) \o blocks_from_newest_to_committed(s)
             m == IF limit < Len(all) THEN limit ELSE Len(all)
  <1>1. committed_from(s, start) = chain[start]
    BY DEF committed_from, Climbs, PlacedAt, BlockAt
  <1>2. Climbs(chain, tree[s])
    BY ClimbUp
  <1> HIDE DEF chain
  <1>3. committed_from(s, start) \in Seq(Blocks)
    BY <1>1, <1>2, ClimbUp
  <1>4. all \in Walks
    BY <1>3, NewestType DEF Walks
  <1>5. blocks_from_height_to_newest(s, start, limit) = SubSeq(all, 1, m)
    BY DEF blocks_from_height_to_newest
  <1> HIDE DEF all
  <1>6. m \in Nat /\ m <= Len(all)
    BY <1>4 DEF Walks
  <1> HIDE DEF m
  <1>7. /\ SubSeq(all, 1, m) \in Seq(Blocks \cup {NoBlock})
        /\ Len(SubSeq(all, 1, m)) = m
    BY <1>4, <1>6 DEF Walks
  <1> DEFINE served == SubSeq(all, 1, m)
  <1> HIDE DEF served
  <1>8. served \in Seq(Blocks \cup {NoBlock}) /\ NoBlock \notin Range(served)
    BY <1>5, <1>7 DEF served
  <1>9. \A i \in DOMAIN served : served[i] \in Blocks
    BY <1>8 DEF Range
  <1>10. served \in Seq(Blocks)
    BY <1>8, <1>9
  <1>11. QED
    BY <1>5, <1>10 DEF served

-----------------------------------------------------------------------------
(* The invariant: all trees are genuine, and what is on its way to the     *)
(* client, or held by it, are blocks and certificates.                     *)

Answers == [from : Servers, blocks : Seq(Blocks), stored : BOOLEAN, highest_pc : Certificates]

HoldsBlocks(call) ==
  /\ {"blocks", "highest_pc"} \subseteq DOMAIN call
  /\ call.blocks \in Seq(Blocks)
  /\ call.highest_pc \in Certificates

TreesGenuine ==
  /\ preimage = Contents
  /\ DOMAIN tree = Replicas /\ DOMAIN newest = Replicas
  /\ \A r \in Replicas : Genuine(tree[r]) /\ newest[r] \in Blocks \cup {NoBlock}

RequestsOK == \A q \in requests : q.start \in Nat

ChainInv ==
  /\ TreesGenuine
  /\ responses \in Seq(Answers)
  /\ \A call \in session : HoldsBlocks(call)
  /\ RequestsOK

\* A replica that inserts an acceptable block and updates by its justify has a
\* genuine tree.
LEMMA AcceptedGenuine ==
  ASSUME preimage = Contents, NEW bt, Genuine(bt), NEW b \in Blocks, NEW stored, acceptable(b, bt, stored)
  PROVE  Genuine(update(block_justify(b), insert(b, bt)))
  <1> DEFINE pc == block_justify(b)
             inserted == insert(b, bt)
  <1>1. is_correct(pc, bt) /\ (pc.block \in bt.blocks \/ is_genesis_pc(pc))
    BY DEF acceptable, safe_block, safe_pc
  <1>2. pc \in Certificates
    BY BlockFacts DEF block_justify
  <1>3. IsQuorate(pc)
    <2> HIDE DEF pc
    <2>1. QED
      BY <1>1, CorrectIsQuorate
  <1>4. Genuine(inserted) /\ inserted.blocks = bt.blocks \cup {b}
    BY <1>1, InsertGenuine
  <1> HIDE DEF pc, inserted
  <1>5. Genuine(update(pc, inserted))
    BY <1>1, <1>2, <1>3, <1>4, UpdateGenuine
  <1>6. QED
    BY <1>5 DEF pc, inserted

\* Requests ask for blocks from a height on.
LEMMA RequestStart ==
  ASSUME preimage = Contents, NEW bt, Genuine(bt), NEW s
  PROVE  request(s, bt).start \in Nat
  BY BlockFacts DEF request, Genuine, height

\* Sending one keeps that.
LEMMA SendStep ==
  ASSUME RequestsOK, NEW q, q.start \in Nat, Send(q)
  PROVE  RequestsOK'
  BY DEF RequestsOK, Send

\* sync starts with a call that holds nothing yet.
LEMMA SyncHolds ==
  ASSUME ChainInv, NEW next, Sync(next), UNCHANGED <<preimage, tree, newest, responses>>
  PROVE  ChainInv'
  <1>1. TreesGenuine' /\ responses' \in Seq(Answers)
    BY DEF ChainInv, TreesGenuine, Genuine, OnAHead
  <1>2. CASE UNCHANGED <<session, requests>>
    BY <1>1, <1>2 DEF ChainInv, HoldsBlocks, RequestsOK
  <1>3. CASE \E s \in sync_servers(available) :
               /\ session' = {[peer |-> s, init_height |-> committed_height(Client), synced |-> 0, next |-> next,
                               blocks |-> <<>>, stored |-> FALSE, highest_pc |-> genesis_pc]}
               /\ Send(request(s, tree[Client]))
    <2>1. PICK s \in sync_servers(available) :
               /\ session' = {[peer |-> s, init_height |-> committed_height(Client), synced |-> 0, next |-> next,
                               blocks |-> <<>>, stored |-> FALSE, highest_pc |-> genesis_pc]}
               /\ Send(request(s, tree[Client]))
      BY <1>3
    <2>2. request(s, tree[Client]).start \in Nat
      BY RequestStart DEF ChainInv, TreesGenuine, Replicas
    <2>3. RequestsOK'
      <3> DEFINE q == request(s, tree[Client])
      <3>1. q.start \in Nat /\ Send(q) /\ RequestsOK
        BY <2>1, <2>2 DEF ChainInv
      <3> HIDE DEF q
      <3>2. QED
        BY <3>1, SendStep
    <2>4. genesis_pc \in Certificates /\ <<>> \in Seq(Blocks)
      BY DEF Certificates
    <2>5. \A call \in session' : HoldsBlocks(call)
      <3> DEFINE started == [peer |-> s, init_height |-> committed_height(Client), synced |-> 0, next |-> next,
                             blocks |-> <<>>, stored |-> FALSE, highest_pc |-> genesis_pc]
      <3>1. HoldsBlocks(started)
        BY <2>4 DEF HoldsBlocks
      <3>2. session' = {started}
        BY <2>1
      <3> HIDE DEF started
      <3>3. QED
        BY <3>1, <3>2
    <2>6. QED
      BY <1>1, <2>3, <2>5 DEF ChainInv, HoldsBlocks
  <1>4. QED
    BY <1>2, <1>3 DEF Sync

\* A server's answer.
LEMMA RespondHolds ==
  ASSUME ChainInv, NEW s \in Servers, Respond(s), s \in Honest
  PROVE  ChainInv'
  <1>0. PICK q \in requests : \E blocks \in {blocks_from_height_to_newest(s, q.start, limit_of_response)} :
          /\ requests' = requests \ {q}
          /\ responses' = IF NoBlock \in Range(blocks) THEN responses
                          ELSE Append(responses, [from |-> s, blocks |-> blocks, stored |-> TRUE,
                                                  highest_pc |-> tree[s].highest_pc])
    BY DEF Respond
  <1>1. PICK blocks \in {blocks_from_height_to_newest(s, q.start, limit_of_response)} :
          /\ requests' = requests \ {q}
          /\ responses' = IF NoBlock \in Range(blocks) THEN responses
                          ELSE Append(responses, [from |-> s, blocks |-> blocks, stored |-> TRUE,
                                                  highest_pc |-> tree[s].highest_pc])
    BY <1>0
  <1>2. UNCHANGED <<preimage, tree, newest, session>>
    BY DEF Respond, client
  <1>3. TreesGenuine' /\ (\A call \in session' : HoldsBlocks(call)) /\ RequestsOK'
    BY <1>1, <1>2 DEF ChainInv, TreesGenuine, RequestsOK, Genuine, OnAHead
  <1>4. q.start \in Nat /\ limit_of_response \in Nat
    BY SyncAssumption DEF ChainInv, RequestsOK, limit_of_response
  <1>5. preimage = Contents /\ Genuine(tree[s]) /\ newest[s] \in Blocks \cup {NoBlock}
    BY DEF ChainInv, TreesGenuine, Replicas
  <1>6. NoBlock \notin Range(blocks) => blocks \in Seq(Blocks)
    <2>1. blocks = blocks_from_height_to_newest(s, q.start, limit_of_response)
      OBVIOUS
    <2>2. QED
      BY <1>4, <1>5, <2>1, ServedAreBlocks
  <1>7. responses' \in Seq(Answers)
    <2>1. CASE NoBlock \in Range(blocks)
      BY <1>1, <2>1 DEF ChainInv
    <2>2. CASE NoBlock \notin Range(blocks)
      <3> DEFINE answer == [from |-> s, blocks |-> blocks, stored |-> TRUE, highest_pc |-> tree[s].highest_pc]
      <3>1. answer \in Answers
        BY <1>5, <1>6, <2>2 DEF Answers, Genuine
      <3>2. responses' = Append(responses, answer)
        BY <1>1, <2>2
      <3> HIDE DEF answer
      <3>3. QED
        BY <3>1, <3>2 DEF ChainInv
    <2>3. QED
      BY <2>1, <2>2
  <1>8. QED
    BY <1>3, <1>7 DEF ChainInv, HoldsBlocks

\* What a server that is not honest sends are blocks too.
LEMMA RespondAnythingHolds ==
  ASSUME ChainInv, NEW s \in Servers, RespondAnything(s)
  PROVE  ChainInv'
  <1>1. PICK blocks \in Responses :
          responses' = Append(responses, [from |-> s, blocks |-> blocks, stored |-> FALSE,
                                          highest_pc |-> genesis_pc])
    BY DEF RespondAnything
  <1>2. UNCHANGED <<preimage, tree, newest, session, requests>>
    BY DEF RespondAnything, client
  <1>3. TreesGenuine' /\ (\A call \in session' : HoldsBlocks(call)) /\ RequestsOK'
    BY <1>2 DEF ChainInv, TreesGenuine, RequestsOK, Genuine, OnAHead
  <1>4. blocks \in Seq(Blocks)
    BY SyncAssumption DEF Blocks
  <1> DEFINE answer == [from |-> s, blocks |-> blocks, stored |-> FALSE, highest_pc |-> genesis_pc]
  <1>5. answer \in Answers
    BY <1>4 DEF Answers, Certificates
  <1>6. responses' = Append(responses, answer)
    BY <1>1
  <1> HIDE DEF answer
  <1>7. responses' \in Seq(Answers)
    BY <1>5, <1>6 DEF ChainInv
  <1>8. QED
    BY <1>3, <1>7 DEF ChainInv, HoldsBlocks

\* Of a response the client keeps the blocks from the first new one on.
LEMMA ResponseHolds ==
  ASSUME ChainInv, OnResponseWithBlocks
  PROVE  ChainInv'
  <1> DEFINE response == Head(responses)
             fresh == {i \in DOMAIN response.blocks : response.blocks[i] \notin tree[Client].blocks}
             first == CHOOSE i \in fresh : \A j \in fresh : i <= j
  <1>1. PICK call \in Waiting :
          /\ responses # <<>>
          /\ new_blocks(response.blocks) # <<>>
          /\ responses' = Tail(responses)
          /\ session' = {[call EXCEPT !.blocks = new_blocks(response.blocks), !.stored = response.stored,
                                      !.highest_pc = response.highest_pc]}
    BY DEF OnResponseWithBlocks
  <1>2. UNCHANGED <<preimage, tree, newest, requests>>
    BY DEF OnResponseWithBlocks
  <1>3. responses \in Seq(Answers) /\ call \in session /\ HoldsBlocks(call)
    BY DEF ChainInv, Waiting
  <1>4. response \in Answers /\ responses' \in Seq(Answers)
    BY <1>1, <1>3
  <1>5. response.blocks \in Seq(Blocks) /\ response.highest_pc \in Certificates
    BY <1>4 DEF Answers
  <1> HIDE DEF response
  <1>6. fresh # {} /\ new_blocks(response.blocks) = SubSeq(response.blocks, first, Len(response.blocks))
    BY <1>1 DEF new_blocks
  <1>7. first \in DOMAIN response.blocks
    <2>1. fresh \subseteq Nat
      BY <1>5
    <2>2. \E i \in fresh : \A j \in fresh : i <= j
      <3> HIDE DEF fresh
      <3>1. QED
        BY <1>6, <2>1, Minimum
    <2>3. QED
      BY <2>2
  <1> HIDE DEF fresh, first
  <1>8. new_blocks(response.blocks) \in Seq(Blocks)
    BY <1>5, <1>6, <1>7
  <1> DEFINE next == [call EXCEPT !.blocks = new_blocks(response.blocks), !.stored = response.stored,
                                  !.highest_pc = response.highest_pc]
  <1>9. HoldsBlocks(next)
    BY <1>3, <1>5, <1>8 DEF HoldsBlocks
  <1>10. session' = {next}
    BY <1>1
  <1> HIDE DEF next
  <1>11. \A c \in session' : HoldsBlocks(c)'
    BY <1>9, <1>10 DEF HoldsBlocks
  <1>12. QED
    BY <1>2, <1>4, <1>11 DEF ChainInv, TreesGenuine, RequestsOK, Genuine, OnAHead

\* A tree that one replica replaces by a genuine one.
LEMMA ReplaceTree ==
  ASSUME TreesGenuine, NEW r \in Replicas, NEW bt, Genuine(bt), NEW b \in Blocks, UNCHANGED preimage,
         tree' = [tree EXCEPT ![r] = bt], newest' = [newest EXCEPT ![r] = b]
  PROVE  TreesGenuine' /\ tree'[r] = bt
  <1>1. preimage' = Contents /\ DOMAIN tree' = Replicas /\ DOMAIN newest' = Replicas /\ tree'[r] = bt
    BY DEF TreesGenuine
  <1>2. \A s \in Replicas : Genuine(tree'[s]) /\ newest'[s] \in Blocks \cup {NoBlock}
    BY DEF TreesGenuine
  <1>3. QED
    BY <1>1, <1>2 DEF TreesGenuine, Genuine, OnAHead

\* A block of a response is inserted, and the response's PC looked at.
LEMMA SyncBlockHolds ==
  ASSUME ChainInv, SyncBlock
  PROVE  ChainInv'
  <1>1. PICK call \in session \ Waiting :
          /\ acceptable(Head(call.blocks), tree[Client], call.stored)
          /\ \E inserted \in {insert(Head(call.blocks), tree[Client])} :
             \E updated \in {update(block_justify(Head(call.blocks)), inserted)} :
               tree' = [tree EXCEPT ![Client] =
                          IF is_correct(call.highest_pc, updated) /\ safe_pc(call.highest_pc, updated)
                          THEN update(call.highest_pc, updated) ELSE updated]
          /\ newest' = [newest EXCEPT ![Client] = Head(call.blocks)]
          /\ session' = {[call EXCEPT !.blocks = Tail(@), !.synced = counted(@ + 1, call.peer)]}
          /\ IF Len(call.blocks) = 1 THEN Send(request(call.peer, tree'[Client])) ELSE UNCHANGED requests
    BY DEF SyncBlock
  <1>2. UNCHANGED <<preimage, responses>>
    BY DEF SyncBlock
  <1>3. HoldsBlocks(call) /\ call.blocks # <<>>
    BY DEF ChainInv, Waiting
  <1> DEFINE b == Head(call.blocks)
             updated == update(block_justify(b), insert(b, tree[Client]))
             bt == IF is_correct(call.highest_pc, updated) /\ safe_pc(call.highest_pc, updated)
                   THEN update(call.highest_pc, updated) ELSE updated
  <1>4. b \in Blocks /\ Tail(call.blocks) \in Seq(Blocks)
    BY <1>3 DEF HoldsBlocks
  <1>5. Client \in Replicas /\ preimage = Contents /\ Genuine(tree[Client])
    BY DEF ChainInv, TreesGenuine, Replicas
  <1>6. acceptable(b, tree[Client], call.stored) /\ tree' = [tree EXCEPT ![Client] = bt]
        /\ newest' = [newest EXCEPT ![Client] = b]
    BY <1>1
  <1>7. Genuine(updated)
    <2> HIDE DEF b
    <2>1. QED
      BY <1>4, <1>5, <1>6, AcceptedGenuine
  <1>8. Genuine(bt)
    <2> HIDE DEF updated
    <2>1. CASE is_correct(call.highest_pc, updated) /\ safe_pc(call.highest_pc, updated)
      <3>1. IsQuorate(call.highest_pc) /\ call.highest_pc \in Certificates
        BY <1>3, <1>5, <1>7, <2>1, CorrectIsQuorate DEF HoldsBlocks
      <3>2. call.highest_pc.block \in updated.blocks \/ is_genesis_pc(call.highest_pc)
        BY <2>1 DEF safe_pc
      <3>3. QED
        BY <1>5, <1>7, <2>1, <3>1, <3>2, UpdateGenuine
    <2>2. QED
      BY <1>7, <2>1
  <1> HIDE DEF b, bt
  <1>9. TreesGenuine' /\ tree'[Client] = bt
    BY <1>2, <1>4, <1>5, <1>6, <1>8, ReplaceTree DEF ChainInv
  <1>10. RequestsOK'
    <2>1. CASE Len(call.blocks) = 1
      <3> DEFINE q == request(call.peer, bt)
      <3>1. q.start \in Nat
        BY <1>5, <1>8, RequestStart
      <3>2. Send(q)
        BY <1>1, <1>9, <2>1
      <3> HIDE DEF q
      <3>3. QED
        BY <3>1, <3>2, SendStep DEF ChainInv
    <2>2. CASE Len(call.blocks) # 1
      BY <1>1, <2>2 DEF ChainInv, RequestsOK
    <2>3. QED
      BY <2>1, <2>2
  <1> DEFINE next == [call EXCEPT !.blocks = Tail(@), !.synced = counted(@ + 1, call.peer)]
  <1>11. HoldsBlocks(next)
    BY <1>3, <1>4 DEF HoldsBlocks
  <1>12. session' = {next}
    BY <1>1
  <1> HIDE DEF next
  <1>13. \A c \in session' : HoldsBlocks(c)'
    BY <1>11, <1>12 DEF HoldsBlocks
  <1>14. QED
    BY <1>2, <1>9, <1>10, <1>13 DEF ChainInv

\* A proposal that a replica hears.
LEMMA HearsHolds ==
  ASSUME TreesGenuine, NEW r \in Replicas, NEW b \in MainChain, Hears(r, b), UNCHANGED preimage
  PROVE  TreesGenuine'
  <1> DEFINE updated == update(block_justify(b), insert(b, tree[r]))
             bt == [updated EXCEPT !.highest_view_entered = block_justify(b).view + 1]
  <1>1. b \in Blocks
    BY SyncAssumption DEF Blocks
  <1>2. Genuine(updated)
    BY <1>1, AcceptedGenuine DEF Hears, TreesGenuine
  <1>3. tree' = [tree EXCEPT ![r] = bt] /\ newest' = [newest EXCEPT ![r] = b]
    BY DEF Hears
  <1> HIDE DEF updated
  <1>4. DOMAIN bt = DOMAIN updated /\ \A field \in TreeFields : bt[field] = updated[field]
    BY <1>2 DEF Genuine, TreeFields
  <1> HIDE DEF bt
  <1>5. Genuine(bt)
    BY <1>2, <1>4 DEF Genuine, TreeFields
  <1>6. QED
    BY <1>1, <1>3, <1>5, ReplaceTree

\* Steps that hear of no block, take nothing new from a response and ask for
\* nothing.
LEMMA OtherHolds ==
  ASSUME ChainInv, UNCHANGED <<preimage, tree, newest, requests>>, session' \subseteq session,
         responses' = responses \/ (responses # <<>> /\ responses' = Tail(responses))
  PROVE  ChainInv'
  <1>1. responses' \in Seq(Answers)
    BY DEF ChainInv
  <1>2. QED
    BY <1>1 DEF ChainInv, TreesGenuine, Genuine, OnAHead, HoldsBlocks, RequestsOK

\* Every step of the client, the servers and time keeps the invariant.
LEMMA ChainStep ==
  ASSUME ChainInv, [Next]_vars
  PROVE  ChainInv'
  <1>1. Client \in Replicas /\ Honest \subseteq Replicas /\ Honest \subseteq Servers
    BY SyncAssumption DEF Replicas
  <1>2. CASE ReceiveNothing \/ Expire \/ UNCHANGED vars
    BY <1>2, OtherHolds DEF ReceiveNothing, Receives, Expire, vars, client
  <1>3. ASSUME NEW s \in Servers, OnReceiveAdvertiseBlock(s)
        PROVE  ChainInv'
    BY <1>3, OtherHolds DEF OnReceiveAdvertiseBlock, Receives
  <1>4. ASSUME NEW s \in Servers, OnReceiveAdvertisePC(s)
        PROVE  ChainInv'
    BY <1>4, SyncHolds DEF OnReceiveAdvertisePC, Receives
  <1>5. CASE Tick
    <2>1. CASE Sync("recv")
      BY <1>5, <2>1, SyncHolds DEF Tick
    <2>2. CASE UNCHANGED <<session, requests>>
      BY <1>5, <2>2, OtherHolds DEF Tick
    <2>3. QED
      BY <1>5, <2>1, <2>2 DEF Tick
  <1>6. CASE OnReceiveProposal
    <2>1. PICK b \in MainChain : Hears(Client, b)
      BY <1>6, SyncAssumption DEF OnReceiveProposal
    <2>2. UNCHANGED <<preimage, responses, session, requests>>
      BY <1>6 DEF OnReceiveProposal, Receives
    <2>3. TreesGenuine'
      BY <1>1, <2>1, <2>2, HearsHolds DEF ChainInv
    <2>4. QED
      BY <2>2, <2>3 DEF ChainInv, HoldsBlocks, RequestsOK
  <1>7. CASE RefuseBlock \/ OnResponseWithoutBlocks \/ OnResponseOfOther \/ OnTimeout
    <2>1. /\ UNCHANGED <<preimage, tree, newest, requests>>
          /\ session' \subseteq session
          /\ responses' = responses \/ (responses # <<>> /\ responses' = Tail(responses))
      BY <1>7 DEF RefuseBlock, OnResponseWithoutBlocks, OnResponseOfOther, OnTimeout, Conclude, EndSync, client
    <2>2. QED
      BY <2>1, OtherHolds
  <1>8. ASSUME NEW s \in Honest, Respond(s)
        PROVE  ChainInv'
    BY <1>1, <1>8, RespondHolds
  <1>9. ASSUME NEW s \in Honest, ServerHears(s)
        PROVE  ChainInv'
    <2>1. PICK b \in MainChain : Hears(s, b)
      BY <1>9 DEF ServerHears
    <2>2. UNCHANGED <<preimage, responses, session, requests>>
      BY <1>9 DEF ServerHears, client
    <2>3. TreesGenuine'
      BY <1>1, <2>1, <2>2, HearsHolds DEF ChainInv
    <2>4. QED
      BY <2>2, <2>3 DEF ChainInv, HoldsBlocks, RequestsOK
  <1>10. ASSUME NEW s \in Servers \ Honest, RespondAnything(s)
         PROVE  ChainInv'
    BY <1>10, RespondAnythingHolds
  <1>11. CASE SyncStep
    BY <1>7, <1>11, ResponseHolds, SyncBlockHolds DEF SyncStep
  <1>12. CASE ClientStep
    BY <1>2, <1>3, <1>4, <1>5, <1>6, <1>11, <1>12 DEF ClientStep
  <1>13. QED
    BY <1>2, <1>8, <1>9, <1>10, <1>12 DEF Next

\* In every behaviour all trees consist of blocks that quorums certified.
THEOREM TreesAreGenuine == Spec => []ChainInv
  <1>1. Init => ChainInv
    BY InitialGenuine DEF Init, ChainInv, TreesGenuine, RequestsOK
  <1>2. QED
    BY <1>1, ChainStep, PTL DEF Spec

\* The client's chain, and those of the honest servers, are one chain, whatever
\* the other servers send: the checks of sync_with let no block in that no
\* quorum certified, and commit none but on the certificates of quorums.
THEOREM ChainsStayAgreed == Spec => []ChainsAgree
  <1>1. ChainInv => ChainsAgree
    BY GenuineAgree DEF ChainInv, TreesGenuine, ChainsAgree
  <1>2. QED
    BY <1>1, TreesAreGenuine, PTL

=============================================================================
