----------------------------- MODULE BlockSync -----------------------------
(***************************************************************************)
(* Block sync: the client that runs on the algorithm thread of a replica   *)
(* (src/block_sync/client.rs), the servers that run on threads of their    *)
(* own at its peers (src/block_sync/server.rs, over snapshots of their     *)
(* block trees), and the channel between them (networking/receiving.rs).   *)
(*                                                                         *)
(* Time is abstract: an advertisement may be sent, a sync triggered and a  *)
(* response given up at any time.  Of the instant that a blacklisting ends *)
(* at, what is kept is whether it has passed.                              *)
(*                                                                         *)
(* Requests may be lost (nobody ever answers them) or answered late: a     *)
(* response is whatever comes from the peer while the client waits, also   *)
(* if it answers an earlier request.  An advertisement may be old.         *)
(* Servers outside Honest promise and send anything.                       *)
(*                                                                         *)
(* HotStuff is abstracted to the blocks of MainChain, which reach servers  *)
(* and client as proposals, in order; the client's at any time that it is  *)
(* not syncing: sync_with keeps the algorithm thread until it is over.     *)
(***************************************************************************)
EXTENDS BlockTree

CONSTANTS
  Client,               \* the key of the replica that syncs
  Servers,              \* the keys of those that advertise themselves
  Honest,               \* the servers that follow the code
  Contents,             \* the blocks there are
  MainChain,            \* the blocks that leaders propose to the honest servers
  ProposedToClient,     \* ... and those whose proposals may reach the client
  Responses,            \* what servers outside Honest may answer
  Promises,             \* ... and the heights they may advertise
  ValidStored,          \* data that the app accepts of a block without its datums
  RequestLimit,         \* request_limit of the client
  ServerLimit,          \* request_limit of the servers
  MinViewDifference,    \* block_sync_trigger_min_view_difference
  ValidatorSets         \* validator sets, among them all that can arise

VARIABLES
  tree,                 \* tree[r]: the block tree of the client or an honest server
  newest,               \* newest[r]: its newest_block
  available,            \* available_sync_servers: [servers -> promised heights]
  blacklist,            \* blacklist: a sequence of [server, expired]
  session,              \* the call of sync_with that is running, or none
  at,                   \* the step of the main loop: "recv" or "tick"
  requests,             \* requests on their way
  responses             \* the channel of the client's receiver

client == <<available, blacklist, session, at>>
vars == <<preimage, tree, newest, client, requests, responses>>

ASSUME SyncAssumption ==
  /\ Client \notin Servers
  /\ Honest \subseteq Servers
  /\ ProposedToClient \subseteq MainChain
  /\ MainChain \subseteq DOMAIN Contents
  /\ Responses \subseteq Seq(DOMAIN Contents)
  /\ Promises \subseteq Nat
  /\ ValidStored \subseteq ValidData
  /\ RequestLimit \in Nat \ {0}
  /\ ServerLimit \in Nat \ {0}

BlockContents ==
  [ height  : Nat,
    data    : AppData,
    justify : [view : Nat, block : Nat, phase : Phases, signatures : Seq(Nat)] ]

\* Blocks are made on blocks that were made before, and are one higher.
ASSUME ContentsAssumption ==
  /\ Contents \in Seq(BlockContents)
  /\ \A b \in DOMAIN Contents :
       LET pc == Contents[b].justify IN
       IF is_genesis_pc(pc) THEN Contents[b].height = 0
       ELSE pc.block \in 1 .. b - 1 /\ Contents[b].height = Contents[pc.block].height + 1

\* Updates lead from validator sets to validator sets.
ASSUME ValidatorsAssumption ==
  /\ InitialValidatorSet \in ValidatorSets
  /\ \A vs \in ValidatorSets, d \in UpdatingData : apply_updates(vs, UpdatesOf[d]) \in ValidatorSets

Replicas == Honest \cup {Client}

-----------------------------------------------------------------------------
(* The certificates there are.  Which of them HotStuff lets come about is  *)
(* not block sync's concern: it is assumed that they commit one chain.     *)

Certificates == {genesis_pc} \cup {Contents[b].justify : b \in DOMAIN Contents}

\* A quorum signed pc.
IsQuorate(pc) == is_genesis_pc(pc) \/ \E vs \in ValidatorSets : is_correctly_signed(pc, vs)

\* Three certificates of consecutive views, the last of which is pc, commit b.
EndsThreeChain(pc, b) ==
  LET parent_justify      == Contents[pc.block].justify
      grandparent_justify == Contents[parent_justify.block].justify
  IN  /\ ~is_genesis_pc(parent_justify)
      /\ ~is_genesis_pc(grandparent_justify)
      /\ IsQuorate(parent_justify) /\ IsQuorate(grandparent_justify)
      /\ pc.view = parent_justify.view + 1
      /\ parent_justify.view = grandparent_justify.view + 1
      /\ b = grandparent_justify.block

\* The blocks that certificates of quorums commit (block_to_commit).
Heads ==
  {b \in DOMAIN Contents : \E pc \in Certificates \ {genesis_pc} :
     /\ IsQuorate(pc)
     /\ \/ pc.phase = "Generic" /\ EndsThreeChain(pc, b)
        \/ pc.phase \in {"Commit", "Decide"} /\ b = pc.block}

\* A block and its ancestors, as `ancestry`.
lineage[b \in 0 .. Len(Contents)] ==
  IF b = Genesis THEN {} ELSE {b} \cup lineage[Contents[b].justify.block]

\* Agreement, which HotStuff provides: the blocks that certificates commit are
\* on one chain.
ASSUME CertificatesAssumption ==
  \A a, b \in Heads : a \in lineage[b] \/ b \in lineage[a]

-----------------------------------------------------------------------------

\* A height as the sync protocol counts it: 0 if nothing is committed.
committed_height(r) ==
  IF tree[r].highest_committed_block = NoBlock THEN 0 ELSE height(tree[r].highest_committed_block)

-----------------------------------------------------------------------------
(* The server: blocks_from_height_to_newest on a snapshot.                 *)

\* The blocks on top of the highest committed one, lowest first; none if the
\* walk from the newest block does not find a block.
blocks_from_newest_to_committed(s) ==
  LET bt == tree[s]
      from[b \in Nat] ==
        IF b \notin bt.blocks THEN <<NoBlock>>
        ELSE IF block_justify(b).block = bt.highest_committed_block \/ is_genesis_pc(block_justify(b))
        THEN <<b>>
        ELSE Append(from[block_justify(b).block], b)
  IN  IF newest[s] = NoBlock THEN <<>> ELSE from[newest[s]]

committed_from(s, start) ==
  LET chain[h \in Nat] ==
        IF \E p \in tree[s].block_at_height : p[1] = h
        THEN <<(CHOOSE p \in tree[s].block_at_height : p[1] = h)[2]>> \o chain[h + 1]
        ELSE <<>>
  IN  chain[start]

blocks_from_height_to_newest(s, start, limit) ==
  LET all == committed_from(s, start) \o blocks_from_newest_to_committed(s)
  IN  SubSeq(all, 1, IF limit < Len(all) THEN limit ELSE Len(all))

\* The larger of the two limits counts.
limit_of_response == IF RequestLimit > ServerLimit THEN RequestLimit ELSE ServerLimit

\* Bound: one response of each server in the channel.
HasRoom(s) == \A i \in DOMAIN responses : responses[i].from # s

\* A server takes a request and answers it, unless its snapshot fails it.
Respond(s) ==
  \E q \in {p \in requests : p.to = s} :
  \E blocks \in {blocks_from_height_to_newest(s, q.start, limit_of_response)} :
    /\ HasRoom(s)
    /\ requests' = requests \ {q}
    /\ responses' = IF NoBlock \in Range(blocks) THEN responses
                    ELSE Append(responses, [from |-> s, blocks |-> blocks, stored |-> TRUE,
                                            highest_pc |-> tree[s].highest_pc])
    /\ UNCHANGED <<preimage, tree, newest, client>>

\* A server that is not honest sends what it likes, asked or not.
RespondAnything(s) ==
  /\ HasRoom(s)
  /\ \E blocks \in Responses :
       responses' = Append(responses, [from |-> s, blocks |-> blocks, stored |-> FALSE,
                                       highest_pc |-> genesis_pc])
  /\ UNCHANGED <<preimage, tree, newest, client, requests>>

\* What the advertisements of a server may say by now.
advertised_heights(s) == IF s \in Honest THEN 0 .. committed_height(s) ELSE Promises

advertised_pcs(s) ==
  LET all == {preimage[h].justify : h \in DOMAIN preimage}
  IN  IF s \in Honest THEN {pc \in all : pc.view <= tree[s].highest_pc.view} ELSE all

-----------------------------------------------------------------------------
(* The state of the client.                                                *)

blacklist_contains(s) == \E i \in DOMAIN blacklist : blacklist[i].server = s

\* Seeded fault: a blacklisted server stays available.
unregistered_not(s) == available

unregistered(s) == [t \in DOMAIN available \ {s} |-> available[t]]

Blacklist(s) ==
  /\ available' = unregistered(s)
  /\ blacklist' = Append(blacklist, [server |-> s, expired |-> FALSE])

\* Entries are removed from the front while their end lies ahead.
remove_expired_blacklisted_servers ==
  LET kept == {i \in DOMAIN blacklist : blacklist[i].expired}
  IN  IF kept = {} THEN <<>>
      ELSE SubSeq(blacklist, CHOOSE i \in kept : \A j \in kept : i <= j, Len(blacklist))

\* Seeded fault: any available server will do.
sync_servers_all(registered) == DOMAIN registered

\* The servers that random_sync_server chooses from.
sync_servers(registered) ==
  IF tree[Client].highest_committed_block = NoBlock THEN DOMAIN registered
  ELSE {s \in DOMAIN registered : registered[s] >= committed_height(Client)}

\* A committed validator, or one that a speculative block lets in.
is_sync_server_address(s) ==
  LET bt == tree[Client] IN
  \/ s \in DOMAIN bt.cvs
  \/ /\ bt.highest_committed_block # NoBlock
     /\ \E b \in blocks_in_branch(bt.highest_committed_block, bt) \cap bt.pending_updates :
          s \in DOMAIN UpdatesOf[data(b)].inserts

-----------------------------------------------------------------------------
(* sync and sync_with.                                                     *)

\* The call of sync_with, if it waits for a response.
Waiting == {call \in session : call.blocks = <<>>}

\* Seeded fault: every request asks for the blocks from genesis on.
request_from_genesis(s, bt) == [to |-> s, start |-> 0]

request(s, bt) ==
  [to |-> s, start |-> IF bt.highest_committed_block = NoBlock THEN 0
                       ELSE height(bt.highest_committed_block) + 1]

\* Bound: of two requests on their way to one server, the older one is lost.
\* What a server that is not honest is asked does not matter.
Send(q) ==
  requests' = IF q.to \in Honest THEN {p \in requests : p.to # q.to} \cup {q} ELSE requests

\* sync: start with some server, or do nothing if there is none; the main loop
\* goes on at step `next` after it.
Sync(next) ==
  \/ /\ \E s \in sync_servers(available) :
          /\ session' = {[peer |-> s, init_height |-> committed_height(Client), synced |-> 0, next |-> next,
                           blocks |-> <<>>, stored |-> FALSE, highest_pc |-> genesis_pc]}
          /\ Send(request(s, tree[Client]))
     /\ at' = "sync"
  \/ /\ sync_servers(available) = {}
     /\ at' = next
     /\ UNCHANGED <<session, requests>>


\* The blocks of a response without the leading ones that the client has.
new_blocks(blocks) ==
  LET fresh == {i \in DOMAIN blocks : blocks[i] \notin tree[Client].blocks}
  IN  IF fresh = {} THEN <<>>
      ELSE SubSeq(blocks, CHOOSE i \in fresh : \A j \in fresh : i <= j, Len(blocks))

\* Seeded fault: certificates are not checked.
acceptable_unsigned(b, bt, stored) ==
  safe_block(b, bt) /\ data(b) \in IF stored THEN ValidStored ELSE ValidData

\* The app sees a block that comes from a store without its datums.
acceptable(b, bt, stored) ==
  /\ is_correct(block_justify(b), bt)
  /\ safe_block(b, bt)
  /\ data(b) \in IF stored THEN ValidStored ELSE ValidData

\* sync_with is over: the main loop goes on.
EndSync(call) ==
  /\ session' = {}
  /\ at' = call.next

\* Fewer blocks came than the server had promised.
BrokenPromise(call) == call.synced < available[call.peer] - call.init_height

\* The next response in the channel is from the peer and has new blocks.
OnResponseWithBlocks ==
  \E call \in Waiting :
    LET response == Head(responses) IN
    /\ responses # <<>>
    /\ response.from = call.peer
    /\ new_blocks(response.blocks) # <<>>
    /\ responses' = Tail(responses)
    /\ session' = {[call EXCEPT !.blocks = new_blocks(response.blocks), !.stored = response.stored,
                                !.highest_pc = response.highest_pc]}
    /\ UNCHANGED <<preimage, tree, newest, available, blacklist, at, requests>>

\* Blocks beyond the promise of the peer make no difference and are not counted.
counted(n, peer) == IF n <= available[peer] THEN n ELSE available[peer]

\* The next block of the response is inserted; the response's highest PC is
\* looked at after each.  After the last block the client asks for more.
SyncBlock ==
  \E call \in session \ Waiting :
    LET b == Head(call.blocks) IN
    /\ acceptable(b, tree[Client], call.stored)
    /\ \E inserted \in {insert(b, tree[Client])} :
       \E updated \in {update(block_justify(b), inserted)} :
         tree' = [tree EXCEPT ![Client] =
                    IF is_correct(call.highest_pc, updated) /\ safe_pc(call.highest_pc, updated)
                    THEN update(call.highest_pc, updated) ELSE updated]
    /\ newest' = [newest EXCEPT ![Client] = b]
    /\ session' = {[call EXCEPT !.blocks = Tail(@), !.synced = counted(@ + 1, call.peer)]}
    /\ IF Len(call.blocks) = 1 THEN Send(request(call.peer, tree'[Client])) ELSE UNCHANGED requests
    /\ UNCHANGED <<preimage, available, blacklist, at, responses>>

\* ... or is refused, which ends the sync.
RefuseBlock ==
  \E call \in session \ Waiting :
    /\ ~acceptable(Head(call.blocks), tree[Client], call.stored)
    /\ Blacklist(call.peer)
    /\ EndSync(call)
    /\ UNCHANGED <<preimage, tree, newest, requests, responses>>

\* The end of a sync that brings nothing more.
Conclude(call) ==
  /\ IF BrokenPromise(call) THEN Blacklist(call.peer) ELSE UNCHANGED <<available, blacklist>>
  /\ EndSync(call)
  /\ UNCHANGED <<preimage, tree, newest, requests>>

OnResponseWithoutBlocks ==
  \E call \in Waiting :
    /\ responses # <<>>
    /\ Head(responses).from = call.peer
    /\ new_blocks(Head(responses).blocks) = <<>>
    /\ responses' = Tail(responses)
    /\ Conclude(call)

\* A response from somebody else, left over from an earlier sync, is dropped.
OnResponseOfOther ==
  /\ \E call \in Waiting : responses # <<>> /\ Head(responses).from # call.peer
  /\ responses' = Tail(responses)
  /\ UNCHANGED <<preimage, tree, newest, client, requests>>

\* No response from the peer in time.
OnTimeout ==
  /\ responses = <<>>
  /\ \E call \in Waiting : Conclude(call)
  /\ UNCHANGED responses

-----------------------------------------------------------------------------
(* The main loop of the client: recv and a handler, then tick.             *)

Receives == at = "recv" /\ UNCHANGED <<preimage, responses>>

ReceiveNothing ==
  /\ Receives
  /\ at' = "tick"
  /\ UNCHANGED <<tree, newest, available, blacklist, session, requests>>

OnReceiveAdvertiseBlock(s) ==
  /\ Receives
  /\ is_sync_server_address(s)
  /\ ~blacklist_contains(s)
  /\ \E h \in advertised_heights(s) :
       available' = [t \in DOMAIN available \cup {s} |-> IF t = s THEN h ELSE available[t]]
  /\ at' = "tick"
  /\ UNCHANGED <<tree, newest, blacklist, session, requests>>

OnReceiveAdvertisePC(s) ==
  /\ Receives
  /\ ~blacklist_contains(s)
  /\ \E pc \in advertised_pcs(s) :
       /\ pc.view >= tree[Client].highest_view_entered
       /\ pc.view - tree[Client].highest_view_entered >= MinViewDifference
       /\ is_correct(pc, tree[Client])
  /\ Sync("tick")
  /\ UNCHANGED <<tree, newest, available, blacklist>>

\* r hears of the next block of the main chain from its leader.
Hears(r, b) ==
  /\ acceptable(b, tree[r], FALSE)
  /\ b \notin tree[r].blocks
  /\ tree' = [tree EXCEPT ![r] = [update(block_justify(b), insert(b, @))
                                    EXCEPT !.highest_view_entered = block_justify(b).view + 1]]
  /\ newest' = [newest EXCEPT ![r] = b]

OnReceiveProposal ==
  /\ Receives
  /\ \E b \in ProposedToClient : Hears(Client, b)
  /\ at' = "tick"
  /\ UNCHANGED <<available, blacklist, session, requests>>

\* The trigger timeout has passed or it has not.
Tick ==
  /\ at = "tick"
  /\ blacklist' = remove_expired_blacklisted_servers
  /\ \/ Sync("recv")
     \/ at' = "recv" /\ UNCHANGED <<session, requests>>
  /\ UNCHANGED <<preimage, tree, newest, available, responses>>

ServerHears(s) ==
  /\ \E b \in MainChain : Hears(s, b)
  /\ UNCHANGED <<preimage, client, requests, responses>>

\* The end of the oldest blacklisting that lies ahead passes.
Expire ==
  /\ \E i \in DOMAIN blacklist :
       /\ ~blacklist[i].expired
       /\ \A j \in 1 .. i - 1 : blacklist[j].expired
       /\ blacklist' = [blacklist EXCEPT ![i].expired = TRUE]
  /\ UNCHANGED <<preimage, tree, newest, available, session, at, requests, responses>>

Init ==
  /\ preimage = Contents
  /\ tree = [r \in Replicas |-> initialize]
  /\ newest = [r \in Replicas |-> NoBlock]
  /\ available = <<>>
  /\ blacklist = <<>>
  /\ session = {}
  /\ at = "recv"
  /\ requests = {}
  /\ responses = <<>>

SyncStep ==
  \/ OnTimeout
  \/ OnResponseWithBlocks \/ OnResponseWithoutBlocks \/ OnResponseOfOther
  \/ RefuseBlock \/ SyncBlock

ClientStep ==
  \/ ReceiveNothing
  \/ Tick
  \/ SyncStep
  \/ \E s \in Servers : OnReceiveAdvertiseBlock(s) \/ OnReceiveAdvertisePC(s)
  \/ OnReceiveProposal

Next ==
  \/ ClientStep
  \/ \E s \in Honest : Respond(s) \/ ServerHears(s)
  \/ \E s \in Servers \ Honest : RespondAnything(s)
  \/ Expire

Spec == Init /\ [][Next]_vars

-----------------------------------------------------------------------------
(* Fairness: the algorithm thread runs; of the advertisements and answers  *)
(* that an honest server keeps sending, some arrive, in time; and the      *)
(* random choice of a server does not pass one over for ever.              *)

AdvertisementArrives(s) == OnReceiveAdvertiseBlock(s) /\ available'[s] = committed_height(s)

SyncIsTriggered(s) == Tick /\ \E call \in session' : call.peer = s

RespondInTime(s) == Respond(s) /\ \E call \in session : call.peer = s

FairSpec ==
  /\ Spec
  /\ WF_vars(ClientStep)
  /\ \A s \in Honest : /\ SF_vars(AdvertisementArrives(s))
                       /\ SF_vars(SyncIsTriggered(s))
                       /\ SF_vars(RespondInTime(s))

-----------------------------------------------------------------------------
(* Properties.                                                             *)

\* What the client has committed, by sync and from proposals, is what the
\* honest servers have committed: a server cannot talk it into another chain
\* (the checks of sync_with before it inserts a block).
ChainsAgree ==
  \A r, s \in Replicas : \A p \in tree[r].block_at_height, q \in tree[s].block_at_height :
    p[1] = q[1] => p[2] = q[2]

\* While a sync runs, its peer is registered with a promise that is not lower
\* than the height the sync started at: the `unwrap` and the subtraction that
\* end sync_with neither panic nor wrap around.
PromiseCoversStart ==
  \A call \in session : /\ call.peer \in DOMAIN available
                        /\ available[call.peer] >= call.init_height

\* The client asks no server that is on its blacklist, whichever order
\* blacklistings, advertisements and syncs come in.
BlacklistedNotAsked == \A call \in session : ~blacklist_contains(call.peer)


\* s is on the blacklist behind an entry whose end has passed, or that entry
\* is its own: it is never removed.
IgnoredForGood(s) ==
  \E i, j \in DOMAIN blacklist : i <= j /\ blacklist[i].expired /\ blacklist[j].server = s

\* The client keeps getting every block that an honest server has, whatever
\* the others serve, unless it ignores that server for good.
CatchesUp ==
  \A s \in Honest : []<>(tree[s].blocks \subseteq tree[Client].blocks \/ IgnoredForGood(s))

\* A blacklisted server is ignored until the instant its blacklisting ends
\* (the comment on `blacklist` in BlockSyncClientState).
IgnoredUntilExpiry ==
  [][\A i \in DOMAIN blacklist : ~blacklist[i].expired => blacklist_contains(blacklist[i].server)']_vars
=============================================================================
