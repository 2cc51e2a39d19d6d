----------------------- MODULE ProgressMessageBuffer -----------------------
(***************************************************************************)
(* The ProgressMessageStub of one replica, src/networking/receiving.rs: the *)
(* buffer that keeps messages of future views, and its account of bytes.   *)
(*                                                                         *)
(* A step is one message going through recv.  A call of recv that passes   *)
(* over several messages before it returns one, or times out, is as many   *)
(* steps: the view does not change in between, so that clearing the buffer *)
(* of old messages again changes nothing, and messages that are passed     *)
(* over are not of the current view, so that none can be taken out.        *)
(* What recv returns goes to the subprotocols and is not kept here.        *)
(*                                                                         *)
(* A queue is the sequence of the kinds of its messages.  Sizes are small  *)
(* naturals; that the account overflows 64 bits is not modelled.           *)
(***************************************************************************)
EXTENDS Integers, Sequences, FiniteSets, Functions

CONSTANTS
  SizeOf,       \* SizeOf[kind]: the bytes of a message with its sender's key
  Capacity,     \* buffer_capacity
  MaxView,      \* bound: the highest view of a message
  MaxAccount    \* bound: nothing more arrives when buffer_size has reached it

VARIABLES
  cur_view,     \* the view recv is called with
  buffer,       \* buffer[v]: the queue of view v, for the views that have one
  buffer_size,  \* the account of bytes
  wasted        \* history: the last arrival made the buffer lose a message
                \* although there was room for all

vars == <<cur_view, buffer, buffer_size, wasted>>

Cacheable == {"HotStuff", "Pacemaker"}

ASSUME BufferAssumption ==
  /\ SizeOf \in [Cacheable -> Nat \ {0}]
  /\ Capacity \in Nat /\ MaxView \in Nat
  /\ \A kind \in Cacheable : SizeOf[kind] <= Capacity

-----------------------------------------------------------------------------

\* The places of the messages in a buffer, and the bytes of some of them.
Places(buf) == UNION {{v} \X DOMAIN buf[v] : v \in DOMAIN buf}
Weights(buf) == [p \in Places(buf) |-> SizeOf[buf[p[1]][p[2]]]]
BytesAt(buf, places) == SumFunctionOnSet(Weights(buf), places)
Bytes(buf) == BytesAt(buf, Places(buf))

\* Seeded fault: the messages of the lowest views are removed first.
goes_lowest_first(p, q) == p[1] < q[1] \/ (p[1] = q[1] /\ p[2] > q[2])

\* p is removed before q: higher views first, the end of a queue first.
goes_before(p, q) == p[1] > q[1] \/ (p[1] = q[1] /\ p[2] > q[2])

\* Seeded fault: one more message is accounted for than is removed.
evicted_bytes_ahead(buf, bytes) ==
  BytesAt(buf, {q \in Places(buf) :
                  BytesAt(buf, {p \in Places(buf) : goes_before(p, q)}) <= bytes})

\* The messages that remove_highest_viewed_msgs removes to free so many bytes:
\* those before which less has been removed.
evicted(buf, bytes) ==
  {q \in Places(buf) : BytesAt(buf, {p \in Places(buf) : goes_before(p, q)}) < bytes}

evicted_bytes(buf, bytes) == BytesAt(buf, evicted(buf, bytes))

\* A view that the removal has reached loses its key with its last message,
\* also if it had none.
remove_highest_viewed_msgs(buf, bytes) ==
  LET gone    == evicted(buf, bytes)
      rest(v) == SubSeq(buf[v], 1, Len(buf[v]) - Cardinality({p \in gone : p[1] = v}))
      reached == {v \in DOMAIN buf : BytesAt(buf, {p \in Places(buf) : p[1] > v}) < bytes}
  IN  [v \in {w \in DOMAIN buf : w \in reached => rest(w) # <<>>} |-> rest(v)]

remove_expired_msgs(buf) == Restrict(buf, {v \in DOMAIN buf : v >= cur_view})

push_back(buf, v, kind) ==
  [w \in DOMAIN buf \cup {v} |->
     LET queue == IF w \in DOMAIN buf THEN buf[w] ELSE <<>>
     IN  IF w = v THEN Append(queue, kind) ELSE queue]

-----------------------------------------------------------------------------
(* The outcomes of insert for a message of view v, with what recv has left *)
(* of the buffer.                                                          *)

\* Seeded fault: the message that is to be stored is not counted.
overloaded(kind) == buffer_size >= Capacity

Overloads(kind) == buffer_size + SizeOf[kind] > Capacity

\* The message is to be stored although there is no room for it.
MakesRoom(buf, v) == DOMAIN buf = {} \/ \E w \in DOMAIN buf : v < w

\* There would be room if the account were exact.
HasRoom(kind) == Bytes(remove_expired_msgs(buffer)) + SizeOf[kind] <= Capacity

Insert(v, kind) ==
  /\ ~Overloads(kind)
  /\ buffer' = push_back(remove_expired_msgs(buffer), v, kind)
  /\ buffer_size' = buffer_size + SizeOf[kind]
  /\ wasted' = FALSE

InsertEvicting(v, kind) ==
  LET buf == remove_expired_msgs(buffer) IN
  /\ Overloads(kind)
  /\ MakesRoom(buf, v)
  /\ buffer' = push_back(remove_highest_viewed_msgs(buf, SizeOf[kind]), v, kind)
  /\ buffer_size' = buffer_size - evicted_bytes(buf, SizeOf[kind]) + SizeOf[kind]
  /\ wasted' = (HasRoom(kind) /\ evicted(buf, SizeOf[kind]) # {})

InsertRefused(v, kind) ==
  LET buf == remove_expired_msgs(buffer) IN
  /\ Overloads(kind)
  /\ ~MakesRoom(buf, v)
  /\ buffer' = buf
  /\ wasted' = HasRoom(kind)
  /\ UNCHANGED buffer_size

-----------------------------------------------------------------------------
(* recv.                                                                   *)

HasBuffered == cur_view \in DOMAIN buffer /\ buffer[cur_view] # <<>>

\* A buffered message of the current view is returned.  Its queue stays, also
\* when it is empty, and its bytes stay in the account.
RecvBuffered ==
  /\ HasBuffered
  /\ buffer' = [remove_expired_msgs(buffer) EXCEPT ![cur_view] = Tail(@)]
  /\ wasted' = FALSE
  /\ UNCHANGED <<cur_view, buffer_size>>

\* A message of a future view arrives and is cached, or not.
RecvFuture(v, kind) ==
  /\ ~HasBuffered
  /\ v > cur_view
  /\ buffer_size < MaxAccount
  /\ Insert(v, kind) \/ InsertEvicting(v, kind) \/ InsertRefused(v, kind)
  /\ UNCHANGED cur_view

\* Another message arrives, which is returned or dropped, or recv times out.
RecvOther ==
  /\ ~HasBuffered
  /\ buffer' = remove_expired_msgs(buffer)
  /\ wasted' = FALSE
  /\ UNCHANGED <<cur_view, buffer_size>>

\* The pacemaker goes to another view between two calls.
EnterView(v) ==
  /\ v > cur_view
  /\ cur_view' = v
  /\ wasted' = FALSE
  /\ UNCHANGED <<buffer, buffer_size>>

-----------------------------------------------------------------------------

Init ==
  /\ cur_view = 0
  /\ buffer = <<>>
  /\ buffer_size = 0
  /\ wasted = FALSE

Next ==
  \/ RecvBuffered
  \/ RecvOther
  \/ \E v \in 0 .. MaxView, kind \in Cacheable : RecvFuture(v, kind)
  \/ \E v \in 0 .. MaxView : EnterView(v)

Spec == Init /\ [][Next]_vars

-----------------------------------------------------------------------------
(* Properties.                                                             *)

\* "Its size is bounded by its capacity": what is really in the buffer never
\* takes more bytes than the capacity, whatever arrives, is taken out, expires
\* or is evicted in between (ProgressMessageBuffer::insert).
BufferBounded == Bytes(buffer) <= Capacity

\* The account covers what is in the buffer, so that giving back the bytes of
\* evicted messages cannot go below zero (remove_highest_viewed_msgs).
AccountCoversBuffer == Bytes(buffer) <= buffer_size

Left(v) == IF v \in DOMAIN buffer' THEN Len(buffer'[v]) ELSE 0

\* "The logic for removing future-viewed messages removes highest-viewed
\* messages first": if a future view loses messages, nothing is left of higher
\* views but a message that has just arrived.
EvictsHighestFirst ==
  [][\A v, w \in DOMAIN buffer :
       cur_view < v /\ v < w /\ Left(v) < Len(buffer[v]) => Left(w) <= 1]_vars

\* Messages are removed or refused only "in case caching the message makes the
\* buffer grow beyond its capacity" (ProgressMessageBuffer::insert).
NothingLostWhileRoom == ~wasted
=============================================================================
