---------------------------- MODULE BufferProofs ----------------------------
(***************************************************************************)
(* The buffer of messages of future views stays within its capacity, its   *)
(* account covers what is in it, and it evicts the messages of the highest *)
(* views first, for every capacity and all sizes of messages that fit.     *)
(*                                                                         *)
(* The account is what insert compares with the capacity, so the bound of  *)
(* the buffer rests on the account covering it; the account stays above    *)
(* because no more is given back than is evicted, and when messages are    *)
(* evicted, enough of them are for the new one to fit.                     *)
(***************************************************************************)
EXTENDS ProgressMessageBuffer, FiniteTheorems

\* Finitely many views, each with a queue.
IsBuffer(buf) ==
  /\ DOMAIN buf \subseteq Nat
  /\ IsFiniteSet(DOMAIN buf)
  /\ \A v \in DOMAIN buf : buf[v] \in Seq(Cacheable)

TypeInv ==
  /\ cur_view \in Nat
  /\ IsBuffer(buffer)
  /\ buffer_size \in Nat

BufferInv == TypeInv /\ BufferBounded /\ AccountCoversBuffer

\* How many messages a view has.
Remaining(buf, v) == IF v \in DOMAIN buf THEN Len(buf[v]) ELSE 0

Before(buf, q) == {p \in Places(buf) : goes_before(p, q)}

-----------------------------------------------------------------------------
(* Places and bytes.                                                       *)

\* What a place of a buffer is.
LEMMA PlaceFacts ==
  ASSUME NEW buf, IsBuffer(buf)
  PROVE  /\ \A p \in Places(buf) : /\ p = <<p[1], p[2]>>
                                   /\ p[1] \in DOMAIN buf /\ p[1] \in Nat
                                   /\ p[2] \in 1 .. Len(buf[p[1]])
                                   /\ buf[p[1]][p[2]] \in Cacheable
         /\ \A v \in DOMAIN buf : \A i \in 1 .. Len(buf[v]) : <<v, i>> \in Places(buf)
  BY DEF Places, IsBuffer

\* There are finitely many.
LEMMA PlacesFinite ==
  ASSUME NEW buf, IsBuffer(buf)
  PROVE  IsFiniteSet(Places(buf))
  <1> DEFINE in(v) == {v} \X DOMAIN buf[v]
             all == {in(v) : v \in DOMAIN buf}
  <1>1. IsFiniteSet(all)
    <2> DEFINE f == [v \in DOMAIN buf |-> in(v)]
    <2>1. f \in Surjection(DOMAIN buf, all)
      BY DEF Surjection
    <2>2. QED
      BY <2>1, FS_Surjection DEF IsBuffer
  <1>2. ASSUME NEW v \in DOMAIN buf
        PROVE  IsFiniteSet(in(v))
    <2>1. DOMAIN buf[v] = 1 .. Len(buf[v]) /\ Len(buf[v]) \in Nat
      BY DEF IsBuffer
    <2>2. IsFiniteSet(1 .. Len(buf[v])) /\ IsFiniteSet({v})
      <3>1. IsFiniteSet(1 .. Len(buf[v]))
        BY <2>1, FS_Interval
      <3>2. QED
        BY <3>1, FS_Singleton
    <2>3. QED
      BY <2>1, <2>2, FS_Product
  <1>3. \A S \in all : IsFiniteSet(S)
    BY <1>2
  <1>4. IsFiniteSet(UNION all)
    <2> HIDE DEF all
    <2>1. QED
      BY <1>1, <1>3, FS_UNION
  <1>5. QED
    BY <1>4 DEF Places

\* Every message has its size, which is not zero.
LEMMA WeightsType ==
  ASSUME NEW buf, IsBuffer(buf)
  PROVE  \A p \in Places(buf) : /\ Weights(buf)[p] = SizeOf[buf[p[1]][p[2]]]
                                /\ Weights(buf)[p] \in Nat \ {0}
  BY PlaceFacts, BufferAssumption DEF Weights

\* The bytes of some of the messages: a natural, and no more than those of all.
LEMMA BytesType ==
  ASSUME NEW buf, IsBuffer(buf), NEW S \in SUBSET Places(buf)
  PROVE  /\ BytesAt(buf, S) \in Nat /\ Bytes(buf) \in Nat
         /\ BytesAt(buf, S) <= Bytes(buf)
         /\ \A T \in SUBSET S : BytesAt(buf, T) <= BytesAt(buf, S)
         /\ Bytes(buf) = BytesAt(buf, S) + BytesAt(buf, Places(buf) \ S)
  <1> DEFINE f == Weights(buf)
             P == Places(buf)
  <1>1. IsFiniteSet(P) /\ IsFiniteSet(S) /\ IsFiniteSet(P \ S)
    BY PlacesFinite, FS_Subset
  <1>2. \A p \in P : f[p] \in Nat
    BY WeightsType
  <1>3. S \in SUBSET P
    OBVIOUS
  <1> HIDE DEF f, P
  <1>4. SumFunctionOnSet(f, S) \in Nat /\ SumFunctionOnSet(f, P) \in Nat
    BY <1>1, <1>2, <1>3, SumType
  <1>5. SumFunctionOnSet(f, S) <= SumFunctionOnSet(f, P)
    BY <1>1, <1>2, <1>3, SumMonotone
  <1>6. \A T \in SUBSET S : SumFunctionOnSet(f, T) <= SumFunctionOnSet(f, S)
    BY <1>1, <1>2, <1>3, SumMonotone
  <1>7. SumFunctionOnSet(f, P) = SumFunctionOnSet(f, S) + SumFunctionOnSet(f, P \ S)
    <2>1. S \cup (P \ S) = P /\ S \cap (P \ S) = {}
      BY <1>3
    <2>2. SumFunctionOnSet(f, S \cup (P \ S)) = SumFunctionOnSet(f, S) + SumFunctionOnSet(f, P \ S)
      BY <1>1, <1>2, <2>1, SumDisjoint
    <2>3. QED
      BY <2>1, <2>2
  <1>8. QED
    BY <1>4, <1>5, <1>6, <1>7 DEF BytesAt, Bytes, f, P

\* A buffer whose messages are all in another takes no more bytes.
LEMMA BytesEmbed ==
  ASSUME NEW new, IsBuffer(new), NEW buf, IsBuffer(buf),
         NEW h \in [Places(new) -> Places(buf)],
         \A p, q \in Places(new) : h[p] = h[q] => p = q,
         \A p \in Places(new) : new[p[1]][p[2]] = buf[h[p][1]][h[p][2]]
  PROVE  Bytes(new) <= Bytes(buf)
  <1> DEFINE f == Weights(new)
             g == Weights(buf)
             S == Places(new)
             T == Places(buf)
  <1>1. IsFiniteSet(S) /\ IsFiniteSet(T)
    BY PlacesFinite
  <1>2. \A p \in S : f[p] = g[h[p]]
    BY WeightsType
  <1>3. \A q \in T : g[q] \in Nat
    BY WeightsType
  <1>4. h \in [S -> T] /\ \A p, q \in S : h[p] = h[q] => p = q
    OBVIOUS
  <1> HIDE DEF f, g, S, T
  <1>5. SumFunctionOnSet(f, S) <= SumFunctionOnSet(g, T)
    BY <1>1, <1>2, <1>3, <1>4, SumInjection
  <1>6. QED
    BY <1>5 DEF Bytes, BytesAt, f, g, S, T

\* The same when the messages are in the same places.
LEMMA BytesWithin ==
  ASSUME NEW new, IsBuffer(new), NEW buf, IsBuffer(buf), Places(new) \subseteq Places(buf),
         \A p \in Places(new) : new[p[1]][p[2]] = buf[p[1]][p[2]]
  PROVE  Bytes(new) = BytesAt(buf, Places(new)) /\ Bytes(new) <= Bytes(buf)
  <1>1. \A p \in Places(new) : Weights(new)[p] = Weights(buf)[p]
    BY WeightsType
  <1>2. SumFunctionOnSet(Weights(new), Places(new)) = SumFunctionOnSet(Weights(buf), Places(new))
    BY <1>1, PlacesFinite, SumSame
  <1>3. Bytes(new) = BytesAt(buf, Places(new))
    BY <1>2 DEF Bytes, BytesAt
  <1>4. QED
    BY <1>3, BytesType

\* The lengths of queues are naturals.
LEMMA RemainingType ==
  ASSUME NEW buf, IsBuffer(buf), NEW v
  PROVE  Remaining(buf, v) \in Nat /\ (v \in DOMAIN buf => Remaining(buf, v) = Len(buf[v]))
  BY DEF Remaining, IsBuffer

-----------------------------------------------------------------------------
(* The operations on the buffer.                                           *)

\* remove_expired_msgs keeps a buffer, and what it keeps is as it was.
LEMMA ExpiredFacts ==
  ASSUME TypeInv
  PROVE  /\ IsBuffer(remove_expired_msgs(buffer))
         /\ DOMAIN remove_expired_msgs(buffer) = {v \in DOMAIN buffer : v >= cur_view}
         /\ \A v \in DOMAIN buffer : v >= cur_view => remove_expired_msgs(buffer)[v] = buffer[v]
         /\ Bytes(remove_expired_msgs(buffer)) <= Bytes(buffer)
  <1> DEFINE new == remove_expired_msgs(buffer)
  <1>1. DOMAIN new = {v \in DOMAIN buffer : v >= cur_view} /\ \A v \in DOMAIN new : new[v] = buffer[v]
    BY DEF remove_expired_msgs, Restrict
  <1> HIDE DEF new
  <1>2. IsBuffer(new)
    BY <1>1, FS_Subset DEF IsBuffer, TypeInv
  <1>3. Places(new) \subseteq Places(buffer) /\ \A p \in Places(new) : new[p[1]][p[2]] = buffer[p[1]][p[2]]
    BY <1>1, <1>2, PlaceFacts DEF TypeInv, Places
  <1>4. Bytes(new) <= Bytes(buffer)
    BY <1>2, <1>3, BytesWithin DEF TypeInv
  <1>5. QED
    BY <1>1, <1>2, <1>4 DEF new

\* push_back keeps a buffer and adds the bytes of the message, at the end of
\* the queue of its view.
LEMMA PushBackFacts ==
  ASSUME NEW buf, IsBuffer(buf), NEW v \in Nat, NEW kind \in Cacheable
  PROVE  /\ IsBuffer(push_back(buf, v, kind))
         /\ Bytes(push_back(buf, v, kind)) = Bytes(buf) + SizeOf[kind]
         /\ \A w : Remaining(push_back(buf, v, kind), w)
                    = Remaining(buf, w) + IF w = v THEN 1 ELSE 0
  <1> DEFINE new == push_back(buf, v, kind)
             queue == IF v \in DOMAIN buf THEN buf[v] ELSE <<>>
             p == <<v, Len(queue) + 1>>
  <1>1. /\ DOMAIN new = DOMAIN buf \cup {v}
        /\ \A w \in DOMAIN buf : w # v => new[w] = buf[w]
        /\ new[v] = Append(queue, kind)
    BY DEF push_back
  <1>2. queue \in Seq(Cacheable) /\ Len(queue) = IF v \in DOMAIN buf THEN Len(buf[v]) ELSE 0
    BY DEF IsBuffer
  <1> HIDE DEF new, queue
  <1>3. IsBuffer(new)
    <2>1. IsFiniteSet(DOMAIN buf \cup {v})
      BY FS_AddElement DEF IsBuffer
    <2>2. \A w \in DOMAIN new : new[w] \in Seq(Cacheable)
      BY <1>1, <1>2 DEF IsBuffer
    <2>3. QED
      BY <1>1, <2>1, <2>2 DEF IsBuffer
  <1>4. Len(new[v]) = Len(queue) + 1 /\ new[v][Len(queue) + 1] = kind
        /\ \A i \in 1 .. Len(queue) : new[v][i] = queue[i]
    BY <1>1, <1>2
  <1>5. Places(new) = Places(buf) \cup {p} /\ p \notin Places(buf)
    <2>1. \A q \in Places(new) : q \in Places(buf) \/ q = p
      <3> SUFFICES ASSUME NEW q \in Places(new) PROVE q \in Places(buf) \/ q = p
        OBVIOUS
      <3>1. q = <<q[1], q[2]>> /\ q[1] \in DOMAIN new /\ q[2] \in 1 .. Len(new[q[1]])
        BY <1>3, PlaceFacts
      <3>2. CASE q[1] # v
        <4>1. q[1] \in DOMAIN buf /\ q[2] \in 1 .. Len(buf[q[1]])
          BY <1>1, <3>1, <3>2
        <4>2. QED
          BY <3>1, <4>1, PlaceFacts
      <3>3. CASE q[1] = v /\ q[2] # Len(queue) + 1
        <4>1. q[2] \in 1 .. Len(queue)
          <5>1. Len(queue) \in Nat /\ q[2] \in 1 .. Len(queue) + 1
            <6>1. Len(queue) \in Nat
              BY <1>2
            <6>2. q[2] \in 1 .. Len(new[v])
              BY <3>1, <3>3
            <6>3. QED
              BY <1>4, <6>1, <6>2
          <5>2. QED
            BY <3>3, <5>1
        <4>2. v \in DOMAIN buf /\ Len(queue) = Len(buf[v])
          BY <1>2, <4>1
        <4>3. QED
          BY <3>1, <3>3, <4>1, <4>2, PlaceFacts
      <3>4. QED
        BY <3>1, <3>2, <3>3
    <2>2. \A q \in Places(buf) : q \in Places(new)
      <3> SUFFICES ASSUME NEW q \in Places(buf) PROVE q \in Places(new)
        OBVIOUS
      <3>1. q = <<q[1], q[2]>> /\ q[1] \in DOMAIN buf /\ q[2] \in 1 .. Len(buf[q[1]])
        BY PlaceFacts
      <3>2. q[1] \in DOMAIN new /\ q[2] \in 1 .. Len(new[q[1]])
        <4>1. CASE q[1] = v
          BY <1>1, <1>2, <1>4, <3>1, <4>1
        <4>2. CASE q[1] # v
          BY <1>1, <3>1, <4>2
        <4>3. QED
          BY <4>1, <4>2
      <3>3. QED
        BY <1>3, <3>1, <3>2, PlaceFacts
    <2>3. p \in Places(new)
      <3>1. v \in DOMAIN new /\ Len(queue) + 1 \in 1 .. Len(new[v])
        BY <1>1, <1>2, <1>4
      <3>2. QED
        BY <1>3, <3>1, PlaceFacts
    <2>4. p \notin Places(buf)
      <3>1. SUFFICES ASSUME p \in Places(buf) PROVE FALSE
        OBVIOUS
      <3>2. v \in DOMAIN buf /\ Len(queue) + 1 \in 1 .. Len(buf[v])
        BY <3>1, PlaceFacts
      <3>3. QED
        BY <1>2, <3>2
    <2>5. QED
      BY <2>1, <2>2, <2>3, <2>4
  <1>6. \A q \in Places(buf) : new[q[1]][q[2]] = buf[q[1]][q[2]]
    BY <1>1, <1>2, <1>4, PlaceFacts DEF queue
  <1> DEFINE f == Weights(new)
             P == Places(buf)
  <1>7. /\ \A q \in P \cup {p} : f[q] \in Nat
        /\ f[p] = SizeOf[kind]
        /\ \A q \in P : f[q] = Weights(buf)[q]
    BY <1>3, <1>4, <1>1, <1>5, <1>6, WeightsType
  <1>8. IsFiniteSet(P)
    BY PlacesFinite
  <1>9. Bytes(new) = SumFunctionOnSet(f, P \cup {p})
    BY <1>5 DEF Bytes, BytesAt
  <1>10. Bytes(buf) = SumFunctionOnSet(Weights(buf), P)
    BY DEF Bytes, BytesAt
  <1>11. Bytes(buf) \in Nat
    BY BytesType
  <1>12. p \notin P
    BY <1>5
  <1> HIDE DEF f, P, p
  <1>13. SumFunctionOnSet(f, P \cup {p}) = f[p] + SumFunctionOnSet(f, P)
    BY <1>7, <1>8, <1>12, SumAdd
  <1>14. SumFunctionOnSet(f, P) = SumFunctionOnSet(Weights(buf), P)
    BY <1>7, <1>8, SumSame
  <1>15. Bytes(new) = Bytes(buf) + SizeOf[kind]
    BY <1>7, <1>9, <1>10, <1>11, <1>13, <1>14, BufferAssumption
  <1>16. ASSUME NEW w
         PROVE  Remaining(new, w) = Remaining(buf, w) + IF w = v THEN 1 ELSE 0
    <2>1. Remaining(buf, w) \in Nat
      BY RemainingType
    <2>2. CASE w = v
      BY <1>1, <1>2, <1>4, <2>2 DEF Remaining
    <2>3. CASE w # v /\ w \in DOMAIN buf
      BY <1>1, <2>1, <2>3 DEF Remaining
    <2>4. CASE w # v /\ w \notin DOMAIN buf
      BY <1>1, <2>1, <2>4 DEF Remaining
    <2>5. QED
      BY <2>2, <2>3, <2>4
  <1>17. QED
    BY <1>3, <1>15, <1>16 DEF new

-----------------------------------------------------------------------------
(* Eviction.                                                               *)

\* Less is removed before a message than before those that go after it.
LEMMA BeforeGrows ==
  ASSUME NEW buf, IsBuffer(buf), NEW p \in Places(buf), NEW q \in Places(buf), goes_before(p, q)
  PROVE  /\ BytesAt(buf, Before(buf, p)) \in Nat /\ BytesAt(buf, Before(buf, q)) \in Nat
         /\ BytesAt(buf, Before(buf, p)) < BytesAt(buf, Before(buf, q))
  <1> DEFINE f == Weights(buf)
             S == Before(buf, p)
             T == Before(buf, q)
  <1>1. /\ p[1] \in Nat /\ p[2] \in Nat /\ q[1] \in Nat /\ q[2] \in Nat
        /\ \A x \in Places(buf) : x[1] \in Nat /\ x[2] \in Nat
    <2>1. \A x \in Places(buf) : x[1] \in Nat /\ x[2] \in Nat
      <3> SUFFICES ASSUME NEW x \in Places(buf) PROVE x[1] \in Nat /\ x[2] \in Nat
        OBVIOUS
      <3>1. x[1] \in Nat /\ x[2] \in 1 .. Len(buf[x[1]])
        BY PlaceFacts
      <3>2. QED
        BY <3>1
    <2>2. QED
      BY <2>1
  <1>2. S \in SUBSET Places(buf) /\ T \in SUBSET Places(buf)
    BY DEF Before
  <1>3. S \cup {p} \in SUBSET T /\ p \notin S
    <2>1. \A x \in S : goes_before(x, q)
      BY <1>1 DEF Before, goes_before
    <2>2. ~goes_before(p, p)
      BY <1>1 DEF goes_before
    <2>3. QED
      BY <2>1, <2>2 DEF Before
  <1>4. IsFiniteSet(S) /\ IsFiniteSet(T)
    BY <1>2, PlacesFinite, FS_Subset
  <1>5. \A x \in T : f[x] \in Nat \ {0}
    BY <1>2, WeightsType
  <1> HIDE DEF f, S, T
  <1>6. SumFunctionOnSet(f, S \cup {p}) = f[p] + SumFunctionOnSet(f, S)
    BY <1>3, <1>4, <1>5, SumAdd
  <1>7. SumFunctionOnSet(f, S \cup {p}) <= SumFunctionOnSet(f, T)
    BY <1>3, <1>4, <1>5, SumMonotone
  <1>8. SumFunctionOnSet(f, S) \in Nat /\ SumFunctionOnSet(f, T) \in Nat /\ f[p] \in Nat \ {0}
    BY <1>3, <1>4, <1>5, SumType
  <1>9. SumFunctionOnSet(f, S) < SumFunctionOnSet(f, T)
    BY <1>6, <1>7, <1>8
  <1>10. QED
    BY <1>8, <1>9 DEF BytesAt, f, S, T

\* What goes before a message that is evicted is evicted too.
LEMMA EvictedFirst ==
  ASSUME NEW buf, IsBuffer(buf), NEW bytes \in Nat, NEW q \in evicted(buf, bytes),
         NEW p \in Places(buf), goes_before(p, q)
  PROVE  p \in evicted(buf, bytes)
  <1>1. q \in Places(buf) /\ BytesAt(buf, Before(buf, q)) < bytes
    BY DEF evicted, Before
  <1>2. /\ BytesAt(buf, Before(buf, p)) \in Nat /\ BytesAt(buf, Before(buf, q)) \in Nat
        /\ BytesAt(buf, Before(buf, p)) < BytesAt(buf, Before(buf, q))
    BY <1>1, BeforeGrows
  <1>3. BytesAt(buf, Before(buf, p)) < bytes
    BY <1>1, <1>2
  <1>4. QED
    BY <1>3 DEF evicted, Before

\* Everything is evicted, or as many bytes as are needed.
LEMMA EvictsEnough ==
  ASSUME NEW buf, IsBuffer(buf), NEW bytes \in Nat, evicted(buf, bytes) # Places(buf)
  PROVE  evicted_bytes(buf, bytes) >= bytes
  <1> DEFINE gone == evicted(buf, bytes)
             kept == Places(buf) \ gone
             less(q) == BytesAt(buf, Before(buf, q))
             sums == {less(q) : q \in kept}
  <1>1. gone \in SUBSET Places(buf) /\ kept # {}
    BY DEF evicted
  <1>2. \A q \in Places(buf) : less(q) \in Nat
    BY BytesType DEF Before
  <1>3. PICK n \in sums : \A m \in sums : n <= m
    <2>1. sums \subseteq Nat /\ sums # {}
      BY <1>1, <1>2
    <2> HIDE DEF sums
    <2>2. QED
      BY <2>1, Minimum
  <1>4. PICK q \in kept : less(q) = n
    BY <1>3
  <1>5. Before(buf, q) \subseteq gone
    <2>1. SUFFICES ASSUME NEW p \in Before(buf, q), p \notin gone PROVE FALSE
      OBVIOUS
    <2>2. p \in kept /\ goes_before(p, q)
      BY <2>1 DEF Before
    <2>3. less(p) \in Nat /\ less(q) \in Nat /\ less(p) < less(q)
      BY <2>2, BeforeGrows
    <2>4. n <= less(p)
      BY <1>3, <2>2
    <2> HIDE DEF less
    <2>5. QED
      BY <1>4, <2>3, <2>4
  <1>6. BytesAt(buf, Before(buf, q)) <= BytesAt(buf, gone) /\ BytesAt(buf, gone) \in Nat
    BY <1>1, <1>5, BytesType
  <1>7. ~(less(q) < bytes)
    BY <1>4 DEF evicted, Before
  <1>8. QED
    BY <1>2, <1>4, <1>6, <1>7 DEF evicted_bytes

\* The messages of a view that are evicted are the last of its queue.
LEMMA EvictedAreLast ==
  ASSUME NEW buf, IsBuffer(buf), NEW bytes \in Nat, NEW v \in DOMAIN buf
  PROVE  \E k \in 0 .. Len(buf[v]) :
           /\ Len(buf[v]) - Cardinality({p \in evicted(buf, bytes) : p[1] = v}) = k
           /\ \A i \in 1 .. Len(buf[v]) : <<v, i>> \in evicted(buf, bytes) <=> i > k
  <1> DEFINE gone == evicted(buf, bytes)
             n == Len(buf[v])
             here == {p \in gone : p[1] = v}
             from == {i \in 1 .. n : <<v, i>> \in gone}
  <1>1. n \in Nat
    BY DEF IsBuffer
  <1>2. gone \subseteq Places(buf)
    BY DEF evicted
  <1>3. ASSUME NEW i \in 1 .. n, NEW j \in 1 .. n, i < j, i \in from PROVE j \in from
    <2>1. goes_before(<<v, j>>, <<v, i>>)
      BY <1>3 DEF goes_before
    <2>2. <<v, j>> \in Places(buf) /\ <<v, i>> \in gone
      BY <1>3, PlaceFacts
    <2>3. QED
      BY <1>3, <2>1, <2>2, EvictedFirst
  <1>4. \E k \in 0 .. n : \A i \in 1 .. n : i \in from <=> i > k
    <2>1. CASE from = {}
      <3> HIDE DEF from, n
      <3>1. n \in 0 .. n /\ \A i \in 1 .. n : ~(i > n)
        BY <1>1
      <3>2. QED
        BY <2>1, <3>1
    <2>2. CASE from # {}
      <3>1. PICK m \in from : \A i \in from : m <= i
        <4>1. from \subseteq Nat
          BY <1>1
        <4> HIDE DEF from
        <4>2. QED
          BY <2>2, <4>1, Minimum
      <3>2. m \in 1 .. n /\ from \subseteq 1 .. n
        OBVIOUS
      <3> HIDE DEF from, n
      <3>3. m - 1 \in 0 .. n
        BY <1>1, <3>2
      <3>4. \A i \in 1 .. n : i \in from <=> i > m - 1
        BY <1>1, <1>3, <3>1, <3>2
      <3>5. QED
        BY <3>3, <3>4
    <2>3. QED
      BY <2>1, <2>2
  <1>5. PICK k \in 0 .. n : \A i \in 1 .. n : i \in from <=> i > k
    BY <1>4
  <1>6. here = {<<v, i>> : i \in (k + 1) .. n}
    <2>1. \A p \in here : \E i \in (k + 1) .. n : p = <<v, i>>
      <3> SUFFICES ASSUME NEW p \in here PROVE \E i \in (k + 1) .. n : p = <<v, i>>
        OBVIOUS
      <3>1. p \in gone /\ p = <<v, p[2]>> /\ p[2] \in 1 .. n
        BY <1>2, PlaceFacts
      <3>2. p[2] \in from
        BY <3>1
      <3> HIDE DEF from, n
      <3>3. p[2] \in (k + 1) .. n
        BY <1>1, <1>5, <3>1, <3>2
      <3>4. QED
        BY <3>1, <3>3
    <2>2. \A i \in (k + 1) .. n : <<v, i>> \in here
      <3> SUFFICES ASSUME NEW i \in (k + 1) .. n PROVE <<v, i>> \in here
        OBVIOUS
      <3>1. i \in 1 .. n /\ i > k
        BY <1>1, <1>5
      <3>2. i \in from
        BY <1>5, <3>1
      <3>3. QED
        BY <3>2
    <2>3. QED
      BY <2>1, <2>2
  <1>7. Cardinality(here) = n - k
    <2> DEFINE f == [i \in (k + 1) .. n |-> <<v, i>>]
    <2>1. f \in Bijection((k + 1) .. n, here)
      <3>1. f \in [(k + 1) .. n -> here]
        BY <1>6
      <3>2. \A i, j \in (k + 1) .. n : f[i] = f[j] => i = j
        OBVIOUS
      <3>3. \A p \in here : \E i \in (k + 1) .. n : f[i] = p
        BY <1>6
      <3>4. QED
        BY <3>1, <3>2, <3>3 DEF Bijection, Injection, Surjection, IsInjective
    <2> HIDE DEF f, here
    <2>2. k \in Int /\ n \in Int /\ k <= n
      BY <1>1, <1>5
    <2>3. IsFiniteSet((k + 1) .. n) /\ Cardinality((k + 1) .. n) = n - k
      <3>1. /\ IsFiniteSet((k + 1) .. n)
            /\ Cardinality((k + 1) .. n) = IF k + 1 > n THEN 0 ELSE n - (k + 1) + 1
        <4>1. \A a, b \in Int : /\ IsFiniteSet(a .. b)
                                /\ Cardinality(a .. b) = IF a > b THEN 0 ELSE b - a + 1
          BY FS_Interval
        <4>2. k + 1 \in Int
          BY <2>2
        <4>3. QED
          BY <2>2, <4>1, <4>2, Zenon
      <3>2. QED
        BY <2>2, <3>1
    <2>4. QED
      BY <2>1, <2>3, FS_Bijection DEF ExistsBijection
  <1>8. n - Cardinality(here) = k
    BY <1>1, <1>5, <1>7
  <1>9. \A i \in 1 .. n : <<v, i>> \in gone <=> i > k
    BY <1>5
  <1>10. QED
    BY <1>5, <1>8, <1>9

\* remove_highest_viewed_msgs keeps a buffer, without the messages that are
\* evicted, and their bytes are what it has less.
LEMMA EvictionFacts ==
  ASSUME NEW buf, IsBuffer(buf), NEW bytes \in Nat,
         NEW new, new = remove_highest_viewed_msgs(buf, bytes)
  PROVE  /\ IsBuffer(new)
         /\ DOMAIN new \subseteq DOMAIN buf
         /\ \A v \in DOMAIN buf :
              /\ Remaining(new, v) \in 0 .. Len(buf[v])
              /\ \A i \in 1 .. Len(buf[v]) :
                   <<v, i>> \in evicted(buf, bytes) <=> i > Remaining(new, v)
         /\ evicted_bytes(buf, bytes) \in Nat
         /\ Bytes(new) = Bytes(buf) - evicted_bytes(buf, bytes)
  <1> DEFINE gone == evicted(buf, bytes)
             left(v) == Len(buf[v]) - Cardinality({p \in gone : p[1] = v})
             rest(v) == SubSeq(buf[v], 1, left(v))
             reached == {v \in DOMAIN buf : BytesAt(buf, {p \in Places(buf) : p[1] > v}) < bytes}
  <1>1. new = [v \in {w \in DOMAIN buf : w \in reached => rest(w) # <<>>} |-> rest(v)]
    BY DEF remove_highest_viewed_msgs
  <1>2. /\ DOMAIN new \subseteq DOMAIN buf
        /\ \A v \in DOMAIN buf : v \notin DOMAIN new => rest(v) = <<>>
        /\ \A v \in DOMAIN new : new[v] = rest(v)
    BY <1>1
  <1>3. ASSUME NEW v \in DOMAIN buf
        PROVE  /\ left(v) \in 0 .. Len(buf[v])
               /\ \A i \in 1 .. Len(buf[v]) : <<v, i>> \in gone <=> i > left(v)
    BY EvictedAreLast
  <1> HIDE DEF left
  <1>4. ASSUME NEW v \in DOMAIN buf
        PROVE  /\ rest(v) \in Seq(Cacheable) /\ Len(rest(v)) = left(v)
               /\ \A i \in 1 .. left(v) : rest(v)[i] = buf[v][i]
    <2>1. buf[v] \in Seq(Cacheable) /\ left(v) \in 0 .. Len(buf[v])
      BY <1>3 DEF IsBuffer
    <2>2. QED
      BY <2>1
  <1>5. ASSUME NEW v \in DOMAIN buf
        PROVE  Remaining(new, v) = left(v)
    <2>1. CASE v \in DOMAIN new
      BY <1>2, <1>4, <2>1 DEF Remaining
    <2>2. CASE v \notin DOMAIN new
      <3>1. rest(v) = <<>>
        BY <1>2, <2>2
      <3>2. Len(rest(v)) = left(v)
        BY <1>4
      <3> HIDE DEF rest
      <3>3. left(v) = 0
        BY <3>1, <3>2
      <3>4. QED
        BY <2>2, <3>3 DEF Remaining
    <2>3. QED
      BY <2>1, <2>2
  <1>6. IsBuffer(new)
    <2>1. \A v \in DOMAIN new : new[v] \in Seq(Cacheable)
      BY <1>2, <1>4
    <2>2. DOMAIN new \subseteq Nat /\ IsFiniteSet(DOMAIN new)
      BY <1>2, FS_Subset DEF IsBuffer
    <2>3. QED
      BY <2>1, <2>2 DEF IsBuffer
  <1> HIDE DEF rest, reached
  <1>7. gone \in SUBSET Places(buf)
    BY DEF evicted
  <1> HIDE DEF gone
  <1>8. Places(new) = Places(buf) \ gone
    <2>1. ASSUME NEW p \in Places(new)
          PROVE  p \in Places(buf) \ gone
      <3>1. p = <<p[1], p[2]>> /\ p[1] \in DOMAIN new /\ p[2] \in 1 .. Len(new[p[1]])
        BY <1>6, PlaceFacts
      <3>2. p[1] \in DOMAIN buf /\ Len(new[p[1]]) = left(p[1])
        BY <1>2, <1>4, <3>1
      <3>3. left(p[1]) \in 0 .. Len(buf[p[1]]) /\ Len(buf[p[1]]) \in Nat
        BY <1>3, <3>2 DEF IsBuffer
      <3>4. p[2] \in 1 .. Len(buf[p[1]]) /\ ~(p[2] > left(p[1]))
        <4>1. p[2] \in 1 .. left(p[1])
          BY <3>1, <3>2
        <4>2. QED
          BY <3>3, <4>1
      <3>5. <<p[1], p[2]>> \in Places(buf) /\ <<p[1], p[2]>> \notin gone
        BY <1>3, <3>2, <3>4, PlaceFacts
      <3>6. QED
        BY <3>1, <3>5
    <2>2. ASSUME NEW p \in Places(buf) \ gone
          PROVE  p \in Places(new)
      <3>1. p = <<p[1], p[2]>> /\ p[1] \in DOMAIN buf /\ p[2] \in 1 .. Len(buf[p[1]])
        BY PlaceFacts
      <3>2. left(p[1]) \in Nat /\ ~(p[2] > left(p[1]))
        <4>1. <<p[1], p[2]>> \notin gone /\ left(p[1]) \in 0 .. Len(buf[p[1]])
          BY <1>3, <3>1
        <4>2. QED
          BY <1>3, <3>1, <4>1
      <3>3. p[2] \in 1 .. left(p[1])
        BY <3>1, <3>2
      <3>4. p[1] \in DOMAIN new /\ Len(new[p[1]]) = left(p[1])
        <4>1. left(p[1]) # 0
          BY <3>2, <3>3
        <4>2. Remaining(new, p[1]) = left(p[1])
          BY <1>5, <3>1
        <4>3. QED
          BY <4>1, <4>2 DEF Remaining
      <3>5. <<p[1], p[2]>> \in Places(new)
        BY <1>6, <3>3, <3>4, PlaceFacts
      <3>6. QED
        BY <3>1, <3>5
    <2>3. QED
      BY <2>1, <2>2
  <1>9. \A p \in Places(new) : new[p[1]][p[2]] = buf[p[1]][p[2]]
    <2> SUFFICES ASSUME NEW p \in Places(new) PROVE new[p[1]][p[2]] = buf[p[1]][p[2]]
      OBVIOUS
    <2>1. p[1] \in DOMAIN new /\ p[2] \in 1 .. Len(new[p[1]])
      BY <1>6, PlaceFacts
    <2>2. new[p[1]] = rest(p[1]) /\ p[1] \in DOMAIN buf
      BY <1>2, <2>1
    <2>3. QED
      BY <1>4, <2>1, <2>2
  <1>10. Bytes(new) = BytesAt(buf, Places(buf) \ gone)
    BY <1>6, <1>8, <1>9, BytesWithin
  <1>11. /\ BytesAt(buf, gone) \in Nat /\ Bytes(buf) \in Nat
         /\ BytesAt(buf, Places(buf) \ gone) \in Nat
         /\ Bytes(buf) = BytesAt(buf, gone) + BytesAt(buf, Places(buf) \ gone)
    BY <1>7, BytesType
  <1>12. evicted_bytes(buf, bytes) = BytesAt(buf, gone)
    BY DEF evicted_bytes, gone
  <1>13. \A v \in DOMAIN buf :
           /\ Remaining(new, v) \in 0 .. Len(buf[v])
           /\ \A i \in 1 .. Len(buf[v]) : <<v, i>> \in evicted(buf, bytes) <=> i > Remaining(new, v)
    BY <1>3, <1>5 DEF gone
  <1>14. QED
    BY <1>2, <1>6, <1>10, <1>11, <1>12, <1>13

-----------------------------------------------------------------------------
(* The buffer keeps within its capacity.                                   *)

\* A message that is stored where there is room keeps the invariant.
LEMMA InsertKeeps ==
  ASSUME BufferInv, NEW v \in Nat, NEW kind \in Cacheable, Insert(v, kind), cur_view' = cur_view
  PROVE  BufferInv'
  <1> DEFINE buf == remove_expired_msgs(buffer)
  <1>1. IsBuffer(buf) /\ Bytes(buf) <= Bytes(buffer) /\ Bytes(buf) \in Nat /\ Bytes(buffer) \in Nat
    BY ExpiredFacts, BytesType DEF BufferInv, TypeInv
  <1>2. buffer' = push_back(buf, v, kind) /\ buffer_size' = buffer_size + SizeOf[kind]
        /\ ~(buffer_size + SizeOf[kind] > Capacity)
    BY DEF Insert, Overloads
  <1> HIDE DEF buf
  <1>3. IsBuffer(buffer') /\ Bytes(buffer') = Bytes(buf) + SizeOf[kind]
    BY <1>1, <1>2, PushBackFacts
  <1>4. SizeOf[kind] \in Nat /\ Capacity \in Nat
    BY BufferAssumption
  <1>5. Bytes(buffer)' = Bytes(buffer')
    BY DEF Bytes, BytesAt, Weights, Places
  <1>6. buffer_size \in Nat /\ Bytes(buffer) <= buffer_size
    BY DEF BufferInv, TypeInv, AccountCoversBuffer
  <1>7. buffer_size' \in Nat /\ Bytes(buffer') <= buffer_size' /\ Bytes(buffer') <= Capacity
    BY <1>1, <1>2, <1>3, <1>4, <1>6
  <1>8. IsBuffer(buffer)'
    BY <1>3 DEF IsBuffer
  <1>9. QED
    BY <1>5, <1>7, <1>8 DEF BufferInv, TypeInv, BufferBounded, AccountCoversBuffer

\* A message that takes the place of others keeps it: as many bytes were freed
\* as it takes, or everything was.
LEMMA InsertEvictingKeeps ==
  ASSUME BufferInv, NEW v \in Nat, NEW kind \in Cacheable, InsertEvicting(v, kind),
         cur_view' = cur_view
  PROVE  BufferInv'
  <1> DEFINE buf == remove_expired_msgs(buffer)
             size == SizeOf[kind]
             freed == evicted_bytes(buf, size)
             rest == remove_highest_viewed_msgs(buf, size)
  <1>1. IsBuffer(buf) /\ Bytes(buf) <= Bytes(buffer) /\ Bytes(buf) \in Nat /\ Bytes(buffer) \in Nat
    BY ExpiredFacts, BytesType DEF BufferInv, TypeInv
  <1>2. buffer' = push_back(rest, v, kind) /\ buffer_size' = buffer_size - freed + size
    BY DEF InsertEvicting
  <1>3. size \in Nat /\ Capacity \in Nat /\ size <= Capacity
    BY BufferAssumption
  <1> HIDE DEF buf, size
  <1>4. IsBuffer(rest) /\ freed \in Nat /\ Bytes(rest) = Bytes(buf) - freed
    BY <1>1, <1>3, EvictionFacts
  <1>5. freed >= size \/ freed = Bytes(buf)
    <2>1. CASE evicted(buf, size) = Places(buf)
      BY <2>1 DEF evicted_bytes, Bytes
    <2>2. CASE evicted(buf, size) # Places(buf)
      BY <1>1, <1>3, <2>2, EvictsEnough
    <2>3. QED
      BY <2>1, <2>2
  <1>6. freed <= Bytes(buf)
    <2>1. Bytes(rest) \in Nat
      BY <1>4, BytesType
    <2> HIDE DEF rest, freed
    <2>2. QED
      BY <1>1, <1>4, <2>1
  <1> HIDE DEF rest, freed
  <1>7. IsBuffer(buffer') /\ Bytes(buffer') = Bytes(rest) + size
    BY <1>2, <1>4, PushBackFacts DEF size
  <1>8. Bytes(buffer)' = Bytes(buffer')
    BY DEF Bytes, BytesAt, Weights, Places
  <1>9. buffer_size \in Nat /\ Bytes(buffer) <= buffer_size /\ Bytes(buffer) <= Capacity
    BY DEF BufferInv, TypeInv, AccountCoversBuffer, BufferBounded
  <1>10. buffer_size' \in Nat /\ Bytes(buffer') <= buffer_size' /\ Bytes(buffer') <= Capacity
    BY <1>1, <1>2, <1>3, <1>4, <1>5, <1>6, <1>7, <1>9
  <1>11. IsBuffer(buffer)'
    BY <1>7 DEF IsBuffer
  <1>12. cur_view' \in Nat
    BY DEF BufferInv, TypeInv
  <1>13. QED
    BY <1>8, <1>10, <1>11, <1>12 DEF BufferInv, TypeInv, BufferBounded, AccountCoversBuffer

\* A step that leaves the account alone and adds nothing to the buffer keeps it.
LEMMA ShrinkingKeeps ==
  ASSUME BufferInv, cur_view' \in Nat, buffer_size' = buffer_size,
         IsBuffer(buffer'), Bytes(buffer') <= Bytes(buffer)
  PROVE  BufferInv'
  <1>1. Bytes(buffer)' = Bytes(buffer') /\ IsBuffer(buffer)'
    BY DEF Bytes, BytesAt, Weights, Places, IsBuffer
  <1>2. Bytes(buffer') \in Nat /\ Bytes(buffer) \in Nat
    BY BytesType DEF BufferInv, TypeInv
  <1>3. buffer_size \in Nat /\ Bytes(buffer) <= buffer_size /\ Bytes(buffer) <= Capacity
    BY DEF BufferInv, TypeInv, AccountCoversBuffer, BufferBounded
  <1>4. Capacity \in Nat
    BY BufferAssumption
  <1>5. Bytes(buffer') <= buffer_size' /\ Bytes(buffer') <= Capacity
    BY <1>2, <1>3, <1>4
  <1>6. QED
    BY <1>1, <1>3, <1>5 DEF BufferInv, TypeInv, BufferBounded, AccountCoversBuffer

\* Taking a message of the current view out of the buffer keeps it.
LEMMA RecvBufferedKeeps ==
  ASSUME BufferInv, RecvBuffered
  PROVE  BufferInv'
  <1> DEFINE buf == remove_expired_msgs(buffer)
             new == [buf EXCEPT ![cur_view] = Tail(@)]
  <1>1. /\ IsBuffer(buf) /\ Bytes(buf) <= Bytes(buffer) /\ Bytes(buf) \in Nat /\ Bytes(buffer) \in Nat
        /\ cur_view \in DOMAIN buf /\ buf[cur_view] = buffer[cur_view]
    <2>1. cur_view \in Nat /\ cur_view \in DOMAIN buffer
      BY DEF RecvBuffered, HasBuffered, BufferInv, TypeInv
    <2>2. cur_view >= cur_view
      BY <2>1
    <2>3. IsBuffer(buf) /\ Bytes(buf) <= Bytes(buffer) /\ Bytes(buf) \in Nat /\ Bytes(buffer) \in Nat
      BY ExpiredFacts, BytesType DEF BufferInv, TypeInv
    <2>4. cur_view \in DOMAIN buf /\ buf[cur_view] = buffer[cur_view]
      BY <2>1, <2>2, ExpiredFacts DEF BufferInv
    <2>5. QED
      BY <2>3, <2>4
  <1>2. buffer' = new /\ buf[cur_view] # <<>>
    BY <1>1 DEF RecvBuffered, HasBuffered
  <1> HIDE DEF buf
  <1>3. /\ DOMAIN new = DOMAIN buf
        /\ new[cur_view] = Tail(buf[cur_view])
        /\ \A v \in DOMAIN buf : v # cur_view => new[v] = buf[v]
    BY <1>1
  <1> HIDE DEF new
  <1>4. buf[cur_view] \in Seq(Cacheable)
    BY <1>1 DEF IsBuffer
  <1>5. /\ new[cur_view] \in Seq(Cacheable)
        /\ Len(new[cur_view]) = Len(buf[cur_view]) - 1
        /\ \A i \in 1 .. Len(new[cur_view]) : new[cur_view][i] = buf[cur_view][i + 1]
    <2> DEFINE q == buf[cur_view]
    <2>1. q \in Seq(Cacheable) /\ q # <<>> /\ new[cur_view] = Tail(q)
      BY <1>2, <1>3, <1>4
    <2> HIDE DEF q
    <2>2. QED
      BY <2>1 DEF q
  <1>6. IsBuffer(new)
    BY <1>1, <1>3, <1>5 DEF IsBuffer
  <1> DEFINE h == [p \in Places(new) |-> IF p[1] = cur_view THEN <<p[1], p[2] + 1>> ELSE p]
  <1>7. ASSUME NEW p \in Places(new)
        PROVE  h[p] \in Places(buf) /\ new[p[1]][p[2]] = buf[h[p][1]][h[p][2]]
    <2>1. p = <<p[1], p[2]>> /\ p[1] \in DOMAIN buf /\ p[2] \in 1 .. Len(new[p[1]])
      BY <1>3, <1>6, PlaceFacts
    <2>2. CASE p[1] = cur_view
      <3>1. h[p] = <<p[1], p[2] + 1>>
        BY <2>2
      <3>2. p[2] \in 1 .. Len(new[cur_view])
        BY <2>1, <2>2
      <3>3. Len(buf[cur_view]) \in Nat
        BY <1>4
      <3>4. p[2] + 1 \in 1 .. Len(buf[cur_view])
        BY <1>5, <3>2, <3>3
      <3>5. <<cur_view, p[2] + 1>> \in Places(buf)
        BY <1>1, <3>4, PlaceFacts
      <3>6. QED
        BY <1>5, <2>2, <3>1, <3>2, <3>5
    <2>3. CASE p[1] # cur_view
      <3>1. h[p] = p /\ new[p[1]] = buf[p[1]]
        BY <1>3, <2>1, <2>3
      <3>2. <<p[1], p[2]>> \in Places(buf)
        BY <1>1, <2>1, <3>1, PlaceFacts
      <3>3. QED
        BY <2>1, <3>1, <3>2
    <2>4. QED
      BY <2>2, <2>3
  <1>8. ASSUME NEW p \in Places(new), NEW q \in Places(new), h[p] = h[q]
        PROVE  p = q
    <2>1. /\ p = <<p[1], p[2]>> /\ p[2] \in 1 .. Len(new[p[1]])
          /\ q = <<q[1], q[2]>> /\ q[2] \in 1 .. Len(new[q[1]])
      BY <1>6, PlaceFacts
    <2>2. p[2] \in Int /\ q[2] \in Int
      BY <2>1
    <2>3. h[p] = (IF p[1] = cur_view THEN <<p[1], p[2] + 1>> ELSE p)
          /\ h[q] = (IF q[1] = cur_view THEN <<q[1], q[2] + 1>> ELSE q)
      OBVIOUS
    <2>4. p[1] = q[1]
      BY <1>8, <2>1, <2>3
    <2>5. p[2] = q[2]
      BY <1>8, <2>1, <2>2, <2>3, <2>4
    <2>6. QED
      BY <2>1, <2>4, <2>5
  <1>9. h \in [Places(new) -> Places(buf)]
    BY <1>7
  <1> HIDE DEF h
  <1>10. Bytes(new) <= Bytes(buf)
    BY <1>1, <1>6, <1>7, <1>8, <1>9, BytesEmbed
  <1>11. Bytes(new) \in Nat
    BY <1>6, BytesType
  <1>12. Bytes(buffer') <= Bytes(buffer)
    BY <1>1, <1>2, <1>10, <1>11
  <1>13. QED
    BY <1>2, <1>6, <1>12, ShrinkingKeeps DEF RecvBuffered, BufferInv, TypeInv

\* A step of recv that only clears expired messages keeps it.
LEMMA ExpiringKeeps ==
  ASSUME BufferInv, buffer' = remove_expired_msgs(buffer), UNCHANGED <<cur_view, buffer_size>>
  PROVE  BufferInv'
  <1>1. IsBuffer(remove_expired_msgs(buffer)) /\ Bytes(remove_expired_msgs(buffer)) <= Bytes(buffer)
    BY ExpiredFacts DEF BufferInv
  <1>2. QED
    BY <1>1, ShrinkingKeeps DEF BufferInv, TypeInv

\* Every step keeps the buffer within its capacity and its account.
LEMMA BufferInvStep ==
  ASSUME BufferInv, [Next]_vars
  PROVE  BufferInv'
  <1>1. CASE RecvBuffered
    BY <1>1, RecvBufferedKeeps
  <1>2. CASE RecvOther
    BY <1>2, ExpiringKeeps DEF RecvOther
  <1>3. CASE \E v \in 0 .. MaxView, kind \in Cacheable : RecvFuture(v, kind)
    <2>1. PICK v \in 0 .. MaxView, kind \in Cacheable : RecvFuture(v, kind)
      BY <1>3
    <2>2. v \in Nat /\ cur_view' = cur_view
      BY <2>1, BufferAssumption DEF RecvFuture
    <2>3. CASE Insert(v, kind)
      BY <2>2, <2>3, InsertKeeps
    <2>4. CASE InsertEvicting(v, kind)
      BY <2>2, <2>4, InsertEvictingKeeps
    <2>5. CASE InsertRefused(v, kind)
      <3>1. buffer' = remove_expired_msgs(buffer) /\ UNCHANGED <<cur_view, buffer_size>>
        BY <2>2, <2>5 DEF InsertRefused
      <3>2. QED
        BY <3>1, ExpiringKeeps
    <2>6. QED
      BY <2>1, <2>3, <2>4, <2>5 DEF RecvFuture
  <1>4. CASE \E v \in 0 .. MaxView : EnterView(v)
    <2>1. cur_view' \in Nat /\ UNCHANGED <<buffer, buffer_size>>
      BY <1>4, BufferAssumption DEF EnterView
    <2>2. IsBuffer(buffer) /\ Bytes(buffer) \in Nat
      BY BytesType DEF BufferInv, TypeInv
    <2>3. IsBuffer(buffer') /\ Bytes(buffer') <= Bytes(buffer)
      BY <2>1, <2>2
    <2>4. QED
      BY <2>1, <2>3, ShrinkingKeeps
  <1>5. CASE UNCHANGED vars
    <2>1. UNCHANGED <<cur_view, buffer, buffer_size>>
      BY <1>5 DEF vars
    <2>2. IsBuffer(buffer) /\ Bytes(buffer) \in Nat
      BY BytesType DEF BufferInv, TypeInv
    <2>3. IsBuffer(buffer') /\ Bytes(buffer') <= Bytes(buffer) /\ cur_view' \in Nat
      BY <2>1, <2>2 DEF BufferInv, TypeInv
    <2>4. QED
      BY <2>1, <2>3, ShrinkingKeeps
  <1>6. QED
    BY <1>1, <1>2, <1>3, <1>4, <1>5 DEF Next

\* The buffer is empty at first.
LEMMA BufferInitial == Init => BufferInv
  <1> SUFFICES ASSUME Init PROVE BufferInv
    OBVIOUS
  <1>1. DOMAIN buffer = {}
    BY DEF Init
  <1>2. IsBuffer(buffer)
    BY <1>1, FS_EmptySet DEF IsBuffer
  <1>3. Places(buffer) = {}
    BY <1>1 DEF Places
  <1>4. Bytes(buffer) = 0
    BY <1>3, SumEmpty DEF Bytes, BytesAt
  <1>5. QED
    BY <1>2, <1>4, BufferAssumption
    DEF Init, BufferInv, TypeInv, BufferBounded, AccountCoversBuffer

\* What is really in the buffer never takes more bytes than the capacity,
\* whatever arrives, is taken out, expires or is evicted
\* (ProgressMessageBuffer::insert).
THEOREM BufferKept == Spec => []BufferBounded
  <1>1. BufferInv => BufferBounded
    BY DEF BufferInv
  <1>2. QED
    BY <1>1, BufferInitial, BufferInvStep, PTL DEF Spec

\* It never takes more bytes than the account says, so that giving back the
\* bytes of evicted messages cannot go below zero
\* (ProgressMessageBuffer::remove_highest_viewed_msgs).
THEOREM AccountCovers == Spec => []AccountCoversBuffer
  <1>1. BufferInv => AccountCoversBuffer
    BY DEF BufferInv
  <1>2. QED
    BY <1>1, BufferInitial, BufferInvStep, PTL DEF Spec

-----------------------------------------------------------------------------
(* The order of eviction.                                                  *)

\* The views v and w of EvictsHighestFirst.
HighestGoFirst ==
  \A v, w \in DOMAIN buffer :
    cur_view < v /\ v < w /\ Left(v) < Len(buffer[v]) => Left(w) <= 1

\* A step that leaves the queues of future views at least as long as they are.
LEMMA NothingEvicted ==
  ASSUME IsBuffer(buffer), IsBuffer(buffer'),
         \A v \in DOMAIN buffer : cur_view < v => Remaining(buffer', v) >= Len(buffer[v])
  PROVE  HighestGoFirst
  <1> SUFFICES ASSUME NEW v \in DOMAIN buffer, NEW w \in DOMAIN buffer,
                      cur_view < v, v < w, Left(v) < Len(buffer[v])
               PROVE  FALSE
    BY DEF HighestGoFirst
  <1>1. Remaining(buffer', v) \in Nat /\ Len(buffer[v]) \in Nat
    BY RemainingType DEF IsBuffer
  <1>2. Remaining(buffer', v) < Len(buffer[v]) /\ Remaining(buffer', v) >= Len(buffer[v])
    BY DEF Left, Remaining
  <1>3. QED
    BY <1>1, <1>2

\* remove_expired_msgs leaves the queues of future views alone.
LEMMA ExpiringRemaining ==
  ASSUME TypeInv, NEW v \in DOMAIN buffer, cur_view < v
  PROVE  /\ v \in DOMAIN remove_expired_msgs(buffer)
         /\ remove_expired_msgs(buffer)[v] = buffer[v]
         /\ Remaining(remove_expired_msgs(buffer), v) = Len(buffer[v])
  <1>1. v >= cur_view
    BY DEF TypeInv, IsBuffer
  <1>2. v \in DOMAIN remove_expired_msgs(buffer) /\ remove_expired_msgs(buffer)[v] = buffer[v]
    BY <1>1, ExpiredFacts
  <1>3. QED
    BY <1>2 DEF Remaining

\* Eviction that reaches a view has emptied the views above it.
LEMMA EvictingOrder ==
  ASSUME BufferInv, NEW x \in Nat, NEW kind \in Cacheable, InsertEvicting(x, kind)
  PROVE  HighestGoFirst
  <1> DEFINE buf == remove_expired_msgs(buffer)
             size == SizeOf[kind]
             rest == remove_highest_viewed_msgs(buf, size)
  <1> SUFFICES ASSUME NEW v \in DOMAIN buffer, NEW w \in DOMAIN buffer,
                      cur_view < v, v < w, Left(v) < Len(buffer[v])
               PROVE  Left(w) <= 1
    BY DEF HighestGoFirst
  <1>1. TypeInv /\ IsBuffer(buf) /\ size \in Nat /\ v \in Nat /\ w \in Nat /\ cur_view \in Nat
    BY ExpiredFacts, BufferAssumption DEF BufferInv, TypeInv, IsBuffer
  <1>2. /\ v \in DOMAIN buf /\ w \in DOMAIN buf
        /\ buf[v] = buffer[v] /\ buf[w] = buffer[w]
    <2>1. cur_view < w
      BY <1>1
    <2>2. QED
      BY <1>1, <2>1, ExpiringRemaining
  <1>3. buffer' = push_back(rest, x, kind)
    BY DEF InsertEvicting
  <1> HIDE DEF buf, size
  <1>4. /\ IsBuffer(rest)
        /\ \A u \in DOMAIN buf :
             /\ Remaining(rest, u) \in 0 .. Len(buf[u])
             /\ \A i \in 1 .. Len(buf[u]) : <<u, i>> \in evicted(buf, size) <=> i > Remaining(rest, u)
    BY <1>1, EvictionFacts
  <1> HIDE DEF rest
  <1>5. /\ Left(v) = Remaining(rest, v) + IF v = x THEN 1 ELSE 0
        /\ Left(w) = Remaining(rest, w) + IF w = x THEN 1 ELSE 0
    <2>1. Left(v) = Remaining(buffer', v) /\ Left(w) = Remaining(buffer', w)
      BY DEF Left, Remaining
    <2>2. QED
      BY <1>3, <1>4, <2>1, PushBackFacts DEF size
  <1>6. Len(buf[v]) \in Nat /\ Len(buf[w]) \in Nat
    BY <1>1, <1>2 DEF IsBuffer
  <1>7. Remaining(rest, v) < Len(buf[v])
    <2>1. Remaining(rest, v) \in Nat
      BY <1>4, RemainingType
    <2>2. Left(v) < Len(buf[v])
      BY <1>2
    <2>3. QED
      BY <1>5, <1>6, <2>1, <2>2
  <1> DEFINE i == Remaining(rest, v) + 1
  <1>8. i \in 1 .. Len(buf[v]) /\ i > Remaining(rest, v)
    <2>1. Remaining(rest, v) \in Nat
      BY <1>4, RemainingType
    <2>2. QED
      BY <1>6, <1>7, <2>1
  <1>9. <<v, i>> \in evicted(buf, size)
    BY <1>2, <1>4, <1>8
  <1>10. ASSUME NEW j \in 1 .. Len(buf[w])
         PROVE  <<w, j>> \in evicted(buf, size)
    <2>1. goes_before(<<w, j>>, <<v, i>>)
      BY <1>1 DEF goes_before
    <2>2. <<w, j>> \in Places(buf)
      BY <1>1, <1>2, PlaceFacts
    <2>3. QED
      BY <1>1, <1>9, <2>1, <2>2, EvictedFirst
  <1>11. Remaining(rest, w) = 0
    <2>1. Remaining(rest, w) \in 0 .. Len(buf[w])
      BY <1>2, <1>4
    <2>2. SUFFICES ASSUME Remaining(rest, w) # 0 PROVE FALSE
      OBVIOUS
    <2>3. 1 \in 1 .. Len(buf[w]) /\ Remaining(rest, w) \in 1 .. Len(buf[w])
      BY <1>6, <2>1, <2>2
    <2>4. <<w, Remaining(rest, w)>> \in evicted(buf, size)
      BY <1>10, <2>3
    <2>5. Remaining(rest, w) > Remaining(rest, w)
      BY <1>2, <1>4, <2>3, <2>4
    <2>6. QED
      BY <2>1, <2>5
  <1>12. QED
    BY <1>5, <1>11

\* Every step evicts in order.
LEMMA EvictsStep ==
  ASSUME BufferInv, BufferInv', [Next]_vars
  PROVE  HighestGoFirst
  <1> DEFINE buf == remove_expired_msgs(buffer)
  <1>1. /\ TypeInv /\ IsBuffer(buffer) /\ IsBuffer(buf) /\ cur_view \in Nat
        /\ \A v \in DOMAIN buffer : Len(buffer[v]) \in Nat
    BY ExpiredFacts DEF BufferInv, TypeInv, IsBuffer
  <1>2. IsBuffer(buffer')
    BY DEF BufferInv, TypeInv, IsBuffer
  <1>3. \A v \in DOMAIN buffer : cur_view < v => /\ v \in DOMAIN buf /\ buf[v] = buffer[v]
                                                 /\ Remaining(buf, v) = Len(buffer[v])
    BY <1>1, ExpiringRemaining
  <1> HIDE DEF buf
  <1>4. CASE RecvBuffered
    <2>1. buffer' = [buf EXCEPT ![cur_view] = Tail(@)]
      BY <1>4 DEF RecvBuffered, buf
    <2>2. ASSUME NEW v \in DOMAIN buffer, cur_view < v
          PROVE  Remaining(buffer', v) >= Len(buffer[v])
      <3>1. v # cur_view /\ v \in DOMAIN buf /\ buf[v] = buffer[v]
        BY <1>1, <1>3, <2>2
      <3>2. v \in DOMAIN buffer' /\ buffer'[v] = buffer[v]
        BY <2>1, <3>1
      <3>3. QED
        BY <1>1, <3>2 DEF Remaining
    <2>3. QED
      BY <1>1, <1>2, <2>2, NothingEvicted
  <1>5. CASE buffer' = buf
    <2>1. \A v \in DOMAIN buffer : cur_view < v => Remaining(buffer', v) >= Len(buffer[v])
      BY <1>1, <1>3, <1>5
    <2>2. QED
      BY <1>1, <1>2, <2>1, NothingEvicted
  <1>6. CASE \E v \in 0 .. MaxView, kind \in Cacheable : RecvFuture(v, kind)
    <2>1. PICK x \in 0 .. MaxView, kind \in Cacheable : RecvFuture(x, kind)
      BY <1>6
    <2>2. x \in Nat
      BY BufferAssumption
    <2>3. CASE Insert(x, kind)
      <3>1. buffer' = push_back(buf, x, kind)
        BY <2>3 DEF Insert, buf
      <3>2. ASSUME NEW v \in DOMAIN buffer, cur_view < v
            PROVE  Remaining(buffer', v) >= Len(buffer[v])
        <4>1. Remaining(buffer', v) = Len(buffer[v]) + IF v = x THEN 1 ELSE 0
          BY <1>1, <1>3, <2>2, <3>1, <3>2, PushBackFacts
        <4>2. QED
          BY <1>1, <4>1
      <3>3. QED
        BY <1>1, <1>2, <3>2, NothingEvicted
    <2>4. CASE InsertEvicting(x, kind)
      BY <2>2, <2>4, EvictingOrder
    <2>5. CASE InsertRefused(x, kind)
      BY <1>5, <2>5 DEF InsertRefused, buf
    <2>6. QED
      BY <2>1, <2>3, <2>4, <2>5 DEF RecvFuture
  <1>7. CASE UNCHANGED buffer
    <2>1. \A v \in DOMAIN buffer : cur_view < v => Remaining(buffer', v) >= Len(buffer[v])
      BY <1>1, <1>7 DEF Remaining
    <2>2. QED
      BY <1>1, <1>2, <2>1, NothingEvicted
  <1>8. QED
    BY <1>4, <1>5, <1>6, <1>7 DEF Next, RecvOther, EnterView, vars, buf

\* Messages of the highest views are evicted first: if a future view loses
\* messages, nothing is left of higher views but a message that has just
\* arrived (ProgressMessageBuffer::remove_highest_viewed_msgs).
THEOREM EvictionOrder == Spec => EvictsHighestFirst
  <1>1. BufferInv /\ BufferInv' /\ [Next]_vars => [HighestGoFirst]_vars
    BY EvictsStep
  <1>2. Spec => []BufferInv
    BY BufferInitial, BufferInvStep, PTL DEF Spec
  <1>3. Spec => [][HighestGoFirst]_vars
    BY <1>1, <1>2, PTL DEF Spec
  <1>4. QED
    BY <1>3 DEF EvictsHighestFirst, HighestGoFirst
=============================================================================
