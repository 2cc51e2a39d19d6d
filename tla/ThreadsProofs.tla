---------------------------- MODULE ThreadsProofs ----------------------------
(***************************************************************************)
(* Shutting a replica down makes no thread panic: whatever the             *)
(* configuration of handlers and however many messages and events there    *)
(* are, the first panic of any thread has a cause of its own.  It rests on *)
(* the order of Replica::drop: as long as a thread is in its loop, the     *)
(* threads whose ends of channels it needs have not been signalled.        *)
(***************************************************************************)
EXTENDS ReplicaThreads, SequenceTheorems, TLAPS

\* The threads that a list has left.
Left(list) == {list[i] : i \in DOMAIN list}

\* What may be left to shut down.
ShutdownTails ==
  { <<"bus", "algorithm", "server", "poller">>, <<"algorithm", "server", "poller">>,
    <<"server", "poller">>, <<"poller">> }

TypeInv ==
  /\ main \in {"starting", "running", "signalling", "joining", "dropped", "panicked"}
  /\ todo \in Seq(Threads)
  /\ main = "joining" => todo # <<>>
  /\ thread \in [Threads -> {"none", "loop", "poll", "recv", "sync", "again", "done", "panicked"}]
  /\ signal \in [Threads -> BOOLEAN]

\* Threads only end on a signal, and are signalled one by one.
Signals ==
  /\ \A t \in Threads : thread[t] = "done" => signal[t]
  /\ main \in {"starting", "running"} => \A t \in Threads : ~signal[t]
  /\ main = "signalling" => \A t \in Left(todo) : ~signal[t]
  /\ main = "joining" => \A t \in Left(Tail(todo)) : ~signal[t]

\* The threads that are not left to shut down have ended.
Shutdown ==
  /\ main \in {"signalling", "joining"} =>
       todo \in ShutdownTails /\ \A t \in Threads \ Left(todo) : ~Lives(t)
  /\ main = "dropped" => \A t \in Threads : ~Lives(t)

\* Without handlers there is no event bus.
BusWanted ==
  no_handlers => /\ thread["bus"] = "none"
                 /\ main = "starting" => "bus" \notin Left(todo)

NoPanic == main # "panicked" /\ \A t \in Threads : thread[t] # "panicked"

Orderly == NoPanic /\ Signals /\ Shutdown /\ BusWanted

\* The inductive invariant.
ThreadInv == TypeInv /\ (failed = {} => Orderly)

-----------------------------------------------------------------------------
(* Lists of threads.                                                       *)

\* A list of threads to shut down is a head, which the rest does not have, and
\* a rest in which the poller comes after the algorithm thread, and the
\* algorithm thread after the event bus.
LEMMA ShutdownLists ==
  ASSUME NEW list \in ShutdownTails
  PROVE  /\ list \in Seq(Threads)
         /\ list # <<>>
         /\ Head(list) \in Threads
         /\ Left(list) = {Head(list)} \cup Left(Tail(list))
         /\ Head(list) \notin Left(Tail(list))
         /\ Tail(list) \in ShutdownTails \cup {<<>>}
         /\ "algorithm" \in Left(list) => "poller" \in Left(Tail(list))
         /\ "bus" \in Left(list) => "algorithm" \in Left(Tail(list))
  <1>1. CASE list = <<"bus", "algorithm", "server", "poller">>
    BY <1>1 DEF ShutdownTails, Left, Threads
  <1>2. CASE list = <<"algorithm", "server", "poller">>
    BY <1>2 DEF ShutdownTails, Left, Threads
  <1>3. CASE list = <<"server", "poller">>
    BY <1>3 DEF ShutdownTails, Left, Threads
  <1>4. CASE list = <<"poller">>
    BY <1>4 DEF ShutdownTails, Left, Threads
  <1>5. QED
    BY <1>1, <1>2, <1>3, <1>4 DEF ShutdownTails

\* Nobody waits in an empty shutdown list.
LEMMA EmptyList == Left(<<>>) = {}
  BY DEF Left

\* Who waits in the tail of a shutdown list waits in the list.
LEMMA AnyList ==
  ASSUME NEW list \in Seq(Threads), list # <<>>
  PROVE  /\ Head(list) \in Left(list)
         /\ Head(list) \in Threads
         /\ Tail(list) \in Seq(Threads)
         /\ Left(Tail(list)) \subseteq Left(list)
  BY DEF Left

\* The concatenations in the orders of start and drop with an event bus.
LEMMA ListsOfFour ==
  /\ <<"bus">> \o <<"algorithm", "server", "poller">> = <<"bus", "algorithm", "server", "poller">>
  /\ <<"poller", "server", "algorithm">> \o <<"bus">> = <<"poller", "server", "algorithm", "bus">>
  <1> DEFINE a == <<"bus">>
             b == <<"algorithm", "server", "poller">>
             c == <<"poller", "server", "algorithm">>
             d == <<"bus", "algorithm", "server", "poller">>
             e == <<"poller", "server", "algorithm", "bus">>
  <1>1. a \in Seq(Threads) /\ b \in Seq(Threads) /\ c \in Seq(Threads) /\ d \in Seq(Threads) /\ e \in Seq(Threads)
    BY DEF Threads
  <1>2. a \o b \in Seq(Threads) /\ Len(a \o b) = 4 /\ \A i \in 1 .. 4 : (a \o b)[i] = d[i]
    BY <1>1
  <1>3. c \o a \in Seq(Threads) /\ Len(c \o a) = 4 /\ \A i \in 1 .. 4 : (c \o a)[i] = e[i]
    BY <1>1
  <1>4. Len(d) = 4 /\ Len(e) = 4
    OBVIOUS
  <1> HIDE DEF a, b, c, d, e
  <1>5. a \o b = d /\ c \o a = e
    BY <1>1, <1>2, <1>3, <1>4, SeqEqual
  <1>6. QED
    BY <1>5 DEF a, b, c, d, e

\* The two shutdown orders (with and without an event bus) and their tails.
LEMMA Orders ==
  /\ shutdown_order \in ShutdownTails
  /\ no_handlers => "bus" \notin Left(shutdown_order)
  /\ "bus" \notin Left(shutdown_order) => no_handlers
  /\ Left(shutdown_order) \cup {"bus"} = Threads
  /\ start_order \in Seq(Threads)
  /\ no_handlers => "bus" \notin Left(start_order)
  <1>1. CASE no_handlers
    <2>1. shutdown_order = <<"algorithm", "server", "poller">> /\ start_order = <<"poller", "server", "algorithm">>
      BY <1>1 DEF shutdown_order, start_order
    <2>2. QED
      BY <1>1, <2>1 DEF ShutdownTails, Left, Threads
  <1>2. CASE ~no_handlers
    <2>1. /\ shutdown_order = <<"bus", "algorithm", "server", "poller">>
          /\ start_order = <<"poller", "server", "algorithm", "bus">>
      BY <1>2, ListsOfFour DEF shutdown_order, start_order
    <2>2. QED
      BY <1>2, <2>1 DEF ShutdownTails, Left, Threads
  <1>3. QED
    BY <1>1, <1>2

-----------------------------------------------------------------------------
(* Facts about a state in which the invariant holds and nothing has failed *)
(* by itself.                                                              *)

\* The poller outlives the algorithm thread.
LEMMA PollerLives ==
  ASSUME TypeInv, Orderly, Lives("algorithm")
  PROVE  ~Ended("poller")
  <1>1. thread["poller"] # "panicked" /\ (thread["poller"] = "done" => signal["poller"])
    BY DEF Orderly, NoPanic, Signals, Threads
  <1>2. main \notin {"dropped", "panicked"}
    BY DEF Orderly, NoPanic, Shutdown, Threads
  <1>3. CASE main \in {"starting", "running"}
    BY <1>1, <1>3 DEF Orderly, Signals, Threads, Ended
  <1>4. CASE main \in {"signalling", "joining"}
    <2>1. todo \in ShutdownTails /\ "algorithm" \in Left(todo)
      BY <1>4 DEF Orderly, Shutdown, Threads
    <2>2. "poller" \in Left(Tail(todo)) /\ "poller" \in Left(todo)
      BY <2>1, ShutdownLists
    <2>3. QED
      BY <1>1, <1>4, <2>2 DEF Orderly, Signals, Ended
  <1>5. QED
    BY <1>2, <1>3, <1>4 DEF TypeInv

\* The algorithm thread outlives the event bus.
LEMMA PublisherLives ==
  ASSUME TypeInv, Orderly, Lives("bus")
  PROVE  ~Ended("algorithm")
  <1>1. thread["algorithm"] # "panicked" /\ (thread["algorithm"] = "done" => signal["algorithm"])
    BY DEF Orderly, NoPanic, Signals, Threads
  <1>2. main \notin {"dropped", "panicked"}
    BY DEF Orderly, NoPanic, Shutdown, Threads
  <1>3. CASE main \in {"starting", "running"}
    BY <1>1, <1>3 DEF Orderly, Signals, Threads, Ended
  <1>4. CASE main \in {"signalling", "joining"}
    <2>1. todo \in ShutdownTails /\ "bus" \in Left(todo)
      BY <1>4 DEF Orderly, Shutdown, Threads
    <2>2. "algorithm" \in Left(Tail(todo)) /\ "algorithm" \in Left(todo)
      BY <2>1, ShutdownLists
    <2>3. QED
      BY <1>1, <1>4, <2>2 DEF Orderly, Signals, Ended
  <1>5. QED
    BY <1>2, <1>3, <1>4 DEF TypeInv

\* The owner outlives them all.
LEMMA OwnerLives ==
  ASSUME TypeInv, Orderly, NEW t \in Threads, Lives(t)
  PROVE  ~SendersGone
  BY DEF Orderly, NoPanic, Shutdown, SendersGone

-----------------------------------------------------------------------------
(* Steps.  Most of them move one thread on within its loop.                *)

\* A living thread moves to a place where it is alive, or is done on a signal.
LEMMA MovesOrderly ==
  ASSUME TypeInv, Orderly, NEW t \in Threads, Lives(t),
         NEW where \in {"loop", "poll", "recv", "sync", "again", "done"},
         where = "done" => signal[t],
         Moves(t, where), UNCHANGED <<main, todo, signal>>
  PROVE  Orderly'
  <1>1. \A s \in Threads : thread'[s] = IF s = t THEN where ELSE thread[s]
    BY DEF Moves, TypeInv
  <1>2. NoPanic'
    BY <1>1 DEF Orderly, NoPanic
  <1>3. Signals'
    BY <1>1 DEF Orderly, Signals
  <1>4. Shutdown'
    BY <1>1 DEF Orderly, Shutdown, Lives
  <1>5. BusWanted'
    BY <1>1 DEF Orderly, BusWanted, Lives, no_handlers, Threads
  <1>6. QED
    BY <1>2, <1>3, <1>4, <1>5 DEF Orderly

\* ... and the same for the types.
LEMMA MovesType ==
  ASSUME TypeInv, NEW t \in Threads,
         NEW where \in {"loop", "poll", "recv", "sync", "again", "done", "panicked"},
         Moves(t, where), UNCHANGED <<main, todo, signal>>
  PROVE  TypeInv'
  BY DEF TypeInv, Moves

\* What a step that moves one living thread has to show.
LEMMA ThreadSteps ==
  ASSUME ThreadInv, NEW t \in Threads, Lives(t),
         NEW where \in {"loop", "poll", "recv", "sync", "again", "done", "panicked"},
         Moves(t, where), UNCHANGED <<main, todo, signal, failed>>,
         where = "done" => signal[t],
         Orderly => where # "panicked"
  PROVE  ThreadInv'
  <1>1. TypeInv'
    BY MovesType DEF ThreadInv
  <1>2. ASSUME failed' = {} PROVE Orderly'
    BY <1>2, MovesOrderly DEF ThreadInv
  <1>3. QED
    BY <1>1, <1>2 DEF ThreadInv

\* Looking at the shutdown signal keeps the invariant.
LEMMA CheckSignalStep ==
  ASSUME ThreadInv, NEW t \in Threads, NEW next \in {"poll", "recv"}, CheckSignal(t, next)
  PROVE  ThreadInv'
  <1> DEFINE where == IF signal[t] THEN "done" ELSE IF SendersGone THEN "panicked" ELSE next
  <1>1. Lives(t) /\ Moves(t, where) /\ UNCHANGED <<main, todo, signal, failed>>
    BY DEF CheckSignal, Lives
  <1>2. where \in {"poll", "recv", "done", "panicked"} /\ (where = "done" => signal[t])
    OBVIOUS
  <1>3. Orderly => where # "panicked"
    BY <1>1, OwnerLives DEF ThreadInv
  <1> HIDE DEF where
  <1>4. QED
    BY <1>1, <1>2, <1>3, ThreadSteps

\* A step of the poller thread keeps the invariant.
LEMMA PollerStep ==
  ASSUME ThreadInv, Poller
  PROVE  ThreadInv'
  <1>1. CASE CheckSignal("poller", "poll")
    BY <1>1, CheckSignalStep DEF Threads
  <1>2. CASE (\E c \in Channels : Deliver(c)) \/ NothingArrives
    <2>1. Lives("poller") /\ Moves("poller", "loop") /\ UNCHANGED <<main, todo, signal, failed>>
      BY <1>2 DEF Deliver, NothingArrives, Lives
    <2>2. QED
      BY <2>1, ThreadSteps DEF Threads
  <1>3. QED
    BY <1>1, <1>2 DEF Poller

\* A step of the algorithm thread keeps the invariant.
LEMMA AlgorithmStep ==
  ASSUME ThreadInv, Algorithm
  PROVE  ThreadInv'
  <1>1. CASE CheckSignal("algorithm", "recv")
    BY <1>1, CheckSignalStep DEF Threads
  <1>2. CASE AlgorithmReceives \/ AlgorithmTimesOut \/ AlgorithmSyncs \/ AlgorithmEndsSync
    <2>1. Lives("algorithm") /\ UNCHANGED <<main, todo, signal, failed>>
      BY <1>2 DEF AlgorithmReceives, AlgorithmTimesOut, AlgorithmSyncs, AlgorithmEndsSync, Take, Lives
    <2>2. Moves("algorithm", "loop") \/ Moves("algorithm", "sync")
      BY <1>2 DEF AlgorithmReceives, AlgorithmTimesOut, AlgorithmSyncs, AlgorithmEndsSync, Take
    <2>3. QED
      BY <2>1, <2>2, ThreadSteps DEF Threads
  <1>3. CASE AlgorithmDisconnected
    <2>1. /\ Lives("algorithm") /\ Moves("algorithm", "panicked")
          /\ UNCHANGED <<main, todo, signal, failed>> /\ Ended("poller")
      BY <1>3 DEF AlgorithmDisconnected, Disconnected, Lives
    <2>2. ~Orderly
      BY <2>1, PollerLives DEF ThreadInv
    <2>3. QED
      BY <2>1, <2>2, ThreadSteps DEF Threads
  <1>4. QED
    BY <1>1, <1>2, <1>3 DEF Algorithm

\* A step of the block sync server's thread keeps the invariant.
LEMMA ServerStep ==
  ASSUME ThreadInv, Server
  PROVE  ThreadInv'
  <1>1. CASE CheckSignal("server", "recv")
    BY <1>1, CheckSignalStep DEF Threads
  <1>2. CASE ServerResponds \/ ServerIdles
    <2>1. Lives("server") /\ Moves("server", "loop") /\ UNCHANGED <<main, todo, signal, failed>>
      BY <1>2 DEF ServerResponds, ServerIdles, Take, Lives
    <2>2. QED
      BY <2>1, ThreadSteps DEF Threads
  <1>3. QED
    BY <1>1, <1>2 DEF Server

\* A step of the event bus keeps the invariant.
LEMMA BusStep ==
  ASSUME ThreadInv, Bus
  PROVE  ThreadInv'
  <1>1. CASE CheckSignal("bus", "recv")
    BY <1>1, CheckSignalStep DEF Threads
  <1>2. CASE BusHandles \/ BusFindsNothing
    <2>1. Lives("bus") /\ UNCHANGED <<main, todo, signal, failed>>
      BY <1>2 DEF BusHandles, BusFindsNothing, Lives
    <2>2. Moves("bus", "loop") \/ Moves("bus", "again")
      BY <1>2 DEF BusHandles, BusFindsNothing
    <2>3. QED
      BY <2>1, <2>2, ThreadSteps DEF Threads
  <1>3. CASE BusLooksAgain
    <2> DEFINE where == IF events = <<>> /\ PublishersGone THEN "panicked" ELSE "loop"
    <2>1. Lives("bus") /\ Moves("bus", where) /\ UNCHANGED <<main, todo, signal, failed>>
      BY <1>3 DEF BusLooksAgain, Lives
    <2>2. where \in {"panicked", "loop"} /\ (where = "panicked" => Ended("algorithm"))
      BY DEF PublishersGone
    <2>3. Orderly => where # "panicked"
      BY <2>1, <2>2, PublisherLives DEF ThreadInv
    <2> HIDE DEF where
    <2>4. QED
      BY <2>1, <2>2, <2>3, ThreadSteps DEF Threads
  <1>4. QED
    BY <1>1, <1>2, <1>3 DEF Bus

-----------------------------------------------------------------------------
(* Steps of the owner.                                                     *)

\* ReplicaSpec::start establishes it for the new threads.
LEMMA StartStep ==
  ASSUME ThreadInv, Start
  PROVE  ThreadInv'
  <1>1. CASE todo = <<>>
    <2>1. main = "starting" /\ main' = "running" /\ UNCHANGED <<todo, thread, signal, failed>>
      BY <1>1 DEF Start
    <2>2. TypeInv'
      BY <2>1 DEF ThreadInv, TypeInv
    <2>3. ASSUME failed' = {} PROVE Orderly'
      BY <2>1, <2>3 DEF ThreadInv, Orderly, NoPanic, Signals, Shutdown, BusWanted, no_handlers
    <2>4. QED
      BY <2>2, <2>3 DEF ThreadInv
  <1>2. CASE todo # <<>>
    <2>1. /\ main = "starting" /\ UNCHANGED <<main, signal, failed>>
          /\ Moves(Head(todo), "loop") /\ todo' = Tail(todo)
      BY <1>2 DEF Start
    <2>2. /\ Head(todo) \in Left(todo) /\ Head(todo) \in Threads
          /\ Tail(todo) \in Seq(Threads) /\ Left(Tail(todo)) \subseteq Left(todo)
      BY <1>2, AnyList DEF ThreadInv, TypeInv
    <2>3. \A s \in Threads : thread'[s] = IF s = Head(todo) THEN "loop" ELSE thread[s]
      BY <2>1 DEF Moves, ThreadInv, TypeInv
    <2>4. TypeInv'
      BY <2>1, <2>2 DEF ThreadInv, TypeInv, Moves
    <2>5. ASSUME failed' = {} PROVE Orderly'
      <3>1. Orderly
        BY <2>1, <2>5 DEF ThreadInv
      <3>2. NoPanic'
        BY <2>1, <2>3, <3>1 DEF Orderly, NoPanic
      <3>3. Signals' /\ Shutdown'
        BY <2>1, <2>3, <3>1 DEF Orderly, Signals, Shutdown
      <3>4. BusWanted'
        BY <2>1, <2>2, <2>3, <3>1 DEF Orderly, BusWanted, no_handlers, Threads
      <3>5. QED
        BY <3>2, <3>3, <3>4 DEF Orderly
    <2>6. QED
      BY <2>4, <2>5 DEF ThreadInv
  <1>3. QED
    BY <1>1, <1>2

\* The first step of Replica::drop puts all threads on the list.
LEMMA DropStep ==
  ASSUME ThreadInv, Drop
  PROVE  ThreadInv'
  <1>1. main = "running" /\ main' = "signalling" /\ todo' = shutdown_order /\ UNCHANGED <<thread, signal, failed>>
    BY DEF Drop
  <1>2. shutdown_order \in Seq(Threads) /\ Left(shutdown_order) \subseteq Threads
    BY Orders, ShutdownLists
  <1>3. TypeInv'
    BY <1>1, <1>2 DEF ThreadInv, TypeInv
  <1>4. ASSUME failed' = {} PROVE Orderly'
    <2>1. Orderly
      BY <1>1, <1>4 DEF ThreadInv
    <2>2. NoPanic'
      BY <1>1, <2>1 DEF Orderly, NoPanic
    <2>3. Signals'
      BY <1>1, <1>2, <2>1 DEF Orderly, Signals
    <2>4. Shutdown'
      <3>1. \A t \in Threads \ Left(shutdown_order) : t = "bus" /\ thread["bus"] = "none"
        BY <2>1, Orders DEF Orderly, BusWanted
      <3>2. QED
        BY <1>1, <3>1, Orders DEF Shutdown, Lives
    <2>5. BusWanted'
      BY <1>1, <2>1 DEF Orderly, BusWanted, no_handlers
    <2>6. QED
      BY <2>2, <2>3, <2>4, <2>5 DEF Orderly
  <1>5. QED
    BY <1>3, <1>4 DEF ThreadInv

\* A thread that is still to be signalled has not ended.
LEMMA SignalNextStep ==
  ASSUME ThreadInv, SignalNext
  PROVE  ThreadInv'
  <1>1. main = "signalling" /\ todo # <<>> /\ UNCHANGED <<todo, thread, failed>>
    BY DEF SignalNext
  <1>2. Head(todo) \in Threads /\ Head(todo) \in Left(todo)
    BY <1>1, AnyList DEF ThreadInv, TypeInv
  <1>3. TypeInv'
    BY <1>1, <1>2 DEF ThreadInv, TypeInv, SignalNext
  <1>4. ASSUME failed' = {} PROVE Orderly'
    <2>1. Orderly
      BY <1>1, <1>4 DEF ThreadInv
    <2>2. todo \in ShutdownTails
      BY <1>1, <2>1 DEF Orderly, Shutdown
    <2>3. ~Ended(Head(todo))
      BY <1>1, <1>2, <2>1 DEF Orderly, NoPanic, Signals, Ended
    <2>4. main' = "joining" /\ signal' = [signal EXCEPT ![Head(todo)] = TRUE]
      BY <2>3 DEF SignalNext
    <2>5. \A t \in Threads : signal'[t] = IF t = Head(todo) THEN TRUE ELSE signal[t]
      BY <2>4 DEF ThreadInv, TypeInv
    <2>6. NoPanic'
      BY <1>1, <2>1, <2>4 DEF Orderly, NoPanic
    <2>7. Signals'
      <3>1. \A t \in Left(Tail(todo)) : t \in Left(todo) /\ t # Head(todo)
        BY <2>2, ShutdownLists
      <3>2. \A t \in Left(todo) : t \in Threads
        BY DEF ThreadInv, TypeInv, Left
      <3>3. \A t \in Left(Tail(todo)) : ~signal'[t]
        BY <1>1, <2>1, <2>5, <3>1, <3>2 DEF Orderly, Signals
      <3>4. \A t \in Threads : thread'[t] = "done" => signal'[t]
        BY <1>1, <2>1, <2>5 DEF Orderly, Signals
      <3>5. QED
        BY <1>1, <2>4, <3>3, <3>4 DEF Signals
    <2>8. Shutdown'
      BY <1>1, <2>1, <2>4 DEF Orderly, Shutdown, Lives
    <2>9. BusWanted'
      BY <1>1, <2>1, <2>4 DEF Orderly, BusWanted, no_handlers
    <2>10. QED
      BY <2>6, <2>7, <2>8, <2>9 DEF Orderly
  <1>5. QED
    BY <1>3, <1>4 DEF ThreadInv

\* Joining a signalled thread keeps the rest of the order.
LEMMA JoinNextStep ==
  ASSUME ThreadInv, JoinNext
  PROVE  ThreadInv'
  <1>1. main = "joining" /\ Ended(Head(todo)) /\ UNCHANGED <<thread, signal, failed>>
    BY DEF JoinNext
  <1>2. ASSUME Orderly PROVE Orderly'
    <2>1. todo \in ShutdownTails
      BY <1>1, <1>2 DEF Orderly, Shutdown
    <2>2. Head(todo) \in Threads /\ thread[Head(todo)] = "done"
      BY <1>1, <1>2, <2>1, ShutdownLists DEF Orderly, NoPanic, Ended
    <2>3. todo' = Tail(todo) /\ main' = IF Tail(todo) = <<>> THEN "dropped" ELSE "signalling"
      BY <2>2 DEF JoinNext
    <2>4. Tail(todo) \in ShutdownTails \cup {<<>>} /\ Left(todo) = {Head(todo)} \cup Left(Tail(todo))
      BY <2>1, ShutdownLists
    <2>6. NoPanic'
      BY <1>1, <1>2, <2>3 DEF Orderly, NoPanic
    <2>7. Signals'
      BY <1>1, <1>2, <2>3 DEF Orderly, Signals
    <2>8. Shutdown'
      <3>1. \A t \in Threads \ Left(Tail(todo)) : ~Lives(t)
        BY <1>1, <1>2, <2>2, <2>4 DEF Orderly, Shutdown, Lives
      <3>2. CASE Tail(todo) = <<>>
        BY <1>1, <2>3, <3>1, <3>2, EmptyList DEF Shutdown, Lives
      <3>3. CASE Tail(todo) # <<>>
        BY <1>1, <2>3, <2>4, <3>1, <3>3 DEF Shutdown, Lives
      <3>4. QED
        BY <3>2, <3>3
    <2>9. BusWanted'
      BY <1>1, <1>2, <2>3 DEF Orderly, BusWanted, no_handlers
    <2>10. QED
      BY <2>6, <2>7, <2>8, <2>9 DEF Orderly
  <1>3. TypeInv'
    <2>1. todo # <<>>
      BY <1>1 DEF ThreadInv, TypeInv
    <2>2. QED
      BY <1>1, <2>1, AnyList DEF JoinNext, ThreadInv, TypeInv
  <1>4. QED
    BY <1>1, <1>2, <1>3 DEF ThreadInv

\* Steps in which something fails by itself need only keep the types.
LEMMA FailStep ==
  ASSUME ThreadInv, StartFails \/ \E t \in Unreliable : Fail(t)
  PROVE  ThreadInv'
  <1>1. CASE StartFails
    <2>1. TypeInv' /\ failed' # {}
      BY <1>1 DEF StartFails, ThreadInv, TypeInv
    <2>2. QED
      BY <2>1 DEF ThreadInv
  <1>2. CASE \E t \in Unreliable : Fail(t)
    <2>1. PICK t \in Unreliable : Fail(t)
      BY <1>2
    <2>2. t \in Threads
      BY ThreadsAssumption
    <2>3. TypeInv' /\ failed' # {}
      BY <2>1, <2>2, MovesType DEF Fail, ThreadInv
    <2>4. QED
      BY <2>3 DEF ThreadInv
  <1>3. QED
    BY <1>1, <1>2

-----------------------------------------------------------------------------

\* In every behaviour of the threads (ReplicaSpec::start, the four loops and
\* Replica::drop) the inductive invariant holds.
THEOREM ThreadsAreOrderly == Spec => []ThreadInv
  <1>1. Init => ThreadInv
    <2> SUFFICES ASSUME Init PROVE ThreadInv
      OBVIOUS
    <2>1. TypeInv
      BY Orders DEF Init, TypeInv
    <2>2. Orderly
      BY Orders DEF Init, Orderly, NoPanic, Signals, Shutdown, BusWanted, Threads
    <2>3. QED
      BY <2>1, <2>2 DEF ThreadInv
  <1>2. ThreadInv /\ [Next]_vars => ThreadInv'
    <2> SUFFICES ASSUME ThreadInv, [Next]_vars PROVE ThreadInv'
      OBVIOUS
    <2>1. CASE Main
      BY <2>1, StartStep, SignalNextStep, JoinNextStep DEF Main
    <2>2. CASE StartFails \/ \E t \in Unreliable : Fail(t)
      BY <2>2, FailStep
    <2>3. CASE Drop
      BY <2>3, DropStep
    <2>4. CASE Poller \/ Algorithm \/ Server \/ Bus
      BY <2>4, PollerStep, AlgorithmStep, ServerStep, BusStep
    <2>5. CASE UNCHANGED vars
      BY <2>5 DEF vars, ThreadInv, TypeInv, Orderly, NoPanic, Signals, Shutdown, BusWanted, Lives, no_handlers
    <2>6. QED
      BY <2>1, <2>2, <2>3, <2>4, <2>5 DEF Next
  <1>3. QED
    BY <1>1, <1>2, PTL DEF Spec

\* As long as no thread fails by itself, neither a thread nor the owner panics
\* (the order of shutdown in Replica::drop and what the loops of the threads
\* assume of their channels).
THEOREM ShutdownIsSafe == Spec => []PanicsHaveACause
  <1>1. ThreadInv => PanicsHaveACause
    BY DEF ThreadInv, Orderly, NoPanic, PanicsHaveACause
  <1>2. QED
    BY <1>1, ThreadsAreOrderly, PTL
=============================================================================
