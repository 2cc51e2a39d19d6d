--------------------------- MODULE ReplicaThreads ---------------------------
(***************************************************************************)
(* The threads of one replica and the channels between them: how           *)
(* ReplicaSpec::start sets them up, how they run, and how dropping the     *)
(* Replica, or the failure of a thread, takes them down (src/replica.rs,   *)
(* the loops of src/algorithm.rs, src/block_sync/server.rs,                *)
(* src/networking/receiving.rs and src/event_bus.rs).                      *)
(*                                                                         *)
(*   network -> poller -> progress msgs, responses -> algorithm            *)
(*                     -> requests -> server                               *)
(*   algorithm, server -> events -> event bus                              *)
(*                                                                         *)
(* A thread owns the receiving ends of its channels and its end of what it *)
(* sends on; both go when it ends.  Receiving from an empty channel whose  *)
(* senders are gone, or sending to a receiver that is gone, is an error.   *)
(* What the threads do with a message is in the other modules: here they   *)
(* take it, may publish an event and, in the algorithm's case, may sync.   *)
(***************************************************************************)
EXTENDS Integers, Sequences

CONSTANTS
  UserHandlers,         \* the types of events with a handler of the user
  LogEvents,            \* log_events of the configuration
  AlgorithmEvents,      \* types of events the algorithm thread publishes
  ServerEvents,         \* ... and those of the block sync server
  Unreliable,           \* the threads that may fail: a panic of the app, the
                        \* network, a handler, or an `expect` on the store
  MaxMessages,          \* bound: messages that arrive from the network
  MaxEvents             \* bound: events published

Threads  == {"poller", "server", "algorithm", "bus"}
Channels == {"progress", "request", "response"}

ASSUME ThreadsAssumption ==
  /\ Unreliable \subseteq Threads
  /\ LogEvents \in BOOLEAN
  /\ MaxMessages \in Nat
  /\ MaxEvents \in Nat

VARIABLES
  main,                 \* what the thread that owns the Replica does
  todo,                 \* the threads it has still to start or to shut down
  thread,               \* thread[t]: where t is in its loop, or how it ended
  signal,               \* signal[t]: the shutdown signal of t is in its channel
  channel,              \* channel[c]: how many messages it holds
  arrived,              \* how many messages arrived from the network
  events,               \* the channel of events
  published,            \* how many events were published
  handled,              \* the calls of handlers: <<handler, event>>
  failed                \* the threads that failed by themselves

vars == <<main, todo, thread, signal, channel, arrived, events, published, handled, failed>>

Ended(t) == thread[t] \in {"done", "panicked"}
Lives(t) == thread[t] \notin {"none", "done", "panicked"}

\* The sender of the shutdown signals is gone with the Replica.
SendersGone == main \in {"dropped", "panicked"}

Moves(t, where) == thread' = [thread EXCEPT ![t] = where]

-----------------------------------------------------------------------------
(* Event handlers: one of the user and one for logging for each type.      *)

Types == AlgorithmEvents \cup ServerEvents

\* HandlerPair: the handlers of a type of event, in the order they are called.
HandlerPair(log, user_defined) ==
  (IF user_defined THEN <<"user">> ELSE <<>>) \o (IF log THEN <<"log">> ELSE <<>>)

\* EventHandlers: the pair of each type of event.
handlers(type) == HandlerPair(LogEvents, type \in UserHandlers)

\* EventHandlers::is_empty: then there are no event bus and no event channel.
no_handlers == \A type \in Types : handlers(type) = <<>>

fire_handlers(event) ==
  [i \in DOMAIN handlers(event.type) |-> <<handlers(event.type)[i], event.number>>]

\* Event::publish: an error, because the event bus has ended, is ignored.
Publish(types) ==
  \/ UNCHANGED <<events, published>>
  \/ /\ published < MaxEvents
     /\ published' = published + 1
     /\ \E type \in types :
          events' = IF no_handlers \/ Ended("bus") THEN events
                    ELSE Append(events, [number |-> published, type |-> type])

-----------------------------------------------------------------------------
(* The owner: start and drop.                                              *)

start_order == <<"poller", "server", "algorithm">> \o (IF no_handlers THEN <<>> ELSE <<"bus">>)

Init ==
  /\ main = "starting"
  /\ todo = start_order
  /\ thread = [t \in Threads |-> "none"]
  /\ signal = [t \in Threads |-> FALSE]
  /\ channel = [c \in Channels |-> 0]
  /\ arrived = 0
  /\ events = <<>>
  /\ published = 0
  /\ handled = <<>>
  /\ failed = {}

\* Start the next thread, or hand out the Replica.
Start ==
  /\ main = "starting"
  /\ IF todo = <<>> THEN main' = "running" /\ UNCHANGED <<todo, thread>>
     ELSE Moves(Head(todo), "loop") /\ todo' = Tail(todo) /\ UNCHANGED main
  /\ UNCHANGED <<signal, channel, arrived, events, published, handled, failed>>

\* The block tree cannot be read: Algorithm::new panics while the poller and
\* the server run already.
StartFails ==
  /\ main = "starting"
  /\ "algorithm" \in Unreliable
  /\ todo # <<>> /\ Head(todo) = "algorithm"
  /\ main' = "panicked"
  /\ failed' = failed \cup {"algorithm"}
  /\ UNCHANGED <<todo, thread, signal, channel, arrived, events, published, handled>>

\* Seeded fault: the poller goes before the threads that receive from it.
shutdown_order_poller_first ==
  (IF no_handlers THEN <<>> ELSE <<"bus">>) \o <<"poller", "algorithm", "server">>

shutdown_order ==
  (IF no_handlers THEN <<>> ELSE <<"bus">>) \o <<"algorithm", "server", "poller">>

\* The owner drops the Replica.
Drop ==
  /\ main = "running"
  /\ main' = "signalling"
  /\ todo' = shutdown_order
  /\ UNCHANGED <<thread, signal, channel, arrived, events, published, handled, failed>>

\* send(()).unwrap(): it fails if the thread has ended.
SignalNext ==
  /\ main = "signalling"
  /\ todo # <<>>
  /\ IF Ended(Head(todo)) THEN main' = "panicked" /\ UNCHANGED signal
     ELSE main' = "joining" /\ signal' = [signal EXCEPT ![Head(todo)] = TRUE]
  /\ UNCHANGED <<todo, thread, channel, arrived, events, published, handled, failed>>

\* join().unwrap(): it waits for the end of the thread and fails if the
\* thread has panicked.
JoinNext ==
  /\ main = "joining"
  /\ Ended(Head(todo))
  /\ IF thread[Head(todo)] = "panicked" THEN main' = "panicked" /\ UNCHANGED todo
     ELSE /\ todo' = Tail(todo)
          /\ main' = IF Tail(todo) = <<>> THEN "dropped" ELSE "signalling"
  /\ UNCHANGED <<thread, signal, channel, arrived, events, published, handled, failed>>

Main == Start \/ SignalNext \/ JoinNext

-----------------------------------------------------------------------------
(* What the loops of all threads start with, and how they may fail.        *)

\* Seeded fault: a thread goes on when its owner is gone.
CheckSignalOnly(t, next) ==
  /\ thread[t] = "loop"
  /\ Moves(t, IF signal[t] THEN "done" ELSE next)
  /\ UNCHANGED <<main, todo, signal, channel, arrived, events, published, handled, failed>>

\* try_recv on the shutdown channel.
CheckSignal(t, next) ==
  /\ thread[t] = "loop"
  /\ Moves(t, IF signal[t] THEN "done" ELSE IF SendersGone THEN "panicked" ELSE next)
  /\ UNCHANGED <<main, todo, signal, channel, arrived, events, published, handled, failed>>

Fail(t) ==
  /\ t \in Unreliable
  /\ Lives(t)
  /\ Moves(t, "panicked")
  /\ failed' = failed \cup {t}
  /\ UNCHANGED <<main, todo, signal, channel, arrived, events, published, handled>>

-----------------------------------------------------------------------------
(* The poller: start_polling.                                              *)

receiver(c) == IF c = "request" THEN "server" ELSE "algorithm"

\* A message that nobody receives any more is lost, without an error.
Deliver(c) ==
  /\ thread["poller"] = "poll"
  /\ arrived < MaxMessages
  /\ arrived' = arrived + 1
  /\ channel' = [channel EXCEPT ![c] = IF Ended(receiver(c)) THEN @ ELSE @ + 1]
  /\ Moves("poller", "loop")
  /\ UNCHANGED <<main, todo, signal, events, published, handled, failed>>

NothingArrives ==
  /\ thread["poller"] = "poll"
  /\ Moves("poller", "loop")
  /\ UNCHANGED <<main, todo, signal, channel, arrived, events, published, handled, failed>>

Poller == CheckSignal("poller", "poll") \/ (\E c \in Channels : Deliver(c)) \/ NothingArrives

-----------------------------------------------------------------------------
(* The algorithm thread: execute.                                          *)

Take(t, c, next) ==
  /\ channel[c] > 0
  /\ channel' = [channel EXCEPT ![c] = @ - 1]
  /\ Moves(t, next)
  /\ UNCHANGED <<main, todo, signal, arrived, handled, failed>>

\* The channel is empty and the poller has ended.
Disconnected(c) == channel[c] = 0 /\ Ended("poller")

\* A message is handled; sync may follow, in the handler of an advertisement
\* or in the tick after any message.
AlgorithmReceives ==
  /\ thread["algorithm"] = "recv"
  /\ \E next \in {"loop", "sync"} : Take("algorithm", "progress", next)
  /\ Publish(AlgorithmEvents)

\* The deadline of the view has passed: recv returns without a message.
AlgorithmTimesOut ==
  /\ thread["algorithm"] = "recv"
  /\ \E next \in {"loop", "sync"} : Moves("algorithm", next)
  /\ Publish(AlgorithmEvents)
  /\ UNCHANGED <<main, todo, signal, channel, arrived, handled, failed>>

AlgorithmDisconnected ==
  /\ thread["algorithm"] = "recv"
  /\ Disconnected("progress")
  /\ Moves("algorithm", "panicked")
  /\ UNCHANGED <<main, todo, signal, channel, arrived, events, published, handled, failed>>

\* sync_with goes on with a response, or is over.
AlgorithmSyncs ==
  /\ thread["algorithm"] = "sync"
  /\ \E next \in {"loop", "sync"} : Take("algorithm", "response", next)
  /\ Publish(AlgorithmEvents)

\* No response in time, or the poller is gone: sync_with is over.
AlgorithmEndsSync ==
  /\ thread["algorithm"] = "sync"
  /\ channel["response"] = 0
  /\ Moves("algorithm", "loop")
  /\ Publish(AlgorithmEvents)
  /\ UNCHANGED <<main, todo, signal, channel, arrived, handled, failed>>

Algorithm ==
  \/ CheckSignal("algorithm", "recv")
  \/ AlgorithmReceives \/ AlgorithmTimesOut \/ AlgorithmDisconnected
  \/ AlgorithmSyncs \/ AlgorithmEndsSync

-----------------------------------------------------------------------------
(* The block sync server.                                                  *)

ServerResponds ==
  /\ thread["server"] = "recv"
  /\ Take("server", "request", "loop")
  /\ Publish(ServerEvents)

\* No request is there; that the channel may be disconnected is ignored.
ServerIdles ==
  /\ thread["server"] = "recv"
  /\ channel["request"] = 0
  /\ Moves("server", "loop")
  /\ UNCHANGED <<main, todo, signal, channel, arrived, events, published, handled, failed>>

Server == CheckSignal("server", "recv") \/ ServerResponds \/ ServerIdles

-----------------------------------------------------------------------------
(* The event bus.  When there is no event it looks again, to find out      *)
(* whether the publishers are gone.                                        *)

PublishersGone == Ended("algorithm") /\ Ended("server")

BusHandles ==
  /\ thread["bus"] = "recv"
  /\ events # <<>>
  /\ events' = Tail(events)
  /\ handled' = handled \o fire_handlers(Head(events))
  /\ Moves("bus", "loop")
  /\ UNCHANGED <<main, todo, signal, channel, arrived, published, failed>>

BusFindsNothing ==
  /\ thread["bus"] = "recv"
  /\ events = <<>>
  /\ Moves("bus", "again")
  /\ UNCHANGED <<main, todo, signal, channel, arrived, events, published, handled, failed>>

\* An event that has come in the meantime is received and dropped.
BusLooksAgain ==
  /\ thread["bus"] = "again"
  /\ events' = IF events = <<>> THEN <<>> ELSE Tail(events)
  /\ Moves("bus", IF events = <<>> /\ PublishersGone THEN "panicked" ELSE "loop")
  /\ UNCHANGED <<main, todo, signal, channel, arrived, published, handled, failed>>

Bus == CheckSignal("bus", "recv") \/ BusHandles \/ BusFindsNothing \/ BusLooksAgain

-----------------------------------------------------------------------------

Next ==
  \/ Main \/ StartFails \/ Drop
  \/ Poller \/ Algorithm \/ Server \/ Bus
  \/ \E t \in Unreliable : Fail(t)

Spec == Init /\ [][Next]_vars

\* Threads run.  The owner need not ever drop the Replica, but goes on with
\* starting and dropping it.
FairSpec ==
  /\ Spec
  /\ WF_vars(Main)
  /\ WF_vars(Poller)
  /\ WF_vars(Algorithm)
  /\ WF_vars(Server)
  /\ WF_vars(Bus)

-----------------------------------------------------------------------------
(* Properties.                                                             *)

\* "the order of thread shutdown in this function is important, as the threads
\* make assumptions about the validity of their channels based on this": as
\* long as no thread fails by itself, none panics because another one is gone,
\* and neither does the owner, while the threads start, run or shut down.
PanicsHaveACause ==
  (main = "panicked" \/ \E t \in Threads : thread[t] = "panicked") => failed # {}

\* Once the owner drops the Replica, or panics in doing so or in starting it,
\* every thread ends, also after another thread has failed: nobody waits for
\* a thread that is gone.
DropEnds ==
  main \in {"signalling", "panicked"} ~> \A t \in Threads : ~Lives(t)

\* "the thread checks if it received any event notifications, and if so, then
\* triggers the execution of the handlers defined for the event": what is
\* taken from the channel is handed to its handlers.
ReceivedEventsAreHandled ==
  [][\A i \in 1 .. Len(events) - Len(events') :
       \A j \in DOMAIN fire_handlers(events[i]) :
         \E k \in DOMAIN handled' : handled'[k] = fire_handlers(events[i])[j]]_vars
=============================================================================
