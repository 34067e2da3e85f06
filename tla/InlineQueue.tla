----------------------------- MODULE InlineQueue ----------------------------
(***************************************************************************)
(* fp::InlineQueue and its InlineEventManager over an EventPoll            *)
(* (fastpath/event/InlineQueue.h, InlineEventManager.cpp, EventManager.cpp, *)
(* arch/linux/PollManager.cpp).  One thread polls and runs the callbacks:  *)
(* dispatch() takes a batch from epoll_wait and runs the handlers of each  *)
(* of its entries in place, while the callbacks register and unregister    *)
(* events whose entries may be in the same batch.                          *)
(*                                                                         *)
(* A callback is taken not to register or unregister an event on the       *)
(* descriptor it is called for: that changes the vector foreach_event_     *)
(* matching walks, and for its own event frees the closure that runs.      *)
(***************************************************************************)
EXTENDS Integers, Sequences, FiniteSets

CONSTANTS Files, Clocks, Signals,   \* the keys of the three tables
          Readers,                  \* DataEvents, [Readers -> Files] by FileOf
          FileOf,
          MaxDispatchSize,          \* entries of a batch, 256
          InlineTimeouts,           \* the timeouts asked for
          MaxInlineArrivals, MaxInlineCalls

Timeout == "timeout"   \* m_timeout, which the queue owns
NoKey == "none"

ASSUME InlineAssumption ==
  /\ IsFiniteSet(Files) /\ IsFiniteSet(Clocks) /\ IsFiniteSet(Signals)
  /\ Timeout \notin Files \cup Clocks \cup Signals
  /\ FileOf \in [Readers -> Files]

VARIABLES
  events,     \* m_registeredEvents, the events that exist
  lookup,     \* of each key, the handlers in the table
  watched,    \* what epoll watches
  m_events,   \* EventPoll's own count of it
  reported,   \* what epoll_wait would report
  input,      \* files with input no callback has read
  thread,     \* the steps to go
  timed,      \* whether dispatch(timeout) runs, and whether its timer is armed
  batch,      \* entries of epoll_wait still to service
  current,    \* the key in service, and the handlers walked so far
  inlineArrivals, inlineCalls

tables == <<events, lookup, watched, m_events>>
inlineCounts == <<inlineArrivals, inlineCalls>>
inlineVars == <<tables, reported, input, thread, timed, batch, current, inlineCounts>>

Handlers == Readers \cup Clocks \cup Signals
InlineKeys == Files \cup Clocks \cup Signals \cup {Timeout}
InlineKey(e) == IF e \in Readers THEN FileOf[e] ELSE e

InlineInit ==
  /\ events = {} /\ lookup = [k \in InlineKeys |-> <<>>] /\ watched = {} /\ m_events = 0
  /\ reported = {} /\ input = {}
  /\ thread = <<>> /\ timed = "no" /\ batch = {} /\ current = [key |-> NoKey, walked |-> 0]
  /\ inlineArrivals = 0 /\ inlineCalls = 0

Continues(step, next) == thread # <<>> /\ Head(thread) = step /\ thread' = next \o Tail(thread)
-----------------------------------------------------------------------------
(* EventPoll::add and remove.                                              *)

\* Mutant: what epoll refuses, because it is watched already, is counted too.
pollAddCountsTwice(k) ==
  /\ watched' = watched \cup {k}
  /\ m_events' = m_events + 1
  /\ reported' = IF k \in input THEN reported \cup {k} ELSE reported

\* A descriptor that has input is reported when it is added.
pollAdd(k) ==
  /\ watched' = watched \cup {k}
  /\ m_events' = IF k \in watched THEN m_events ELSE m_events + 1
  /\ reported' = IF k \in input \ watched THEN reported \cup {k} ELSE reported

pollRemove(k) ==
  /\ watched' = watched \ {k}
  /\ m_events' = m_events - 1
  /\ reported' = reported \ {k}
-----------------------------------------------------------------------------
(* InlineEventManager, called from Queue::registerEvent and                *)
(* unregisterEvent, outside dispatch or from a callback.                   *)

InApplication == thread # <<>> => Head(thread) = "callback"

\* The name of a deleted event is used again once no table holds it.
registerHandler(e) ==
  /\ InApplication /\ e \notin events /\ InlineKey(e) # current.key
  /\ \A i \in DOMAIN lookup[InlineKey(e)] : lookup[InlineKey(e)][i] # e
  /\ events' = events \cup {e}
  /\ lookup' = [lookup EXCEPT ![InlineKey(e)] = Append(@, e)]
  /\ pollAdd(InlineKey(e))
  /\ UNCHANGED <<input, thread, timed, batch, current, inlineCounts>>

\* One of several handlers is erased from a copy of the vector: not at all.
eraseHandler(e) ==
  LET k == InlineKey(e) IN
  IF Len(lookup[k]) = 1 THEN pollRemove(k) /\ lookup' = [lookup EXCEPT ![k] = <<>>]
                        ELSE UNCHANGED <<lookup, watched, m_events, reported>>

\* Nothing awaits dispatch in an inline queue: the event is deleted at once.
unregisterInline(e) ==
  /\ InApplication /\ e \in events /\ InlineKey(e) # current.key
  /\ eraseHandler(e)
  /\ events' = events \ {e}
  /\ UNCHANGED <<input, thread, timed, batch, current, inlineCounts>>
-----------------------------------------------------------------------------
(* Input, expiries and signals.  A file is reported once for what arrives  *)
(* (EPOLLET), a timer and a signal until they are read.                    *)

Happens(k) ==
  /\ inlineArrivals < MaxInlineArrivals
  /\ k \in Files \/ k \in watched
  /\ inlineArrivals' = inlineArrivals + 1
  /\ input' = IF k \in Files THEN input \cup {k} ELSE input
  /\ reported' = IF k \in watched THEN reported \cup {k} ELSE reported
  /\ UNCHANGED <<tables, thread, timed, batch, current, inlineCalls>>

TimeoutExpires ==
  /\ timed = "armed" /\ Timeout \in watched \ reported
  /\ reported' = reported \cup {Timeout}
  /\ UNCHANGED <<tables, input, thread, timed, batch, current, inlineCounts>>
-----------------------------------------------------------------------------
(* dispatch, with and without a timeout.                                   *)

Calls ==
  /\ thread = <<>> /\ inlineCalls < MaxInlineCalls
  /\ inlineCalls' = inlineCalls + 1
  /\ UNCHANGED <<input, batch, current, inlineArrivals>>

dispatchInline ==
  /\ Calls /\ thread' = <<"wait">>
  /\ UNCHANGED <<tables, reported, timed>>

\* setTimeout, which disarms the timer for zero, and registerHandler
dispatchInlineTimeout ==
  /\ Calls /\ thread' = <<"wait", "unregister">>
  /\ \E ms \in InlineTimeouts : timed' = IF ms > 0 THEN "armed" ELSE "disarmed"
  /\ lookup' = [lookup EXCEPT ![Timeout] = <<Timeout>>]
  /\ pollAdd(Timeout)
  /\ UNCHANGED events

unregisterTimeout ==
  /\ Continues("unregister", <<>>)
  /\ timed' = "no"
  /\ lookup' = [lookup EXCEPT ![Timeout] = <<>>]
  /\ pollRemove(Timeout)
  /\ UNCHANGED <<events, input, batch, current, inlineCounts>>

runLeaves(entries) == reported \ (entries \cap Files)

MinOf(a, b) == IF a < b THEN a ELSE b

\* EventPoll::run: with nothing to watch it returns at once
run ==
  /\ \/ m_events = 0 /\ Continues("wait", <<>>) /\ UNCHANGED <<reported, batch>>
     \/ \E entries \in SUBSET reported :
          /\ m_events # 0 /\ entries # {}
          /\ Cardinality(entries) = MinOf(Cardinality(reported), MaxDispatchSize)
          /\ batch' = entries
          /\ reported' = runLeaves(entries)
          /\ Continues("wait", <<"batch">>)
  /\ UNCHANGED <<tables, input, timed, current, inlineCounts>>

\* epoll_wait returns EINTR
runInterrupted ==
  /\ m_events # 0 /\ Continues("wait", <<>>)
  /\ UNCHANGED <<tables, reported, input, timed, batch, current, inlineCounts>>

\* The next entry of the batch; run() reads a signal itself.
service(k) ==
  /\ k \in batch
  /\ Continues("batch", <<"each", "batch">>)
  /\ batch' = batch \ {k}
  /\ current' = [key |-> k, walked |-> 0]
  /\ reported' = reported \ (Signals \cap {k})
  /\ UNCHANGED <<tables, input, timed, inlineCounts>>

serviced ==
  /\ batch = {} /\ Continues("batch", <<>>)
  /\ UNCHANGED <<tables, reported, input, timed, batch, current, inlineCounts>>

More == current.walked < Len(lookup[current.key])

\* foreach_..._matching: the next handler is notified, a timer reads its
\* descriptor, and __enqueue runs the callback in place.
each ==
  /\ Continues("each", IF More THEN <<"callback", "each">> ELSE <<>>)
  /\ IF More THEN /\ current' = [current EXCEPT !.walked = @ + 1]
                  /\ reported' = reported \ ((Clocks \cup {Timeout}) \cap {current.key})
             ELSE /\ current' = [key |-> NoKey, walked |-> 0]
                  /\ UNCHANGED reported
  /\ UNCHANGED <<tables, input, timed, batch, inlineCounts>>

\* A data callback reads its descriptor until there is no more to read.
callbackReturns ==
  /\ Continues("callback", <<>>)
  /\ input' = input \ {current.key}
  /\ UNCHANGED <<tables, reported, timed, batch, current, inlineCounts>>
-----------------------------------------------------------------------------
Dispatching ==
  \/ run \/ (\E k \in InlineKeys : service(k)) \/ serviced \/ each \/ callbackReturns
  \/ unregisterTimeout

InlineNext ==
  \/ \E e \in Handlers : registerHandler(e) \/ unregisterInline(e)
  \/ \E k \in InlineKeys \ {Timeout} : Happens(k)
  \/ TimeoutExpires
  \/ dispatchInline \/ dispatchInlineTimeout
  \/ Dispatching \/ runInterrupted

\* Time passes, callbacks return, and the thread goes on.
InlineFairness == WF_inlineVars(TimeoutExpires) /\ WF_inlineVars(Dispatching)

InlineSpec == InlineInit /\ [][InlineNext]_inlineVars /\ InlineFairness
-----------------------------------------------------------------------------
(* A file that has had several handlers keeps the deleted ones.            *)
Shared(k) == Len(lookup[k]) > 1

(* The tables lead to live events only, also between the entries of a      *)
(* batch whose callbacks unregister events that have an entry in it; the   *)
(* exception is a file with several handlers, where unregisterHandler      *)
(* erases the event from a copy of the vector (InlineEventManager.cpp:101). *)
(* epoll watches exactly the keys with handlers, and m_events, on which    *)
(* run() decides whether to wait at all, counts them.                      *)
TablesAgree ==
  /\ \A k \in InlineKeys : \A i \in DOMAIN lookup[k] :
       \/ lookup[k][i] \in events
       \/ k = Timeout /\ timed # "no"
       \/ Shared(k)
  /\ \A k \in InlineKeys : k \in watched <=> lookup[k] # <<>>
  /\ m_events = Cardinality(watched)

(* The calls of the thread, inside a timed dispatch and outside it.        *)
Untimed == {<<>>, <<"wait">>, <<"batch">>, <<"each", "batch">>, <<"callback", "each", "batch">>}
TimedCalls == {<<"unregister">>, <<"wait", "unregister">>, <<"batch", "unregister">>,
               <<"each", "batch", "unregister">>,
               <<"callback", "each", "batch", "unregister">>}

Listed(e) == \E i \in DOMAIN lookup[InlineKey(e)] : lookup[InlineKey(e)][i] = e

(* The inductive strengthening of TablesAgree: a handler is listed under   *)
(* its own key, every event is listed, so that the only handler of a key   *)
(* is the one that is unregistered, and the timer is in the tables while   *)
(* the thread has yet to unregister it.                                    *)
InlineInv ==
  /\ events \subseteq Handlers /\ watched \subseteq InlineKeys
  /\ lookup \in [InlineKeys -> Seq(Handlers \cup {Timeout})]
  /\ \A k \in InlineKeys \ {Timeout} : \A i \in DOMAIN lookup[k] : InlineKey(lookup[k][i]) = k
  /\ \A e \in events : Listed(e)
  /\ \/ thread \in Untimed /\ lookup[Timeout] = <<>> /\ timed = "no"
     \/ thread \in TimedCalls /\ lookup[Timeout] = <<Timeout>> /\ timed # "no"
  /\ TablesAgree

(* Input on a file with a handler is never stranded, however small the     *)
(* batch and whatever the callbacks before it in the batch unregister and  *)
(* register: there is an edge, an entry or a callback that will read it.   *)
InlineInputIsSeen ==
  \A k \in input :
    lookup[k] # <<>> => k \in reported \/ k \in batch \/ current.key = k

(* "Dispatch an event, but only wait until timeout is reached"             *)
(* (InlineQueue.h:79): the call returns.                                   *)
InlineDispatchReturns == (timed # "no") ~> (timed = "no")
=============================================================================
