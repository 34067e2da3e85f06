----------------------------- MODULE EventQueue -----------------------------
(***************************************************************************)
(* The life of an event between the session thread, which polls and        *)
(* notifies, and the client thread, which owns the queue: it registers     *)
(* events, dispatches them and unregisters them (fastpath/event: Queue,    *)
(* SharedQueue, Event, DataEvent, TimerEvent, EventManager).               *)
(*                                                                         *)
(* The two threads meet in the ring (here the queue RingBuffer is proved   *)
(* to implement), in the manager's handler tables, and in the event        *)
(* itself: m_awaitingDispatch counts its elements in the ring, and an      *)
(* event unregistered while it has some is only marked m_pendingRemoval    *)
(* and deleted by the dispatch of the last.  Freed memory keeps its        *)
(* contents in the model, so that a use after the delete is visible.       *)
(***************************************************************************)
EXTENDS Integers, Sequences, FiniteSets

CONSTANTS
  DataEvents, TimerEvents, SignalEvents,
  NoEvent,
  Capacity,     \* elements the ring holds, 4095 in the code
  MaxArrivals,  \* bound: bursts of input, expiries and signals together
  UnregisterFrom,  \* where the application unregisters: "outside" a callback,
                   \* in the "callback" of another event, in its own ("self")
  Quiesces         \* whether unregisterEvent finds the session thread outside
                   \* the notification of that event, as an exclusive lock
                   \* around the erase would have it (see HandlerTable)

Events == DataEvents \cup TimerEvents \cup SignalEvents

ASSUME EventsAssumption ==
  /\ DataEvents \cap (TimerEvents \cup SignalEvents) = {}
  /\ TimerEvents \cap SignalEvents = {}
  /\ NoEvent \notin Events
  /\ UnregisterFrom \subseteq {"outside", "callback", "self"}
  /\ Quiesces \in BOOLEAN
  /\ MaxArrivals \in Nat /\ MaxArrivals + 1 < 65536  \* m_awaitingDispatch does not wrap

VARIABLES
  life,             \* "unborn", "live", "deleted"
  m_registeredEvents,
  handlers,         \* the manager's tables and its epoll set
  m_pendingRemoval,
  m_awaitingDispatch,
  m_queue, enqueued, dispatcher,  \* the ring, its last push, the popped element
  ready,            \* what epoll_wait would report
  unread,           \* descriptors with input no callback has read
  session,          \* the session thread: pc and the event in hand
  client,           \* the client thread
  target,           \* the event inside unregisterEvent, or NoEvent
  arrivals,         \* what has arrived so far
  refused           \* events that lost an element to a full ring

appVars == <<life, m_registeredEvents, m_pendingRemoval, client, target>>
ringVars == <<m_queue, enqueued, dispatcher, refused>>
worldVars == <<ready, unread, arrivals>>
vars == <<appVars, ringVars, worldVars, handlers, m_awaitingDispatch, session>>

Ring == INSTANCE BoundedFifo
          WITH Values <- Events, NoObject <- NoEvent,
               queue <- m_queue, accepted <- enqueued, object <- dispatcher

Idle == [pc |-> "wait", event |-> NoEvent]

Init ==
  /\ life = [e \in Events |-> "unborn"]
  /\ m_registeredEvents = {} /\ handlers = {} /\ m_pendingRemoval = {}
  /\ m_awaitingDispatch = [e \in Events |-> 0]
  /\ Ring!FifoInit
  /\ ready = {} /\ unread = {}
  /\ session = Idle
  /\ client = "idle" /\ target = NoEvent
  /\ arrivals = 0 /\ refused = {}

\* Mutant: the decrement forgotten.
popDispatchForgotten(e) == e \in Events /\ UNCHANGED m_awaitingDispatch

pushDispatch(e) ==
  m_awaitingDispatch' = [m_awaitingDispatch EXCEPT ![e] = (@ + 1) % 65536]
popDispatch(e) ==
  m_awaitingDispatch' = [m_awaitingDispatch EXCEPT ![e] = (@ - 1) % 65536]
-----------------------------------------------------------------------------
(* The descriptors and the timers.  Input is reported once per burst       *)
(* (EPOLLET); an expired timer until its descriptor is read.               *)

Arrive(e) ==
  /\ arrivals < MaxArrivals
  /\ e \notin DataEvents => e \in handlers
  /\ arrivals' = arrivals + 1
  /\ unread' = IF e \in DataEvents THEN unread \cup {e} ELSE unread
  /\ ready' = IF e \in handlers THEN ready \cup {e} ELSE ready
  /\ UNCHANGED <<appVars, ringVars, handlers, m_awaitingDispatch, session>>
-----------------------------------------------------------------------------
(* The session thread.                                                     *)

\* epoll_wait returns: an edge is consumed, run() reads the signal, a timer
\* stays readable until its event is notified.
Poll(e) ==
  /\ session = Idle
  /\ e \in ready
  /\ session' = [pc |-> "lookup", event |-> e]
  /\ ready' = IF e \in TimerEvents THEN ready ELSE ready \ {e}
  /\ UNCHANGED <<appVars, ringVars, unread, arrivals, handlers, m_awaitingDispatch>>

\* foreach_event_matching and foreach_timer_matching, under the shared lock.
Lookup ==
  /\ session.pc = "lookup"
  /\ session' = IF session.event \in handlers
                  THEN [session EXCEPT !.pc = "notify"] ELSE Idle
  /\ UNCHANGED <<appVars, ringVars, worldVars, handlers, m_awaitingDispatch>>

\* serviceIOEvent skips a handler that has an element in the ring.
Notify ==
  /\ session.pc = "notify"
  /\ LET e == session.event IN
     IF e \in DataEvents /\ m_awaitingDispatch[e] # 0
       THEN /\ session' = Idle
            /\ UNCHANGED <<m_awaitingDispatch, ready>>
       ELSE /\ pushDispatch(e)
            /\ session' = [session EXCEPT !.pc = "enqueue"]
            /\ ready' = ready \ (TimerEvents \cap {e})
  /\ UNCHANGED <<appVars, ringVars, unread, arrivals, handlers>>

\* The result of the push is not looked at.
Enqueue ==
  /\ session.pc = "enqueue"
  /\ \/ Ring!Push(session.event) /\ UNCHANGED refused
     \/ Ring!PushFull /\ refused' = refused \cup {session.event}
  /\ session' = Idle
  /\ UNCHANGED <<appVars, worldVars, handlers, m_awaitingDispatch>>
-----------------------------------------------------------------------------
(* The client thread: registerEvent, unregisterEvent.                      *)

registerEvent(e) ==
  /\ client = "idle" /\ target = NoEvent
  /\ life[e] = "unborn"
  /\ life' = [life EXCEPT ![e] = "live"]
  /\ m_registeredEvents' = m_registeredEvents \cup {e}
  /\ handlers' = handlers \cup {e}
  /\ ready' = IF e \in unread THEN ready \cup {e} ELSE ready
  /\ UNCHANGED <<m_pendingRemoval, client, target, ringVars, unread, arrivals,
                 m_awaitingDispatch, session>>

Site(e) ==
  IF client = "idle" THEN "outside"
  ELSE IF e = dispatcher THEN "self" ELSE "callback"

Notifying(e) == session.pc \in {"notify", "enqueue"} /\ session.event = e

\* em->unregisterHandler(event): out of epoll, then out of the table.
unregisterHandler(e) ==
  /\ client \in {"idle", "callback", "drained"} /\ target = NoEvent
  /\ e \in m_registeredEvents \ m_pendingRemoval
  /\ Site(e) \in UnregisterFrom
  /\ Quiesces => ~Notifying(e)
  /\ handlers' = handlers \ {e}
  /\ ready' = ready \ {e}
  /\ target' = e
  /\ UNCHANGED <<life, m_registeredEvents, m_pendingRemoval, client, ringVars,
                 unread, arrivals, m_awaitingDispatch, session>>

Delete(e) ==
  /\ m_registeredEvents' = m_registeredEvents \ {e}
  /\ life' = [life EXCEPT ![e] = "deleted"]

\* Mutant: delete whatever the ring holds.
finishUnregisterAlwaysDeletes ==
  /\ target # NoEvent
  /\ Delete(target) /\ UNCHANGED m_pendingRemoval
  /\ target' = NoEvent
  /\ UNCHANGED <<client, ringVars, worldVars, handlers, m_awaitingDispatch, session>>

\* Mutant: leave an event that awaits dispatch to its callback.
finishUnregisterNotMarked ==
  /\ target # NoEvent
  /\ IF m_awaitingDispatch[target] # 0
       THEN UNCHANGED <<life, m_registeredEvents, m_pendingRemoval>>
       ELSE Delete(target) /\ UNCHANGED m_pendingRemoval
  /\ target' = NoEvent
  /\ UNCHANGED <<client, ringVars, worldVars, handlers, m_awaitingDispatch, session>>

finishUnregister ==
  /\ target # NoEvent
  /\ IF m_awaitingDispatch[target] # 0
       THEN /\ m_pendingRemoval' = m_pendingRemoval \cup {target}
            /\ UNCHANGED <<life, m_registeredEvents>>
       ELSE Delete(target) /\ UNCHANGED m_pendingRemoval
  /\ target' = NoEvent
  /\ UNCHANGED <<client, ringVars, worldVars, handlers, m_awaitingDispatch, session>>
-----------------------------------------------------------------------------
(* The client thread: dispatch and try_dispatch, one element at a time.    *)

Pop ==
  /\ client = "idle" /\ target = NoEvent
  /\ Ring!Pop
  /\ client' = "dispatch"
  /\ UNCHANGED <<refused, life, m_registeredEvents, m_pendingRemoval, target, worldVars,
                 handlers, m_awaitingDispatch, session>>

\* Mutant: call back without asking m_pendingRemoval.
DispatchUnconditionally ==
  /\ client = "dispatch"
  /\ popDispatch(dispatcher)
  /\ client' = "callback"
  /\ UNCHANGED <<life, m_registeredEvents, m_pendingRemoval, target, ringVars,
                 worldVars, handlers, session>>

\* dispatcher.function(): popDispatch, then the callback if it is not barred.
Dispatch ==
  /\ client = "dispatch"
  /\ popDispatch(dispatcher)
  /\ client' = IF dispatcher \in m_pendingRemoval THEN "reap" ELSE "callback"
  /\ UNCHANGED <<life, m_registeredEvents, m_pendingRemoval, target, ringVars,
                 worldVars, handlers, session>>

\* A data callback reads its descriptor until there is no more to read.
Drain ==
  /\ client = "callback" /\ target = NoEvent
  /\ dispatcher \in DataEvents
  /\ unread' = unread \ {dispatcher}
  /\ client' = "drained"
  /\ UNCHANGED <<life, m_registeredEvents, m_pendingRemoval, target, ringVars,
                 ready, arrivals, handlers, m_awaitingDispatch, session>>

Return ==
  /\ target = NoEvent
  /\ \/ client = "drained"
     \/ client = "callback" /\ dispatcher \notin DataEvents
  /\ client' = "reap"
  /\ UNCHANGED <<life, m_registeredEvents, m_pendingRemoval, target, ringVars,
                 worldVars, handlers, m_awaitingDispatch, session>>

\* dispatch_event after the function: delete what was waiting for it.
Reap ==
  /\ client = "reap"
  /\ IF dispatcher \in m_pendingRemoval /\ m_awaitingDispatch[dispatcher] = 0
       THEN Delete(dispatcher)
       ELSE UNCHANGED <<life, m_registeredEvents>>
  /\ dispatcher' = NoEvent
  /\ client' = "idle"
  /\ UNCHANGED <<m_pendingRemoval, target, m_queue, enqueued, refused, worldVars,
                 handlers, m_awaitingDispatch, session>>
-----------------------------------------------------------------------------
Session == (\E e \in Events : Poll(e)) \/ Lookup \/ Notify \/ Enqueue

Client == finishUnregister \/ Pop \/ Dispatch \/ Drain \/ Return \/ Reap

Next ==
  \/ \E e \in Events : Arrive(e)
  \/ Session
  \/ Client
  \/ \E e \in Events : registerEvent(e) \/ unregisterHandler(e)

(* The session thread loops over waitForEvent, and the client thread keeps *)
(* dispatching; nothing obliges the application to register or unregister. *)
Spec == Init /\ [][Next]_vars /\ WF_vars(Session) /\ WF_vars(Client)
-----------------------------------------------------------------------------
InRing(e) == \E i \in DOMAIN m_queue : m_queue[i] = e
InHand(e) == client \in {"dispatch", "callback", "drained", "reap"} /\ dispatcher = e

(* No thread touches an event after its delete: neither the session thread *)
(* that found it in the tables, nor an element of the ring, nor the client *)
(* thread that runs it and then asks whether to delete it.                 *)
NoUseAfterFree ==
  \A e \in Events :
    Notifying(e) \/ InRing(e) \/ InHand(e)
      => life[e] = "live"

Stranded(e) ==
  /\ e \in unread \cap handlers
  /\ e \notin ready
  /\ session.event # e
  /\ ~InRing(e)
  /\ ~(client \in {"dispatch", "callback"} /\ dispatcher = e)

(* Input on a registered descriptor is never stranded: until a callback    *)
(* reads it there is an edge to report, a notification under way, an       *)
(* element in the ring or a dispatch that has not read yet.  The edge that *)
(* serviceIOEvent drops because the event awaits dispatch is one of these, *)
(* because dispatch counts down before it calls back.  The one exception   *)
(* is an event whose element a full ring refused.                          *)
NoStrandedInput == \A e \in Events \ refused : ~Stranded(e)

(* Once an event is unregistered no callback of it begins, whatever the    *)
(* ring still holds: "This will block any further callback to client       *)
(* code, which may still exist in the queue" (Queue.cpp:103).              *)
SilentAfterUnregister ==
  [][client = "dispatch" /\ client' = "callback" => dispatcher \in handlers]_vars

(* The inductive invariant behind both.  An event is in the table, being   *)
(* unregistered, or marked; its elements in the ring and on their way into *)
(* or out of it are counted in m_awaitingDispatch, which never exceeds     *)
(* what has arrived.                                                       *)
EventsTypeOK ==
  /\ life \in [Events -> {"unborn", "live", "deleted"}]
  /\ m_registeredEvents \subseteq Events /\ handlers \subseteq Events
  /\ m_pendingRemoval \subseteq Events /\ ready \subseteq Events
  /\ m_awaitingDispatch \in [Events -> Nat]
  /\ m_queue \in Seq(Events)
  /\ session \in [pc : {"wait", "lookup", "notify", "enqueue"}, event : Events \cup {NoEvent}]
  /\ session.pc # "wait" => session.event \in Events
  /\ client \in {"idle", "dispatch", "callback", "drained", "reap"}
  /\ client # "idle" => dispatcher \in Events
  /\ target \in Events \cup {NoEvent}
  /\ arrivals \in 0 .. MaxArrivals

One(b) == IF b THEN 1 ELSE 0
Places(q, e) == {i \in 1 .. Len(q) : q[i] = e}
Elements(e) ==
  Cardinality(Places(m_queue, e)) + One(client = "dispatch" /\ dispatcher = e)
    + One(session.pc = "enqueue" /\ session.event = e)

\* A timer stays ready while it is looked up.
Coming(e) ==
  One(e \in ready)
    + One(/\ session.pc \in {"lookup", "notify"} /\ session.event = e
          /\ ~(e \in TimerEvents /\ e \in ready))

EventInv(e) ==
  /\ life[e] = "live" <=> e \in m_registeredEvents
  /\ e \in handlers => life[e] = "live" /\ e \notin m_pendingRemoval /\ e # target
  /\ life[e] = "live" => e \in handlers \/ e = target \/ e \in m_pendingRemoval
  /\ e = target => e \in m_registeredEvents /\ e \notin m_pendingRemoval
  /\ e \in m_pendingRemoval => life[e] # "unborn"
  /\ Notifying(e) => e \in handlers
  /\ InRing(e) \/ InHand(e) => life[e] = "live"
  /\ Elements(e) <= m_awaitingDispatch[e]
  /\ m_awaitingDispatch[e] + Coming(e) <= arrivals + One(life[e] # "unborn")

\* What the code means to ensure (see HandlerTable), and asks of callbacks.
Careful == Quiesces /\ "self" \notin UnregisterFrom

EventsInv ==
  /\ EventsTypeOK
  /\ target # NoEvent => /\ client \in {"idle", "callback", "drained"}
                         /\ client # "idle" => target # dispatcher
  /\ \A e \in Events : EventInv(e)

(* An unregistered event is eventually deleted, also when it was           *)
(* unregistered with elements in the ring, unless a full ring refused one. *)
UnregisteredIsDeleted ==
  \A e \in Events :
    (life[e] = "live" /\ e \notin handlers) ~> (life[e] = "deleted" \/ e \in refused)
=============================================================================
