--------------------------- MODULE TimedDispatch ----------------------------
(***************************************************************************)
(* dispatch(timeout) of fp::BlockingQueue and fp::BusySpinQueue            *)
(* (fastpath/event/BlockingQueue.h, BusySpinQueue.h, TimerEvent.cpp): the  *)
(* timeout is a TimerEvent of the queue itself, whose element in the ring  *)
(* ends the wait.  A BlockingQueue makes the timer when it has none, keeps *)
(* it when other work ended the wait, and lets its callback unregister it; *)
(* a BusySpinQueue has one for life and registers it for each wait.        *)
(*                                                                         *)
(* TimerEvents are numbered; a deleted one may be made again.  A timer     *)
(* fires once in every interval until it is set to zero, which disarms a   *)
(* timerfd.  As in EventQueue, unregisterEvent is taken to find the        *)
(* session thread outside the notification of the event.  What a full ring *)
(* refuses is the subject of EventQueue; here a notification finds room.   *)
(***************************************************************************)
EXTENDS Integers, Sequences

CONSTANTS Timers,        \* 1 .. n, the TimerEvents there may be at a time
          Timeouts,      \* the timeouts asked for, in milliseconds
          RingCapacity,  \* elements the ring holds, 4095
          MaxTimedCalls, MaxData

VARIABLES
  queueKind,   \* "blocking" or "busy"
  m_timeout,   \* the queue's TimerEvent, 0 when there is none
  timer,       \* of each: life, armed, expired, registered, awaiting, pendingRemoval
  ring,        \* elements: a timer, or Data
  poller,      \* the timer the session thread is notifying, or 0
  caller,      \* the client thread: the steps to go
  asked,       \* the timeout of the call
  timedCalls, data

timedVars == <<queueKind, m_timeout, timer, ring, poller, caller, asked, timedCalls, data>>

Data == 0
NoTimer == 0

Blank == [live |-> FALSE, armed |-> FALSE, expired |-> FALSE, registered |-> FALSE,
          awaiting |-> 0, pendingRemoval |-> FALSE]

TimedInit ==
  /\ queueKind \in {"blocking", "busy"}
  /\ m_timeout = IF queueKind = "busy" THEN 1 ELSE NoTimer
  /\ timer = [t \in Timers |-> IF t = m_timeout THEN [Blank EXCEPT !.live = TRUE] ELSE Blank]
  /\ ring = <<>> /\ poller = NoTimer /\ caller = <<>> /\ asked = 0
  /\ timedCalls = 0 /\ data = 0

Goes(step, next) == caller # <<>> /\ Head(caller) = step /\ caller' = next \o Tail(caller)
-----------------------------------------------------------------------------
(* The session thread, and the clock.                                      *)

Expire(t) ==
  /\ timer[t].armed /\ timer[t].registered /\ ~timer[t].expired
  /\ timer' = [timer EXCEPT ![t].expired = TRUE]
  /\ UNCHANGED <<queueKind, m_timeout, ring, poller, caller, asked, timedCalls, data>>

\* TimerEvent::__notify: count up, read the descriptor; then the element
NotifyTimer(t) ==
  /\ poller = NoTimer /\ timer[t].expired /\ timer[t].registered
  /\ Len(ring) < RingCapacity
  /\ poller' = t
  /\ timer' = [timer EXCEPT ![t].expired = FALSE, ![t].awaiting = @ + 1]
  /\ UNCHANGED <<queueKind, m_timeout, ring, caller, asked, timedCalls, data>>

EnqueueTimer ==
  /\ poller # NoTimer
  /\ poller' = NoTimer
  /\ ring' = Append(ring, poller)
  /\ UNCHANGED <<queueKind, m_timeout, timer, caller, asked, timedCalls, data>>

EnqueueData ==
  /\ poller = NoTimer /\ data < MaxData /\ Len(ring) < RingCapacity
  /\ data' = data + 1
  /\ ring' = Append(ring, Data)
  /\ UNCHANGED <<queueKind, m_timeout, timer, poller, caller, asked, timedCalls>>
-----------------------------------------------------------------------------
(* The calls.                                                              *)

dispatchTimeout ==
  /\ caller = <<>> /\ timedCalls < MaxTimedCalls
  /\ timedCalls' = timedCalls + 1
  /\ asked' \in Timeouts
  /\ caller' = <<"try">>
  /\ UNCHANGED <<queueKind, m_timeout, timer, ring, poller, data>>

dispatchAny ==
  /\ caller = <<>> /\ timedCalls < MaxTimedCalls
  /\ timedCalls' = timedCalls + 1
  /\ caller' = <<"wait">>
  /\ UNCHANGED <<queueKind, m_timeout, timer, ring, poller, asked, data>>

\* try_dispatch empties the ring; NO_EVENTS when there was nothing
Try ==
  /\ Goes("try", IF ring = <<>> THEN <<"arm", "wait", "disarm">> ELSE <<"run", "drain">>)
  /\ UNCHANGED <<queueKind, m_timeout, timer, ring, poller, asked, timedCalls, data>>

DrainRing ==
  /\ Goes("drain", IF ring = <<>> THEN <<>> ELSE <<"run", "drain">>)
  /\ UNCHANGED <<queueKind, m_timeout, timer, ring, poller, asked, timedCalls, data>>

\* setTimeout: arm again from now, or, for zero, not at all
Armed(r) == [r EXCEPT !.armed = asked > 0, !.expired = FALSE]

\* the constructor sets its timerfd going
NewTimer == Armed([Blank EXCEPT !.live = TRUE])

armBlocking ==
  /\ queueKind = "blocking"
  /\ Goes("arm", <<>>)
  /\ IF m_timeout # NoTimer
       THEN timer' = [timer EXCEPT ![m_timeout] = Armed(@)] /\ UNCHANGED m_timeout
       ELSE \E t \in {t \in Timers : ~timer[t].live} :
              /\ m_timeout' = t
              /\ timer' = [timer EXCEPT ![t] = [NewTimer EXCEPT !.registered = TRUE]]
  /\ UNCHANGED <<queueKind, ring, poller, asked, timedCalls, data>>

armBusy ==
  /\ queueKind = "busy"
  /\ Goes("arm", <<>>)
  /\ timer' = [timer EXCEPT ![m_timeout] = [Armed(@) EXCEPT !.registered = TRUE]]
  /\ UNCHANGED <<queueKind, m_timeout, ring, poller, asked, timedCalls, data>>

\* pop_wait takes one element; the spinning queue all there are
Wait ==
  /\ ring # <<>>
  /\ Goes("wait", IF queueKind = "busy" THEN <<"run", "drain">> ELSE <<"run">>)
  /\ UNCHANGED <<queueKind, m_timeout, timer, ring, poller, asked, timedCalls, data>>

\* what dispatch(timeout) does at its end
disarm ==
  /\ Goes("disarm", <<>>)
  /\ timer' = IF queueKind = "busy" THEN [timer EXCEPT ![m_timeout].registered = FALSE] ELSE timer
  /\ UNCHANGED <<queueKind, m_timeout, ring, poller, asked, timedCalls, data>>
-----------------------------------------------------------------------------
(* dispatch_event.                                                         *)

Counted(r) == [r EXCEPT !.awaiting = @ - 1]
Unregistered(r) ==
  IF r.awaiting > 0 THEN [r EXCEPT !.registered = FALSE, !.pendingRemoval = TRUE] ELSE Blank
Reaped(r) == IF r.pendingRemoval /\ r.awaiting = 0 THEN Blank ELSE r

RunData ==
  /\ ring # <<>> /\ Head(ring) = Data
  /\ Goes("run", <<>>)
  /\ ring' = Tail(ring)
  /\ UNCHANGED <<queueKind, m_timeout, timer, poller, asked, timedCalls, data>>

\* Mutant: the callback unregisters the timer and keeps the pointer.
RunTimerKeepsPointer ==
  /\ ring # <<>> /\ Head(ring) # Data
  /\ Goes("run", <<>>)
  /\ LET t == Head(ring)
         r == Counted(timer[t])
         calls == queueKind = "blocking" /\ ~r.pendingRemoval
     IN /\ calls => poller # t
        /\ timer' = [timer EXCEPT ![t] = IF calls THEN Unregistered(r) ELSE Reaped(r)]
  /\ ring' = Tail(ring)
  /\ UNCHANGED <<queueKind, m_timeout, poller, asked, timedCalls, data>>

\* The blocking queue's callback unregisters m_timeout and forgets it.
RunTimer ==
  /\ ring # <<>> /\ Head(ring) # Data
  /\ Goes("run", <<>>)
  /\ LET t == Head(ring)
         r == Counted(timer[t])
         calls == queueKind = "blocking" /\ ~r.pendingRemoval
     IN /\ calls => poller # t
        /\ timer' = [timer EXCEPT ![t] = IF calls THEN Unregistered(r) ELSE Reaped(r)]
        /\ m_timeout' = IF calls THEN NoTimer ELSE m_timeout
  /\ ring' = Tail(ring)
  /\ UNCHANGED <<queueKind, poller, asked, timedCalls, data>>
-----------------------------------------------------------------------------
Poller == (\E t \in Timers : NotifyTimer(t)) \/ EnqueueTimer
Caller ==
  Try \/ DrainRing \/ armBlocking \/ armBusy \/ Wait \/ disarm \/ RunData \/ RunTimer

TimedNext ==
  \/ \E t \in Timers : Expire(t)
  \/ Poller \/ EnqueueData
  \/ dispatchTimeout \/ dispatchAny \/ Caller

\* Time passes, and both threads go on with what they began.
TimedFairness ==
  /\ WF_timedVars(\E t \in Timers : Expire(t))
  /\ WF_timedVars(Poller) /\ WF_timedVars(Caller)

TimedSpec == TimedInit /\ [][TimedNext]_timedVars /\ TimedFairness
-----------------------------------------------------------------------------
(* m_timeout, while it is set, is a timer that is live and registered (or, *)
(* of a BusySpinQueue, kept), and an element of the ring never refers to a *)
(* deleted one, over any sequence of waits that other work cut short,      *)
(* timers that went off when nobody waited and timers that went off twice. *)
TimeoutIsLive ==
  /\ m_timeout # NoTimer =>
       /\ timer[m_timeout].live /\ ~timer[m_timeout].pendingRemoval
       /\ queueKind = "blocking" => timer[m_timeout].registered
  /\ \A i \in DOMAIN ring : ring[i] # Data => timer[ring[i]].live /\ timer[ring[i]].awaiting > 0

TimedCall == \E i \in DOMAIN caller : caller[i] \in {"try", "arm", "disarm", "drain"}

\* a timer that goes off while the ring is being emptied
Outpaces ==
  (\E t \in Timers : Expire(t)) /\ \E i \in DOMAIN caller : caller[i] \in {"run", "drain"}

(* "Dispatch an event, but only wait until timeout is reached"             *)
(* (BlockingQueue.h:72, BusySpinQueue.h:87): the call returns, whatever    *)
(* was left of earlier waits, unless a timer goes off again each time      *)
(* try_dispatch has almost emptied the ring.                               *)
TimedDispatchReturns == (TimedCall ~> (caller = <<>>)) \/ []<><<Outpaces>>_timedVars
=============================================================================
