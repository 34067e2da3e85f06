---------------------------- MODULE MCEventQueue ----------------------------
(***************************************************************************)
(* The event side of a client, one part to a behaviour: the shared queue   *)
(* between the session thread and the client (EventQueue), its waits with  *)
(* a timeout (TimedDispatch), the inline queue (InlineQueue), and the      *)
(* start and stop of the session thread (Session).                         *)
(***************************************************************************)
EXTENDS EventQueue, TimedDispatch, InlineQueue, Session

VARIABLE use  \* "shared", "timed", "inline" or "session"

MCFileOf == [r1 |-> "f1", r2 |-> "f1"]

mcVars == <<vars, timedVars, inlineVars, sessionVars, use>>

MCInit ==
  /\ Init /\ TimedInit /\ InlineInit /\ SessionInit
  /\ use \in {"shared", "timed", "inline", "session"}
  /\ use # "timed" => queueKind = "busy"

OnShared == use = "shared" /\ UNCHANGED <<timedVars, inlineVars, sessionVars, use>>
OnTimed == use = "timed" /\ UNCHANGED <<vars, inlineVars, sessionVars, use>>
OnInline == use = "inline" /\ UNCHANGED <<vars, timedVars, sessionVars, use>>
OnSession == use = "session" /\ UNCHANGED <<vars, timedVars, inlineVars, use>>

MCNext ==
  \/ OnShared /\ Next
  \/ OnTimed /\ TimedNext
  \/ OnInline /\ InlineNext
  \/ OnSession /\ SessionNext

\* The fairness of the four specifications, each under its own use.
MCSpec ==
  /\ MCInit /\ [][MCNext]_mcVars
  /\ WF_mcVars(OnShared /\ Session) /\ WF_mcVars(OnShared /\ Client)
  /\ WF_mcVars(OnTimed /\ \E t \in Timers : Expire(t))
  /\ WF_mcVars(OnTimed /\ Poller) /\ WF_mcVars(OnTimed /\ Caller)
  /\ WF_mcVars(OnInline /\ TimeoutExpires) /\ WF_mcVars(OnInline /\ Dispatching)
  /\ WF_mcVars(OnSession /\ User) /\ WF_mcVars(OnSession /\ Loop)
  /\ WF_mcVars(OnSession /\ traffic)

(* No thread is left with an event that was deleted, nor a queue with a    *)
(* timer that was.                                                         *)
EventsAreLive == NoUseAfterFree /\ TimeoutIsLive

(* Input on a registered descriptor is not stranded, on either kind of     *)
(* queue, though epoll reports it once (PollManager.cpp:90).               *)
InputIsSeen == NoStrandedInput /\ InlineInputIsSeen

(* A wait with a timeout returns, on each kind of queue: what is said of   *)
(* dispatch(timeout) at BlockingQueue.h:72, BusySpinQueue.h:87 and         *)
(* InlineQueue.h:79, "Dispatch an event, but only wait until timeout is    *)
(* reached".                                                               *)
WaitsAreBounded == TimedDispatchReturns /\ InlineDispatchReturns
=============================================================================
