------------------------------ MODULE Session ------------------------------
(***************************************************************************)
(* fp::Session (fastpath/event/Session.cpp): initialise() creates the      *)
(* event manager and the thread that loops over waitForEvent(); destroy()  *)
(* asks that thread to stop, wakes it if it sleeps and joins it.           *)
(*                                                                         *)
(* The user thread and the loop thread share m_shutdown, m_eventManager    *)
(* and, inside the manager, m_in_event_wait and the notifier, an eventfd   *)
(* that epoll watches edge-triggered.  Each access to one of them is a     *)
(* step of its own.                                                        *)
(***************************************************************************)
EXTENDS Naturals

CONSTANT MaxStarts  \* bound on the calls of initialise() that start a loop

ASSUME MaxStartsAssumption == MaxStarts \in Nat

VARIABLES m_started, m_shutdown,
          m_eventManager,   \* "null" or "live"
          m_in_event_wait,
          edge,    \* the notifier was written and epoll has not reported it
          user,    \* where the user thread is in start() or stop()
          loop,    \* where the loop thread is
          starts

sessionVars == <<m_started, m_shutdown, m_eventManager, m_in_event_wait, edge,
          user, loop, starts>>

SessionInit ==
  /\ m_started = FALSE /\ m_shutdown = FALSE
  /\ m_eventManager = "null" /\ m_in_event_wait = FALSE /\ edge = FALSE
  /\ user = "idle" /\ loop = "none"
  /\ starts = 0
-----------------------------------------------------------------------------
(* The user thread: start().  The mutex is held until condition.wait, so   *)
(* the loop's notification cannot come before it.                          *)

start ==
  /\ user = "idle" /\ ~m_started
  /\ starts < MaxStarts
  /\ m_eventManager' = "live" /\ m_in_event_wait' = FALSE /\ edge' = FALSE
  /\ loop' = "spawned"
  /\ user' = "starting"
  /\ starts' = starts + 1
  /\ UNCHANGED <<m_started, m_shutdown>>

started ==
  /\ user = "woken"
  /\ m_started' = TRUE
  /\ user' = "idle"
  /\ UNCHANGED <<m_shutdown, m_eventManager, m_in_event_wait, edge, loop, starts>>
-----------------------------------------------------------------------------
(* The user thread: stop().                                                *)

\* Mutant: wake the loop without asking it to stop.
stopForgetsRequest ==
  /\ user = "idle" /\ m_started
  /\ user' = "notify"
  /\ UNCHANGED <<m_started, m_shutdown, m_eventManager, m_in_event_wait, edge,
                 loop, starts>>

stop ==
  /\ user = "idle" /\ m_started
  /\ m_shutdown' = TRUE
  /\ user' = "notify"
  /\ UNCHANGED <<m_started, m_eventManager, m_in_event_wait, edge, loop, starts>>

\* m_eventManager->notify(): the manager may be gone by now.
notify ==
  /\ user = "notify"
  /\ user' = IF m_eventManager = "null" THEN "crashed"
             ELSE IF m_in_event_wait THEN "write" ELSE "join"
  /\ UNCHANGED <<m_started, m_shutdown, m_eventManager, m_in_event_wait, edge,
                 loop, starts>>

\* The write to the notifier; into freed memory it may do anything.
write ==
  /\ user = "write"
  /\ IF m_eventManager = "live"
       THEN edge' = TRUE /\ user' = "join"
       ELSE UNCHANGED edge /\ user' \in {"join", "crashed"}
  /\ UNCHANGED <<m_started, m_shutdown, m_eventManager, m_in_event_wait, loop, starts>>

join ==
  /\ user = "join"
  /\ loop = "done"
  /\ m_started' = FALSE
  /\ user' = "idle" /\ loop' = "none"
  /\ UNCHANGED <<m_shutdown, m_eventManager, m_in_event_wait, edge, starts>>
-----------------------------------------------------------------------------
(* The loop thread.                                                        *)

announce ==
  /\ loop = "spawned"
  /\ user' = "woken"
  /\ loop' = "test"
  /\ UNCHANGED <<m_started, m_shutdown, m_eventManager, m_in_event_wait, edge, starts>>

test ==
  /\ loop = "test"
  /\ loop' = IF m_shutdown THEN "exit" ELSE "enter"
  /\ UNCHANGED <<m_started, m_shutdown, m_eventManager, m_in_event_wait, edge,
                 user, starts>>

enter ==
  /\ loop = "enter"
  /\ m_in_event_wait' = TRUE
  /\ loop' = "poll"
  /\ UNCHANGED <<m_started, m_shutdown, m_eventManager, edge, user, starts>>

woken ==
  /\ loop = "poll"
  /\ edge
  /\ edge' = FALSE
  /\ loop' = "leave"
  /\ UNCHANGED <<m_started, m_shutdown, m_eventManager, m_in_event_wait, user, starts>>

\* Some other descriptor, timer or signal becomes ready.
traffic ==
  /\ loop = "poll"
  /\ loop' = "leave"
  /\ UNCHANGED <<m_started, m_shutdown, m_eventManager, m_in_event_wait, edge,
                 user, starts>>

leave ==
  /\ loop = "leave"
  /\ m_in_event_wait' = FALSE
  /\ loop' = "test"
  /\ UNCHANGED <<m_started, m_shutdown, m_eventManager, edge, user, starts>>

\* Mutant: leave the request to stop set for the next session.
exitKeepsRequest ==
  /\ loop = "exit"
  /\ loop' = "reset"
  /\ UNCHANGED <<m_started, m_shutdown, m_eventManager, m_in_event_wait, edge,
                 user, starts>>

exit ==
  /\ loop = "exit"
  /\ m_shutdown' = FALSE
  /\ loop' = "reset"
  /\ UNCHANGED <<m_started, m_eventManager, m_in_event_wait, edge, user, starts>>

reset ==
  /\ loop = "reset"
  /\ m_eventManager' = "null"
  /\ loop' = "done"
  /\ UNCHANGED <<m_started, m_shutdown, m_in_event_wait, edge, user, starts>>
-----------------------------------------------------------------------------
User == started \/ notify \/ write \/ join
Loop == announce \/ test \/ enter \/ woken \/ leave \/ exit \/ reset

SessionNext == start \/ stop \/ User \/ Loop \/ traffic

(* A thread inside start(), stop() or the loop goes on whenever it can;    *)
(* nothing obliges the application to start or stop, nor traffic to come.  *)
SessionSpec == SessionInit /\ [][SessionNext]_sessionVars /\ WF_sessionVars(User) /\ WF_sessionVars(Loop)

(* A session that always has something to wake up for, such as a periodic  *)
(* timer event.                                                            *)
BusySpec == SessionSpec /\ WF_sessionVars(traffic)
-----------------------------------------------------------------------------
(* Between sessions nothing of the last one is left: its thread is gone,   *)
(* its manager freed and its request to stop withdrawn, so that the next   *)
(* initialise() starts from scratch; during a session, outside start() and *)
(* stop(), the loop serves with no request to stop pending; and at no time *)
(* does the loop run on a manager that has been freed.                     *)
SessionsSeparate ==
  /\ user = "idle" =>
       IF m_started
         THEN loop \in {"test", "enter", "poll", "leave"} /\ ~m_shutdown
         ELSE loop = "none" /\ ~m_shutdown
  /\ loop \in {"spawned", "test", "enter", "poll", "leave", "exit", "reset"}
       <=> m_eventManager = "live"

(* The inductive invariant behind it: where one thread is bounds where the *)
(* other can be, and who has seen the request to stop.                     *)
SessionTypeOK ==
  /\ m_started \in BOOLEAN /\ m_shutdown \in BOOLEAN /\ m_in_event_wait \in BOOLEAN
  /\ edge \in BOOLEAN
  /\ m_eventManager \in {"null", "live"}
  /\ user \in {"idle", "starting", "woken", "notify", "write", "join", "crashed"}
  /\ loop \in {"none", "spawned", "test", "enter", "poll", "leave", "exit", "reset", "done"}

Serving == {"test", "enter", "poll", "leave"}
Running == Serving \cup {"spawned", "exit", "reset"}
Stopping == {"notify", "write", "join", "crashed"}

SessionInv ==
  /\ SessionTypeOK
  /\ m_eventManager = "live" <=> loop \in Running
  /\ loop = "spawned" <=> user = "starting"
  /\ m_shutdown <=> user \in Stopping /\ loop \in Serving \cup {"exit"}
  /\ m_started <=> user \in Stopping \/ (user = "idle" /\ loop # "none")
  /\ user = "idle" => loop \in Serving \cup {"none"}
  /\ user = "woken" => loop \in Serving
  /\ user \in Stopping => loop \in Serving \cup {"exit", "reset", "done"}

(* stop() comes to an end: "Did it happen in a timley manner?" (the        *)
(* Shutdown test, tests/SessionTests.cpp:47).  A session with traffic      *)
(* keeps this; one whose loop tested m_shutdown just before stop() set it  *)
(* and went to sleep just after notify() looked does not.                  *)
StopReturns == user \in {"notify", "write", "join"} ~> user \in {"idle", "crashed"}
=============================================================================
