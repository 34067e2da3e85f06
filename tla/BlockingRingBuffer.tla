------------------------- MODULE BlockingRingBuffer -------------------------
(***************************************************************************)
(* tf::blocking_ringbuffer (fastpath/utils/blocking_ringbuffer.h): the     *)
(* ring of RingBuffer with a LightweightSemaphore                          *)
(* (fastpath/utils/semaphore_light.h) on which the consumer sleeps.  A     *)
(* BlockingQueue waits for events with pop_wait and drains them with pop,  *)
(* which takes nothing from the semaphore.                                 *)
(*                                                                         *)
(* The semaphore is a user-space count, m_count, in front of a kernel one, *)
(* m_sema.  push signals whether or not the ring took the element.         *)
(***************************************************************************)
EXTENDS RingBuffer

CONSTANT MaxPushes  \* bound on the calls of push

ASSUME MaxPushesAssumption == MaxPushes \in Nat

VARIABLES m_count, m_sema,
          signaller,  \* where the producer is in signal()
          waiter,     \* where the consumer is in pop_wait(), "none" outside it
          pushes      \* calls of push so far

semVars == <<m_count, m_sema, signaller, waiter, pushes>>
vars == <<ringVars, semVars>>

Init ==
  /\ RingInit
  /\ m_count = 0
  /\ m_sema = 0
  /\ signaller = "none"
  /\ waiter = "none"
  /\ pushes = 0
-----------------------------------------------------------------------------
(* The producer: push(v), the push of the ring followed by signal().       *)

StartPush(v) ==
  /\ signaller = "none"
  /\ pushes < MaxPushes
  /\ PushCheck(v)
  /\ pushes' = pushes + 1
  /\ UNCHANGED <<m_count, m_sema, signaller, waiter>>

PushOnFull ==
  /\ signaller = "none"
  /\ pushes < MaxPushes
  /\ PushFull
  /\ pushes' = pushes + 1
  /\ signaller' = "add"
  /\ UNCHANGED <<m_count, m_sema, waiter>>

Construct == PushConstruct /\ UNCHANGED semVars

Publish ==
  /\ PushStore
  /\ signaller' = "add"
  /\ UNCHANGED <<m_count, m_sema, waiter, pushes>>

\* Mutant: decide whether to wake from the count after the addition.
SignalAddReadsNewCount ==
  /\ signaller = "add"
  /\ m_count' = m_count + 1
  /\ signaller' = IF m_count + 1 < 0 THEN "release" ELSE "none"
  /\ UNCHANGED <<ringVars, m_sema, waiter, pushes>>

SignalAdd ==
  /\ signaller = "add"
  /\ m_count' = m_count + 1
  /\ signaller' = IF m_count < 0 THEN "release" ELSE "none"
  /\ UNCHANGED <<ringVars, m_sema, waiter, pushes>>

SignalRelease ==
  /\ signaller = "release"
  /\ m_sema' = m_sema + 1
  /\ signaller' = "none"
  /\ UNCHANGED <<ringVars, m_count, waiter, pushes>>
-----------------------------------------------------------------------------
(* The consumer: pop() from try_dispatch, pop_wait() from dispatch.        *)

StartPopWait ==
  /\ waiter = "none"
  /\ popper.pc = "idle"
  /\ waiter' = "pop"
  /\ UNCHANGED <<ringVars, m_count, m_sema, signaller, pushes>>

\* pop() answers false: try_dispatch returns, pop_wait goes to the semaphore.
FindEmpty ==
  /\ waiter \in {"none", "pop"}
  /\ PopEmpty
  /\ waiter' = IF waiter = "pop" THEN "wait" ELSE "none"
  /\ UNCHANGED <<m_count, m_sema, signaller, pushes>>

FindElement ==
  /\ waiter \in {"none", "pop"}
  /\ PopCheck
  /\ UNCHANGED semVars

MoveOut == PopMove /\ UNCHANGED semVars

Release ==
  /\ PopStore
  /\ waiter' = "none"
  /\ UNCHANGED <<m_count, m_sema, signaller, pushes>>

\* The compare-exchange of tryWait() and of the spinning loop.
TryWait ==
  /\ waiter = "wait"
  /\ m_count > 0
  /\ m_count' = m_count - 1
  /\ waiter' = "pop"
  /\ UNCHANGED <<ringVars, m_sema, signaller, pushes>>

\* Mutant: go to the kernel on a count that was there to take.
FetchSubParksAtOne ==
  /\ waiter = "wait"
  /\ m_count' = m_count - 1
  /\ waiter' = IF m_count <= 1 THEN "parked" ELSE "pop"
  /\ UNCHANGED <<ringVars, m_sema, signaller, pushes>>

\* The spins ran out; the count may have risen since the last of them.
FetchSub ==
  /\ waiter = "wait"
  /\ m_count' = m_count - 1
  /\ waiter' = IF m_count <= 0 THEN "parked" ELSE "pop"
  /\ UNCHANGED <<ringVars, m_sema, signaller, pushes>>

\* The read of the eventfd takes the whole counter, whatever it holds.
Wake ==
  /\ waiter = "parked"
  /\ m_sema > 0
  /\ m_sema' = 0
  /\ waiter' = "pop"
  /\ UNCHANGED <<ringVars, m_count, signaller, pushes>>
-----------------------------------------------------------------------------
Producer == Construct \/ Publish \/ SignalAdd \/ SignalRelease

Consumer ==
  \/ FindEmpty \/ FindElement \/ MoveOut \/ Release
  \/ TryWait \/ FetchSub \/ Wake

Next ==
  \/ \E v \in Values : StartPush(v)
  \/ PushOnFull
  \/ Producer
  \/ StartPopWait
  \/ Consumer

(* The session thread finishes a push it has begun, and the client thread  *)
(* keeps running: neither holds a lock the other could want.               *)
Fairness == WF_vars(Producer) /\ WF_vars(Consumer)

Spec == Init /\ [][Next]_vars /\ Fairness
-----------------------------------------------------------------------------
(* The semaphore's counters and the positions of the two threads.          *)
TypeOK ==
  /\ RingTypeOK
  /\ m_count \in Int
  /\ m_sema \in Nat
  /\ signaller \in {"none", "add", "release"}
  /\ waiter \in {"none", "pop", "wait", "parked"}
  /\ pushes \in 0 .. MaxPushes

(* A consumer asleep in the kernel semaphore while the ring holds an       *)
(* element is about to be woken: the wake-up is there, or the producer is  *)
(* still inside the push that brings it.  pop_wait can therefore not sleep *)
(* on an event, whether the events before it were taken by pop_wait, which *)
(* takes their signals, or by try_dispatch, which leaves them.             *)
NoLostWakeup ==
  waiter = "parked" /\ m_head # m_tail =>
    m_sema > 0 \/ signaller \in {"add", "release"}

(* A sleeper is owed exactly one wake-up: it is the debt in m_count, or    *)
(* the producer carries it, or it is in the kernel semaphore; without a    *)
(* sleeper there is none.  The kernel counter never exceeds one, so that   *)
(* the read of an eventfd, which takes the whole counter, loses nothing.   *)
WakeupAccounting ==
  (IF m_count < 0 THEN -m_count ELSE 0)
    + (IF signaller = "release" THEN 1 ELSE 0) + m_sema
  = IF waiter = "parked" THEN 1 ELSE 0

(* The inductive invariant behind the two above: a consumer that found the *)
(* ring empty and has not yet gone to sleep will find the count of         *)
(* whatever has been pushed since.                                         *)
WakeupInv ==
  /\ TypeOK
  /\ WakeupAccounting
  /\ signaller # "none" => pusher.pc = "idle"
  /\ signaller = "release" => m_count >= 0
  /\ popper.pc # "idle" => waiter \in {"none", "pop"}
  /\ waiter = "wait" /\ m_head # m_tail => m_count > 0 \/ signaller = "add"
  /\ waiter = "parked" /\ m_head # m_tail => m_count >= 0 \/ signaller = "add"

(* A pop_wait that has an element to take returns with one.                *)
PopWaitReturns ==
  (waiter # "none" /\ m_head # m_tail) ~> waiter = "none"
=============================================================================
