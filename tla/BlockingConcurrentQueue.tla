----------------------- MODULE BlockingConcurrentQueue -----------------------
(***************************************************************************)
(* moodycamel::BlockingConcurrentQueue                                     *)
(* (fastpath/utils/blockingconcurrentqueue.h): a ConcurrentQueue and a     *)
(* LightweightSemaphore that counts its elements.  A consumer first gets a *)
(* permit for each element it is going to take and then searches the inner *)
(* queue until it has them; nothing in the inner queue blocks.             *)
(*                                                                         *)
(* The semaphore's m_count is one atomic word; a loop around an exchange   *)
(* of it is one step.  m_sema is the kernel's semaphore (external).  The   *)
(* spinning before the thread sleeps ends at an arbitrary moment.          *)
(***************************************************************************)
EXTENDS ConcurrentQueue

VARIABLES m_count, m_sema

blockingVars == <<queueVars, m_count, m_sema>>

\* The constructor: an empty queue and a semaphore with no permits.
BlockingInit(s) == QueueInit(s) /\ m_count = 0 /\ m_sema = 0

\* The permits one exchange of m_count takes.
tryWaitMany(max) == Max({0, Min({m_count, max})})
Permits(t, n, pc) == r' = [r EXCEPT ![t] = [@ EXCEPT !.want = @ + n, !.pc = pc]]
-----------------------------------------------------------------------------
\* Mutant: the waiters are woken by the number of elements, not by their own.
SignalAll(t) ==
  /\ w[t].pc = "signal"
  /\ m_count' = m_count + Count(t)
  /\ IF m_count < 0 THEN w' = [w EXCEPT ![t].pc = "post", ![t].post = Count(t)] /\ UNCHANGED script
     ELSE Returns(t)
  /\ UNCHANGED <<hashVars, prodVars, rotation, alive, token, ctoken, r, m_sema>>

\* LightweightSemaphore::signal(count): as many as wait are woken.
signal(t) ==
  /\ w[t].pc = "signal"
  /\ m_count' = m_count + Count(t)
  /\ LET toRelease == Min({-m_count, Count(t)}) IN
     IF toRelease > 0
       THEN w' = [w EXCEPT ![t].pc = "post", ![t].post = toRelease] /\ UNCHANGED script
       ELSE Returns(t)
  /\ UNCHANGED <<hashVars, prodVars, rotation, alive, token, ctoken, r, m_sema>>

\* Semaphore::signal(count): sem_post, count times.
Post(t) ==
  /\ w[t].pc = "post"
  /\ m_sema' = m_sema + 1
  /\ IF w[t].post > 1 THEN w' = [w EXCEPT ![t].post = @ - 1] /\ UNCHANGED script ELSE Returns(t)
  /\ UNCHANGED <<hashVars, prodVars, rotation, alive, token, ctoken, r, m_count>>

\* tryWait and tryWaitMany: what is there, or go on to wait; try_dequeue and
\* try_dequeue_bulk return instead.
tryWait(t) ==
  /\ r[t].pc = "call" /\ Call(t) # "none"
  /\ LET n == tryWaitMany(Count(t)) IN
     /\ m_count' = m_count - n
     /\ IF n = 0 /\ Call(t) = "try_dequeue"
          THEN script' = [script EXCEPT ![t] = Tail(@)] /\ UNCHANGED r
          ELSE Permits(t, n, IF n > 0 THEN "inner" ELSE "spin") /\ UNCHANGED script
  /\ UNCHANGED <<hashVars, prodVars, rotation, alive, token, ctoken, w, m_sema>>

\* waitWithPartialSpinning: permits turn up while the thread spins ...
SpinFinds(t) ==
  /\ r[t].pc = "spin" /\ m_count > 0
  /\ LET n == tryWaitMany(Count(t)) IN
     m_count' = m_count - n /\ Permits(t, n, "inner")
  /\ UNCHANGED <<script, hashVars, prodVars, rotation, alive, token, ctoken, w, m_sema>>

\* ... or it stops spinning, and sleeps unless there is a permit after all.
SpinEnds(t) ==
  /\ r[t].pc = "spin"
  /\ m_count' = m_count - 1
  /\ Permits(t, IF m_count > 0 THEN 1 ELSE 0, IF m_count > 0 THEN "more" ELSE "sleep")
  /\ UNCHANGED <<script, hashVars, prodVars, rotation, alive, token, ctoken, w, m_sema>>

\* Semaphore::wait: sem_wait, again if a signal interrupted it.
Wakes(t) ==
  /\ r[t].pc = "sleep" /\ m_sema > 0
  /\ m_sema' = m_sema - 1
  /\ Permits(t, 1, "more")
  /\ UNCHANGED <<script, hashVars, prodVars, rotation, alive, token, ctoken, w, m_count>>

\* waitManyWithPartialSpinning: one permit, and the others that are there.
WaitMore(t) ==
  /\ r[t].pc = "more"
  /\ LET n == tryWaitMany(Count(t) - 1) IN
     m_count' = m_count - n /\ Permits(t, n, "inner")
  /\ UNCHANGED <<script, hashVars, prodVars, rotation, alive, token, ctoken, w, m_sema>>

waitWithPartialSpinning(t) == SpinFinds(t) \/ SpinEnds(t) \/ Wakes(t) \/ WaitMore(t)

\* The call has as many elements as it had permits for.
WaitReturns(t) ==
  /\ r[t].pc = "inner" /\ r[t].have = r[t].want
  /\ script' = [script EXCEPT ![t] = Tail(@)]
  /\ r' = [r EXCEPT ![t] = R0]
  /\ UNCHANGED <<hashVars, prodVars, rotation, alive, token, ctoken, w, m_count, m_sema>>

\* enqueue and its kin: the inner call and, if it succeeded, the signal.
Writer(t) ==
  \/ enqueue(t) /\ UNCHANGED <<m_count, m_sema>>
  \/ signal(t) \/ Post(t)

\* wait_dequeue and its kin: permits, then the inner queue until it has them.
Reader(t) ==
  \/ dequeue(t) /\ UNCHANGED <<m_count, m_sema>>
  \/ tryWait(t) \/ waitWithPartialSpinning(t) \/ WaitReturns(t)

BlockingNext ==
  \/ \E t \in Writers : Writer(t)
  \/ \E t \in Readers : Reader(t)
  \/ Destroy /\ UNCHANGED <<m_count, m_sema>>

BlockingFairness ==
  /\ \A t \in Writers : WF_blockingVars(Writer(t))
  /\ \A t \in Readers : WF_blockingVars(Reader(t))
-----------------------------------------------------------------------------
Sum(f, S) == MapThenSumSet(LAMBDA x : f[x], S)
Asleep == {t \in Readers : r[t].pc = "sleep"}
Elements == Sum([p \in DOMAIN prod |-> prod[p].enqueued - prod[p].taken], DOMAIN prod)
Unsignalled == Sum([t \in Writers |-> IF w[t].pc = "signal" THEN Count(t) ELSE 0], Writers)
InHand == Sum([t \in Readers |-> r[t].want - r[t].have], Readers)
Unposted == Sum([t \in Writers |-> w[t].post], Writers)

(***************************************************************************)
(* The semaphore tells the truth.  Its count is what the inner queue holds *)
(* less the elements not signalled yet, those consumers have permits for   *)
(* and one for every sleeper; and the sleepers no wake-up is under way for *)
(* are as many as the count is below zero.  So a consumer with a permit    *)
(* always finds an element in the end, and no consumer sleeps beside one.  *)
(***************************************************************************)
PermitsAreAccounted ==
  /\ m_count = Elements - Unsignalled - InHand - Cardinality(Asleep)
  /\ Cardinality(Asleep) - m_sema - Unposted = Max({0, -m_count})

(***************************************************************************)
(* A consumer that has a permit returns with its elements: the loops       *)
(* "while (!inner.try_dequeue(item)) continue" end, although the search    *)
(* can miss an element that is there (it stops at the third non-empty      *)
(* producer, rotates, fails on a claim of another consumer).               *)
(***************************************************************************)
PermitIsHonoured ==
  \A t \in Readers : r[t].pc # "call" /\ r[t].pc # "spin" /\ r[t].pc # "sleep" ~> r[t].pc = "call"
=============================================================================
