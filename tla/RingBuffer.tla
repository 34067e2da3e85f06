----------------------------- MODULE RingBuffer -----------------------------
(***************************************************************************)
(* tf::ringbuffer (fastpath/utils/tfringbuffer.h): the lock-free ring that *)
(* carries queue elements from the session thread, its only producer, to   *)
(* the thread that dispatches a queue, its only consumer.                  *)
(*                                                                         *)
(* Each of push and pop is three atomic steps: the load of the other       *)
(* side's index, the access to the slot, the store of its own index.  A    *)
(* slot holds Raw when no object is constructed in it, so constructing     *)
(* over a live object, or moving from a slot that holds none, is a state   *)
(* the properties can see.                                                 *)
(***************************************************************************)
EXTENDS Integers, Sequences

CONSTANTS Size,    \* the template parameter SIZE
          Values,  \* the objects pushed
          Raw      \* a slot, or a local, that holds no object

ASSUME SizeAssumption == Size \in Nat /\ Size > 1
ASSUME RawAssumption == Raw \notin Values

VARIABLES m_head, m_tail, m_buffer,
          pusher,    \* where the producer is in push, and its argument
          popper,    \* where the consumer is in pop, and the object moved out
          accepted,  \* what the last push returned
          object     \* what the last pop returned, Raw for false

ringVars == <<m_head, m_tail, m_buffer, pusher, popper, accepted, object>>

Index == 0 .. Size - 1

next(current) == (current + 1) % Size

\* The number of elements between two index values, as size() computes it.
size(head, tail) == IF head >= tail THEN head - tail ELSE head + Size - tail

RingInit ==
  /\ m_head = 0
  /\ m_tail = 0
  /\ m_buffer = [i \in Index |-> Raw]
  /\ pusher = [pc |-> "idle", value |-> Raw]
  /\ popper = [pc |-> "idle", value |-> Raw]
  /\ accepted = TRUE
  /\ object = Raw
-----------------------------------------------------------------------------
(* The producer: push(v).                                                  *)

PushFull ==
  /\ pusher.pc = "idle"
  /\ next(m_head) = m_tail
  /\ accepted' = FALSE
  /\ UNCHANGED <<m_head, m_tail, m_buffer, pusher, popper, object>>

\* Mutant: push without looking at the tail.
PushCheckIgnoresTail(v) ==
  /\ pusher.pc = "idle"
  /\ pusher' = [pc |-> "construct", value |-> v]
  /\ UNCHANGED <<m_head, m_tail, m_buffer, popper, accepted, object>>

PushCheck(v) ==
  /\ pusher.pc = "idle"
  /\ next(m_head) # m_tail
  /\ pusher' = [pc |-> "construct", value |-> v]
  /\ UNCHANGED <<m_head, m_tail, m_buffer, popper, accepted, object>>

PushConstruct ==
  /\ pusher.pc = "construct"
  /\ m_buffer' = [m_buffer EXCEPT ![m_head] = pusher.value]
  /\ pusher' = [pusher EXCEPT !.pc = "store"]
  /\ UNCHANGED <<m_head, m_tail, popper, accepted, object>>

PushStore ==
  /\ pusher.pc = "store"
  /\ m_head' = next(m_head)
  /\ pusher' = [pc |-> "idle", value |-> Raw]
  /\ accepted' = TRUE
  /\ UNCHANGED <<m_tail, m_buffer, popper, object>>
-----------------------------------------------------------------------------
(* The consumer: pop(object).                                              *)

\* Mutant: take a ring with one element for an empty one.
PopEmptyOffByOne ==
  /\ popper.pc = "idle"
  /\ m_tail = m_head \/ next(m_tail) = m_head
  /\ object' = Raw
  /\ UNCHANGED <<m_head, m_tail, m_buffer, pusher, popper, accepted>>

PopEmpty ==
  /\ popper.pc = "idle"
  /\ m_tail = m_head
  /\ object' = Raw
  /\ UNCHANGED <<m_head, m_tail, m_buffer, pusher, popper, accepted>>

PopCheck ==
  /\ popper.pc = "idle"
  /\ m_tail # m_head
  /\ popper' = [popper EXCEPT !.pc = "move"]
  /\ UNCHANGED <<m_head, m_tail, m_buffer, pusher, accepted, object>>

\* The move out of the slot and the destructor call on what it leaves.
PopMove ==
  /\ popper.pc = "move"
  /\ popper' = [pc |-> "store", value |-> m_buffer[m_tail]]
  /\ m_buffer' = [m_buffer EXCEPT ![m_tail] = Raw]
  /\ UNCHANGED <<m_head, m_tail, pusher, accepted, object>>

PopStore ==
  /\ popper.pc = "store"
  /\ m_tail' = next(m_tail)
  /\ object' = popper.value
  /\ popper' = [pc |-> "idle", value |-> Raw]
  /\ UNCHANGED <<m_head, m_buffer, pusher, accepted>>
-----------------------------------------------------------------------------
RingNext ==
  \/ \E v \in Values : PushCheck(v)
  \/ PushFull \/ PushConstruct \/ PushStore
  \/ PopEmpty \/ PopCheck \/ PopMove \/ PopStore

RingSpec == RingInit /\ [][RingNext]_ringVars
-----------------------------------------------------------------------------
(* The slots the indices claim to hold elements.                           *)
Occupied(i) ==
  IF m_tail <= m_head THEN m_tail <= i /\ i < m_head
                      ELSE m_tail <= i \/ i < m_head

(* The indices, the slots and the locals of push and pop stay in range.    *)
RingTypeOK ==
  /\ m_head \in Index
  /\ m_tail \in Index
  /\ m_buffer \in [Index -> Values \cup {Raw}]
  /\ pusher \in [pc : {"idle", "construct", "store"}, value : Values \cup {Raw}]
  /\ popper \in [pc : {"idle", "move", "store"}, value : Values \cup {Raw}]
  /\ accepted \in BOOLEAN
  /\ object \in Values \cup {Raw}

(* push never constructs over a live object and pop never moves from a     *)
(* slot without one, wherever the other thread is: what the acquire loads  *)
(* of the other side's index (lines 68 and 91) are there for.              *)
SlotDiscipline ==
  /\ pusher.pc = "construct" => m_buffer[m_head] = Raw
  /\ popper.pc = "move" => m_buffer[m_tail] # Raw

(* Exactly the occupied slots hold an object, but for the one the producer *)
(* has filled and not published and the one the consumer has emptied and   *)
(* not released: no element is lost, leaked or destroyed twice when the    *)
(* indices wrap.                                                           *)
LiveSlots ==
  \A i \in Index :
    (m_buffer[i] # Raw) <=>
      \/ Occupied(i) /\ ~(popper.pc = "store" /\ i = m_tail)
      \/ pusher.pc = "store" /\ i = m_head

(* The inductive invariant behind the three above: a push that has passed  *)
(* its check still has room and a pop that has passed its check still has  *)
(* an element, because the other thread only ever moves its index away.    *)
RingInv ==
  /\ RingTypeOK
  /\ LiveSlots
  /\ pusher.pc # "idle" => next(m_head) # m_tail /\ pusher.value \in Values
  /\ pusher.pc = "store" => m_buffer[m_head] = pusher.value
  /\ popper.pc # "idle" => m_tail # m_head
  /\ popper.pc = "store" => popper.value \in Values

(* The queue the ring represents: what an external observer of push and    *)
(* pop may assume to be waiting.  The element being popped counts until    *)
(* its slot is released.                                                   *)
Contents ==
  [i \in 1 .. size(m_head, m_tail) |->
     IF i = 1 /\ popper.pc = "store" THEN popper.value
     ELSE m_buffer[(m_tail + i - 1) % Size]]

Fifo == INSTANCE BoundedFifo
          WITH queue <- Contents, Capacity <- Size - 1, NoObject <- Raw

(* Push and pop, interleaved step by step, are the operations of a bounded *)
(* first-in first-out queue of SIZE - 1 elements.                          *)
ImplementsFifo == Fifo!FifoSpec
=============================================================================
