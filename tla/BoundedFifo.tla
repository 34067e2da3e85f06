----------------------------- MODULE BoundedFifo -----------------------------
(***************************************************************************)
(* What a single producer, single consumer queue of the library promises   *)
(* to its two threads: a first-in first-out queue of at most Capacity      *)
(* elements, whose push answers FALSE exactly when the queue is full and   *)
(* whose pop answers NoObject exactly when it is empty.                    *)
(* RingBuffer is shown to implement it.                                    *)
(***************************************************************************)
EXTENDS Naturals, Sequences

CONSTANTS Values,    \* what is pushed
          Capacity,  \* how many elements fit
          NoObject   \* the answer of a pop that finds nothing

VARIABLES queue,     \* the elements, oldest first
          accepted,  \* what the last push answered
          object     \* what the last pop answered

fifoVars == <<queue, accepted, object>>

FifoInit ==
  /\ queue = <<>>
  /\ accepted = TRUE
  /\ object = NoObject

Push(v) ==
  /\ Len(queue) < Capacity
  /\ queue' = Append(queue, v)
  /\ accepted' = TRUE
  /\ UNCHANGED object

PushFull ==
  /\ Len(queue) = Capacity
  /\ accepted' = FALSE
  /\ UNCHANGED <<queue, object>>

Pop ==
  /\ queue # <<>>
  /\ object' = Head(queue)
  /\ queue' = Tail(queue)
  /\ UNCHANGED accepted

PopEmpty ==
  /\ queue = <<>>
  /\ object' = NoObject
  /\ UNCHANGED <<queue, accepted>>

FifoNext ==
  \/ \E v \in Values : Push(v)
  \/ PushFull
  \/ Pop
  \/ PopEmpty

FifoSpec == FifoInit /\ [][FifoNext]_fifoVars
=============================================================================
