-------------------------- MODULE MCConcurrentQueue --------------------------
(***************************************************************************)
(* A small instance of the concurrent queue for TLC.  The traffic of       *)
(* blocks (BlockPool) and that of elements (BlockingConcurrentQueue) share *)
(* no variable, so a behaviour has one or the other.                       *)
(***************************************************************************)
EXTENDS BlockingConcurrentQueue, BlockPool

CONSTANTS w1, w2, r1, r2, t1, t2, b1, b2

VARIABLE traffic   \* "blocks" or "elements", for the whole behaviour

vars == <<traffic, poolVars, blockingVars>>

\* Both writers hash to the same slot.
MCHash == [t \in {w1, w2} |-> 1]
MCPool == <<b1>>

Script(a, b, c, d) ==
  [t \in {w1, w2, r1, r2} |->
     CASE t = w1 -> a [] t = w2 -> b [] t = r1 -> c [] t = r2 -> d]
Nothing == Script(<<>>, <<>>, <<>>, <<>>)

\* Implicit producers: the table is resized twice while both threads register,
\* and an old key moves.  Explicit ones: tokens are dropped and recycled, moved,
\* and outlive the queue.  Then the other ways to dequeue: two consumers, one of
\* them in bulk, and one that finds three producers holding something.
MCScripts ==
  {Script(<<"enqueue", "enqueue">>, <<"enqueue_bulk">>, <<"dequeue">>, <<>>),
   Script(<<"make_token", "drop_token", "make_token", "token_enqueue", "drop_token">>,
          <<"make_token", "move_token", "token_enqueue", "drop_token">>,
          <<"try_dequeue", "dequeue_bulk">>, <<>>),
   Script(<<"make_token", "token_enqueue_bulk">>, <<"enqueue_bulk">>,
          <<"token_dequeue", "non_interleaved">>, <<"token_dequeue_bulk">>),
   Script(<<"enqueue", "make_token", "token_enqueue">>, <<"make_token", "token_enqueue">>,
          <<"dequeue">>, <<>>)}

Init ==
  /\ populate_initial_block_list
  /\ \/ traffic = "blocks" /\ BlockingInit(Nothing)
     \/ traffic = "elements" /\ \E s \in MCScripts : BlockingInit(s)

Next ==
  /\ UNCHANGED traffic
  /\ \/ traffic = "blocks" /\ PoolNext /\ UNCHANGED blockingVars
     \/ traffic = "elements" /\ BlockingNext /\ UNCHANGED poolVars

Spec == Init /\ [][Next]_vars /\ BlockingFairness
=============================================================================
