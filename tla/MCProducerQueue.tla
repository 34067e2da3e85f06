--------------------------- MODULE MCProducerQueue ---------------------------
(***************************************************************************)
(* The producers checked: every kind whose failed constructions leave the  *)
(* queue intact.                                                           *)
(***************************************************************************)
EXTENDS ProducerQueue, TLC

Symmetry == Permutations(PoolBlocks) \union Permutations(Blocks \ PoolBlocks)
              \union Permutations(Consumers)

\* A bulk enqueue of two by the explicit producer needs at most one new block.
MCKinds == {[explicit |-> TRUE, nothrow |-> TRUE, bulk |-> {2}, max |-> 2, total |-> 5],
            [explicit |-> TRUE, nothrow |-> FALSE, bulk |-> {2}, max |-> 1, total |-> 3],
            [explicit |-> FALSE, nothrow |-> TRUE, bulk |-> {2}, max |-> 1, total |-> 5],
            [explicit |-> FALSE, nothrow |-> FALSE, bulk |-> {3}, max |-> 2, total |-> 4]}

\* One of three, from the start of a block, needs two: failing between them it
\* leaves the first in the ring with its index slot not counted (README).
MCKindsBulk == {[explicit |-> TRUE, nothrow |-> TRUE, bulk |-> {3}, max |-> 2, total |-> 5]}
=============================================================================
