------------------------------ MODULE SubQueue ------------------------------
(***************************************************************************)
(* One sub-queue of moodycamel::ConcurrentQueue                            *)
(* (fastpath/utils/concurrentqueue.h): what ExplicitProducer and           *)
(* ImplicitProducer share.  One thread enqueues, any thread dequeues, and  *)
(* nothing is locked.  Elements live in blocks of BLOCK_SIZE slots; a      *)
(* circular block index tells a consumer which block holds an index.       *)
(*                                                                         *)
(* Every index is counted modulo IndexMod, the model's index_t, so the     *)
(* state space is finite without a bound on the number of calls and the    *)
(* wrap-around is reached.  The object enqueued at index i is i itself; a  *)
(* slot where no object is constructed holds Raw.                          *)
(*                                                                         *)
(* The free list and the initial pool are single atomic steps here;        *)
(* BlockPool models them down to the compare-and-swap.                     *)
(***************************************************************************)
EXTENDS Integers, Sequences, FiniteSets, SequencesExt

CONSTANTS BLOCK_SIZE,         \* slots per block, a power of two
          IndexMod,           \* 2^w for index_t of w bits
          MAX_SUBQUEUE_SIZE,
          INITIAL_INDEX_SIZE, \* slots of the first block index
          MaxIndexSize,       \* bound: the block index does not grow past this
          Blocks,             \* every block there can be
          PoolBlocks,         \* those of the initial block pool
          MallocFails,        \* whether malloc may return null
          Kinds,              \* the producers to check: explicit or not, whether T's
                              \* constructor is noexcept, the counts given to
                              \* enqueue_bulk, the largest max given to dequeue_bulk,
                              \* and a bound on the elements enqueued in a behaviour
          MaxOutstanding,     \* bound: elements in the queue when an enqueue returns
          MaxOvercommit,      \* bound: no call begins past this many failed claims
          Consumers,
          Raw, Null

ASSUME SubQueueAssumption ==
  /\ BLOCK_SIZE > 1 /\ IndexMod % (2 * BLOCK_SIZE) = 0
  /\ MAX_SUBQUEUE_SIZE >= BLOCK_SIZE
  /\ MaxOutstanding < IndexMod \div 2
  /\ PoolBlocks \subseteq Blocks /\ Null \notin Blocks /\ Raw \notin Int

VARIABLES
  kind,                    \* which producer this is, and what its T may throw
  tailIndex, headIndex, dequeueOptimisticCount, dequeueOvercommit,
  block,                   \* the blocks: slots, empty marks, links, whereabouts
  headers,                 \* the block indexes ever published, the last current
  entries,                 \* the entries they point to: [base, block]
  tailBlock,
  pr,                      \* pr_blockIndexSlotsUsed and pr_blockIndexFront
  enqueued,                \* history: how many elements were enqueued
  p,                       \* the producer thread: where it is, and its locals
  c                        \* the consumer threads: where each is, and its locals

counters == <<tailIndex, headIndex, dequeueOptimisticCount, dequeueOvercommit>>
index == <<headers, entries>>
private == <<tailBlock, pr>>
fixed == <<kind, enqueued>>
vars == <<fixed, counters, block, index, private, p, c>>

Offsets == 0 .. BLOCK_SIZE - 1
Indexes == 0 .. IndexMod - 1

Wrap(i) == i % IndexMod
Base(i) == i - (i % BLOCK_SIZE)

circular_less_than(a, b) == Wrap(a - b) > IndexMod \div 2

\* The key of an implicit index entry that was never used: no block starts
\* there, for BLOCK_SIZE > 1.
INVALID_BLOCK_BASE == 1

\* The callers of the model enqueue only so much.
Wanted(count) ==
  /\ Wrap(tailIndex - headIndex) + count <= MaxOutstanding
  /\ enqueued + count <= kind.total

\* Not enough leeway before the head, or past the limit on the queue's size.
Full(current) ==
  \/ ~circular_less_than(headIndex, Wrap(current + BLOCK_SIZE))
  \/ MAX_SUBQUEUE_SIZE - BLOCK_SIZE < Wrap(current - headIndex)
-----------------------------------------------------------------------------
(* Blocks.  The explicit producer marks emptied slots one by one           *)
(* (emptyFlags), the implicit one counts them.                             *)

is_empty(b) ==
  IF kind.explicit THEN block[b].emptyFlags = Offsets
  ELSE block[b].elementsCompletelyDequeued = BLOCK_SIZE

\* Mutant: mark one slot whatever the count.
set_one_empty(bl, i, count) ==
  IF kind.explicit
  THEN [bl EXCEPT !.emptyFlags = @ \union {i % BLOCK_SIZE}]
  ELSE [bl EXCEPT !.elementsCompletelyDequeued = @ + 1]

\* set_empty is set_many_empty of one.
set_many_empty(bl, i, count) ==
  IF kind.explicit
  THEN [bl EXCEPT !.emptyFlags = @ \union {(i + j) % BLOCK_SIZE : j \in 0 .. count - 1}]
  ELSE [bl EXCEPT !.elementsCompletelyDequeued = @ + count]

set_all_empty(bl) ==
  IF kind.explicit THEN [bl EXCEPT !.emptyFlags = Offsets]
  ELSE [bl EXCEPT !.elementsCompletelyDequeued = BLOCK_SIZE]

reset_empty(bl) ==
  IF kind.explicit THEN [bl EXCEPT !.emptyFlags = {}]
  ELSE [bl EXCEPT !.elementsCompletelyDequeued = 0]

InState(s) == {b \in Blocks : block[b].at = s}

\* What requisition_block can return: the initial pool first, then the free
\* list, then the heap.
requisition_block(canAlloc) ==
  CASE InState("pool") # {} -> InState("pool")
    [] InState("pool") = {} /\ InState("free") # {} -> InState("free")
    [] OTHER -> IF canAlloc /\ InState("unborn") # {}
                THEN InState("unborn") \union (IF MallocFails THEN {Null} ELSE {})
                ELSE {Null}

add_block_to_free_list(bl) == [bl EXCEPT !.at = "free"]

\* The slot of index i in block b.
At(b, i) == block[b].slot[i % BLOCK_SIZE]

BlockInit ==
  block = [b \in Blocks |->
             [slot |-> [o \in Offsets |-> Raw], emptyFlags |-> {},
              elementsCompletelyDequeued |-> 0, next |-> Null,
              at |-> IF b \in PoolBlocks THEN "pool" ELSE "unborn"]]
-----------------------------------------------------------------------------
(* The block index.  A header is a circular array of entry numbers; at is  *)
(* the explicit producer's front, the implicit one's tail.                 *)

Current == Len(headers)
Header == headers[Current]
Entry(h, pos) == entries[h.entry[pos % h.size]]

\* Where a header has the entry for index i, found from the base of the entry
\* at position pos: the division is unsigned, as the code's is once BLOCK_SIZE,
\* a size_t, has converted the difference.
PositionOf(h, pos, base, i) ==
  (pos + Wrap(Base(i) - base) \div BLOCK_SIZE) % h.size
-----------------------------------------------------------------------------
(* The consumers.  dequeue and dequeue_bulk of both producers are the same *)
(* protocol: dequeue is dequeue_bulk with a max of one, and the catch      *)
(* blocks of both make the state changes of the normal path.               *)

C0 == [pc |-> "idle", max |-> 0, tail |-> 0, over |-> 0, want |-> 0, i |-> 0,
       end |-> 0, gen |-> 0, pos |-> 0, entry |-> 0, block |-> Null]

Goto(k, rec) == c' = [c EXCEPT ![k] = rec]

\* tail = tailIndex.load()
LoadTail(k, max) ==
  /\ c[k].pc = "idle"
  /\ p.pc # "dead"
  /\ dequeueOvercommit < MaxOvercommit
  /\ Goto(k, [C0 EXCEPT !.pc = "over", !.max = max, !.tail = tailIndex])
  /\ UNCHANGED <<fixed, counters, block, index, private, p>>

\* overcommit = dequeueOvercommit.load()
LoadOvercommit(k) ==
  /\ c[k].pc = "over"
  /\ Goto(k, [c[k] EXCEPT !.pc = "check", !.over = dequeueOvercommit])
  /\ UNCHANGED <<fixed, counters, block, index, private, p>>

\* desiredCount, from a third load: nothing to take, or a claim to make.
CheckDesired(k) ==
  /\ c[k].pc = "check"
  /\ LET desired == Wrap(c[k].tail - (dequeueOptimisticCount - c[k].over))
     IN Goto(k, IF circular_less_than(0, desired)
                THEN [c[k] EXCEPT !.pc = "claim", !.tail = 0,
                        !.want = IF desired < c[k].max THEN desired ELSE c[k].max]
                ELSE C0)
  /\ UNCHANGED <<fixed, counters, block, index, private, p>>

\* myDequeueCount = dequeueOptimisticCount.fetch_add(desiredCount)
Claim(k) ==
  /\ c[k].pc = "claim"
  /\ dequeueOptimisticCount' = Wrap(dequeueOptimisticCount + c[k].want)
  /\ Goto(k, [c[k] EXCEPT !.pc = "reload", !.over = 0,
                !.i = Wrap(dequeueOptimisticCount - c[k].over)])
  /\ UNCHANGED <<fixed, tailIndex, headIndex, dequeueOvercommit, block, index, private, p>>

\* The second load of the tail settles how much of the claim is covered.
ReloadTail(k) ==
  /\ c[k].pc = "reload"
  /\ LET actual == Wrap(tailIndex - c[k].i)
         n == IF ~circular_less_than(0, actual) THEN 0
              ELSE IF c[k].want < actual THEN c[k].want ELSE actual
     IN Goto(k, [c[k] EXCEPT !.pc = IF n < c[k].want THEN "giveback" ELSE "head",
                             !.i = 0, !.end = n])
  /\ UNCHANGED <<fixed, counters, block, index, private, p>>

\* Mutant: what was not covered is never given back.
GiveBackNothing(k) ==
  /\ c[k].pc = "giveback"
  /\ Goto(k, IF c[k].end = 0 THEN C0 ELSE [c[k] EXCEPT !.pc = "head"])
  /\ UNCHANGED <<fixed, counters, block, index, private, p>>

\* dequeueOvercommit.fetch_add(desiredCount - actualCount)
GiveBack(k) ==
  /\ c[k].pc = "giveback"
  /\ dequeueOvercommit' = Wrap(dequeueOvercommit + c[k].want - c[k].end)
  /\ Goto(k, IF c[k].end = 0 THEN C0
             ELSE [c[k] EXCEPT !.pc = "head", !.want = c[k].end])
  /\ UNCHANGED <<fixed, tailIndex, headIndex, dequeueOptimisticCount, block, index, private, p>>

\* firstIndex = headIndex.fetch_add(actualCount)
TakeHead(k) ==
  /\ c[k].pc = "head"
  /\ headIndex' = Wrap(headIndex + c[k].end)
  /\ Goto(k, [c[k] EXCEPT !.pc = "front", !.want = 0,
                          !.i = headIndex, !.end = Wrap(headIndex + c[k].end)])
  /\ UNCHANGED <<fixed, tailIndex, dequeueOptimisticCount, dequeueOvercommit, block, index,
                 private, p>>

\* localBlockIndex = blockIndex.load(), and its front.load() or, in the
\* implicit index, tail.load()
LoadFront(k) ==
  /\ c[k].pc = "front"
  /\ Goto(k, [c[k] EXCEPT !.pc = "base", !.gen = Current, !.pos = Header.at])
  /\ UNCHANGED <<fixed, counters, block, index, private, p>>

\* From the base of that entry, the position of the claimed index.
LoadBase(k) ==
  /\ c[k].pc = "base"
  /\ LET h == headers[c[k].gen]
     IN Goto(k, [c[k] EXCEPT !.pc = "block",
                   !.pos = PositionOf(h, c[k].pos, Entry(h, c[k].pos).base, c[k].i)])
  /\ UNCHANGED <<fixed, counters, block, index, private, p>>

\* The block of the entry at that position.
LoadBlock(k) ==
  /\ c[k].pc = "block"
  /\ LET e == headers[c[k].gen].entry[c[k].pos]
     IN Goto(k, [c[k] EXCEPT !.pc = "move", !.entry = e, !.block = entries[e].block])
  /\ UNCHANGED <<fixed, counters, block, index, private, p>>

\* The indexes a consumer takes from the block it stands on.
InThisBlock(r) ==
  LET stop == Base(r.i) + BLOCK_SIZE
  IN IF Base(r.i) = Base(r.end) /\ r.end > r.i THEN r.i .. r.end - 1 ELSE r.i .. stop - 1

\* Move the elements out and destroy what is left in the slots.
MoveOut(k) ==
  /\ c[k].pc = "move"
  /\ c[k].block # Null
  /\ block' = [block EXCEPT ![c[k].block].slot =
                 [o \in Offsets |-> IF \E i \in InThisBlock(c[k]) : i % BLOCK_SIZE = o
                                    THEN Raw ELSE @[o]]]
  /\ Goto(k, [c[k] EXCEPT !.pc = "empty"])
  /\ UNCHANGED <<fixed, counters, index, private, p>>

\* On to the next block of a bulk dequeue, or out.
NextBlock(r) ==
  LET i == Wrap(r.i + Cardinality(InThisBlock(r)))
  IN IF i = r.end THEN C0
     ELSE [r EXCEPT !.pc = "block", !.i = i, !.entry = 0, !.block = Null,
                    !.pos = (r.pos + 1) % headers[r.gen].size]

\* set_many_empty: the implicit producer's block goes back to the pool with
\* its last element.
MarkEmpty(k) ==
  /\ c[k].pc = "empty"
  /\ LET n == Cardinality(InThisBlock(c[k]))
         b == set_many_empty(block[c[k].block], c[k].i, n)
         emptied == ~kind.explicit /\ b.elementsCompletelyDequeued = BLOCK_SIZE
     IN /\ block' = [block EXCEPT ![c[k].block] = b]
        /\ Goto(k, IF emptied THEN [c[k] EXCEPT !.pc = "forget"] ELSE NextBlock(c[k]))
  /\ UNCHANGED <<fixed, counters, index, private, p>>

\* entry->value.store(nullptr)
ForgetBlock(k) ==
  /\ c[k].pc = "forget"
  /\ entries' = [entries EXCEPT ![c[k].entry].block = Null]
  /\ Goto(k, [c[k] EXCEPT !.pc = "release"])
  /\ UNCHANGED <<fixed, counters, block, headers, private, p>>

\* add_block_to_free_list(block)
ReleaseBlock(k) ==
  /\ c[k].pc = "release"
  /\ block' = [block EXCEPT ![c[k].block] = add_block_to_free_list(@)]
  /\ Goto(k, NextBlock(c[k]))
  /\ UNCHANGED <<fixed, counters, index, private, p>>

Steps(k) ==
  \/ LoadOvercommit(k) \/ CheckDesired(k) \/ Claim(k) \/ ReloadTail(k) \/ GiveBack(k)
  \/ TakeHead(k) \/ LoadFront(k) \/ LoadBase(k) \/ LoadBlock(k) \/ MoveOut(k) \/ MarkEmpty(k)

\* A call with one of these maxima: dequeue for {1}, else dequeue_bulk.
DequeueUpTo(k, maxima) ==
  \/ \E max \in maxima : LoadTail(k, max)
  \/ c[k].max \in maxima /\ Steps(k)
=============================================================================
