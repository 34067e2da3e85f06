-------------------------- MODULE ExplicitProducer --------------------------
(***************************************************************************)
(* ConcurrentQueue::ExplicitProducer: the sub-queue of a ProducerToken.    *)
(* Its blocks form a circular list that never shrinks; the block after     *)
(* tailBlock is used again once every slot of it is marked empty.          *)
(*                                                                         *)
(* A step ends where a consumer could see the difference: the publication  *)
(* of a block index, an entry, front and tailIndex are steps of their own. *)
(***************************************************************************)
EXTENDS SubQueue

P0 == [pc |-> "idle", alloc |-> FALSE, count |-> 0, cur |-> 0, stop |-> 0,
       start |-> Null, first |-> Null, front |-> 0, slots |-> 0]

Blank(n) == [j \in 1 .. n |-> [base |-> INVALID_BLOCK_BASE, block |-> Null]]

\* The block n links after b.
After(b, n) == FoldLeft(LAMBDA x, y : block[x].next, b, [j \in 1 .. n |-> j])

\* The blocks of this producer's circular list.
Ring ==
  IF tailBlock = Null THEN {}
  ELSE {After(tailBlock, n) : n \in 1 .. Cardinality(Blocks)}

ExplicitInit ==
  /\ headers = <<[size |-> INITIAL_INDEX_SIZE, at |-> INITIAL_INDEX_SIZE - 1,
                  entry |-> [i \in 0 .. INITIAL_INDEX_SIZE - 1 |-> i + 1]]>>
  /\ entries = Blank(INITIAL_INDEX_SIZE)

\* The entries in use, oldest first, then as many blank ones.
Grown ==
  LET n == pr.slotsUsed
      used == [j \in 1 .. n |-> Entry(Header, pr.front + Header.size - n + j - 1)]
  IN used \o Blank(2 * Header.size - n)

\* new_block_index(numberOfFilledSlotsToExpose): a copy of twice the size,
\* published at once; front is SIZE_MAX when nothing is exposed.
new_block_index(expose) ==
  /\ Header.size < MaxIndexSize
  /\ entries' = entries \o Grown
  /\ headers' = Append(headers,
       [size |-> 2 * Header.size, at |-> (expose + 2 * Header.size - 1) % (2 * Header.size),
        entry |-> [i \in 0 .. 2 * Header.size - 1 |-> Len(entries) + i + 1]])
  /\ pr' = [pr EXCEPT !.front = pr.slotsUsed]

\* Link a new block after tailBlock; it becomes the tail block.
Linked(bl, b) ==
  IF tailBlock = Null THEN [bl EXCEPT ![b].next = b]
  ELSE [bl EXCEPT ![b].next = block[tailBlock].next, ![tailBlock].next = b]

WriteEntry(base, b) ==
  entries' = [entries EXCEPT ![Header.entry[pr.front]] = [base |-> base, block |-> b]]

Advance(front) == (front + 1) % Header.size
-----------------------------------------------------------------------------
(* enqueue                                                                 *)

\* Room in the tail block: straight to the construction.
EnqueueInTailBlock ==
  /\ p.pc = "idle"
  /\ Wanted(1)
  /\ tailIndex % BLOCK_SIZE # 0
  /\ p' = [P0 EXCEPT !.pc = "construct", !.count = 1, !.cur = tailIndex]
  /\ UNCHANGED <<fixed, counters, block, index, private, c>>

CanReuse == tailBlock # Null /\ is_empty(block[tailBlock].next)

\* Mutant: take the next block without looking at its empty flags.
EnqueueReusesAnyBlock ==
  /\ p.pc = "idle"
  /\ Wanted(1)
  /\ tailIndex % BLOCK_SIZE = 0
  /\ tailBlock # Null
  /\ tailBlock' = block[tailBlock].next
  /\ block' = [block EXCEPT ![tailBlock'] = reset_empty(@)]
  /\ p' = [P0 EXCEPT !.pc = IF kind.nothrow THEN "entry" ELSE "try", !.count = 1,
                     !.cur = tailIndex, !.start = tailBlock, !.slots = pr.slotsUsed]
  /\ UNCHANGED <<fixed, counters, index, pr, c>>

EnqueueReusesBlock ==
  /\ p.pc = "idle"
  /\ Wanted(1)
  /\ tailIndex % BLOCK_SIZE = 0
  /\ CanReuse
  /\ tailBlock' = block[tailBlock].next
  /\ block' = [block EXCEPT ![tailBlock'] = reset_empty(@)]
  /\ p' = [P0 EXCEPT !.pc = IF kind.nothrow THEN "entry" ELSE "try", !.count = 1,
                     !.cur = tailIndex, !.start = tailBlock, !.slots = pr.slotsUsed]
  /\ UNCHANGED <<fixed, counters, index, pr, c>>

\* A new block is needed, and with it a slot in the block index.
EnqueueNeedsBlock(alloc) ==
  /\ p.pc = "idle"
  /\ Wanted(1)
  /\ tailIndex % BLOCK_SIZE = 0
  /\ ~CanReuse
  /\ ~Full(tailIndex)
  /\ p' = [P0 EXCEPT !.pc = "block", !.alloc = alloc, !.count = 1, !.cur = tailIndex,
                     !.start = tailBlock, !.slots = pr.slotsUsed]
  /\ IF pr.slotsUsed = Header.size
     THEN alloc /\ new_block_index(pr.slotsUsed)
     ELSE UNCHANGED <<index, pr>>
  /\ UNCHANGED <<fixed, counters, block, tailBlock, c>>

EnqueueGetsBlock ==
  /\ p.pc = "block"
  /\ \E b \in requisition_block(p.alloc) :
       \/ b = Null /\ p' = P0 /\ UNCHANGED <<block, private>>
       \/ /\ b # Null
          /\ block' = Linked([block EXCEPT ![b] = reset_empty([@ EXCEPT !.at = "used"])], b)
          /\ tailBlock' = b
          /\ pr' = [pr EXCEPT !.slotsUsed = @ + 1]
          /\ p' = [p EXCEPT !.pc = IF kind.nothrow THEN "entry" ELSE "try"]
  /\ UNCHANGED <<fixed, counters, index, c>>

\* A constructor that may throw runs before the block is exposed.
EnqueueTries ==
  /\ p.pc = "try"
  /\ \/ /\ block' = [block EXCEPT ![tailBlock].slot[p.cur % BLOCK_SIZE] = p.cur]
        /\ p' = [p EXCEPT !.pc = "entry"]
        /\ UNCHANGED private
     \/ /\ pr' = [pr EXCEPT !.slotsUsed = p.slots]
        /\ tailBlock' = IF p.start = Null THEN tailBlock ELSE p.start
        /\ p' = P0
        /\ UNCHANGED block
  /\ UNCHANGED <<fixed, counters, index, c>>

EnqueueWritesEntry ==
  /\ p.pc = "entry"
  /\ WriteEntry(p.cur, tailBlock)
  /\ p' = [p EXCEPT !.pc = "front"]
  /\ UNCHANGED <<fixed, counters, block, headers, private, c>>

EnqueueStoresFront ==
  /\ p.pc = "front"
  /\ headers' = [headers EXCEPT ![Current].at = pr.front]
  /\ pr' = [pr EXCEPT !.front = Advance(@)]
  /\ p' = [p EXCEPT !.pc = IF kind.nothrow THEN "construct" ELSE "tail"]
  /\ UNCHANGED <<fixed, counters, block, entries, tailBlock, c>>

\* A throw here leaves nothing to undo.
EnqueueConstructs ==
  /\ p.pc = "construct"
  /\ \/ /\ block' = [block EXCEPT ![tailBlock].slot[p.cur % BLOCK_SIZE] = p.cur]
        /\ p' = [p EXCEPT !.pc = "tail"]
     \/ ~kind.nothrow /\ p' = P0 /\ UNCHANGED block
  /\ UNCHANGED <<fixed, counters, index, private, c>>

\* tailIndex.store(newTailIndex): the last step of enqueue and enqueue_bulk.
StoreTail ==
  /\ p.pc = "tail"
  /\ tailIndex' = Wrap(tailIndex + p.count)
  /\ enqueued' = enqueued + p.count
  /\ p' = P0
  /\ UNCHANGED <<kind, headIndex, dequeueOptimisticCount, dequeueOvercommit, block, index,
                 private, c>>

ExplicitEnqueue ==
  \/ EnqueueInTailBlock
  \/ EnqueueReusesBlock
  \/ \E alloc \in BOOLEAN : EnqueueNeedsBlock(alloc)
  \/ EnqueueGetsBlock \/ EnqueueTries \/ EnqueueWritesEntry \/ EnqueueStoresFront
  \/ EnqueueConstructs \/ StoreTail
-----------------------------------------------------------------------------
(* enqueue_bulk: all the blocks first, then all the elements, then the     *)
(* tail; a failure gives back the index slots and keeps the blocks.        *)

BulkBegins(alloc, count) ==
  /\ p.pc = "idle"
  /\ Wanted(count)
  /\ p' = [pc |-> "reuse", alloc |-> alloc, count |-> count,
           cur |-> Base(Wrap(tailIndex - 1)), stop |-> Base(Wrap(tailIndex + count - 1)),
           start |-> tailBlock, first |-> Null, front |-> pr.front, slots |-> pr.slotsUsed]
  /\ UNCHANGED <<fixed, counters, block, index, private, c>>

First(b) == IF p.first = Null THEN b ELSE p.first

BulkCanReuse == CanReuse /\ block[tailBlock].next # p.first

BulkReusesBlock ==
  /\ p.pc = "reuse"
  /\ p.cur # p.stop
  /\ BulkCanReuse
  /\ LET cur == Wrap(p.cur + BLOCK_SIZE)
         b == block[tailBlock].next
     IN /\ tailBlock' = b
        /\ p' = [p EXCEPT !.cur = cur, !.first = First(b)]
        /\ WriteEntry(cur, b)
  /\ pr' = [pr EXCEPT !.front = Advance(@)]
  /\ UNCHANGED <<fixed, counters, block, headers, c>>

\* The state every failure goes back to.
BulkUndo ==
  /\ pr' = [front |-> p.front, slotsUsed |-> p.slots]
  /\ tailBlock' = IF p.start = Null THEN p.first ELSE p.start
  /\ p' = P0

\* A block that cannot be reused: make room for it in the block index.
BulkNeedsBlock ==
  /\ p.pc \in {"reuse", "more"}
  /\ p.cur # p.stop
  /\ p.pc = "reuse" => ~BulkCanReuse
  /\ LET cur == Wrap(p.cur + BLOCK_SIZE)
     IN \/ /\ ~Full(cur)
           /\ pr.slotsUsed # Header.size
           /\ p' = [p EXCEPT !.pc = "bulkblock", !.cur = cur]
           /\ UNCHANGED <<index, private>>
        \/ /\ ~Full(cur)
           /\ pr.slotsUsed = Header.size
           /\ p.alloc
           /\ new_block_index(p.slots)
           /\ p' = [p EXCEPT !.pc = "bulkblock", !.cur = cur, !.front = p.slots]
           /\ UNCHANGED tailBlock
        \/ /\ Full(cur) \/ (pr.slotsUsed = Header.size /\ (~p.alloc \/ MallocFails))
           /\ BulkUndo
           /\ UNCHANGED index
  /\ UNCHANGED <<fixed, counters, block, c>>

BulkGetsBlock ==
  /\ p.pc = "bulkblock"
  /\ \E b \in requisition_block(p.alloc) :
       \/ b = Null /\ BulkUndo /\ UNCHANGED <<block, index>>
       \/ /\ b # Null
          /\ block' = Linked([block EXCEPT ![b] = set_all_empty([@ EXCEPT !.at = "used"])], b)
          /\ tailBlock' = b
          /\ WriteEntry(p.cur, b)
          /\ pr' = [slotsUsed |-> pr.slotsUsed + 1, front |-> Advance(pr.front)]
          /\ p' = [p EXCEPT !.pc = "more", !.first = First(b)]
          /\ UNCHANGED headers
  /\ UNCHANGED <<fixed, counters, c>>

StoreBulkFront ==
  headers' = [headers EXCEPT ![Current].at = (pr.front + Header.size - 1) % Header.size]

\* The blocks taken for this call, first to tail.
Taken ==
  IF p.first = Null THEN {}
  ELSE LET n == CHOOSE m \in 0 .. Cardinality(Blocks) :
                  /\ After(p.first, m) = tailBlock
                  /\ \A l \in 0 .. m - 1 : After(p.first, l) # tailBlock
       IN {After(p.first, m) : m \in 0 .. n}

\* Every block there: their marks are reset, and front exposes them at once
\* when no constructor can throw.
BulkExposes ==
  /\ p.pc \in {"reuse", "more"}
  /\ p.cur = p.stop
  /\ block' = [b \in Blocks |-> IF b \in Taken THEN reset_empty(block[b]) ELSE block[b]]
  /\ IF kind.nothrow /\ p.first # Null THEN StoreBulkFront ELSE UNCHANGED headers
  /\ p' = [p EXCEPT !.pc = "elements"]
  /\ UNCHANGED <<fixed, counters, entries, private, c>>

\* The block that takes the j-th element of the call.
BlockOf(j) ==
  LET into == tailIndex % BLOCK_SIZE
      nth == (into + j - 1) \div BLOCK_SIZE
  IN IF into # 0 THEN After(p.start, nth) ELSE After(p.first, nth)

\* The elements; a throw destroys those constructed and undoes the rest.
BulkConstructs ==
  /\ p.pc = "elements"
  /\ \/ /\ block' = [b \in Blocks |->
             [block[b] EXCEPT !.slot = [o \in Offsets |->
                IF \E j \in 1 .. p.count : BlockOf(j) = b /\ (tailIndex + j - 1) % BLOCK_SIZE = o
                THEN Wrap(tailIndex + (CHOOSE j \in 1 .. p.count :
                       BlockOf(j) = b /\ (tailIndex + j - 1) % BLOCK_SIZE = o) - 1)
                ELSE @[o]]]]
        /\ p' = [p EXCEPT !.pc = IF kind.nothrow \/ p.first = Null THEN "tail" ELSE "expose"]
        /\ UNCHANGED private
     \/ ~kind.nothrow /\ BulkUndo /\ UNCHANGED block
  /\ UNCHANGED <<fixed, counters, index, c>>

BulkExposesLate ==
  /\ p.pc = "expose"
  /\ StoreBulkFront
  /\ p' = [p EXCEPT !.pc = "tail"]
  /\ UNCHANGED <<fixed, counters, block, entries, private, c>>

ExplicitEnqueueBulk ==
  \/ \E alloc \in BOOLEAN, count \in kind.bulk : BulkBegins(alloc, count)
  \/ BulkReusesBlock \/ BulkNeedsBlock \/ BulkGetsBlock \/ BulkExposes
  \/ BulkConstructs \/ BulkExposesLate
-----------------------------------------------------------------------------
ExplicitDequeue(k) == DequeueUpTo(k, {1})

ExplicitDequeueBulk(k) == DequeueUpTo(k, 2 .. kind.max)

\* The slots the destructor destroys: in every block of the ring that is not
\* empty, from the head's offset in the half dequeued block, to the tail's in
\* the tail block.
ExplicitDestroys ==
  LET from == pr.front + Header.size - pr.slotsUsed
      behind(n) == circular_less_than(Wrap(Entry(Header, from + n).base + BLOCK_SIZE), headIndex)
      n0 == CHOOSE n \in 0 .. Header.size : ~behind(n) /\ \A m \in 0 .. n - 1 : behind(m)
      half == IF headIndex % BLOCK_SIZE = 0 THEN Null ELSE Entry(Header, from + n0).block
      last == IF tailIndex % BLOCK_SIZE = 0 THEN BLOCK_SIZE ELSE tailIndex % BLOCK_SIZE
  IN UNION {{<<b, o>> : o \in {o \in Offsets :
                /\ b = half => o >= headIndex % BLOCK_SIZE
                /\ b = tailBlock => o < last}}
              : b \in {r \in Ring : ~is_empty(r)}}

\* Heap blocks are freed, those of the initial pool go to the free list.
ExplicitFrees(b) == IF b \in PoolBlocks THEN "free" ELSE "unborn"
=============================================================================
