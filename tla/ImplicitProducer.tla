-------------------------- MODULE ImplicitProducer --------------------------
(***************************************************************************)
(* ConcurrentQueue::ImplicitProducer: the sub-queue of a thread that       *)
(* enqueues without a token.  A block goes back to the free list as soon   *)
(* as its last element is dequeued, by the consumer that dequeued it.      *)
(*                                                                         *)
(* The entries of the block index are shared by its generations: a larger  *)
(* index points to the entries of the one before and adds blank ones.      *)
(***************************************************************************)
EXTENDS SubQueue

I0 == [pc |-> "idle", alloc |-> FALSE, count |-> 0, cur |-> 0, stop |-> 0, entry |-> 0,
       start |-> Null, first |-> Null]

ImplicitInit ==
  /\ headers = <<[size |-> INITIAL_INDEX_SIZE, at |-> INITIAL_INDEX_SIZE - 1,
                  entry |-> [i \in 0 .. INITIAL_INDEX_SIZE - 1 |-> i + 1]]>>
  /\ entries = [j \in 1 .. INITIAL_INDEX_SIZE |->
                  [base |-> INVALID_BLOCK_BASE, block |-> Null]]

\* new_block_index: the old entries in their order after the tail, then as
\* many new ones.
Doubled ==
  LET n == Header.size
  IN [size |-> 2 * n, at |-> n - 1,
      entry |-> [i \in 0 .. 2 * n - 1 |->
                   IF i < n THEN Header.entry[(Header.at + 1 + i) % n]
                   ELSE Len(entries) + i - n + 1]]

NewTail(h) == (h.at + 1) % h.size

\* The entry after the tail is free: its key is stored, then the tail.
InsertInto(base) ==
  /\ LET e == Entry(Header, NewTail(Header))
     IN e.base = INVALID_BLOCK_BASE \/ e.block = Null
  /\ entries' = [entries EXCEPT ![Header.entry[NewTail(Header)]].base = base]
  /\ headers' = [headers EXCEPT ![Current].at = NewTail(Header)]

\* It is not: a larger index is published with the entry inserted in it.
InsertGrowing(base) ==
  /\ Entry(Header, NewTail(Header)).base # INVALID_BLOCK_BASE
  /\ Entry(Header, NewTail(Header)).block # Null
  /\ Header.size < MaxIndexSize
  /\ headers' = Append(headers, [Doubled EXCEPT !.at = @ + 1])
  /\ entries' = entries \o [j \in 1 .. Header.size |->
                  [base |-> IF j = 1 THEN base ELSE INVALID_BLOCK_BASE, block |-> Null]]

insert_block_index_entry(base, alloc) ==
  \/ InsertInto(base)
  \/ alloc /\ InsertGrowing(base)

CannotInsert(alloc) ==
  /\ Entry(Header, NewTail(Header)).base # INVALID_BLOCK_BASE
  /\ Entry(Header, NewTail(Header)).block # Null
  /\ ~alloc \/ MallocFails \/ Header.size >= MaxIndexSize

\* rewind_block_index_tail, count times, and the null stores to the entries.
Rewound(count, forget) ==
  /\ headers' = [headers EXCEPT ![Current].at = (@ + Header.size - count) % Header.size]
  /\ entries' = [e \in 1 .. Len(entries) |->
                   IF e \in forget THEN [entries[e] EXCEPT !.block = Null] ELSE entries[e]]
-----------------------------------------------------------------------------
(* enqueue                                                                 *)

ImplicitInTailBlock ==
  /\ p.pc = "idle"
  /\ Wanted(1)
  /\ tailIndex % BLOCK_SIZE # 0
  /\ p' = [I0 EXCEPT !.pc = "construct", !.count = 1, !.cur = tailIndex]
  /\ UNCHANGED <<fixed, counters, block, index, private, c>>

ImplicitInsertsEntry(alloc) ==
  /\ p.pc = "idle"
  /\ Wanted(1)
  /\ tailIndex % BLOCK_SIZE = 0
  /\ ~Full(tailIndex)
  /\ insert_block_index_entry(tailIndex, alloc)
  /\ p' = [I0 EXCEPT !.pc = "block", !.alloc = alloc, !.count = 1, !.cur = tailIndex,
                     !.entry = headers'[Len(headers')].entry[headers'[Len(headers')].at]]
  /\ UNCHANGED <<fixed, counters, block, private, c>>

ImplicitGetsBlock ==
  /\ p.pc = "block"
  /\ \E b \in requisition_block(p.alloc) :
       \/ b = Null /\ Rewound(1, {p.entry}) /\ p' = I0 /\ UNCHANGED block
       \/ /\ b # Null
          /\ block' = [block EXCEPT ![b] = reset_empty([@ EXCEPT !.at = "used"])]
          /\ p' = [p EXCEPT !.pc = IF kind.nothrow THEN "value" ELSE "try", !.first = b]
          /\ UNCHANGED index
  /\ UNCHANGED <<fixed, counters, private, c>>

\* A constructor that may throw runs before the block is exposed.
ImplicitTries ==
  /\ p.pc = "try"
  /\ \/ /\ block' = [block EXCEPT ![p.first].slot[p.cur % BLOCK_SIZE] = p.cur]
        /\ p' = [p EXCEPT !.pc = "value"]
        /\ UNCHANGED index
     \/ /\ Rewound(1, {p.entry})
        /\ block' = [block EXCEPT ![p.first] = add_block_to_free_list(@)]
        /\ p' = I0
  /\ UNCHANGED <<fixed, counters, private, c>>

ImplicitStoresValue ==
  /\ p.pc = "value"
  /\ entries' = [entries EXCEPT ![p.entry].block = p.first]
  /\ tailBlock' = p.first
  /\ p' = [p EXCEPT !.pc = IF kind.nothrow THEN "construct" ELSE "tail"]
  /\ UNCHANGED <<fixed, counters, block, headers, pr, c>>

ImplicitConstructs ==
  /\ p.pc = "construct"
  /\ \/ /\ block' = [block EXCEPT ![tailBlock].slot[p.cur % BLOCK_SIZE] = p.cur]
        /\ p' = [p EXCEPT !.pc = "tail"]
     \/ ~kind.nothrow /\ p' = I0 /\ UNCHANGED block
  /\ UNCHANGED <<fixed, counters, index, private, c>>

\* tailIndex.store(newTailIndex): the last step of enqueue and enqueue_bulk.
ImplicitStoresTail ==
  /\ p.pc = "tail"
  /\ tailIndex' = Wrap(tailIndex + p.count)
  /\ enqueued' = enqueued + p.count
  /\ p' = I0
  /\ UNCHANGED <<kind, headIndex, dequeueOptimisticCount, dequeueOvercommit, block, index,
                 private, c>>

ImplicitEnqueue ==
  \/ ImplicitInTailBlock
  \/ \E alloc \in BOOLEAN : ImplicitInsertsEntry(alloc)
  \/ ImplicitGetsBlock \/ ImplicitTries \/ ImplicitStoresValue
  \/ ImplicitConstructs \/ ImplicitStoresTail
-----------------------------------------------------------------------------
(* enqueue_bulk: all the blocks first, each exposed in the index as it     *)
(* comes, then all the elements, then the tail.                            *)

ImplicitBulkBegins(alloc, count) ==
  /\ p.pc = "idle"
  /\ Wanted(count)
  /\ p' = [I0 EXCEPT !.pc = "more", !.alloc = alloc, !.count = count,
             !.cur = Base(Wrap(tailIndex - 1)), !.stop = Base(Wrap(tailIndex + count - 1)),
             !.start = tailBlock]
  /\ UNCHANGED <<fixed, counters, block, index, private, c>>

\* The chain of blocks taken so far, first to last.
Chain ==
  LET more(b) == IF b = Null THEN Null ELSE block[b].next
      nth(n) == FoldLeft(LAMBDA b, j : more(b), p.first, [j \in 1 .. n |-> j])
  IN {nth(n) : n \in 0 .. Cardinality(Blocks)} \ {Null}

\* Mutant: an undo that leaves the blocks in the index.
ImplicitBulkUndoBlocksOnly(inserted) ==
  /\ Rewound(inserted, {})
  /\ block' = [b \in Blocks |-> IF b \in Chain THEN add_block_to_free_list(block[b])
                                ELSE block[b]]
  /\ tailBlock' = p.start
  /\ p' = I0

\* Give back every block taken and its index entry; inserted counts the entry
\* that got no block.
ImplicitBulkUndo(inserted) ==
  LET n == Cardinality(Chain) + inserted
  IN /\ Rewound(n, {Header.entry[(Header.at + Header.size - j) % Header.size] : j \in 0 .. n - 1})
     /\ block' = [b \in Blocks |-> IF b \in Chain THEN add_block_to_free_list(block[b])
                                   ELSE block[b]]
     /\ tailBlock' = p.start
     /\ p' = I0

ImplicitBulkInserts ==
  /\ p.pc = "more"
  /\ p.cur # p.stop
  /\ LET cur == Wrap(p.cur + BLOCK_SIZE)
     IN \/ /\ ~Full(cur)
           /\ insert_block_index_entry(cur, p.alloc)
           /\ p' = [p EXCEPT !.pc = "bulkblock", !.cur = cur,
                      !.entry = headers'[Len(headers')].entry[headers'[Len(headers')].at]]
           /\ UNCHANGED <<block, tailBlock>>
        \/ /\ Full(cur) \/ CannotInsert(p.alloc)
           /\ ImplicitBulkUndo(0)
  /\ UNCHANGED <<fixed, counters, pr, c>>

ImplicitBulkGetsBlock ==
  /\ p.pc = "bulkblock"
  /\ \E b \in requisition_block(p.alloc) :
       \/ b = Null /\ ImplicitBulkUndo(1)
       \/ /\ b # Null
          /\ LET fresh == [reset_empty(block[b]) EXCEPT !.at = "used", !.next = Null]
                 linked == tailIndex % BLOCK_SIZE # 0 \/ p.first # Null
             IN block' = [d \in Blocks |->
                  CASE d = b -> fresh
                    [] d = tailBlock /\ linked /\ d # b -> [block[d] EXCEPT !.next = b]
                    [] OTHER -> block[d]]
          /\ entries' = [entries EXCEPT ![p.entry].block = b]
          /\ tailBlock' = b
          /\ p' = [p EXCEPT !.pc = "more", !.first = IF p.first = Null THEN b ELSE p.first]
          /\ UNCHANGED headers
  /\ UNCHANGED <<fixed, counters, pr, c>>

\* The block that takes the j-th element, along the links from the block the
\* call started in.
ImplicitBlockOf(j) ==
  LET into == tailIndex % BLOCK_SIZE
      from == IF into # 0 THEN p.start ELSE p.first
  IN FoldLeft(LAMBDA b, n : block[b].next, from,
              [n \in 1 .. (into + j - 1) \div BLOCK_SIZE |-> n])

\* The elements; a throw destroys those constructed and undoes the rest.
ImplicitBulkConstructs ==
  /\ p.pc = "more"
  /\ p.cur = p.stop
  /\ \/ /\ block' = [b \in Blocks |->
             [block[b] EXCEPT !.slot = [o \in Offsets |->
                LET js == {j \in 1 .. p.count :
                             ImplicitBlockOf(j) = b /\ (tailIndex + j - 1) % BLOCK_SIZE = o}
                IN IF js = {} THEN @[o] ELSE Wrap(tailIndex + (CHOOSE j \in js : TRUE) - 1)]]]
        /\ p' = [p EXCEPT !.pc = "tail"]
        /\ UNCHANGED <<index, tailBlock>>
     \/ ~kind.nothrow /\ ImplicitBulkUndo(0)
  /\ UNCHANGED <<fixed, counters, pr, c>>

ImplicitEnqueueBulk ==
  \/ \E alloc \in BOOLEAN, count \in kind.bulk : ImplicitBulkBegins(alloc, count)
  \/ ImplicitBulkInserts \/ ImplicitBulkGetsBlock \/ ImplicitBulkConstructs
-----------------------------------------------------------------------------
ImplicitDequeue(k) ==
  \/ DequeueUpTo(k, {1})
  \/ c[k].max = 1 /\ (ForgetBlock(k) \/ ReleaseBlock(k))

ImplicitDequeueBulk(k) ==
  \/ DequeueUpTo(k, 2 .. kind.max)
  \/ c[k].max > 1 /\ (ForgetBlock(k) \/ ReleaseBlock(k))

\* The block the index gives for an index, as get_block_index_entry_for_index.
get_block_index_entry_for_index(i) ==
  Entry(Header, PositionOf(Header, Header.at, Entry(Header, Header.at).base, i)).block

\* What the destructor destroys: the elements from head to tail, where the
\* index says they are.
ImplicitDestroys ==
  {<<get_block_index_entry_for_index(Wrap(headIndex + n)), (headIndex + n) % BLOCK_SIZE>>
     : n \in 0 .. Wrap(tailIndex - headIndex) - 1}

\* The blocks it gives to the free list: those of the elements, and the tail
\* block unless its last element was dequeued.
ImplicitFrees ==
  {d[1] : d \in ImplicitDestroys}
    \union (IF tailBlock # Null /\ (headIndex # tailIndex \/ tailIndex % BLOCK_SIZE # 0)
            THEN {tailBlock} ELSE {})
=============================================================================
