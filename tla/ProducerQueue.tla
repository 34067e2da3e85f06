---------------------------- MODULE ProducerQueue ----------------------------
(***************************************************************************)
(* ConcurrentQueue::ProducerBase: a producer of either kind, with its      *)
(* consumers, from its construction to its destructor.                     *)
(***************************************************************************)
EXTENDS ExplicitProducer, ImplicitProducer

ProducerBase(k) ==
  /\ kind = k /\ enqueued = 0
  /\ tailIndex = 0 /\ headIndex = 0
  /\ dequeueOptimisticCount = 0 /\ dequeueOvercommit = 0
  /\ BlockInit
  /\ tailBlock = Null
  /\ pr = [slotsUsed |-> 0, front |-> 0]
  /\ c = [k2 \in Consumers |-> C0]
  /\ \/ k.explicit /\ ExplicitInit /\ p = P0
     \/ ~k.explicit /\ ImplicitInit /\ p = I0

Init == \E k \in Kinds : ProducerBase(k)

dequeue(k) ==
  \/ kind.explicit /\ (ExplicitDequeue(k) \/ ExplicitDequeueBulk(k))
  \/ ~kind.explicit /\ (ImplicitDequeue(k) \/ ImplicitDequeueBulk(k))

Quiet == p.pc = "idle" /\ \A k \in Consumers : c[k].pc = "idle"

\* The destructor, when no call is in progress: the elements, then the blocks.
Destroy ==
  /\ Quiet
  /\ p' = [p EXCEPT !.pc = "dead"]
  /\ LET gone == IF kind.explicit THEN ExplicitDestroys ELSE ImplicitDestroys
         freed == IF kind.explicit THEN Ring ELSE ImplicitFrees
     IN block' = [b \in Blocks |->
          [block[b] EXCEPT
             !.slot = [o \in Offsets |-> IF <<b, o>> \in gone THEN Raw ELSE @[o]],
             !.at = IF b \notin freed THEN @
                    ELSE IF kind.explicit THEN ExplicitFrees(b) ELSE "free"]]
  /\ UNCHANGED <<fixed, counters, index, private, c>>

Next ==
  \/ kind.explicit /\ (ExplicitEnqueue \/ ExplicitEnqueueBulk)
  \/ ~kind.explicit /\ (ImplicitEnqueue \/ ImplicitEnqueueBulk)
  \/ \E k \in Consumers : dequeue(k)
  \/ Destroy

Spec == Init /\ [][Next]_vars
-----------------------------------------------------------------------------
(***************************************************************************)
(* A consumer that has claimed indexes finds, in the block the index leads *)
(* it to, the very elements enqueued at those indexes: whatever was        *)
(* enqueued, dequeued, wrapped, reused or grown since it claimed them.     *)
(***************************************************************************)
ClaimFindsItsElements ==
  \A k \in Consumers :
    c[k].pc = "move" =>
      /\ c[k].block # Null
      /\ \A i \in InThisBlock(c[k]) : At(c[k].block, i) = i

(***************************************************************************)
(* The optimistic count less the overcommit is the head plus what claims   *)
(* in progress hold: a claim that found too little gave back exactly the   *)
(* difference, so no element is skipped and none is handed out twice.      *)
(***************************************************************************)
ClaimsAreAccounted ==
  LET held(r) == CASE r.pc = "reload" -> r.want
                   [] r.pc = "giveback" -> r.want
                   [] r.pc = "head" -> r.end
                   [] OTHER -> 0
      total == FoldLeft(LAMBDA a, k : a + held(c[k]), 0, SetToSeq(Consumers))
  IN Wrap(dequeueOptimisticCount - dequeueOvercommit) = Wrap(headIndex + total)

\* The slots that hold an object.
Live == {<<b, o>> \in Blocks \X Offsets : block[b].slot[o] # Raw}

(***************************************************************************)
(* Whenever no call is in progress the destructor would destroy every      *)
(* object in the queue, and nothing that is not an object; afterwards      *)
(* every block is with the pool, the free list or the heap.  An explicit   *)
(* producer whose T may throw is only asked for the first: a throw at the  *)
(* start of a block leaves that block in the ring, marked as if it were    *)
(* full, and the destructor runs over its slots too.                       *)
(***************************************************************************)
DestructorIsExact ==
  LET destroyed == IF kind.explicit THEN ExplicitDestroys ELSE ImplicitDestroys
  IN /\ Quiet => Live \subseteq destroyed
     /\ Quiet /\ (kind.explicit => kind.nothrow) => destroyed \subseteq Live
     /\ p.pc = "dead" => InState("used") = {}

(***************************************************************************)
(* A block on the free list is nobody's: it holds no object, the block     *)
(* index has no entry in use for it and no consumer is about to read it.   *)
(***************************************************************************)
FreeBlocksAreNobodys ==
  \A b \in Blocks :
    block[b].at # "used" =>
      /\ \A o \in Offsets : block[b].slot[o] = Raw
      /\ ~kind.explicit => \A e \in 1 .. Len(entries) : entries[e].block # b \/ p.pc = "dead"
      /\ \A k \in Consumers : c[k].pc \in {"move", "empty", "forget"} => c[k].block # b
=============================================================================
