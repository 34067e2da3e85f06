----------------------------- MODULE BlockPool -----------------------------
(***************************************************************************)
(* The blocks of moodycamel::ConcurrentQueue between two uses              *)
(* (fastpath/utils/concurrentqueue.h): the initial pool, handed out by an  *)
(* atomic index, and the FreeList, a lock-free stack whose nodes are kept  *)
(* from being pushed again while another thread still looks at them, by a  *)
(* count of references and a flag "should be on the free list".            *)
(*                                                                         *)
(* Every atomic operation on shared memory is one step.  A thread here is  *)
(* a producer that needs a block or a consumer that has emptied one.       *)
(***************************************************************************)
EXTENDS Naturals, Sequences, FiniteSets

CONSTANTS PoolThreads,      \* the threads that take and return blocks
          PoolBlock,        \* every block there can be
          initialBlockPool, \* the blocks of the initial pool, a sequence
          MaxHeld,          \* bound: blocks a thread holds when it asks for one
          Nil               \* nullptr

ASSUME BlockPoolAssumption ==
  /\ initialBlockPool \in Seq(PoolBlock)
  /\ Nil \notin PoolBlock /\ MaxHeld \in Nat

VARIABLES
  freeListHead,
  freeListRefs,             \* per block: the count, and SHOULD_BE_ON_FREELIST
  freeListNext,
  initialBlockPoolIndex,
  created,                  \* the blocks create<Block>() has allocated
  holds,                    \* per thread: the blocks it has
  at                        \* per thread: where it is, and its locals

poolVars == <<freeListHead, freeListRefs, freeListNext, initialBlockPoolIndex,
              created, holds, at>>
list == <<freeListHead, freeListRefs, freeListNext>>

\* A thread in no call; a local that is no longer read is Nil again.
Idle == [pc |-> "idle", node |-> Nil, head |-> Nil, next |-> Nil, refs |-> Nil, then |-> "idle"]

\* populate_initial_block_list and the Block and FreeListNode constructors.
populate_initial_block_list ==
  /\ freeListHead = Nil
  /\ freeListRefs = [b \in PoolBlock |-> [n |-> 0, should |-> FALSE]]
  /\ freeListNext = [b \in PoolBlock |-> Nil]
  /\ initialBlockPoolIndex = 0
  /\ created = {}
  /\ holds = [t \in PoolThreads |-> {}]
  /\ at = [t \in PoolThreads |-> Idle]

Goto(t, pc) == at' = [at EXCEPT ![t] = IF pc = "idle" THEN Idle ELSE [@ EXCEPT !.pc = pc]]
Gets(t, b) == holds' = [holds EXCEPT ![t] = @ \cup {b}] /\ Goto(t, "idle")
-----------------------------------------------------------------------------
(***************************************************************************)
(* FreeList::add and add_knowing_refcount_is_zero.                         *)
(***************************************************************************)

\* Mutant: the node is pushed although another thread still looks at it.
AddAtOnce(t, b) ==
  /\ at[t].pc = "idle" /\ b \in holds[t]
  /\ holds' = [holds EXCEPT ![t] = @ \ {b}]
  /\ freeListRefs' = [freeListRefs EXCEPT ![b].should = TRUE]
  /\ at' = [at EXCEPT ![t].pc = "link", ![t].node = b, ![t].head = freeListHead]
  /\ UNCHANGED <<freeListHead, freeListNext, initialBlockPoolIndex, created>>

\* add(node): set the flag; whoever brings the count to zero does the rest.
add(t, b) ==
  /\ at[t].pc = "idle" /\ b \in holds[t]
  /\ holds' = [holds EXCEPT ![t] = @ \ {b}]
  /\ freeListRefs' = [freeListRefs EXCEPT ![b].should = TRUE]
  /\ at' = IF freeListRefs[b].n = 0
             THEN [at EXCEPT ![t].pc = "link", ![t].node = b, ![t].head = freeListHead,
                             ![t].then = "idle"]
             ELSE at
  /\ UNCHANGED <<freeListHead, freeListNext, initialBlockPoolIndex, created>>

\* node->freeListNext = head
LinkNode(t) ==
  /\ at[t].pc = "link"
  /\ freeListNext' = [freeListNext EXCEPT ![at[t].node] = at[t].head]
  /\ Goto(t, "refs")
  /\ UNCHANGED <<freeListHead, freeListRefs, initialBlockPoolIndex, created, holds>>

\* node->freeListRefs = 1, the flag cleared with it
StoreRefs(t) ==
  /\ at[t].pc = "refs"
  /\ freeListRefs' = [freeListRefs EXCEPT ![at[t].node] = [n |-> 1, should |-> FALSE]]
  /\ Goto(t, "push")
  /\ UNCHANGED <<freeListHead, freeListNext, initialBlockPoolIndex, created, holds>>

PushNode(t) ==
  /\ at[t].pc = "push"
  /\ IF freeListHead = at[t].head
       THEN freeListHead' = at[t].node /\ Goto(t, at[t].then)
       ELSE /\ UNCHANGED freeListHead
            /\ at' = [at EXCEPT ![t].pc = "retry", ![t].head = freeListHead]
  /\ UNCHANGED <<freeListRefs, freeListNext, initialBlockPoolIndex, created, holds>>

\* The push lost: give up the reference, set the flag, and try again only if
\* nobody else has a reference.
RetryPush(t) ==
  /\ at[t].pc = "retry"
  /\ LET b == at[t].node IN
     /\ freeListRefs' = [freeListRefs EXCEPT ![b] = [n |-> @.n - 1, should |-> TRUE]]
     /\ Goto(t, IF freeListRefs[b] = [n |-> 1, should |-> FALSE] THEN "link" ELSE at[t].then)
  /\ UNCHANGED <<freeListHead, freeListNext, initialBlockPoolIndex, created, holds>>

add_knowing_refcount_is_zero(t) ==
  LinkNode(t) \/ StoreRefs(t) \/ PushNode(t) \/ RetryPush(t)
-----------------------------------------------------------------------------
(***************************************************************************)
(* requisition_block: the initial pool, FreeList::try_get, create<Block>.  *)
(***************************************************************************)
LoadPoolIndex(t) ==
  /\ at[t].pc = "idle" /\ Cardinality(holds[t]) <= MaxHeld
  /\ Goto(t, IF initialBlockPoolIndex >= Len(initialBlockPool) THEN "get" ELSE "pool")
  /\ UNCHANGED <<list, initialBlockPoolIndex, created, holds>>

try_get_block_from_initial_pool(t) ==
  /\ at[t].pc = "pool"
  /\ initialBlockPoolIndex' = initialBlockPoolIndex + 1
  /\ IF initialBlockPoolIndex < Len(initialBlockPool)
       THEN Gets(t, initialBlockPool[initialBlockPoolIndex + 1])
       ELSE Goto(t, "get") /\ UNCHANGED holds
  /\ UNCHANGED <<list, created>>

LoadListHead(t) ==
  /\ at[t].pc = "get"
  /\ at' = [at EXCEPT ![t] = [Idle EXCEPT !.head = freeListHead, !.pc = "look"]]
  /\ UNCHANGED <<list, initialBlockPoolIndex, created, holds>>

\* head->freeListRefs.load(), or the end of the list
LoadRefs(t) ==
  /\ at[t].pc = "look"
  /\ IF at[t].head = Nil THEN Goto(t, "create")
     ELSE at' = [at EXCEPT ![t].refs = freeListRefs[at[t].head],
                   ![t].pc = IF freeListRefs[at[t].head].n = 0 THEN "get" ELSE "hold"]
  /\ UNCHANGED <<list, initialBlockPoolIndex, created, holds>>

\* head->freeListRefs: refs -> refs + 1
HoldNode(t) ==
  /\ at[t].pc = "hold"
  /\ IF freeListRefs[at[t].head] = at[t].refs
       THEN /\ freeListRefs' = [freeListRefs EXCEPT ![at[t].head].n = @ + 1]
            /\ at' = [at EXCEPT ![t].pc = "next", ![t].refs = Nil]
       ELSE UNCHANGED freeListRefs /\ Goto(t, "get")
  /\ UNCHANGED <<freeListHead, freeListNext, initialBlockPoolIndex, created, holds>>

LoadNext(t) ==
  /\ at[t].pc = "next"
  /\ at' = [at EXCEPT ![t].next = freeListNext[at[t].head], ![t].pc = "pop"]
  /\ UNCHANGED <<list, initialBlockPoolIndex, created, holds>>

\* freeListHead: head -> next; a failed exchange leaves head with what it saw
PopNode(t) ==
  /\ at[t].pc = "pop"
  /\ IF freeListHead = at[t].head
       THEN freeListHead' = at[t].next /\ Goto(t, "mine")
       ELSE /\ UNCHANGED freeListHead
            /\ at' = [at EXCEPT ![t].pc = "drop", ![t].node = at[t].head,
                                ![t].head = freeListHead, ![t].next = Nil]
  /\ UNCHANGED <<freeListRefs, freeListNext, initialBlockPoolIndex, created, holds>>

\* The list's reference and this thread's
TakeNode(t) ==
  /\ at[t].pc = "mine"
  /\ freeListRefs' = [freeListRefs EXCEPT ![at[t].head].n = @ - 2]
  /\ Gets(t, at[t].head)
  /\ UNCHANGED <<freeListHead, freeListNext, initialBlockPoolIndex, created>>

DropNode(t) ==
  /\ at[t].pc = "drop"
  /\ LET b == at[t].node IN
     /\ freeListRefs' = [freeListRefs EXCEPT ![b].n = @ - 1]
     /\ IF freeListRefs[b] = [n |-> 1, should |-> TRUE]
          THEN Goto(t, "relink")
          ELSE at' = [at EXCEPT ![t].pc = "look", ![t].node = Nil]
  /\ UNCHANGED <<freeListHead, freeListNext, initialBlockPoolIndex, created, holds>>

\* try_get was the last to hold a node that should be on the list: it calls
\* add_knowing_refcount_is_zero, whose head is a local of its own.
Relink(t) ==
  /\ at[t].pc = "relink"
  /\ at' = [at EXCEPT ![t].pc = "link", ![t].next = at[t].head, ![t].head = freeListHead,
                      ![t].then = "resume"]
  /\ UNCHANGED <<list, initialBlockPoolIndex, created, holds>>

Resume(t) ==
  /\ at[t].pc = "resume"
  /\ at' = [at EXCEPT ![t] = [Idle EXCEPT !.pc = "look", !.head = at[t].next]]
  /\ UNCHANGED <<list, initialBlockPoolIndex, created, holds>>

\* CanAlloc: create<Block>(), null if malloc fails; CannotAlloc: null.
CreateBlock(t) ==
  /\ at[t].pc = "create"
  /\ \/ \E b \in PoolBlock \ (created \cup {initialBlockPool[i] : i \in DOMAIN initialBlockPool}) :
          created' = created \cup {b} /\ Gets(t, b)
     \/ Goto(t, "idle") /\ UNCHANGED <<created, holds>>
  /\ UNCHANGED <<list, initialBlockPoolIndex>>

try_get(t) ==
  \/ LoadListHead(t) \/ LoadRefs(t) \/ HoldNode(t) \/ LoadNext(t)
  \/ PopNode(t) \/ TakeNode(t) \/ DropNode(t) \/ Relink(t) \/ Resume(t)

requisition_block(t) ==
  LoadPoolIndex(t) \/ try_get_block_from_initial_pool(t) \/ try_get(t) \/ CreateBlock(t)

add_block_to_free_list(t) ==
  (\E b \in PoolBlock : add(t, b)) \/ add_knowing_refcount_is_zero(t)

PoolNext == \E t \in PoolThreads : requisition_block(t) \/ add_block_to_free_list(t)
-----------------------------------------------------------------------------
\* The blocks on the list, from the head on; a list with a cycle has them all.
OnList ==
  LET reach[n \in 0 .. Cardinality(PoolBlock)] ==
        IF n = 0 THEN {freeListHead}
        ELSE reach[n - 1] \cup {freeListNext[b] : b \in reach[n - 1] \ {Nil}}
  IN reach[Cardinality(PoolBlock)] \ {Nil}

\* The blocks a thread has taken off the list and not yet returned from try_get.
Taking == {at[t].head : t \in {u \in PoolThreads : at[u].pc = "mine"}}

Unissued == {initialBlockPool[i] : i \in {j \in DOMAIN initialBlockPool : j > initialBlockPoolIndex}}

(***************************************************************************)
(* A block is in exactly one place.  Two threads never hold the same       *)
(* block; one a thread holds, or has just popped, is not on the free list, *)
(* not still to be issued from the pool, not about to be pushed, and not   *)
(* marked as belonging on the list (the assert in try_get).  And when no   *)
(* thread is inside the free list every block issued or created so far is  *)
(* held or on the list, whatever pushes lost their race.                   *)
(***************************************************************************)
BlockIsInOnePlace ==
  LET held(t) == holds[t] \cup (IF at[t].pc = "mine" THEN {at[t].head} ELSE {})
  IN /\ \A t, u \in PoolThreads : t # u => held(t) \cap held(u) = {}
     /\ \A t \in PoolThreads, b \in PoolBlock :
          b \in held(t) => /\ b \notin OnList \cup Unissued
                           /\ ~freeListRefs[b].should
                           /\ \A u \in PoolThreads :
                                at[u].pc \in {"link", "refs", "push"} => at[u].node # b
     /\ (\A t \in PoolThreads : at[t].pc = "idle") =>
          {initialBlockPool[i] : i \in DOMAIN initialBlockPool} \cup created =
            Unissued \cup OnList \cup UNION {holds[t] : t \in PoolThreads}
=============================================================================
