--------------------------- MODULE ConcurrentQueue ---------------------------
(***************************************************************************)
(* moodycamel::ConcurrentQueue above its sub-queues                        *)
(* (fastpath/utils/concurrentqueue.h): the list of producers, the hash     *)
(* table that finds a thread's implicit producer, producer and consumer    *)
(* tokens, and the search for an element over all producers.               *)
(*                                                                         *)
(* A sub-queue is reduced to what ProducerQueue checks of it: how many     *)
(* elements were enqueued, how many were taken, and how many are claimed   *)
(* by dequeues in progress.  A claim can find too little and be given      *)
(* back, and while it lasts another dequeue may fail.                      *)
(*                                                                         *)
(* Each thread runs a script, the calls it makes in order.  The build does *)
(* not define MOODYCAMEL_CPP11_THREAD_LOCAL_SUPPORTED: no implicit         *)
(* producer ever becomes inactive, so none is recycled.                    *)
(***************************************************************************)
EXTENDS Integers, Sequences, FiniteSets, FiniteSetsExt

CONSTANTS Writers, Readers,  \* the threads that enqueue, and those that dequeue
          hash_thread_id,    \* details::hash_thread_id of a writer's id
          INITIAL_IMPLICIT_PRODUCER_HASH_SIZE,
          QUOTA,             \* EXPLICIT_CONSUMER_CONSUMPTION_QUOTA_BEFORE_ROTATE
          BULK,              \* the count given to enqueue_bulk and dequeue_bulk
          NoMemory           \* the writers for which malloc may return null

ASSUME ConcurrentQueueAssumption ==
  /\ INITIAL_IMPLICIT_PRODUCER_HASH_SIZE > 1
  /\ \A t \in Writers : hash_thread_id[t] \in Nat
  /\ QUOTA > 0 /\ BULK > 1

VARIABLES
  script,            \* per thread: the calls it has still to make
  tables,            \* the ImplicitProducerHash chain, the newest last
  hashCount,         \* implicitProducerHashCount
  resizing,          \* implicitProducerHashResizeInProgress
  prod,              \* the producers, in the order they were created
  plist,             \* the producer list, its tail last: next_prod goes down
  producerCount,
  offset,            \* globalExplicitConsumerOffset
  nextConsumerId,    \* nextExplicitConsumerId
  alive,             \* the queue has not been destroyed
  token,             \* per writer: its ProducerToken, an object and its producer
  ctoken,            \* per reader: its ConsumerToken
  w, r               \* the threads: where each is, and its locals

hashVars == <<tables, hashCount, resizing>>
prodVars == <<prod, plist, producerCount>>
rotation == <<offset, nextConsumerId>>
queueVars == <<script, hashVars, prodVars, rotation, alive, token, ctoken, w, r>>

Empty(capacity) == [i \in 0 .. capacity - 1 |-> [key |-> "invalid", value |-> 0]]
Capacity(k) == Cardinality(DOMAIN tables[k])
W0 == [pc |-> "call", main |-> 0, newCount |-> 0, ptr |-> 0, own |-> 0, post |-> 0]
R0 == [pc |-> "call", have |-> 0, want |-> 0, ptr |-> 0, stop |-> 0, best |-> 0,
       nonEmpty |-> 0, at |-> 0, seen |-> 0, after |-> "call"]

\* The constructor, for one choice of what the threads are going to do.
QueueInit(s) ==
  /\ script = s
  /\ tables = <<Empty(INITIAL_IMPLICIT_PRODUCER_HASH_SIZE)>>
  /\ hashCount = 0 /\ resizing = FALSE
  /\ prod = <<>> /\ plist = <<>> /\ producerCount = 0
  /\ offset = 0 /\ nextConsumerId = 0
  /\ alive = TRUE
  /\ token = [t \in Writers |-> [object |-> 0, producer |-> 0]]
  /\ ctoken = [t \in Readers |-> [initialOffset |-> -1, lastKnown |-> -1, items |-> 0,
                                  current |-> 0, desired |-> 0]]
  /\ w = [t \in Writers |-> W0]
  /\ r = [t \in Readers |-> R0]

Call(t) == IF script[t] = <<>> THEN "none" ELSE Head(script[t])
Bulk(t) == Call(t) \in {"enqueue_bulk", "token_enqueue_bulk", "dequeue_bulk", "token_dequeue_bulk"}
Count(t) == IF Bulk(t) THEN BULK ELSE 1
Step(t, pc) == w' = [w EXCEPT ![t].pc = pc]
Returns(t) == script' = [script EXCEPT ![t] = Tail(@)] /\ w' = [w EXCEPT ![t] = W0]
-----------------------------------------------------------------------------
(***************************************************************************)
(* The hash table of implicit producers.  A slot once taken stays taken    *)
(* and a thread's key is written by that thread only, so that a whole      *)
(* probe sequence can be one step: what it finds does not depend on when   *)
(* each slot is read.                                                      *)
(***************************************************************************)
Home(t, k, j) == (hash_thread_id[t] + j) % Capacity(k)
SlotOf(t, k) == {i \in DOMAIN tables[k] : tables[k][i].key = t}
FirstFree(t, k) ==
  LET free == {j \in 0 .. Capacity(k) - 1 : tables[k][Home(t, k, j)].key = "invalid"}
  IN {Home(t, k, j) : j \in {x \in free : \A y \in free : x <= y}}

\* The tables, the newest first, are searched for the thread's id.
Lookup(t) ==
  /\ w[t].pc = "call" /\ Call(t) \in {"enqueue", "enqueue_bulk"}
  /\ LET main == Len(tables)
         found == {k \in 1 .. main : SlotOf(t, k) # {}}
     IN w' = [w EXCEPT ![t].main = main,
                ![t].own = IF found = {} THEN 0
                           ELSE tables[Max(found)][CHOOSE i \in SlotOf(t, Max(found)) : TRUE].value,
                ![t].pc = IF found = {} THEN "count"
                          ELSE IF Max(found) = main THEN "push" ELSE "insert"]
  /\ UNCHANGED <<script, hashVars, prodVars, rotation, alive, token, ctoken, r>>

\* The thread's key goes into the first free slot of mainHash, its producer
\* with it: a new producer, or one found in an older table.
InsertKey(t) ==
  /\ w[t].pc = "insert"
  /\ \E i \in FirstFree(t, w[t].main) :
       tables' = [tables EXCEPT ![w[t].main][i] = [key |-> t, value |-> w[t].own]]
  /\ Step(t, "push")
  /\ UNCHANGED <<script, hashCount, resizing, prodVars, rotation, alive, token, ctoken, r>>

CountThread(t) ==
  /\ w[t].pc = "count"
  /\ hashCount' = hashCount + 1
  /\ w' = [w EXCEPT ![t].newCount = hashCount + 1, ![t].pc = "grow"]
  /\ UNCHANGED <<script, tables, resizing, prodVars, rotation, alive, token, ctoken, r>>

\* At half full one thread gets to resize; the others go on.
TestAndSet(t) ==
  /\ w[t].pc = "grow"
  /\ IF w[t].newCount >= Capacity(w[t].main) \div 2
       THEN /\ resizing' = TRUE
            /\ Step(t, IF resizing THEN "room" ELSE "resize")
       ELSE UNCHANGED resizing /\ Step(t, "room")
  /\ UNCHANGED <<script, tables, hashCount, prodVars, rotation, alive, token, ctoken, r>>

NewCapacity(n, capacity) ==
  LET grown[k \in 0 .. n] == IF k = 0 THEN 2 * capacity ELSE 2 * grown[k - 1]
  IN Min({grown[k] : k \in {x \in 0 .. n : n < grown[x] \div 2}})

\* Under the flag: look again, and publish a table that has room.
Resize(t) ==
  /\ w[t].pc = "resize"
  /\ LET main == Len(tables) n == w[t].newCount IN
     IF n < Capacity(main) \div 2
       THEN w' = [w EXCEPT ![t].main = main, ![t].pc = "clear"] /\ UNCHANGED <<tables, hashCount>>
       ELSE \/ /\ tables' = Append(tables, Empty(NewCapacity(n, Capacity(main))))
               /\ w' = [w EXCEPT ![t].main = main + 1, ![t].pc = "clear"]
               /\ UNCHANGED hashCount
            \/ /\ t \in NoMemory
               /\ hashCount' = hashCount - 1
               /\ Step(t, "nomem")
               /\ UNCHANGED tables
  /\ UNCHANGED <<script, resizing, prodVars, rotation, alive, token, ctoken, r>>

ClearFlag(t) ==
  /\ w[t].pc \in {"clear", "nomem"}
  /\ resizing' = FALSE
  /\ IF w[t].pc = "clear" THEN Step(t, "room") /\ UNCHANGED script ELSE Returns(t)
  /\ UNCHANGED <<tables, hashCount, prodVars, rotation, alive, token, ctoken, r>>

\* Mutant: the thread inserts however full the table is.
EnterFullTable(t) ==
  /\ w[t].pc = "room"
  /\ w' = [w EXCEPT ![t].pc = "recycle", ![t].ptr = Len(plist)]
  /\ UNCHANGED <<script, hashVars, prodVars, rotation, alive, token, ctoken, r>>

\* Up to three quarters full there is room; else look for a newer table.
CheckRoom(t) ==
  /\ w[t].pc = "room"
  /\ w' = [w EXCEPT ![t] =
       IF @.newCount < (Capacity(@.main) \div 2) + (Capacity(@.main) \div 4)
         THEN [@ EXCEPT !.pc = "recycle", !.ptr = Len(plist)]
         ELSE [@ EXCEPT !.pc = "grow", !.main = Len(tables)]]
  /\ UNCHANGED <<script, hashVars, prodVars, rotation, alive, token, ctoken, r>>
-----------------------------------------------------------------------------
(***************************************************************************)
(* The list of producers.                                                  *)
(***************************************************************************)

\* ProducerToken's constructor begins recycle_or_create_producer(true).
MakeToken(t) ==
  /\ w[t].pc = "call" /\ Call(t) = "make_token"
  /\ w' = [w EXCEPT ![t].pc = "recycle", ![t].ptr = Len(plist)]
  /\ UNCHANGED <<script, hashVars, prodVars, rotation, alive, token, ctoken, r>>

ForToken(t) == Call(t) = "make_token"

\* One producer of the list: inactive, and of the wanted kind?
LookForInactive(t) ==
  /\ w[t].pc = "recycle"
  /\ w' = [w EXCEPT ![t] =
       IF @.ptr = 0 THEN [@ EXCEPT !.pc = "create"]
       ELSE LET x == prod[plist[@.ptr]] IN
            IF x.inactive /\ x.isExplicit = ForToken(t)
              THEN [@ EXCEPT !.pc = "claim"] ELSE [@ EXCEPT !.ptr = @ - 1]]
  /\ UNCHANGED <<script, hashVars, prodVars, rotation, alive, token, ctoken, r>>

\* The token is the producer's from here on, and the producer the token's.
Bind(t, p, ps) ==
  LET o == token[t].object + 1 IN
  /\ token' = [token EXCEPT ![t] = [object |-> o, producer |-> p]]
  /\ prod' = [ps EXCEPT ![p].token = <<t, o>>]

\* Mutant: a producer seen inactive is taken without an exchange.
TakeInactive(t) ==
  /\ w[t].pc = "claim"
  /\ LET p == plist[w[t].ptr] IN
     Bind(t, p, [prod EXCEPT ![p].inactive = FALSE]) /\ Returns(t)
  /\ UNCHANGED <<hashVars, plist, producerCount, rotation, alive, ctoken, r>>

\* inactive: true -> false, by one thread only.
ClaimInactive(t) ==
  /\ w[t].pc = "claim"
  /\ LET p == plist[w[t].ptr] IN
     IF prod[p].inactive
       THEN Bind(t, p, [prod EXCEPT ![p].inactive = FALSE]) /\ Returns(t)
       ELSE /\ w' = [w EXCEPT ![t].pc = "recycle", ![t].ptr = @ - 1]
            /\ UNCHANGED <<script, prod, token>>
  /\ UNCHANGED <<hashVars, plist, producerCount, rotation, alive, ctoken, r>>

\* create<ExplicitProducer> or create<ImplicitProducer>; add_producer counts it.
CreateProducer(t) ==
  /\ w[t].pc = "create"
  /\ \/ /\ prod' = Append(prod, [isExplicit |-> ForToken(t), inactive |-> FALSE, token |-> <<>>,
                                 enqueued |-> 0, taken |-> 0, claimed |-> 0])
        /\ producerCount' = producerCount + 1
        /\ w' = [w EXCEPT ![t].own = Len(prod) + 1, ![t].ptr = Len(plist), ![t].pc = "link"]
        /\ UNCHANGED <<script, hashCount>>
     \/ /\ t \in NoMemory
        /\ hashCount' = IF ForToken(t) THEN hashCount ELSE hashCount - 1
        /\ Returns(t)
        /\ UNCHANGED <<prod, producerCount>>
  /\ UNCHANGED <<tables, resizing, plist, rotation, alive, token, ctoken, r>>

\* add_producer: producer->next = prevTail, and the exchange of producerListTail.
LinkProducer(t) ==
  /\ w[t].pc = "link"
  /\ IF w[t].ptr # Len(plist)
       THEN w' = [w EXCEPT ![t].ptr = Len(plist)] /\ UNCHANGED <<script, plist, prod, token>>
       ELSE /\ plist' = Append(plist, w[t].own)
            /\ IF ForToken(t) THEN Bind(t, w[t].own, prod) /\ Returns(t)
               ELSE Step(t, "insert") /\ UNCHANGED <<script, prod, token>>
  /\ UNCHANGED <<hashVars, producerCount, rotation, alive, ctoken, r>>

recycle_or_create_producer(t) == LookForInactive(t) \/ ClaimInactive(t) \/ CreateProducer(t)

get_or_add_implicit_producer(t) ==
  \/ Lookup(t) \/ InsertKey(t) \/ CountThread(t)
  \/ TestAndSet(t) \/ Resize(t) \/ ClearFlag(t) \/ CheckRoom(t)

\* inner_enqueue and inner_enqueue_bulk with a token: no search.  A caller whose
\* token is not valid() does not enqueue.
EnqueueByToken(t) ==
  /\ w[t].pc = "call" /\ Call(t) \in {"token_enqueue", "token_enqueue_bulk"}
  /\ IF token[t].producer = 0 THEN Returns(t)
     ELSE w' = [w EXCEPT ![t].own = token[t].producer, ![t].pc = "push"] /\ UNCHANGED script
  /\ UNCHANGED <<hashVars, prodVars, rotation, alive, token, ctoken, r>>

\* The sub-queue's enqueue or enqueue_bulk: all of the elements or, without
\* memory for a block, none.
Push(t) ==
  /\ w[t].pc = "push"
  /\ \/ /\ prod' = [prod EXCEPT ![w[t].own].enqueued = @ + Count(t)]
        /\ Step(t, "signal")
        /\ UNCHANGED script
     \/ t \in NoMemory /\ Returns(t) /\ UNCHANGED prod
  /\ UNCHANGED <<hashVars, plist, producerCount, rotation, alive, token, ctoken, r>>

\* ProducerToken(ProducerToken&&): the new object takes the producer over.
MoveToken(t) ==
  /\ w[t].pc = "call" /\ Call(t) = "move_token"
  /\ IF token[t].producer = 0
       THEN token' = [token EXCEPT ![t].object = @ + 1] /\ UNCHANGED prod
       ELSE Bind(t, token[t].producer, prod)
  /\ Returns(t)
  /\ UNCHANGED <<hashVars, plist, producerCount, rotation, alive, ctoken, r>>

\* ~ProducerToken: the producer, if there is one, may be recycled.
DropToken(t) ==
  /\ w[t].pc = "call" /\ Call(t) = "drop_token"
  /\ LET p == token[t].producer IN
     prod' = IF p = 0 THEN prod
             ELSE [prod EXCEPT ![p].token = <<>>, ![p].inactive = TRUE]
  /\ token' = [token EXCEPT ![t].producer = 0]
  /\ Returns(t)
  /\ UNCHANGED <<hashVars, plist, producerCount, rotation, alive, ctoken, r>>

\* ~ConcurrentQueue, once all that is left to do is to drop tokens.
Destroy ==
  /\ alive
  /\ \A t \in Writers : w[t].pc = "call" /\ script[t] \in {<<>>, <<"drop_token">>}
  /\ \A t \in Readers : r[t].pc = "call" /\ script[t] = <<>>
  /\ alive' = FALSE
  /\ token' = [t \in Writers |->
       IF \E p \in DOMAIN prod : prod[p].token = <<t, token[t].object>>
         THEN [token[t] EXCEPT !.producer = 0] ELSE token[t]]
  /\ prod' = [p \in DOMAIN prod |-> [prod[p] EXCEPT !.token = <<>>]]
  /\ UNCHANGED <<script, hashVars, plist, producerCount, rotation, ctoken, w, r>>

enqueue(t) ==
  \/ get_or_add_implicit_producer(t) \/ EnqueueByToken(t) \/ Push(t)
  \/ MakeToken(t) \/ recycle_or_create_producer(t) \/ LinkProducer(t)
  \/ MoveToken(t) \/ DropToken(t)
-----------------------------------------------------------------------------
(***************************************************************************)
(* Dequeuing.  "inner" is where a call of the inner queue begins and ends; *)
(* it is over for good once the reader has all the elements it wants.      *)
(***************************************************************************)
Back(x) == [R0 EXCEPT !.pc = "inner", !.have = x.have, !.want = x.want]
TokenCall(t) == Call(t) \in {"token_dequeue", "token_dequeue_bulk"}
Position(p) == CHOOSE i \in DOMAIN plist : plist[i] = p

\* Mutant: at the end of the list the search stays there.
LastPosition(i, tail) == IF i = 1 THEN 1 ELSE i - 1
NextPosition(i, tail) == IF i = 1 THEN tail ELSE i - 1   \* next_prod, or the tail

\* ptr->dequeue begins: it loads the sub-queue's tail.
Enter(x, p, after) ==
  [x EXCEPT !.pc = "check", !.at = p, !.seen = prod[p].enqueued, !.after = after]

\* The call's elements are all there, or what the caller does next.
Continue(t, x, n) ==
  CASE x.have = x.want /\ x.after = "first" /\
         (IF Bulk(t) THEN ctoken[t].items + n >= QUOTA ELSE ctoken[t].items + n = QUOTA)
         -> [x EXCEPT !.pc = "bump"]
    [] x.have = x.want -> Back(x)
    [] x.have # x.want /\ x.after = "best" -> [x EXCEPT !.pc = "walk", !.ptr = Len(plist)]
    [] x.have # x.want /\ x.after = "walk" -> [x EXCEPT !.pc = "walk", !.ptr = @ - 1]
    [] x.have # x.want /\ x.after = "first" ->
         [x EXCEPT !.pc = "ring", !.stop = Len(plist),
                   !.ptr = NextPosition(Position(x.at), Len(plist))]
    [] OTHER -> [x EXCEPT !.pc = "ring", !.ptr = NextPosition(@, x.stop)]

Leave(t, x, n) ==
  /\ r' = [r EXCEPT ![t] = [Continue(t, x, n) EXCEPT !.at = 0, !.seen = 0, !.after = "call"]]
  /\ ctoken' = [ctoken EXCEPT ![t] =
       CASE x.after = "first" -> [@ EXCEPT !.items = @ + n]
         [] x.after = "ring" /\ n > 0 -> [@ EXCEPT !.current = x.at, !.items = n]
         [] OTHER -> @]

\* What a dequeue (or dequeue_bulk) of one sub-queue wants, given the tail it saw.
Desired(x) == Min({x.want - x.have, x.seen - (prod[x.at].taken + prod[x.at].claimed)})

\* It fails, or goes on to claim what it saw.
CheckElements(t) ==
  /\ r[t].pc = "check"
  /\ IF Desired(r[t]) > 0
       THEN r' = [r EXCEPT ![t].pc = "claim", ![t].seen = Desired(r[t])] /\ UNCHANGED ctoken
       ELSE Leave(t, r[t], 0)
  /\ UNCHANGED <<script, hashVars, prodVars, rotation, alive, token, w>>

ClaimElements(t) ==
  /\ r[t].pc = "claim"
  /\ prod' = [prod EXCEPT ![r[t].at].claimed = @ + r[t].seen]
  /\ r' = [r EXCEPT ![t].pc = "take"]
  /\ UNCHANGED <<script, hashVars, plist, producerCount, rotation, alive, token, ctoken, w>>

\* It takes what there is of its claim and gives back the rest.
TakeElements(t) ==
  /\ r[t].pc = "take"
  /\ LET x == r[t]
         n == Min({x.seen, prod[x.at].enqueued - prod[x.at].taken})
     IN /\ prod' = [prod EXCEPT ![x.at].claimed = @ - x.seen, ![x.at].taken = @ + n]
        /\ Leave(t, [x EXCEPT !.have = @ + n], n)
  /\ UNCHANGED <<script, hashVars, plist, producerCount, rotation, alive, token, w>>

\* try_dequeue begins: the sizes of the first producers, up to three non-empty.
StartScan(t) ==
  /\ r[t].pc = "inner" /\ r[t].have # r[t].want /\ Call(t) \in {"dequeue", "try_dequeue"}
  /\ r' = [r EXCEPT ![t].pc = "scan", ![t].ptr = Len(plist)]
  /\ UNCHANGED <<script, hashVars, prodVars, rotation, alive, token, ctoken, w>>

size_approx(p) == prod[p].enqueued - prod[p].taken

Scan(t) ==
  /\ r[t].pc = "scan"
  /\ r' = [r EXCEPT ![t] =
       IF @.nonEmpty = 3 \/ @.ptr = 0
         THEN IF @.best = 0 THEN Back(@) ELSE Enter(@, @.best, "best")
         ELSE LET p == plist[@.ptr] IN
              [@ EXCEPT !.ptr = @ - 1,
                        !.nonEmpty = IF size_approx(p) > 0 THEN @ + 1 ELSE @,
                        !.seen = IF size_approx(p) > @ THEN size_approx(p) ELSE @,
                        !.best = IF size_approx(p) > r[t].seen THEN p ELSE @]]
  /\ UNCHANGED <<script, hashVars, prodVars, rotation, alive, token, ctoken, w>>

\* try_dequeue_bulk and try_dequeue_non_interleaved go down the list at once.
StartWalk(t) ==
  /\ r[t].pc = "inner" /\ r[t].have # r[t].want
  /\ Call(t) \in {"dequeue_bulk", "non_interleaved"}
  /\ r' = [r EXCEPT ![t].pc = "walk", ![t].ptr = Len(plist)]
  /\ UNCHANGED <<script, hashVars, prodVars, rotation, alive, token, ctoken, w>>

\* The next producer of the list but the one already tried.
Walk(t) ==
  /\ r[t].pc = "walk"
  /\ r' = [r EXCEPT ![t] =
       IF @.ptr = 0 THEN Back(@)
       ELSE IF plist[@.ptr] = @.best THEN [@ EXCEPT !.ptr = @ - 1]
       ELSE Enter(@, plist[@.ptr], "walk")]
  /\ UNCHANGED <<script, hashVars, prodVars, rotation, alive, token, ctoken, w>>

MakeConsumerToken(t) ==
  /\ r[t].pc = "inner" /\ TokenCall(t) /\ ctoken[t].initialOffset = -1
  /\ ctoken' = [ctoken EXCEPT ![t].initialOffset = nextConsumerId]
  /\ nextConsumerId' = nextConsumerId + 1
  /\ UNCHANGED <<script, hashVars, prodVars, offset, alive, token, w, r>>

\* n producers on from position i, past the end of the list to its tail.
Forward(i, n) == ((i - 1 - n) % Len(plist)) + 1

update_current_producer_after_rotation(t) ==
  LET k == ctoken[t]
      start == IF k.desired = 0
                 THEN Forward(Len(plist), producerCount - 1 - (k.initialOffset % producerCount))
                 ELSE Position(k.desired)
      p == plist[Forward(start, (offset - k.lastKnown) % producerCount)]
  IN [k EXCEPT !.desired = p, !.current = p, !.lastKnown = offset, !.items = 0]

\* try_dequeue(token): rotate if some consumer has used its quota, then begin
\* with the current producer.  There is one: the reader has a permit.
StartToken(t) ==
  /\ r[t].pc = "inner" /\ r[t].have # r[t].want
  /\ TokenCall(t) /\ ctoken[t].initialOffset # -1
  /\ LET k == IF ctoken[t].desired = 0 \/ ctoken[t].lastKnown # offset
                THEN update_current_producer_after_rotation(t) ELSE ctoken[t]
     IN /\ ctoken' = [ctoken EXCEPT ![t] = k]
        /\ r' = [r EXCEPT ![t] = Enter(@, k.current, "first")]
  /\ UNCHANGED <<script, hashVars, prodVars, rotation, alive, token, w>>

Rotate(t) ==
  /\ r[t].pc = "bump"
  /\ offset' = offset + 1
  /\ r' = [r EXCEPT ![t] = Back(@)]
  /\ UNCHANGED <<script, hashVars, prodVars, nextConsumerId, alive, token, ctoken, w>>

\* Round the list, from the current producer on, back to the current producer.
Ring(t) ==
  /\ r[t].pc = "ring"
  /\ r' = [r EXCEPT ![t] =
       IF plist[@.ptr] = ctoken[t].current THEN Back(@) ELSE Enter(@, plist[@.ptr], "ring")]
  /\ UNCHANGED <<script, hashVars, prodVars, rotation, alive, token, ctoken, w>>

dequeue(t) ==
  \/ StartScan(t) \/ Scan(t) \/ StartWalk(t) \/ Walk(t)
  \/ MakeConsumerToken(t) \/ StartToken(t) \/ Rotate(t) \/ Ring(t)
  \/ CheckElements(t) \/ ClaimElements(t) \/ TakeElements(t)
-----------------------------------------------------------------------------
(***************************************************************************)
(* A sub-queue has one writer.  The producers two threads may enqueue      *)
(* through, found in the hash tables or held by a token, are different,    *)
(* none of them waits to be recycled, and a thread has one implicit        *)
(* producer however often the table has been resized.  A token and its     *)
(* producer point to each other, and no token points into a destroyed      *)
(* queue.                                                                  *)
(***************************************************************************)
Implicit(t) ==
  UNION {{tables[k][i].value : i \in SlotOf(t, k)} : k \in DOMAIN tables}
OwnedBy(t) == Implicit(t) \cup ({token[t].producer} \ {0})

SubqueueHasOneWriter ==
  /\ \A t \in Writers : /\ Cardinality(Implicit(t)) <= 1
                        /\ \A p \in OwnedBy(t) : ~prod[p].inactive
                        /\ \A u \in Writers \ {t} : OwnedBy(t) \cap OwnedBy(u) = {}
  /\ \A t \in Writers : token[t].producer # 0 =>
       alive /\ prod[token[t].producer].token = <<t, token[t].object>>

(***************************************************************************)
(* "Not an infinite loop because at least one slot is free in the hash     *)
(* table" (line 3282): no table of the chain ever gets to three quarters   *)
(* full, whatever threads register, resize and move their keys at once, so *)
(* that probing for a thread that is not there ends.                       *)
(***************************************************************************)
ProbingEnds ==
  \A k \in DOMAIN tables :
    LET keys == {i \in DOMAIN tables[k] : tables[k][i].key # "invalid"}
    IN keys # {} => Cardinality(keys) < (Capacity(k) \div 2) + (Capacity(k) \div 4)
=============================================================================
