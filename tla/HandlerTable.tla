---------------------------- MODULE HandlerTable ----------------------------
(***************************************************************************)
(* The handler tables of fp::GlobalEventManager and its epoll set          *)
(* (fastpath/event/GlobalEventManager.cpp, arch/linux/PollManager.cpp),    *)
(* under the lock of RWLock.  The session thread looks handlers up and     *)
(* calls them with the lock held shared; application threads register and  *)
(* unregister.                                                             *)
(*                                                                         *)
(* A call is the sequence of the steps it has still to take, in the order  *)
(* of the code, so that a table access and the lock operations around it   *)
(* interleave with those of the other threads.  The IO handlers share one  *)
(* descriptor; a timer or a signal has one handler.                        *)
(***************************************************************************)
EXTENDS RWLock, Sequences

CONSTANTS SessionThread,
          Descriptor,  \* the descriptor of all IO handlers
          IOHandlers, TimerHandlers, SignalHandlers,
          NoHandler

ASSUME TablesAssumption == SessionThread \in Threads /\ Depth > 0

Handlers == IOHandlers \cup TimerHandlers \cup SignalHandlers

ASSUME HandlersAssumption ==
  Descriptor \notin Handlers /\ NoHandler \notin Handlers /\ IOHandlers \cap SignalHandlers = {}

Keys == {Descriptor} \cup TimerHandlers \cup SignalHandlers
KeyOf(h) == IF h \in IOHandlers THEN Descriptor ELSE h

VARIABLES table,   \* the three lookups, as sequences of handlers by key
          epoll,   \* the keys epoll watches
          call,    \* of each thread: the steps to go and the handler
          status   \* of each handler: "new", "registered", "unregistered"

tableVars == <<table, epoll, call, status>>
handlerVars == <<lockVars, tableVars>>

NoCall == [todo |-> <<>>, handler |-> NoHandler]

TablesInit ==
  /\ LockInit
  /\ table = [k \in Keys |-> <<>>]
  /\ epoll = {}
  /\ call = [t \in Threads |-> NoCall]
  /\ status = [h \in Handlers |-> "new"]
-----------------------------------------------------------------------------
(* The calls.                                                              *)

Idle(t) == call[t].todo = <<>>
Begin(t, h, steps) == call' = [call EXCEPT ![t] = [todo |-> steps, handler |-> h]]

\* Mutant: the entry is added before the lock is taken.
registerHandlerUnlocked(t, h) ==
  /\ t # SessionThread /\ Idle(t)
  /\ status[h] = "new" /\ \A u \in Threads : call[u].handler # h
  /\ Begin(t, h, <<"insert", "lock", "unlock", "epollAdd">>)
  /\ UNCHANGED <<lockVars, table, epoll, status>>

registerHandler(t, h) ==
  /\ t # SessionThread /\ Idle(t)
  /\ status[h] = "new" /\ \A u \in Threads : call[u].handler # h
  /\ Begin(t, h, <<"lock", "insert", "unlock", "epollAdd">>)
  /\ UNCHANGED <<lockVars, table, epoll, status>>

unregisterHandler(t, h) ==
  /\ t # SessionThread /\ Idle(t)
  /\ status[h] = "registered" /\ \A u \in Threads : call[u].handler # h
  /\ Begin(t, h, <<"share", "find">>)
  /\ UNCHANGED <<lockVars, table, epoll, status>>

\* foreach_event_matching, foreach_timer_matching, foreach_signal_matching
foreach ==
  /\ Idle(SessionThread)
  /\ epoll # {}
  /\ Begin(SessionThread, NoHandler, <<"share", "iterate", "unshare">>)
  /\ UNCHANGED <<lockVars, table, epoll, status>>
-----------------------------------------------------------------------------
(* The steps.                                                              *)

At(t, step) == ~Idle(t) /\ Head(call[t].todo) = step
Done(t) == call' = [call EXCEPT ![t].todo = Tail(@)]
DoneIf(t, won) == IF won THEN Done(t) ELSE UNCHANGED call
Finish(t, s) ==
  /\ call' = [call EXCEPT ![t] = NoCall]
  /\ status' = [status EXCEPT ![call[t].handler] = s]

\* The lock operations; an attempt that is refused leaves its step to do.
LockStep(t) ==
  /\ \/ At(t, "lock") /\ try_lock(t) /\ Done(t)
     \/ At(t, "unlock") /\ unlock(t) /\ Done(t)
     \/ At(t, "share") /\ try_lock_shared(<<t, 1>>)
          /\ DoneIf(t, reads'[<<t, 1>>] = "held")
     \/ At(t, "share") /\ back_off_shared(<<t, 1>>) /\ UNCHANGED call
     \/ At(t, "upgrade") /\ try_lock_upgrade(t) /\ DoneIf(t, owner'[t] = "upgraded")
     \/ At(t, "downgrade") /\ unlock_upgrade(t) /\ Done(t)
  /\ UNCHANGED <<table, epoll, status>>

insert(t) ==
  /\ At(t, "insert")
  /\ table' = [table EXCEPT ![KeyOf(call[t].handler)] = Append(@, call[t].handler)]
  /\ Done(t)
  /\ UNCHANGED <<lockVars, epoll, status>>

\* epoll refuses a descriptor it already watches, and register returns false.
epollAdd(t) ==
  /\ At(t, "epollAdd")
  /\ epoll' = epoll \cup {KeyOf(call[t].handler)}
  /\ Finish(t, "registered")
  /\ UNCHANGED <<lockVars, table>>

AfterFind(h) ==
  LET events == table[KeyOf(h)] IN
  IF ~\E i \in DOMAIN events : events[i] = h THEN <<"unshare">>
  ELSE IF h \in SignalHandlers
    THEN <<"erase", "upgrade", "epollRemove", "downgrade", "unshare">>
  ELSE IF Len(events) = 1
    THEN <<"epollRemove", "upgrade", "erase", "downgrade", "unshare">>
  ELSE <<"upgrade", "eraseFromCopy", "downgrade", "unshare">>

find(t) ==
  /\ At(t, "find")
  /\ call' = [call EXCEPT ![t].todo = AfterFind(call[t].handler)]
  /\ UNCHANGED <<lockVars, table, epoll, status>>

epollRemove(t) ==
  /\ At(t, "epollRemove")
  /\ epoll' = epoll \ {KeyOf(call[t].handler)}
  /\ Done(t)
  /\ UNCHANGED <<lockVars, table, status>>

erase(t) ==
  /\ At(t, "erase")
  /\ table' = [table EXCEPT ![KeyOf(call[t].handler)] = <<>>]
  /\ Done(t)
  /\ UNCHANGED <<lockVars, epoll, status>>

\* registered_events is a copy of the entry: the table keeps the handler.
eraseFromCopy(t) ==
  /\ At(t, "eraseFromCopy")
  /\ Done(t)
  /\ UNCHANGED <<lockVars, table, epoll, status>>

iterate(t) ==
  /\ At(t, "iterate")
  /\ Done(t)
  /\ UNCHANGED <<lockVars, table, epoll, status>>

unshare(t) ==
  /\ At(t, "unshare")
  /\ unlock_shared(<<t, 1>>)
  /\ IF t = SessionThread
       THEN call' = [call EXCEPT ![t] = NoCall] /\ UNCHANGED status
       ELSE Finish(t, "unregistered")
  /\ UNCHANGED <<table, epoll>>
-----------------------------------------------------------------------------
TablesNext ==
  \/ \E t \in Threads, h \in Handlers : registerHandler(t, h) \/ unregisterHandler(t, h)
  \/ foreach
  \/ \E t \in Threads :
       \/ LockStep(t)
       \/ insert(t) \/ epollAdd(t)
       \/ find(t) \/ epollRemove(t) \/ erase(t) \/ eraseFromCopy(t)
       \/ iterate(t) \/ unshare(t)

TablesSpec == TablesInit /\ [][TablesNext]_handlerVars
-----------------------------------------------------------------------------
(* A handler being inserted has the tables to itself: no other thread is   *)
(* looking up, iterating, inserting or erasing (registerHandler, under     *)
(* lock()).                                                                *)
InsertIsExclusive ==
  \A t, u \in Threads : t # u /\ At(t, "insert") =>
    ~\E s \in {"insert", "find", "iterate", "erase"} : At(u, s)

(* The inductive invariant behind it: a call that has an insertion before  *)
(* it has the lock for itself, or is about to take it, and one that has a  *)
(* lookup before it holds the lock shared, or is about to.                 *)
InsertGuarded(t) ==
  \A i \in 1 .. Len(call[t].todo) : call[t].todo[i] = "insert" =>
    \/ i = 1 /\ owner[t] = "writer"
    \/ i = 2 /\ call[t].todo[1] = "lock"

LookupGuarded(t) ==
  \A i \in 1 .. Len(call[t].todo) : call[t].todo[i] \in {"find", "iterate", "erase"} =>
    \/ reads[<<t, 1>>] = "held"
    \/ i > 1 /\ call[t].todo[1] = "share"

Steps == {"lock", "insert", "unlock", "epollAdd", "share", "find", "iterate", "unshare",
          "epollRemove", "upgrade", "erase", "eraseFromCopy", "downgrade"}

TablesInv ==
  /\ LockInv
  /\ call \in [Threads -> [todo : Seq(Steps), handler : Handlers \cup {NoHandler}]]
  /\ \A t \in Threads : InsertGuarded(t) /\ LookupGuarded(t)

(* Whenever no registration or removal is under way epoll watches exactly  *)
(* the keys that have handlers: the window between the table and the epoll *)
(* set, which are changed in different critical sections, always closes,   *)
(* also when a handler of the same descriptor is added while another goes. *)
(* And no call leaves the lock behind: when all threads are outside a call *)
(* no reader is counted and no bit is set, whatever attempts were refused. *)
QuiescentTables ==
  /\ (\A t \in Threads \ {SessionThread} : Idle(t)) =>
       \A k \in Keys : k \in epoll <=> table[k] # <<>>
  /\ (\A t \in Threads : Idle(t)) => m_bits = 0

(* The inductive invariant behind it.  First, the order of the steps that  *)
(* a call has left, and which of them come together.                       *)
StepsIn(s) == {s[i] : i \in 1 .. Len(s)}
Left(t) == StepsIn(call[t].todo)

Ordered(s) ==
  \A i, j \in 1 .. Len(s) : i < j =>
    /\ s[i] # s[j]
    /\ s[i] \notin {"find", "unshare", "epollAdd"} /\ s[j] \notin {"lock", "share"}
    /\ s[i] = "unlock" => s[j] # "insert"
    /\ s[i] = "downgrade" => s[j] # "upgrade"

Closed(steps) ==
  /\ "lock" \in steps => "insert" \in steps
  /\ "insert" \in steps => "unlock" \in steps
  /\ "unlock" \in steps => "epollAdd" \in steps
  /\ "epollAdd" \in steps => steps \subseteq {"lock", "insert", "unlock", "epollAdd"}
  /\ "upgrade" \in steps => "downgrade" \in steps
  /\ "share" \in steps => /\ steps \cap {"find", "unshare"} # {}
                          /\ steps \subseteq {"share", "find", "iterate", "unshare"}
  /\ steps \cap {"iterate", "erase", "eraseFromCopy", "epollRemove", "downgrade"} # {} =>
       "unshare" \in steps

\* What a thread holds of the lock is what its call has yet to give back.
Balanced(t) ==
  /\ owner[t] = IF "unlock" \in Left(t) /\ "lock" \notin Left(t) THEN "writer"
                ELSE IF "downgrade" \in Left(t) /\ "upgrade" \notin Left(t) THEN "upgraded"
                ELSE "none"
  /\ reads[<<t, 1>>] = "held" <=> "share" \notin Left(t) /\ Left(t) \cap {"find", "unshare"} # {}
  /\ reads[<<t, 1>>] = "failing" => "share" \in Left(t)
  /\ \A d \in 1 .. Depth : d # 1 => reads[<<t, d>>] = "none"

\* Only the session's thread calls without a handler, and no two calls have the same.
OneCallEach ==
  /\ Left(SessionThread) \subseteq {"share", "iterate", "unshare"}
  /\ \A t \in Threads \ {SessionThread} : Left(t) # {} => call[t].handler \in Handlers
  /\ \A t, u \in Threads : call[t].handler \in Handlers /\ call[u].handler = call[t].handler => t = u

Entered(h) == \E i \in 1 .. Len(table[KeyOf(h)]) : table[KeyOf(h)][i] = h

\* Between the entry in the table and in epoll, and between their removals
Adding(t) == "epollAdd" \in Left(t) /\ "insert" \notin Left(t)
Withdrawn(t) == "erase" \in Left(t) /\ "epollRemove" \notin Left(t)
Erased(t) == "epollRemove" \in Left(t) /\ "erase" \notin Left(t)
CallKey(t) == KeyOf(call[t].handler)

EntriesInv ==
  /\ \A h \in Handlers : Entered(h) =>
       status[h] # "new" \/ \E t \in Threads : Adding(t) /\ call[t].handler = h
  /\ \A k \in SignalHandlers : table[k] \in {<<>>, <<k>>}
  /\ \A t \in Threads :
       /\ "insert" \in Left(t) => status[call[t].handler] = "new"
       /\ Adding(t) => Entered(call[t].handler)
       /\ "erase" \in Left(t) => table[CallKey(t)] = <<call[t].handler>>
       /\ Withdrawn(t) => CallKey(t) \notin epoll
       /\ Erased(t) => table[CallKey(t)] = <<>>
  /\ \A k \in Keys :
       /\ table[k] # <<>> /\ k \notin epoll =>
            \E t \in Threads : (Adding(t) \/ Withdrawn(t)) /\ CallKey(t) = k
       /\ table[k] = <<>> /\ k \in epoll => \E t \in Threads : Erased(t) /\ CallKey(t) = k

QuiescenceInv ==
  /\ TablesInv
  /\ table \in [Keys -> Seq(Handlers)] /\ status \in [Handlers -> {"new", "registered", "unregistered"}]
  /\ \A t \in Threads : Ordered(call[t].todo) /\ Closed(Left(t)) /\ Balanced(t)
  /\ OneCallEach
  /\ EntriesInv

(* A handler erased under lock_upgrade has the tables to itself: "upgrade  *)
(* read lock to write lock" (GlobalEventManager.cpp:107 and 144).          *)
EraseIsExclusive ==
  \A t, u \in Threads : t # u /\ At(t, "erase") /\ owner[t] = "upgraded" =>
    ~\E s \in {"insert", "find", "iterate", "erase"} : At(u, s)
=============================================================================
