------------------------- MODULE HandlerTableProofs -------------------------
(***************************************************************************)
(* Who registers a handler has the tables to itself, for any finite set of *)
(* threads and any handlers: the lock's own invariant, and what each call  *)
(* holds of the lock where it stands.  Then, towards QuiescenceInv: what   *)
(* a call has left to do, and that the steps which leave the tables alone  *)
(* and the beginnings of calls keep it (the rest is in QuiescenceProofs).  *)
(***************************************************************************)
EXTENDS HandlerTable, TLAPS

(* What is left of a call after its next step.                             *)
LEMMA TodoTail ==
  ASSUME NEW s \in Seq(Steps), s # <<>>
  PROVE  /\ Tail(s) \in Seq(Steps) /\ Head(s) = s[1] /\ Len(s) > 0
         /\ Len(Tail(s)) = Len(s) - 1
         /\ \A i \in 1 .. Len(Tail(s)) : i + 1 \in 1 .. Len(s) /\ Tail(s)[i] = s[i + 1]
  OBVIOUS

(* A step of one thread that leaves the others where they were needs only  *)
(* be looked at for that thread.                                           *)
LEMMA OneThread ==
  ASSUME TablesInv, LockInv', NEW t \in Threads,
         call' \in [Threads -> [todo : Seq(Steps), handler : Handlers \cup {NoHandler}]],
         \A u \in Threads \ {t} : /\ call'[u] = call[u] /\ owner'[u] = owner[u]
                                  /\ reads'[<<u, 1>>] = reads[<<u, 1>>],
         InsertGuarded(t)', LookupGuarded(t)'
  PROVE  TablesInv'
<1>1. ASSUME NEW u \in Threads, u # t PROVE InsertGuarded(u)' /\ LookupGuarded(u)'
  <2>1. call'[u] = call[u] /\ owner'[u] = owner[u] /\ reads'[<<u, 1>>] = reads[<<u, 1>>]
    BY <1>1
  <2> QED
    BY <2>1 DEF TablesInv, InsertGuarded, LookupGuarded
<1> QED
  BY <1>1 DEF TablesInv

(* A thread that makes the next step of its call stays guarded, if the     *)
(* step took the lock where the call asked for it and released it nowhere  *)
(* in front of a lookup.                                                   *)
LEMMA DoneGuarded ==
  ASSUME TablesInv, NEW t \in Threads, ~Idle(t), Done(t),
         Head(call[t].todo) = "lock" => owner'[t] = "writer",
         Head(call[t].todo) = "share" => reads'[<<t, 1>>] = "held",
         reads[<<t, 1>>] = "held" => reads'[<<t, 1>>] = "held"
  PROVE  /\ call' \in [Threads -> [todo : Seq(Steps), handler : Handlers \cup {NoHandler}]]
         /\ \A u \in Threads \ {t} : call'[u] = call[u]
         /\ InsertGuarded(t)' /\ LookupGuarded(t)'
<1> DEFINE s == call[t].todo
<1>1. s \in Seq(Steps) /\ s # <<>>
  BY DEF TablesInv, Idle
<1>2. /\ Tail(s) \in Seq(Steps) /\ Head(s) = s[1]
      /\ Len(Tail(s)) = Len(s) - 1
      /\ \A i \in 1 .. Len(Tail(s)) : i + 1 \in 1 .. Len(s) /\ Tail(s)[i] = s[i + 1]
  BY <1>1, TodoTail
<1>3. /\ call' \in [Threads -> [todo : Seq(Steps), handler : Handlers \cup {NoHandler}]]
      /\ \A u \in Threads \ {t} : call'[u] = call[u]
      /\ call'[t].todo = Tail(s)
  BY <1>2, Zenon DEF TablesInv, Done
<1>4. InsertGuarded(t)'
  BY <1>2, <1>3 DEF TablesInv, InsertGuarded
<1>5. LookupGuarded(t)'
  BY <1>2, <1>3 DEF TablesInv, LookupGuarded
<1> QED
  BY <1>3, <1>4, <1>5

(* No call is in progress at first.                                        *)
LEMMA InitTablesInv == TablesInit /\ LockInv => TablesInv
<1> SUFFICES ASSUME TablesInit, LockInv PROVE TablesInv
  OBVIOUS
<1>1. <<>> \in Seq(Steps) /\ Len(<<>>) = 0
  OBVIOUS
<1> QED
  BY <1>1 DEF TablesInit, TablesInv, NoCall, InsertGuarded, LookupGuarded

(* A call begins with the lock operation its table accesses need.          *)
LEMMA BeginKeepsInv ==
  ASSUME TablesInv, NEW t \in Threads, NEW h \in Handlers \cup {NoHandler},
         NEW steps \in {<<"lock", "insert", "unlock", "epollAdd">>, <<"share", "find">>,
                        <<"share", "iterate", "unshare">>},
         Begin(t, h, steps), UNCHANGED lockVars, LockInv'
  PROVE  TablesInv'
<1>1. /\ steps \in Seq(Steps)
      /\ \A i \in 1 .. Len(steps) : steps[i] = "insert" => i = 2 /\ steps[1] = "lock"
      /\ \A i \in 1 .. Len(steps) : steps[i] \in {"find", "iterate", "erase"} =>
           i > 1 /\ steps[1] = "share"
  <2>1. CASE steps = <<"lock", "insert", "unlock", "epollAdd">>
    BY <2>1 DEF Steps
  <2>2. CASE steps = <<"share", "find">>
    BY <2>2 DEF Steps
  <2>3. CASE steps = <<"share", "iterate", "unshare">>
    BY <2>3 DEF Steps
  <2> QED
    BY <2>1, <2>2, <2>3
<1>2. /\ call' \in [Threads -> [todo : Seq(Steps), handler : Handlers \cup {NoHandler}]]
      /\ \A u \in Threads \ {t} : call'[u] = call[u]
      /\ call'[t].todo = steps
  BY <1>1 DEF TablesInv, Begin
<1>3. InsertGuarded(t)'
  BY <1>1, <1>2 DEF InsertGuarded
<1>4. LookupGuarded(t)'
  BY <1>1, <1>2 DEF LookupGuarded
<1> QED
  BY <1>2, <1>3, <1>4, OneThread DEF lockVars

(* The operations on the lock: each is a step of RWLock.                   *)
LEMMA LockStepKeepsInv ==
  ASSUME TablesInv, LockInv', NEW t \in Threads, LockStep(t)
  PROVE  TablesInv'
<1> DEFINE h == <<t, 1>>
<1>1. h \in Holds /\ h[1] = t
  BY TablesAssumption, DepthAssumption DEF Holds
<1>4. LockTypeOK
  BY DEF TablesInv, LockInv
<1>5. \A u \in Threads \ {t} : owner'[u] = owner[u] /\ reads'[<<u, 1>>] = reads[<<u, 1>>]
  <2> SUFFICES ASSUME NEW u \in Threads \ {t}
               PROVE  owner'[u] = owner[u] /\ reads'[<<u, 1>>] = reads[<<u, 1>>]
    OBVIOUS
  <2>1. <<u, 1>> \in Holds /\ <<u, 1>> # h
    BY TablesAssumption, DepthAssumption DEF Holds
  <2> QED
    BY <1>1, <1>4, <2>1 DEF LockStep, LockTypeOK, try_lock, unlock, try_lock_shared,
       back_off_shared, try_lock_upgrade, unlock_upgrade, Own, Hold
<1>6. CASE At(t, "lock") /\ try_lock(t) /\ Done(t)
  <2>1. ~Idle(t) /\ Head(call[t].todo) = "lock" /\ owner'[t] = "writer" /\ UNCHANGED reads
    BY <1>4, <1>6 DEF At, try_lock, Own, LockTypeOK
  <2> QED
    BY <1>5, <1>6, <2>1, DoneGuarded, OneThread, Zenon
<1>7. CASE At(t, "unlock") /\ unlock(t) /\ Done(t)
  <2>1. ~Idle(t) /\ Head(call[t].todo) = "unlock" /\ UNCHANGED reads
    BY <1>7 DEF At, unlock
  <2> QED
    BY <1>5, <1>7, <2>1, DoneGuarded, OneThread, Zenon
<1>8. CASE /\ At(t, "share") /\ try_lock_shared(h)
           /\ DoneIf(t, reads'[h] = "held")
  <2>1. ~Idle(t) /\ Head(call[t].todo) = "share" /\ UNCHANGED owner /\ reads[h] # "held"
    BY <1>8 DEF At, try_lock_shared
  <2>2. CASE reads'[h] = "held"
    <3>1. Done(t)
      BY <1>8, <2>2 DEF DoneIf
    <3> QED
      BY <1>5, <2>1, <2>2, <3>1, DoneGuarded, OneThread
  <2>3. CASE reads'[h] # "held"
    <3>1. UNCHANGED call
      BY <1>8, <2>3 DEF DoneIf
    <3>2. InsertGuarded(t)' /\ LookupGuarded(t)'
      BY <2>1, <3>1, Zenon DEF TablesInv, InsertGuarded, LookupGuarded
    <3> QED
      BY <1>5, <3>1, <3>2, OneThread DEF TablesInv
  <2> QED
    BY <2>2, <2>3
<1>9. CASE At(t, "share") /\ back_off_shared(h) /\ UNCHANGED call
  <2>1. UNCHANGED owner /\ reads[h] # "held"
    BY <1>9 DEF back_off_shared
  <2>2. InsertGuarded(t)' /\ LookupGuarded(t)'
    BY <1>9, <2>1 DEF TablesInv, InsertGuarded, LookupGuarded
  <2> QED
    BY <1>5, <1>9, <2>2, OneThread, SMTT(20) DEF TablesInv
<1>10. CASE At(t, "upgrade") /\ try_lock_upgrade(t) /\ DoneIf(t, owner'[t] = "upgraded")
  <2>1. ~Idle(t) /\ Head(call[t].todo) = "upgrade" /\ UNCHANGED reads
    BY <1>10 DEF At, try_lock_upgrade
  <2>2. CASE owner'[t] = "upgraded"
    <3>1. Done(t)
      BY <1>10, <2>2 DEF DoneIf
    <3> QED
      BY <1>5, <2>1, <3>1, DoneGuarded, OneThread, Zenon
  <2>3. CASE owner'[t] # "upgraded"
    <3>1. UNCHANGED call /\ UNCHANGED owner
      BY <1>4, <1>10, <2>3 DEF DoneIf, try_lock_upgrade, Own, LockTypeOK
    <3>2. InsertGuarded(t)' /\ LookupGuarded(t)'
      BY <2>1, <3>1 DEF TablesInv, InsertGuarded, LookupGuarded
    <3> QED
      BY <1>5, <3>1, <3>2, OneThread DEF TablesInv
  <2> QED
    BY <2>2, <2>3
<1>11. CASE At(t, "downgrade") /\ unlock_upgrade(t) /\ Done(t)
  <2>1. ~Idle(t) /\ Head(call[t].todo) = "downgrade" /\ UNCHANGED reads
    BY <1>11 DEF At, unlock_upgrade
  <2> QED
    BY <1>5, <1>11, <2>1, DoneGuarded, OneThread, Zenon
<1> QED
  BY <1>6, <1>7, <1>8, <1>9, <1>10, <1>11 DEF LockStep

(* The accesses to the tables and to epoll, which leave the lock alone.    *)
LEMMA AccessKeepsInv ==
  ASSUME TablesInv, LockInv', NEW t \in Threads,
         \/ insert(t) \/ epollAdd(t) \/ find(t) \/ epollRemove(t) \/ erase(t)
         \/ eraseFromCopy(t) \/ iterate(t)
  PROVE  TablesInv'
<1>1. UNCHANGED lockVars
  BY DEF insert, epollAdd, find, epollRemove, erase, eraseFromCopy, iterate
<1>2. UNCHANGED owner /\ UNCHANGED reads
  BY <1>1 DEF lockVars
<1>4. CASE insert(t) \/ epollRemove(t) \/ erase(t) \/ eraseFromCopy(t) \/ iterate(t)
  <2>1. ~Idle(t) /\ Done(t)
        /\ Head(call[t].todo) \in {"insert", "epollRemove", "erase", "eraseFromCopy", "iterate"}
    BY <1>4 DEF insert, epollRemove, erase, eraseFromCopy, iterate, At
  <2> QED
    BY <1>2, <2>1, DoneGuarded, OneThread, Zenon
<1>5. CASE epollAdd(t)
  <2>1. /\ call' \in [Threads -> [todo : Seq(Steps), handler : Handlers \cup {NoHandler}]]
        /\ \A u \in Threads \ {t} : call'[u] = call[u]
        /\ call'[t].todo = <<>>
    BY <1>5 DEF TablesInv, epollAdd, Finish, NoCall
  <2>2. InsertGuarded(t)' /\ LookupGuarded(t)'
    BY <2>1 DEF InsertGuarded, LookupGuarded
  <2> QED
    BY <1>2, <2>1, <2>2, OneThread
<1>6. CASE find(t)
  <2> DEFINE h == call[t].handler
  <2>1. AfterFind(h) \in {<<"unshare">>,
          <<"erase", "upgrade", "epollRemove", "downgrade", "unshare">>,
          <<"epollRemove", "upgrade", "erase", "downgrade", "unshare">>,
          <<"upgrade", "eraseFromCopy", "downgrade", "unshare">>}
    BY Zenon DEF AfterFind
  <2>2. AfterFind(h) \in Seq(Steps)
        /\ \A i \in 1 .. Len(AfterFind(h)) : AfterFind(h)[i] # "insert"
    <3> HIDE DEF h
    <3>1. CASE AfterFind(h) = <<"unshare">>
      BY <3>1 DEF Steps
    <3>2. CASE AfterFind(h) = <<"erase", "upgrade", "epollRemove", "downgrade", "unshare">>
      BY <3>2 DEF Steps
    <3>3. CASE AfterFind(h) = <<"epollRemove", "upgrade", "erase", "downgrade", "unshare">>
      BY <3>3 DEF Steps
    <3>4. CASE AfterFind(h) = <<"upgrade", "eraseFromCopy", "downgrade", "unshare">>
      BY <3>4 DEF Steps
    <3> QED
      BY <2>1, <3>1, <3>2, <3>3, <3>4
  <2>3. /\ call' \in [Threads -> [todo : Seq(Steps), handler : Handlers \cup {NoHandler}]]
        /\ \A u \in Threads \ {t} : call'[u] = call[u]
        /\ call'[t].todo = AfterFind(h)
    BY <1>6, <2>2 DEF TablesInv, find
  <2>4. reads[<<t, 1>>] = "held"
    <3>1. /\ call[t].todo \in Seq(Steps) /\ call[t].todo # <<>>
          /\ Head(call[t].todo) = "find"
      BY <1>6 DEF TablesInv, find, At, Idle
    <3>2. 1 \in 1 .. Len(call[t].todo) /\ call[t].todo[1] = "find"
      BY <3>1, TodoTail
    <3> QED
      BY <3>2 DEF TablesInv, LookupGuarded
  <2>5. InsertGuarded(t)' /\ LookupGuarded(t)'
    BY <1>2, <2>2, <2>3, <2>4 DEF InsertGuarded, LookupGuarded
  <2> QED
    BY <1>2, <2>3, <2>5, OneThread
<1> QED
  BY <1>4, <1>5, <1>6

(* A call that gives its shared hold back is over.                         *)
LEMMA UnshareKeepsInv ==
  ASSUME TablesInv, LockInv', NEW t \in Threads, unshare(t)
  PROVE  TablesInv'
<1>1. <<t, 1>> \in Holds
  BY TablesAssumption, DepthAssumption DEF Holds
<1>3. /\ call' \in [Threads -> [todo : Seq(Steps), handler : Handlers \cup {NoHandler}]]
      /\ \A u \in Threads \ {t} : call'[u] = call[u]
      /\ call'[t].todo = <<>>
  <2>1. call' = [call EXCEPT ![t] = NoCall]
    BY DEF unshare, Finish
  <2> QED
    BY <2>1 DEF TablesInv, NoCall
<1>4. InsertGuarded(t)' /\ LookupGuarded(t)'
  BY <1>3 DEF InsertGuarded, LookupGuarded
<1>5. \A u \in Threads \ {t} : owner'[u] = owner[u] /\ reads'[<<u, 1>>] = reads[<<u, 1>>]
  <2> SUFFICES ASSUME NEW u \in Threads \ {t}
               PROVE  owner'[u] = owner[u] /\ reads'[<<u, 1>>] = reads[<<u, 1>>]
    OBVIOUS
  <2>1. <<u, 1>> \in Holds /\ <<u, 1>> # <<t, 1>>
    BY TablesAssumption, DepthAssumption DEF Holds
  <2> QED
    BY <1>1, <2>1 DEF TablesInv, LockInv, LockTypeOK, unshare, unlock_shared, Hold
<1> QED
  BY <1>3, <1>4, <1>5, OneThread

(* The tables use the lock by its operations only.                         *)
LEMMA TablesUseLock == [TablesNext]_handlerVars => [LockNext]_lockVars
<1> SUFFICES ASSUME [TablesNext]_handlerVars PROVE [LockNext]_lockVars
  OBVIOUS
<1>1. ASSUME NEW t \in Threads PROVE <<t, 1>> \in Holds
  BY TablesAssumption, DepthAssumption DEF Holds
<1>2. ASSUME NEW t \in Threads, LockStep(t) \/ unshare(t) PROVE LockNext
  BY <1>1, <1>2 DEF LockStep, unshare, LockNext
<1>3. CASE UNCHANGED handlerVars
  BY <1>3 DEF handlerVars
<1>4. CASE foreach \/ \E t \in Threads, h \in Handlers : registerHandler(t, h) \/ unregisterHandler(t, h)
  BY <1>4 DEF foreach, registerHandler, unregisterHandler
<1>5. ASSUME NEW t \in Threads,
             \/ insert(t) \/ epollAdd(t) \/ find(t) \/ epollRemove(t) \/ erase(t)
             \/ eraseFromCopy(t) \/ iterate(t)
      PROVE  UNCHANGED lockVars
  BY <1>5 DEF insert, epollAdd, find, epollRemove, erase, eraseFromCopy, iterate
<1> QED
  BY <1>2, <1>3, <1>4, <1>5 DEF TablesNext

(* Every step of the tables preserves their inductive invariant, as long   *)
(* as the lock preserves its own.                                          *)
LEMMA NextTablesInv ==
  ASSUME TablesInv, LockInv', [TablesNext]_handlerVars
  PROVE  TablesInv'
<1>1. CASE UNCHANGED handlerVars
  <2>1. UNCHANGED call /\ UNCHANGED owner /\ UNCHANGED reads
    BY <1>1 DEF handlerVars, tableVars, lockVars
  <2> QED
    BY <2>1 DEF TablesInv, InsertGuarded, LookupGuarded
<1>2. ASSUME NEW t \in Threads, NEW h \in Handlers, registerHandler(t, h)
      PROVE  TablesInv'
  BY <1>2, BeginKeepsInv DEF registerHandler
<1>3. ASSUME NEW t \in Threads, NEW h \in Handlers, unregisterHandler(t, h)
      PROVE  TablesInv'
  BY <1>3, BeginKeepsInv DEF unregisterHandler
<1>4. CASE foreach
  BY <1>4, BeginKeepsInv, TablesAssumption DEF foreach
<1> QED
  BY <1>1, <1>2, <1>3, <1>4, LockStepKeepsInv, AccessKeepsInv, UnshareKeepsInv DEF TablesNext

(* Whoever inserts holds the lock alone, and whoever looks up shares it.   *)
LEMMA TablesExclude == TablesInv => InsertIsExclusive
<1> SUFFICES ASSUME TablesInv, NEW t \in Threads, NEW u \in Threads, t # u,
                    At(t, "insert"), NEW s \in {"insert", "find", "iterate", "erase"},
                    At(u, s)
             PROVE  FALSE
  BY DEF InsertIsExclusive
<1>1. \A v \in Threads : ~Idle(v) =>
        1 \in 1 .. Len(call[v].todo) /\ call[v].todo[1] = Head(call[v].todo)
  <2> SUFFICES ASSUME NEW v \in Threads, ~Idle(v)
               PROVE  1 \in 1 .. Len(call[v].todo) /\ call[v].todo[1] = Head(call[v].todo)
    OBVIOUS
  <2>1. call[v].todo \in Seq(Steps) /\ call[v].todo # <<>>
    BY DEF TablesInv, Idle
  <2> QED
    BY <2>1, TodoTail
<1>2. owner[t] = "writer"
  BY <1>1 DEF TablesInv, At, InsertGuarded
<1>3. CASE s = "insert"
  <2>1. owner[u] = "writer"
    BY <1>1, <1>3 DEF TablesInv, At, InsertGuarded
  <2> QED
    BY <1>2, <2>1 DEF TablesInv, LockInv
<1>4. CASE s # "insert"
  <2>1. reads[<<u, 1>>] = "held"
    BY <1>1, <1>4 DEF TablesInv, At, LookupGuarded
  <2>2. <<u, 1>> \in Holds
    BY TablesAssumption, DepthAssumption DEF Holds
  <2> QED
    BY <1>2, <2>1, <2>2 DEF TablesInv, LockInv
<1> QED
  BY <1>3, <1>4

(* What is left of an ordered call, and what its next step tells of it.    *)
LEMMA OrderedTail ==
  ASSUME NEW s \in Seq(Steps), s # <<>>, Ordered(s)
  PROVE  /\ Ordered(Tail(s)) /\ Head(s) \in StepsIn(s) /\ StepsIn(Tail(s)) = StepsIn(s) \ {Head(s)}
         /\ StepsIn(s) \subseteq Steps
         /\ Head(s) \in {"find", "unshare", "epollAdd"} => StepsIn(s) = {Head(s)}
         /\ Head(s) # "lock" => "lock" \notin StepsIn(s)
         /\ Head(s) # "share" => "share" \notin StepsIn(s)
         /\ Head(s) = "unlock" => "insert" \notin StepsIn(s)
         /\ Head(s) = "downgrade" => "upgrade" \notin StepsIn(s)
<1> DEFINE n == Len(s)
           r == Tail(s)
<1>1. /\ r \in Seq(Steps) /\ Head(s) = s[1] /\ n \in Nat /\ n > 0 /\ Len(r) = n - 1
      /\ \A i \in 1 .. Len(r) : i + 1 \in 1 .. n /\ r[i] = s[i + 1]
      /\ \A i \in 1 .. n : s[i] \in Steps
  BY TodoTail
<1> HIDE DEF r, n
<1>2. \A i \in 2 .. n : s[1] # s[i] /\ i - 1 \in 1 .. Len(r) /\ r[i - 1] = s[i]
  <2> SUFFICES ASSUME NEW i \in 2 .. n
               PROVE  s[1] # s[i] /\ i - 1 \in 1 .. Len(r) /\ r[i - 1] = s[i]
    OBVIOUS
  <2>1. i - 1 \in 1 .. Len(r) /\ (i - 1) + 1 = i
    BY <1>1
  <2>2. 1 \in 1 .. n /\ i \in 1 .. n /\ 1 < i
    BY <1>1
  <2> QED
    BY <1>1, <2>1, <2>2 DEF Ordered, n
<1>3. Ordered(r)
  <2> SUFFICES ASSUME NEW i \in 1 .. Len(r), NEW j \in 1 .. Len(r), i < j
               PROVE  /\ r[i] # r[j]
                      /\ r[i] \notin {"find", "unshare", "epollAdd"} /\ r[j] \notin {"lock", "share"}
                      /\ r[i] = "unlock" => r[j] # "insert"
                      /\ r[i] = "downgrade" => r[j] # "upgrade"
    BY DEF Ordered
  <2>1. /\ i + 1 \in 1 .. n /\ j + 1 \in 1 .. n /\ i + 1 < j + 1
        /\ r[i] = s[i + 1] /\ r[j] = s[j + 1]
    BY <1>1
  <2> QED
    BY <2>1 DEF Ordered, n
<1>4. StepsIn(r) = StepsIn(s) \ {s[1]}
  <2>1. ASSUME NEW x \in StepsIn(r) PROVE x \in StepsIn(s) \ {s[1]}
    <3>1. PICK i \in 1 .. Len(r) : x = r[i]
      BY <2>1 DEF StepsIn
    <3>2. i + 1 \in 2 .. n /\ x = s[i + 1]
      BY <1>1, <3>1
    <3> QED
      BY <1>1, <1>2, <3>2, SMTT(20) DEF StepsIn, n
  <2>2. ASSUME NEW x \in StepsIn(s), x # s[1] PROVE x \in StepsIn(r)
    <3>1. PICK i \in 1 .. n : x = s[i]
      BY <2>2 DEF StepsIn, n
    <3>2. i \in 2 .. n
      BY <1>1, <2>2, <3>1
    <3> QED
      BY <1>2, <3>1, <3>2 DEF StepsIn
  <2> QED
    BY <2>1, <2>2
<1>5. ASSUME NEW x \in StepsIn(s)
      PROVE  \/ x = s[1]
             \/ \E i \in 2 .. n : x = s[i] /\ 1 < i /\ 1 \in 1 .. n /\ i \in 1 .. n
  <2>1. PICK i \in 1 .. n : x = s[i]
    BY <1>5 DEF StepsIn, n
  <2>2. i = 1 \/ (i \in 2 .. n /\ 1 < i)
    BY <1>1
  <2>3. 1 \in 1 .. n
    BY <1>1
  <2> QED
    BY <2>1, <2>2, <2>3
<1>6. StepsIn(s) \subseteq Steps /\ s[1] \in StepsIn(s)
  BY <1>1 DEF StepsIn, n
<1>7. s[1] \in {"find", "unshare", "epollAdd"} => \A x \in StepsIn(s) : x = s[1]
  BY <1>5 DEF Ordered, n
<1>8. \A x \in StepsIn(s) : /\ x \in {"lock", "share"} => x = s[1]
                            /\ s[1] = "unlock" => x # "insert"
                            /\ s[1] = "downgrade" => x # "upgrade"
  BY <1>5 DEF Ordered, n
<1>9. s[1] \in {"find", "unshare", "epollAdd"} => StepsIn(s) = {s[1]}
  BY <1>6, <1>7
<1> QED
  BY <1>1, <1>3, <1>4, <1>6, <1>8, <1>9 DEF r

(* A step of a call leaves together what belongs together.                 *)
LEMMA ClosedTail ==
  ASSUME NEW S, NEW h \in S, Closed(S), S \subseteq Steps,
         h \in {"find", "unshare", "epollAdd"} => S = {h},
         h # "lock" => "lock" \notin S, h # "share" => "share" \notin S,
         h = "unlock" => "insert" \notin S, h = "downgrade" => "upgrade" \notin S
  PROVE  Closed(S \ {h})
<1>1. CASE h \in {"find", "unshare", "epollAdd"}
  BY <1>1 DEF Closed
<1>2. CASE h \notin {"find", "unshare", "epollAdd"}
  BY <1>2 DEF Closed
<1> QED
  BY <1>1, <1>2

(* The next step of a call that is under way.                              *)
LEMMA DoneLeft ==
  ASSUME QuiescenceInv, NEW t \in Threads, ~Idle(t), Done(t)
  PROVE  /\ \A u \in Threads \ {t} : call'[u] = call[u]
         /\ call'[t].handler = call[t].handler
         /\ Left(t)' = Left(t) \ {Head(call[t].todo)} /\ Head(call[t].todo) \in Left(t)
         /\ Left(t) \subseteq Steps /\ Ordered(call'[t].todo) /\ Closed(Left(t)')
         /\ Head(call[t].todo) \in {"find", "unshare", "epollAdd"} => Left(t) = {Head(call[t].todo)}
         /\ Head(call[t].todo) # "lock" => "lock" \notin Left(t)
         /\ Head(call[t].todo) # "share" => "share" \notin Left(t)
         /\ Head(call[t].todo) = "unlock" => "insert" \notin Left(t)
         /\ Head(call[t].todo) = "downgrade" => "upgrade" \notin Left(t)
<1> DEFINE s == call[t].todo
<1>1. /\ call \in [Threads -> [todo : Seq(Steps), handler : Handlers \cup {NoHandler}]]
      /\ s \in Seq(Steps) /\ s # <<>> /\ Ordered(s) /\ Closed(StepsIn(s))
  BY DEF QuiescenceInv, TablesInv, Idle, Left
<1>2. /\ call'[t].todo = Tail(s) /\ call'[t].handler = call[t].handler
      /\ \A u \in Threads \ {t} : call'[u] = call[u]
  BY <1>1 DEF Done
<1> HIDE DEF s
<1>3. /\ Ordered(Tail(s)) /\ Head(s) \in StepsIn(s) /\ StepsIn(Tail(s)) = StepsIn(s) \ {Head(s)}
      /\ StepsIn(s) \subseteq Steps
      /\ Head(s) \in {"find", "unshare", "epollAdd"} => StepsIn(s) = {Head(s)}
      /\ Head(s) # "lock" => "lock" \notin StepsIn(s)
      /\ Head(s) # "share" => "share" \notin StepsIn(s)
      /\ Head(s) = "unlock" => "insert" \notin StepsIn(s)
      /\ Head(s) = "downgrade" => "upgrade" \notin StepsIn(s)
  BY <1>1, OrderedTail
<1>4. Closed(StepsIn(s) \ {Head(s)})
  BY <1>1, <1>3, ClosedTail, Zenon
<1>5. Left(t) = StepsIn(s) /\ Left(t)' = StepsIn(Tail(s))
  BY <1>2 DEF Left, s
<1> QED
  BY <1>2, <1>3, <1>4, <1>5, Zenon DEF s

(* A step that leaves tables, epoll and status alone, and of each call     *)
(* what it has yet to do to them, leaves the entries in order.             *)
LEMMA SameEntries ==
  ASSUME QuiescenceInv, UNCHANGED <<table, epoll, status>>,
         \A u \in Threads :
           /\ \A s \in {"insert", "epollAdd", "erase", "epollRemove"} : s \in Left(u)' <=> s \in Left(u)
           /\ (\E s \in {"insert", "epollAdd", "erase", "epollRemove"} : s \in Left(u)) =>
                call'[u].handler = call[u].handler
  PROVE  EntriesInv'
<1> DEFINE T == {"insert", "epollAdd", "erase", "epollRemove"}
<1>1. \A u \in Threads :
        /\ Adding(u)' <=> Adding(u)
        /\ Withdrawn(u)' <=> Withdrawn(u)
        /\ Erased(u)' <=> Erased(u)
        /\ "insert" \in Left(u)' <=> "insert" \in Left(u)
        /\ "erase" \in Left(u)' <=> "erase" \in Left(u)
        /\ Adding(u) \/ Withdrawn(u) \/ Erased(u) \/ "insert" \in Left(u) \/ "erase" \in Left(u) =>
             call'[u].handler = call[u].handler
  BY DEF Adding, Withdrawn, Erased
<1>2. \A u \in Threads : call'[u].handler = call[u].handler => CallKey(u)' = CallKey(u)
  BY DEF CallKey, KeyOf
<1>3. \A h : Entered(h)' <=> Entered(h)
  BY DEF Entered, KeyOf
<1>4. /\ \A h \in Handlers : Entered(h)' =>
           status'[h] # "new" \/ \E t \in Threads : Adding(t)' /\ call'[t].handler = h
      /\ \A k \in SignalHandlers : table'[k] \in {<<>>, <<k>>}
  <2>1. ASSUME NEW h \in Handlers, Entered(h)'
        PROVE  status'[h] # "new" \/ \E t \in Threads : Adding(t)' /\ call'[t].handler = h
    BY <1>1, <1>3, <2>1 DEF QuiescenceInv, EntriesInv
  <2>2. \A k \in SignalHandlers : table'[k] \in {<<>>, <<k>>}
    BY SMTT(20) DEF QuiescenceInv, EntriesInv
  <2> QED
    BY <2>1, <2>2
<1>5. ASSUME NEW t \in Threads
      PROVE  /\ "insert" \in Left(t)' => status'[call'[t].handler] = "new"
             /\ Adding(t)' => Entered(call[t].handler)'
             /\ "erase" \in Left(t)' => table'[CallKey(t)'] = <<call'[t].handler>>
             /\ Withdrawn(t)' => CallKey(t)' \notin epoll'
             /\ Erased(t)' => table'[CallKey(t)'] = <<>>
  <2>1. CASE Adding(t) \/ Withdrawn(t) \/ Erased(t) \/ "insert" \in Left(t) \/ "erase" \in Left(t)
    <3>1. call'[t].handler = call[t].handler /\ CallKey(t)' = CallKey(t)
      BY <1>1, <1>2, <2>1
    <3> QED
      BY <1>1, <1>3, <3>1 DEF QuiescenceInv, EntriesInv
  <2>2. CASE ~(Adding(t) \/ Withdrawn(t) \/ Erased(t) \/ "insert" \in Left(t) \/ "erase" \in Left(t))
    BY <1>1, <2>2
  <2> QED
    BY <2>1, <2>2, SMTT(20)
<1>6. ASSUME NEW k \in Keys
      PROVE  /\ table'[k] # <<>> /\ k \notin epoll' =>
                  \E t \in Threads : (Adding(t)' \/ Withdrawn(t)') /\ CallKey(t)' = k
             /\ table'[k] = <<>> /\ k \in epoll' => \E t \in Threads : Erased(t)' /\ CallKey(t)' = k
  <2>1. /\ table[k] # <<>> /\ k \notin epoll =>
                  \E t \in Threads : (Adding(t) \/ Withdrawn(t)) /\ CallKey(t) = k
        /\ table[k] = <<>> /\ k \in epoll => \E t \in Threads : Erased(t) /\ CallKey(t) = k
    BY DEF QuiescenceInv, EntriesInv
  <2> QED
    BY <1>1, <1>2, <2>1
<1> QED
  BY <1>4, <1>5, <1>6 DEF EntriesInv

(* A step of one thread needs only be looked at for that thread.           *)
LEMMA QuiescenceStep ==
  ASSUME QuiescenceInv, TablesInv', NEW t \in Threads,
         \A u \in Threads \ {t} : /\ call'[u] = call[u] /\ owner'[u] = owner[u]
                                  /\ \A d \in 1 .. Depth : reads'[<<u, d>>] = reads[<<u, d>>],
         table' \in [Keys -> Seq(Handlers)],
         status' \in [Handlers -> {"new", "registered", "unregistered"}],
         Ordered(call'[t].todo), Closed(Left(t)'), Balanced(t)', OneCallEach', EntriesInv'
  PROVE  QuiescenceInv'
<1>1. ASSUME NEW u \in Threads, u # t
      PROVE  Ordered(call'[u].todo) /\ Closed(Left(u)') /\ Balanced(u)'
  <2>1. /\ call'[u] = call[u] /\ owner'[u] = owner[u]
        /\ \A d \in 1 .. Depth : reads'[<<u, d>>] = reads[<<u, d>>]
        /\ 1 \in 1 .. Depth
    BY <1>1, TablesAssumption, DepthAssumption
  <2>2. Left(u)' = Left(u)
    BY <2>1 DEF Left
  <2>3. Ordered(call[u].todo) /\ Closed(Left(u)) /\ Balanced(u)
    BY DEF QuiescenceInv
  <2>4. Balanced(u)'
    BY <2>1, <2>2, <2>3 DEF Balanced
  <2> QED
    BY <2>1, <2>2, <2>3, <2>4
<1>2. \A u \in Threads : Ordered(call'[u].todo) /\ Closed(Left(u)') /\ Balanced(u)'
  BY <1>1
<1>3. \A u \in Threads : Ordered(call[u].todo)' /\ Closed(Left(u))' /\ Balanced(u)'
  <2>1. \A u \in Threads : (Ordered(call[u].todo)' <=> Ordered(call'[u].todo))
                           /\ (Closed(Left(u))' <=> Closed(Left(u)'))
    BY DEF Ordered, Closed
  <2> QED
    BY <1>2, <2>1
<1> QED
  BY <1>3, SMTT(20) DEF QuiescenceInv

(* A call that goes on keeps its handler.                                  *)
LEMMA StillOneCallEach ==
  ASSUME QuiescenceInv, NEW t \in Threads, \A u \in Threads \ {t} : call'[u] = call[u],
         \/ call'[t].handler = call[t].handler /\ Left(t)' \subseteq Left(t)
         \/ call'[t] = NoCall
  PROVE  OneCallEach'
<1>1. \A u \in Threads \ {t} : call'[u].handler = call[u].handler /\ Left(u)' = Left(u)
  BY DEF Left
<1>2. CASE call'[t].handler = call[t].handler /\ Left(t)' \subseteq Left(t)
  BY <1>1, <1>2, TablesAssumption DEF QuiescenceInv, OneCallEach
<1>3. CASE call'[t] = NoCall
  <2>1. call'[t].handler = NoHandler /\ Left(t)' = {}
    BY <1>3 DEF NoCall, Left, StepsIn
  <2> QED
    BY <1>1, <2>1, TablesAssumption, HandlersAssumption DEF QuiescenceInv, OneCallEach
<1> QED
  BY <1>2, <1>3

(* The steps that take and release the lock.                               *)
LEMMA LockStepKeepsQuiescence ==
  ASSUME QuiescenceInv, TablesInv', NEW t \in Threads, LockStep(t)
  PROVE  QuiescenceInv'
<1> DEFINE h == <<t, 1>>
           L == Left(t)
<1>1. h \in Holds /\ h[1] = t /\ 1 \in 1 .. Depth
  BY TablesAssumption, DepthAssumption, SMTT(20) DEF Holds
<1>2. TablesInv /\ TablesInv' /\ LockTypeOK /\ UNCHANGED <<table, epoll, status>>
  BY Zenon DEF QuiescenceInv, TablesInv, LockInv, LockStep
<1>3. /\ \A u \in Threads \ {t} : owner'[u] = owner[u] /\ \A d \in 1 .. Depth : reads'[<<u, d>>] = reads[<<u, d>>]
      /\ \A d \in 1 .. Depth : d # 1 => reads'[<<t, d>>] = reads[<<t, d>>]
  <2>1. \/ UNCHANGED reads /\ \E m : owner' = [owner EXCEPT ![t] = m]
        \/ UNCHANGED owner /\ \E m : reads' = [reads EXCEPT ![h] = m]
        \/ UNCHANGED <<owner, reads>>
    BY DEF LockStep, try_lock, unlock, try_lock_shared, back_off_shared, try_lock_upgrade,
           unlock_upgrade, Own, Hold
  <2>2. \A u \in Threads, d \in 1 .. Depth : <<u, d>> \in Holds /\ (u # t \/ d # 1 => <<u, d>> # h)
    BY DEF Holds
  <2> QED
    BY <1>2, <2>1, <2>2 DEF LockTypeOK
<1>4. table' \in [Keys -> Seq(Handlers)] /\ status' \in [Handlers -> {"new", "registered", "unregistered"}]
  BY <1>2 DEF QuiescenceInv
<1>5. Balanced(t) /\ Closed(L) /\ Ordered(call[t].todo)
  BY DEF QuiescenceInv
<1>6. ASSUME UNCHANGED call, Balanced(t)' PROVE QuiescenceInv'
  <2>1. \A u \in Threads : call'[u] = call[u] /\ Left(u)' = Left(u)
    BY <1>6 DEF Left
  <2>2. EntriesInv'
    BY <1>2, <2>1, SameEntries
  <2>3. OneCallEach'
    BY <2>1, StillOneCallEach
  <2>4. Ordered(call'[t].todo) /\ Closed(Left(t)')
    BY <1>5, <2>1
  <2> QED
    BY <1>2, <1>3, <1>4, <1>6, <2>1, <2>2, <2>3, <2>4, QuiescenceStep
<1>7. ASSUME ~Idle(t), Done(t), Balanced(t)',
             Head(call[t].todo) \in {"lock", "unlock", "share", "upgrade", "downgrade"}
      PROVE  QuiescenceInv'
  <2>1. /\ \A u \in Threads \ {t} : call'[u] = call[u]
        /\ call'[t].handler = call[t].handler
        /\ Left(t)' = Left(t) \ {Head(call[t].todo)}
        /\ Ordered(call'[t].todo) /\ Closed(Left(t)')
    BY <1>7, DoneLeft
  <2>2. \A u \in Threads \ {t} : Left(u)' = Left(u)
    BY <2>1 DEF Left
  <2>3. /\ \A s \in {"insert", "epollAdd", "erase", "epollRemove"} : s \in Left(t)' <=> s \in Left(t)
        /\ Left(t)' \subseteq Left(t)
    BY <1>7, <2>1
  <2>4. EntriesInv'
    BY <1>2, <2>1, <2>2, <2>3, SameEntries
  <2>5. OneCallEach'
    BY <2>1, <2>3, StillOneCallEach
  <2> QED
    BY <1>2, <1>3, <1>4, <1>7, <2>1, <2>4, <2>5, QuiescenceStep, Zenon
<1>8. ASSUME ~Idle(t), Done(t)
      PROVE  /\ Left(t)' = L \ {Head(call[t].todo)} /\ Head(call[t].todo) \in L /\ L \subseteq Steps
             /\ Head(call[t].todo) # "lock" => "lock" \notin L
             /\ Head(call[t].todo) # "share" => "share" \notin L
             /\ Head(call[t].todo) = "downgrade" => "upgrade" \notin L
  BY <1>8, DoneLeft
<1>9. \A m : owner' = [owner EXCEPT ![t] = m] => owner'[t] = m
  BY <1>2 DEF LockTypeOK
<1>10. \A m : reads' = [reads EXCEPT ![h] = m] => reads'[h] = m
  BY <1>1, <1>2 DEF LockTypeOK
<1> HIDE DEF L, h
<1>11. CASE At(t, "lock") /\ try_lock(t) /\ Done(t)
  <2>1. ~Idle(t) /\ Head(call[t].todo) = "lock" /\ owner'[t] = "writer" /\ UNCHANGED reads
    BY <1>9, <1>11, Zenon DEF At, try_lock, Own
  <2>2. Balanced(t)'
    <3>1. "lock" \in L /\ "unlock" \in L /\ Left(t)' = L \ {"lock"}
      BY <1>5, <1>8, <1>11, <2>1 DEF Closed
    <3> QED
      BY <1>5, <2>1, <3>1 DEF Balanced, L, Closed
  <2> QED
    BY <1>7, <1>11, <2>1, <2>2
<1>12. CASE At(t, "unlock") /\ unlock(t) /\ Done(t)
  <2>1. ~Idle(t) /\ Head(call[t].todo) = "unlock" /\ owner'[t] = "none" /\ UNCHANGED reads
    BY <1>9, <1>12, Zenon DEF At, unlock, Own
  <2>2. Balanced(t)'
    <3>1. "unlock" \in L /\ Left(t)' = L \ {"unlock"}
      BY <1>5, <1>8, <1>12, <2>1 DEF Closed
    <3> QED
      BY <1>5, <2>1, <3>1 DEF Balanced, L, Closed
  <2> QED
    BY <1>7, <1>12, <2>1, <2>2
<1>13. CASE /\ At(t, "share") /\ try_lock_shared(h)
            /\ DoneIf(t, reads'[h] = "held")
  <2>1. /\ ~Idle(t) /\ Head(call[t].todo) = "share" /\ UNCHANGED owner
        /\ reads'[h] \in {"held", "failing"}
    BY <1>10, <1>13, Zenon DEF At, try_lock_shared, Hold
  <2>2. CASE reads'[h] = "held"
    <3>1. Done(t)
      BY <1>13, <2>2 DEF DoneIf
    <3>2. "share" \in L /\ Left(t)' = L \ {"share"}
      BY <1>8, <2>1, <3>1
    <3>3. Balanced(t)'
      BY <1>3, <1>5, <2>1, <2>2, <3>2 DEF Balanced, L, Closed, h
    <3> QED
      BY <1>7, <2>1, <3>1, <3>3
  <2>3. CASE reads'[h] # "held"
    <3>1. UNCHANGED call
      BY <1>13, <2>3 DEF DoneIf
    <3>2. "share" \in L /\ Left(t)' = L
      <4>1. call[t].todo \in Seq(Steps) /\ call[t].todo # <<>>
        BY <1>2, <2>1 DEF TablesInv, Idle
      <4> QED
        BY <1>5, <2>1, <3>1, <4>1, OrderedTail DEF L, Left
    <3>3. Balanced(t)'
      BY <1>3, <1>5, <2>1, <2>3, <3>2 DEF Balanced, L, h
    <3> QED
      BY <1>6, <3>1, <3>3
  <2> QED
    BY <2>2, <2>3
<1>14. CASE At(t, "share") /\ back_off_shared(h) /\ UNCHANGED call
  <2>1. UNCHANGED owner /\ reads'[h] = "none" /\ reads[h] = "failing"
    BY <1>10, <1>14, Zenon DEF back_off_shared, Hold
  <2>2. Left(t)' = L
    BY <1>14 DEF Left, L
  <2>3. Balanced(t)'
    BY <1>3, <1>5, <2>1, <2>2 DEF Balanced, L, h
  <2> QED
    BY <1>6, <1>14, <2>3
<1>15. CASE At(t, "upgrade") /\ try_lock_upgrade(t) /\ DoneIf(t, owner'[t] = "upgraded")
  <2>1. ~Idle(t) /\ Head(call[t].todo) = "upgrade" /\ UNCHANGED reads
    BY <1>15 DEF At, try_lock_upgrade
  <2>2. CASE owner'[t] = "upgraded"
    <3>1. Done(t)
      BY <1>15, <2>2 DEF DoneIf
    <3>2. "upgrade" \in L /\ Left(t)' = L \ {"upgrade"}
      BY <1>8, <2>1, <3>1
    <3>3. Balanced(t)'
      BY <1>5, <2>1, <2>2, <3>2 DEF Balanced, L, Closed
    <3> QED
      BY <1>7, <2>1, <3>1, <3>3
  <2>3. CASE owner'[t] # "upgraded"
    <3>1. UNCHANGED <<call, owner>>
      BY <1>9, <1>15, <2>3 DEF DoneIf, try_lock_upgrade, Own
    <3>2. Left(t)' = L
      BY <3>1 DEF Left, L
    <3>3. Balanced(t)'
      BY <1>5, <2>1, <3>1, <3>2 DEF Balanced, L
    <3> QED
      BY <1>6, <3>1, <3>3
  <2> QED
    BY <2>2, <2>3
<1>16. CASE At(t, "downgrade") /\ unlock_upgrade(t) /\ Done(t)
  <2>1. ~Idle(t) /\ Head(call[t].todo) = "downgrade" /\ owner'[t] = "none" /\ UNCHANGED reads
    BY <1>9, <1>16, Zenon DEF At, unlock_upgrade, Own
  <2>2. Balanced(t)'
    <3>1. "downgrade" \in L /\ Left(t)' = L \ {"downgrade"} /\ "upgrade" \notin L
      BY <1>5, <1>8, <1>16, <2>1 DEF Closed
    <3> QED
      BY <1>5, <2>1, <3>1 DEF Balanced, L, Closed
  <2> QED
    BY <1>7, <1>16, <2>1, <2>2
<1> QED
  BY <1>11, <1>12, <1>13, <1>14, <1>15, <1>16 DEF LockStep, h

(* What the calls have to do as they begin.                                *)
LEMMA Beginnings ==
  /\ Ordered(<<"lock", "insert", "unlock", "epollAdd">>)
  /\ StepsIn(<<"lock", "insert", "unlock", "epollAdd">>) = {"lock", "insert", "unlock", "epollAdd"}
  /\ Ordered(<<"share", "find">>) /\ StepsIn(<<"share", "find">>) = {"share", "find"}
  /\ Ordered(<<"share", "iterate", "unshare">>)
  /\ StepsIn(<<"share", "iterate", "unshare">>) = {"share", "iterate", "unshare"}
<1>1. ASSUME NEW s, s = <<"lock", "insert", "unlock", "epollAdd">>
      PROVE  Ordered(s) /\ StepsIn(s) = {"lock", "insert", "unlock", "epollAdd"}
  <2>1. Len(s) = 4 /\ s[1] = "lock" /\ s[2] = "insert" /\ s[3] = "unlock" /\ s[4] = "epollAdd"
    BY <1>1
  <2>2. 1 .. 4 = {1, 2, 3, 4}
    OBVIOUS
  <2>3. StepsIn(s) = {"lock", "insert", "unlock", "epollAdd"}
    BY <2>1, <2>2 DEF StepsIn
  <2> QED
    BY <2>1, <2>2, <2>3 DEF Ordered
<1>2. ASSUME NEW s, s = <<"share", "find">> PROVE Ordered(s) /\ StepsIn(s) = {"share", "find"}
  <2>1. Len(s) = 2 /\ s[1] = "share" /\ s[2] = "find"
    BY <1>2
  <2>2. 1 .. 2 = {1, 2}
    OBVIOUS
  <2>3. StepsIn(s) = {"share", "find"}
    BY <2>1, <2>2 DEF StepsIn
  <2> QED
    BY <2>1, <2>2, <2>3 DEF Ordered
<1>3. ASSUME NEW s, s = <<"share", "iterate", "unshare">>
      PROVE  Ordered(s) /\ StepsIn(s) = {"share", "iterate", "unshare"}
  <2>1. Len(s) = 3 /\ s[1] = "share" /\ s[2] = "iterate" /\ s[3] = "unshare"
    BY <1>3
  <2>2. 1 .. 3 = {1, 2, 3}
    OBVIOUS
  <2>3. StepsIn(s) = {"share", "iterate", "unshare"}
    BY <2>1, <2>2 DEF StepsIn
  <2> QED
    BY <2>1, <2>2, <2>3 DEF Ordered
<1> QED
  BY <1>1, <1>2, <1>3, Zenon

(* An idle thread has nothing left to do, and holds nothing of the lock.   *)
LEMMA IdleHoldsNothing ==
  ASSUME QuiescenceInv, NEW t \in Threads, Idle(t)
  PROVE  /\ Left(t) = {} /\ owner[t] = "none"
         /\ \A d \in 1 .. Depth : reads[<<t, d>>] = "none"
<1>1. Left(t) = {}
  BY DEF Idle, Left, StepsIn
<1>2. Balanced(t) /\ LockTypeOK
  BY DEF QuiescenceInv, TablesInv, LockInv
<1>3. owner[t] = "none" /\ reads[<<t, 1>>] # "held" /\ reads[<<t, 1>>] # "failing"
  BY <1>1, <1>2 DEF Balanced
<1>4. <<t, 1>> \in Holds
  BY TablesAssumption, DepthAssumption DEF Holds
<1>5. reads[<<t, 1>>] = "none"
  BY <1>2, <1>3, <1>4, SMTT(20) DEF LockTypeOK
<1> QED
  BY <1>1, <1>2, <1>3, <1>5 DEF Balanced

(* A call that goes on, in a step that leaves the tables alone, still      *)
(* finds there what it needs.                                              *)
LEMMA OtherCall ==
  ASSUME EntriesInv, NEW u \in Threads, call'[u] = call[u], UNCHANGED table
  PROVE  /\ UNCHANGED status => ("insert" \in Left(u)' => status'[call'[u].handler] = "new")
         /\ Adding(u)' => Entered(call[u].handler)'
         /\ "erase" \in Left(u)' => table'[CallKey(u)'] = <<call'[u].handler>>
         /\ epoll' \subseteq epoll => (Withdrawn(u)' => CallKey(u)' \notin epoll')
         /\ Erased(u)' => table'[CallKey(u)'] = <<>>
<1>1. /\ "insert" \in Left(u) => status[call[u].handler] = "new"
      /\ Adding(u) => Entered(call[u].handler)
      /\ "erase" \in Left(u) => table[CallKey(u)] = <<call[u].handler>>
      /\ Withdrawn(u) => CallKey(u) \notin epoll
      /\ Erased(u) => table[CallKey(u)] = <<>>
  BY DEF EntriesInv
<1>2. /\ Left(u)' = Left(u) /\ call'[u].handler = call[u].handler /\ CallKey(u)' = CallKey(u)
  BY DEF Left, CallKey
<1>3. /\ Adding(u)' <=> Adding(u)
      /\ Withdrawn(u)' <=> Withdrawn(u)
      /\ Erased(u)' <=> Erased(u)
  BY <1>2, SMTT(20) DEF Adding, Withdrawn, Erased
<1>4. Entered(call[u].handler)' <=> Entered(call[u].handler)
  BY <1>2 DEF Entered
<1> QED
  BY <1>1, <1>2, <1>3, <1>4, SMTT(20)

(* registerHandler, unregisterHandler and foreach_event_matching begin.    *)
LEMMA RegisterKeepsQuiescence ==
  ASSUME QuiescenceInv, TablesInv', NEW t \in Threads, NEW h \in Handlers,
         registerHandler(t, h) \/ unregisterHandler(t, h)
  PROVE  QuiescenceInv'
<1> DEFINE steps == IF registerHandler(t, h) THEN <<"lock", "insert", "unlock", "epollAdd">>
                    ELSE <<"share", "find">>
<1>1. /\ t # SessionThread /\ Idle(t) /\ \A u \in Threads : call[u].handler # h
      /\ Begin(t, h, steps) /\ UNCHANGED <<lockVars, table, epoll, status>>
      /\ steps \in {<<"lock", "insert", "unlock", "epollAdd">>, <<"share", "find">>}
      /\ steps = <<"lock", "insert", "unlock", "epollAdd">> => status[h] = "new"
  <2>1. CASE registerHandler(t, h)
    BY <2>1 DEF registerHandler
  <2>2. CASE ~registerHandler(t, h)
    <3>1. steps = <<"share", "find">>
      BY <2>2
    <3>2. steps # <<"lock", "insert", "unlock", "epollAdd">>
      BY <3>1
    <3> QED
      BY <2>2, <3>1, <3>2 DEF unregisterHandler
  <2> QED
    BY <2>1, <2>2
<1> HIDE DEF steps
<1>3. /\ call'[t].todo = steps /\ call'[t].handler = h
      /\ \A u \in Threads \ {t} : call'[u] = call[u] /\ Left(u)' = Left(u)
  BY <1>1, ZenonT(30) DEF QuiescenceInv, TablesInv, Begin, Left
<1>4. /\ Left(t)' = StepsIn(steps) /\ Ordered(steps)
      /\ StepsIn(steps) \in {{"lock", "insert", "unlock", "epollAdd"}, {"share", "find"}}
      /\ StepsIn(steps) = {"lock", "insert", "unlock", "epollAdd"} => status[h] = "new"
  <2>1. Left(t)' = StepsIn(steps)
    BY <1>3 DEF Left
  <2>2. CASE steps = <<"lock", "insert", "unlock", "epollAdd">>
    BY <1>1, <2>1, <2>2, Beginnings
  <2>3. CASE steps = <<"share", "find">>
    <3>1. StepsIn(steps) = {"share", "find"} /\ Ordered(steps)
      BY <2>3, Beginnings
    <3>2. {"share", "find"} # {"lock", "insert", "unlock", "epollAdd"}
      OBVIOUS
    <3> QED
      BY <2>1, <3>1, <3>2, Zenon
  <2> QED
    BY <1>1, <2>2, <2>3
<1>5. Closed(Left(t)')
  BY <1>4 DEF Closed
<1>6. /\ Left(t) = {} /\ owner[t] = "none"
      /\ \A d \in 1 .. Depth : reads[<<t, d>>] = "none"
      /\ 1 \in 1 .. Depth
  BY <1>1, IdleHoldsNothing, TablesAssumption, DepthAssumption, SMTT(20)
<1>7. UNCHANGED <<owner, reads, table, epoll, status>>
  BY <1>1, SMTT(20) DEF lockVars
<1>8. Balanced(t)'
  BY <1>4, <1>6, <1>7 DEF Balanced
<1>9. OneCallEach'
  <2>1. OneCallEach /\ t # SessionThread /\ \A u \in Threads : call[u].handler # h
    BY <1>1 DEF QuiescenceInv
  <2>2. Left(SessionThread)' \subseteq {"share", "iterate", "unshare"}
    BY <1>3, <2>1, TablesAssumption DEF OneCallEach
  <2>3. \A u \in Threads \ {SessionThread} : Left(u)' # {} => call'[u].handler \in Handlers
    BY <1>3, <2>1, Zenon DEF OneCallEach
  <2>4. \A u, v \in Threads : call'[u].handler \in Handlers /\ call'[v].handler = call'[u].handler => u = v
    BY <1>3, <2>1 DEF OneCallEach
  <2> QED
    BY <2>2, <2>3, <2>4 DEF OneCallEach
<1>10. EntriesInv'
  <2>1. CASE Left(t)' = {"share", "find"}
    <3>1. \A s \in {"insert", "epollAdd", "erase", "epollRemove"} : s \notin Left(t)' /\ s \notin Left(t)
      BY <1>6, <2>1, SMTT(20)
    <3> QED
      BY <1>3, <1>7, <3>1, SameEntries
  <2>2. CASE Left(t)' = {"lock", "insert", "unlock", "epollAdd"}
    <3>1. status'[h] = "new" /\ ~Adding(t)' /\ ~Withdrawn(t)' /\ ~Erased(t)' /\ "erase" \notin Left(t)'
          /\ ~Adding(t) /\ ~Withdrawn(t) /\ ~Erased(t)
      BY <1>4, <1>6, <1>7, <2>2 DEF Adding, Withdrawn, Erased
    <3>2. \A u \in Threads \ {t} :
            /\ Adding(u)' <=> Adding(u)
            /\ Withdrawn(u)' <=> Withdrawn(u)
            /\ Erased(u)' <=> Erased(u)
            /\ call'[u].handler = call[u].handler /\ CallKey(u)' = CallKey(u)
      BY <1>3 DEF Adding, Withdrawn, Erased, CallKey
    <3>3. \A g : Entered(g)' <=> Entered(g)
      BY <1>7 DEF Entered, KeyOf
    <3>4. ASSUME NEW g \in Handlers, Entered(g)'
          PROVE  status'[g] # "new" \/ \E u \in Threads : Adding(u)' /\ call'[u].handler = g
      BY <1>7, <3>1, <3>2, <3>3, <3>4, ZenonT(30) DEF QuiescenceInv, EntriesInv
    <3>5. ASSUME NEW u \in Threads
          PROVE  /\ "insert" \in Left(u)' => status'[call'[u].handler] = "new"
                 /\ Adding(u)' => Entered(call[u].handler)'
                 /\ "erase" \in Left(u)' => table'[CallKey(u)'] = <<call'[u].handler>>
                 /\ Withdrawn(u)' => CallKey(u)' \notin epoll'
                 /\ Erased(u)' => table'[CallKey(u)'] = <<>>
      <4>1. CASE u = t
        BY <1>3, <3>1, <4>1, Zenon
      <4>2. CASE u # t
        BY <1>3, <1>7, <4>2, OtherCall, Zenon DEF QuiescenceInv
      <4> QED
        BY <4>1, <4>2, Zenon
    <3>6. ASSUME NEW k \in Keys
          PROVE  /\ table'[k] # <<>> /\ k \notin epoll' =>
                      \E u \in Threads : (Adding(u)' \/ Withdrawn(u)') /\ CallKey(u)' = k
                 /\ table'[k] = <<>> /\ k \in epoll' => \E u \in Threads : Erased(u)' /\ CallKey(u)' = k
      <4>1. /\ table[k] # <<>> /\ k \notin epoll =>
                 \E u \in Threads : (Adding(u) \/ Withdrawn(u)) /\ CallKey(u) = k
            /\ table[k] = <<>> /\ k \in epoll => \E u \in Threads : Erased(u) /\ CallKey(u) = k
        BY SMTT(20) DEF QuiescenceInv, EntriesInv
      <4>2. \A u \in Threads : (Adding(u) \/ Withdrawn(u)) /\ CallKey(u) = k =>
              (Adding(u)' \/ Withdrawn(u)') /\ CallKey(u)' = k
        BY <3>1, <3>2, SMTT(20)
      <4>3. \A u \in Threads : Erased(u) /\ CallKey(u) = k => Erased(u)' /\ CallKey(u)' = k
        BY <3>1, <3>2, SMTT(20)
      <4> QED
        BY <1>7, <4>1, <4>2, <4>3, Zenon
    <3>7. \A k \in SignalHandlers : table'[k] \in {<<>>, <<k>>}
      BY <1>7 DEF QuiescenceInv, EntriesInv
    <3> QED
      BY <3>4, <3>5, <3>6, <3>7, Zenon DEF EntriesInv
  <2> QED
    BY <1>4, <2>1, <2>2
<1>11. /\ table' \in [Keys -> Seq(Handlers)]
       /\ status' \in [Handlers -> {"new", "registered", "unregistered"}]
       /\ Ordered(call'[t].todo)
  BY <1>3, <1>4, <1>7 DEF QuiescenceInv
<1> QED
  BY <1>3, <1>5, <1>7, <1>8, <1>9, <1>10, <1>11, QuiescenceStep

(* The session's thread begins to look a handler up.                       *)
LEMMA ForeachKeepsQuiescence ==
  ASSUME QuiescenceInv, TablesInv', foreach PROVE QuiescenceInv'
<1> DEFINE t == SessionThread
           steps == <<"share", "iterate", "unshare">>
<1>1. /\ t \in Threads /\ Idle(t) /\ Begin(t, NoHandler, steps)
      /\ UNCHANGED <<lockVars, table, epoll, status>>
  BY TablesAssumption DEF foreach
<1>3. /\ call'[t].todo = steps /\ call'[t].handler = NoHandler
      /\ \A u \in Threads \ {t} : call'[u] = call[u] /\ Left(u)' = Left(u)
  BY <1>1, Zenon DEF QuiescenceInv, TablesInv, Begin, Left
<1>4. Left(t)' = {"share", "iterate", "unshare"} /\ Ordered(call'[t].todo)
  BY <1>3, Beginnings DEF Left
<1> HIDE DEF steps
<1>5. Closed(Left(t)')
  BY <1>4 DEF Closed
<1>6. /\ Left(t) = {} /\ owner[t] = "none"
      /\ \A d \in 1 .. Depth : reads[<<t, d>>] = "none"
      /\ 1 \in 1 .. Depth
  BY <1>1, IdleHoldsNothing, TablesAssumption, DepthAssumption
<1>7. UNCHANGED <<owner, reads, table, epoll, status>>
  BY <1>1 DEF lockVars
<1>8. Balanced(t)'
  BY <1>4, <1>6, <1>7 DEF Balanced
<1>9. OneCallEach'
  BY <1>3, <1>4, HandlersAssumption DEF QuiescenceInv, OneCallEach
<1>10. EntriesInv'
  <2>1. \A s \in {"insert", "epollAdd", "erase", "epollRemove"} : s \notin Left(t)' /\ s \notin Left(t)
    BY <1>4, <1>6
  <2> QED
    BY <1>3, <1>7, <2>1, SameEntries
<1>11. /\ table' \in [Keys -> Seq(Handlers)]
       /\ status' \in [Handlers -> {"new", "registered", "unregistered"}]
  BY <1>7 DEF QuiescenceInv
<1> QED
  BY <1>1, <1>3, <1>4, <1>5, <1>7, <1>8, <1>9, <1>10, <1>11, QuiescenceStep, Zenon
=============================================================================
