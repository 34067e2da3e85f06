-------------------------- MODULE QuiescenceProofs --------------------------
(***************************************************************************)
(* The steps of HandlerTable that read and change the tables, and the      *)
(* calls as a whole, keep QuiescenceInv, for every set of handlers and of  *)
(* threads.                                                                *)
(***************************************************************************)
EXTENDS HandlerTableProofs

(* What a step at the tables leaves alone: the lock, and the other calls.  *)
LEMMA AccessStep ==
  ASSUME QuiescenceInv, TablesInv', NEW t \in Threads,
         \/ insert(t) \/ epollRemove(t) \/ erase(t) \/ eraseFromCopy(t) \/ iterate(t)
  PROVE  /\ TablesInv' /\ UNCHANGED <<owner, reads>>
         /\ \A u \in Threads \ {t} : call'[u] = call[u] /\ Left(u)' = Left(u)
         /\ call'[t].handler = call[t].handler
         /\ Left(t)' = Left(t) \ {Head(call[t].todo)} /\ Head(call[t].todo) \in Left(t)
         /\ Ordered(call'[t].todo) /\ Closed(Left(t)') /\ Balanced(t)' /\ OneCallEach'
<1>1. ~Idle(t) /\ Done(t) /\ Head(call[t].todo) \in {"insert", "epollRemove", "erase", "eraseFromCopy", "iterate"}
  BY DEF insert, epollRemove, erase, eraseFromCopy, iterate, At
<1>2. TablesInv' /\ UNCHANGED <<owner, reads>>
  BY DEF insert, epollRemove, erase, eraseFromCopy, iterate, lockVars
<1>3. /\ \A u \in Threads \ {t} : call'[u] = call[u]
      /\ call'[t].handler = call[t].handler
      /\ Left(t)' = Left(t) \ {Head(call[t].todo)} /\ Head(call[t].todo) \in Left(t)
      /\ Ordered(call'[t].todo) /\ Closed(Left(t)')
  BY <1>1, DoneLeft
<1>4. \A u \in Threads \ {t} : Left(u)' = Left(u)
  BY <1>3 DEF Left
<1>5. Balanced(t)'
  <2>1. \A s \in {"lock", "unlock", "upgrade", "downgrade", "share"} : s \in Left(t)' <=> s \in Left(t)
    BY <1>1, <1>3
  <2>2. Left(t)' \cap {"find", "unshare"} = Left(t) \cap {"find", "unshare"}
    BY <1>1, <1>3
  <2>3. Balanced(t)
    BY DEF QuiescenceInv
  <2> QED
    BY <1>2, <2>1, <2>2, <2>3 DEF Balanced
<1>6. OneCallEach'
  BY <1>3, StillOneCallEach, Zenon
<1> QED
  BY <1>2, <1>3, <1>4, <1>5, <1>6

(* Whoever inserts is alone with the tables: nobody else is about to       *)
(* remove anything.                                                        *)
LEMMA InsertAlone ==
  ASSUME QuiescenceInv, NEW t \in Threads, "insert" \in Left(t), "lock" \notin Left(t), NEW u \in Threads
  PROVE  "erase" \notin Left(u) /\ "epollRemove" \notin Left(u)
<1>1. owner[t] = "writer"
  BY Zenon DEF QuiescenceInv, Balanced, Closed
<1>2. <<u, 1>> \in Holds
  BY TablesAssumption, DepthAssumption DEF Holds
<1>3. reads[<<u, 1>>] # "held"
  BY <1>1, <1>2 DEF QuiescenceInv, TablesInv, LockInv
<1>4. "share" \in Left(u) \/ Left(u) \cap {"find", "unshare"} = {}
  BY <1>3 DEF QuiescenceInv, Balanced
<1>5. Closed(Left(u))
  BY DEF QuiescenceInv
<1> QED
  BY <1>4, <1>5 DEF Closed

(* No two calls are about the same handler.                                *)
LEMMA OtherHandler ==
  ASSUME QuiescenceInv, NEW t \in Threads, NEW u \in Threads, u # t, NEW s \in Left(t),
         s \notin {"share", "iterate", "unshare"}
  PROVE  /\ t # SessionThread /\ call[t].handler \in Handlers /\ call[u].handler # call[t].handler
BY DEF QuiescenceInv, OneCallEach

(* registerHandler enters the handler into the table.                      *)
LEMMA InsertKeepsQuiescence ==
  ASSUME QuiescenceInv, TablesInv', NEW t \in Threads, insert(t) PROVE QuiescenceInv'
<1> DEFINE h == call[t].handler
           k == KeyOf(h)
<1>1. /\ TablesInv' /\ UNCHANGED <<owner, reads>>
      /\ \A u \in Threads \ {t} : call'[u] = call[u] /\ Left(u)' = Left(u)
      /\ call'[t].handler = call[t].handler
      /\ Left(t)' = Left(t) \ {Head(call[t].todo)} /\ Head(call[t].todo) \in Left(t)
      /\ Ordered(call'[t].todo) /\ Closed(Left(t)') /\ Balanced(t)' /\ OneCallEach'
  BY AccessStep
<1>2. /\ Head(call[t].todo) = "insert" /\ ~Idle(t) /\ Done(t)
      /\ table' = [table EXCEPT ![k] = Append(@, h)] /\ UNCHANGED <<epoll, status>>
  BY DEF insert, At
<1>3. /\ "insert" \in Left(t) /\ "lock" \notin Left(t) /\ "epollAdd" \in Left(t)'
      /\ "insert" \notin Left(t)'
  <2>1. "lock" \notin Left(t)
    BY <1>2, DoneLeft, Zenon
  <2> QED
    BY <1>1, <1>2, <2>1, Zenon DEF QuiescenceInv, Closed
<1>4. h \in Handlers /\ k \in Keys /\ \A u \in Threads \ {t} : call[u].handler # h
  <2>1. t # SessionThread /\ h \in Handlers
    BY <1>3, TablesAssumption DEF QuiescenceInv, OneCallEach
  <2>2. k \in Keys
    BY <2>1 DEF KeyOf, Keys, Handlers
  <2>3. \A u \in Threads \ {t} : call[u].handler # h
    BY <2>1 DEF QuiescenceInv, OneCallEach
  <2> QED
    BY <2>1, <2>2, <2>3
<1>5. table \in [Keys -> Seq(Handlers)] /\ table[k] \in Seq(Handlers) /\ EntriesInv
  BY <1>4 DEF QuiescenceInv
<1> HIDE DEF h, k
<1>6. /\ Append(table[k], h) \in Seq(Handlers) /\ Len(Append(table[k], h)) = Len(table[k]) + 1
      /\ \A i \in 1 .. Len(table[k]) : Append(table[k], h)[i] = table[k][i]
      /\ Append(table[k], h)[Len(table[k]) + 1] = h
      /\ Len(table[k]) \in Nat /\ Append(table[k], h) # <<>>
  BY <1>4, <1>5
<1>7. table'[k] = Append(table[k], h) /\ \A j \in Keys \ {k} : table'[j] = table[j]
  BY <1>2, <1>4, <1>5
<1>8. table' \in [Keys -> Seq(Handlers)] /\ status' \in [Handlers -> {"new", "registered", "unregistered"}]
  BY <1>2, <1>5, <1>6, Zenon DEF QuiescenceInv
<1>9. \A g \in Handlers : Entered(g)' <=> Entered(g) \/ g = h
  <2> SUFFICES ASSUME NEW g \in Handlers PROVE Entered(g)' <=> Entered(g) \/ g = h
    OBVIOUS
  <2>1. KeyOf(g) \in Keys /\ KeyOf(h) = k
    BY DEF KeyOf, Keys, Handlers, k
  <2>2. Entered(g)' <=> \E i \in 1 .. Len(table'[KeyOf(g)]) : table'[KeyOf(g)][i] = g
    BY DEF Entered, KeyOf
  <2>3. CASE KeyOf(g) # k
    BY <1>7, <2>1, <2>2, <2>3 DEF Entered
  <2>4. CASE KeyOf(g) = k
    <3>1. Entered(g)' <=> \E i \in 1 .. Len(table[k]) + 1 : Append(table[k], h)[i] = g
      <4>1. Len(table'[k]) = Len(table[k]) + 1
        BY <1>6, <1>7
      <4>2. Entered(g)' <=> \E i \in 1 .. Len(table'[k]) : table'[k][i] = g
        BY <2>2, <2>4
      <4> QED
        BY <1>7, <4>1, <4>2
    <3>2. \A i \in 1 .. Len(table[k]) + 1 : i \in 1 .. Len(table[k]) \/ i = Len(table[k]) + 1
      BY <1>6
    <3>3. Len(table[k]) + 1 \in 1 .. Len(table[k]) + 1
          /\ \A i \in 1 .. Len(table[k]) : i \in 1 .. Len(table[k]) + 1
      BY <1>6
    <3> QED
      BY <1>6, <2>4, <3>1, <3>2, <3>3 DEF Entered
  <2> QED
    BY <2>3, <2>4
<1>10. ~Entered(h)
  <2>1. status[h] = "new"
    BY <1>3, <1>5, Zenon DEF EntriesInv, h
  <2>2. \A u \in Threads : ~(Adding(u) /\ call[u].handler = h)
    BY <1>3, <1>4 DEF Adding
  <2> QED
    BY <1>4, <1>5, <2>1, <2>2, Zenon DEF EntriesInv
<1>11. \A u \in Threads \ {t} :
        /\ Adding(u)' <=> Adding(u)
        /\ call'[u].handler = call[u].handler /\ CallKey(u)' = CallKey(u)
  BY <1>1 DEF Adding, CallKey
<1>12. Adding(t)' /\ CallKey(t)' = k /\ CallKey(t) = k /\ call'[t].handler = h
  BY <1>1, <1>3 DEF Adding, CallKey, k, h
<1>13. \A u \in Threads : ~Withdrawn(u) /\ ~Withdrawn(u)' /\ ~Erased(u) /\ ~Erased(u)' /\ "erase" \notin Left(u)'
  <2>1. \A u \in Threads : "erase" \notin Left(u) /\ "epollRemove" \notin Left(u)
    BY <1>3, InsertAlone
  <2>2. \A u \in Threads : "erase" \notin Left(u)' /\ "epollRemove" \notin Left(u)'
    BY <1>1, <2>1
  <2> QED
    BY <2>1, <2>2 DEF Withdrawn, Erased
<1>14. EntriesInv'
  <2>1. ASSUME NEW g \in Handlers, Entered(g)'
        PROVE  status'[g] # "new" \/ \E u \in Threads : Adding(u)' /\ call'[u].handler = g
    <3>1. CASE g = h
      BY <1>12, <3>1
    <3>2. CASE g # h
      <4>1. status[g] # "new" \/ \E u \in Threads : Adding(u) /\ call[u].handler = g
        BY <1>5, <1>9, <2>1, <3>2 DEF EntriesInv
      <4>2. \A u \in Threads : Adding(u) /\ call[u].handler = g => u # t
        BY <1>3 DEF Adding
      <4> QED
        BY <1>2, <1>11, <4>1, <4>2
    <3> QED
      BY <3>1, <3>2
  <2>2. ASSUME NEW j \in SignalHandlers PROVE table'[j] \in {<<>>, <<j>>}
    <3>1. j \in Keys /\ j \in Handlers /\ j \notin IOHandlers /\ j # Descriptor /\ table[j] \in {<<>>, <<j>>}
      BY <1>5, HandlersAssumption, Zenon DEF Keys, Handlers, EntriesInv
    <3>2. CASE j # k
      BY <1>7, <3>1, <3>2, Zenon
    <3>3. CASE j = k
      <4>1. h = j
        BY <1>4, <3>1, <3>3 DEF KeyOf, k
      <4>2. KeyOf(h) = k
        BY DEF k
      <4>3. table[k] # <<h>>
        <5> SUFFICES ASSUME table[k] = <<h>> PROVE FALSE
          OBVIOUS
        <5>1. Len(table[k]) = 1 /\ table[k][1] = h
          OBVIOUS
        <5>2. 1 \in 1 .. Len(table[k])
          BY <5>1
        <5> QED
          BY <1>10, <4>2, <5>1, <5>2 DEF Entered
      <4>4. table[k] = <<>>
        BY <3>1, <3>3, <4>1, <4>3
      <4>5. Append(<<>>, h) = <<h>>
        OBVIOUS
      <4> QED
        BY <1>7, <3>3, <4>1, <4>4, <4>5, Zenon
    <3> QED
      BY <3>2, <3>3
  <2>3. ASSUME NEW u \in Threads
        PROVE  /\ "insert" \in Left(u)' => status'[call'[u].handler] = "new"
               /\ Adding(u)' => Entered(call[u].handler)'
               /\ "erase" \in Left(u)' => table'[CallKey(u)'] = <<call'[u].handler>>
               /\ Withdrawn(u)' => CallKey(u)' \notin epoll'
               /\ Erased(u)' => table'[CallKey(u)'] = <<>>
    <3>1. CASE u = t
      BY <1>3, <1>4, <1>9, <1>12, <1>13, <3>1
    <3>2. CASE u # t
      <4>1. "insert" \in Left(u)' => status'[call'[u].handler] = "new"
        <5>1. "insert" \in Left(u) => status[call[u].handler] = "new"
          BY <1>5 DEF EntriesInv
        <5>2. Left(u)' = Left(u) /\ call'[u] = call[u] /\ status' = status
          BY <1>1, <1>2, <3>2
        <5> QED
          BY <5>1, <5>2
      <4>2. Adding(u) => call[u].handler \in Handlers
        BY <3>2, TablesAssumption DEF QuiescenceInv, OneCallEach, Adding
      <4>3. Adding(u) => Entered(call[u].handler)
        BY <1>5 DEF EntriesInv
      <4>4. Adding(u)' => Entered(call[u].handler)'
        BY <1>9, <1>11, <3>2, <4>2, <4>3
      <4> QED
        BY <1>13, <4>1, <4>4
    <3> QED
      BY <3>1, <3>2
  <2>4. ASSUME NEW j \in Keys
        PROVE  /\ table'[j] # <<>> /\ j \notin epoll' =>
                    \E u \in Threads : (Adding(u)' \/ Withdrawn(u)') /\ CallKey(u)' = j
               /\ table'[j] = <<>> /\ j \in epoll' => \E u \in Threads : Erased(u)' /\ CallKey(u)' = j
    <3>1. CASE j = k
      BY <1>6, <1>7, <1>12, <3>1
    <3>2. CASE j # k
      <4>1. /\ table[j] # <<>> /\ j \notin epoll =>
                    \E u \in Threads : (Adding(u) \/ Withdrawn(u)) /\ CallKey(u) = j
            /\ table[j] = <<>> /\ j \in epoll => \E u \in Threads : Erased(u) /\ CallKey(u) = j
        BY <1>5 DEF EntriesInv
      <4>2. \A u \in Threads : CallKey(u) = j => u # t
        BY <1>12, <3>2
      <4> QED
        BY <1>2, <1>7, <1>11, <1>13, <3>2, <4>1, <4>2
    <3> QED
      BY <3>1, <3>2
  <2> QED
    BY <2>1, <2>2, <2>3, <2>4, Zenon DEF EntriesInv
<1> QED
  BY <1>1, <1>8, <1>14, QuiescenceStep, Zenon

(* The entry of the last handler goes from the table.                      *)
LEMMA EraseKeepsQuiescence ==
  ASSUME QuiescenceInv, TablesInv', NEW t \in Threads, erase(t) PROVE QuiescenceInv'
<1> DEFINE h == call[t].handler
           k == KeyOf(h)
<1>1. /\ TablesInv' /\ UNCHANGED <<owner, reads>>
      /\ \A u \in Threads \ {t} : call'[u] = call[u] /\ Left(u)' = Left(u)
      /\ call'[t].handler = call[t].handler
      /\ Left(t)' = Left(t) \ {Head(call[t].todo)} /\ Head(call[t].todo) \in Left(t)
      /\ Ordered(call'[t].todo) /\ Closed(Left(t)') /\ Balanced(t)' /\ OneCallEach'
  BY AccessStep, Zenon
<1>2. /\ Head(call[t].todo) = "erase"
      /\ table' = [table EXCEPT ![k] = <<>>] /\ UNCHANGED <<epoll, status>>
  BY DEF erase, At
<1>3. "erase" \in Left(t) /\ "insert" \notin Left(t) /\ "epollAdd" \notin Left(t)
  BY <1>1, <1>2, Zenon DEF QuiescenceInv, Closed
<1>4. h \in Handlers /\ k \in Keys /\ \A u \in Threads \ {t} : call[u].handler # h
  <2>1. t # SessionThread /\ h \in Handlers
    BY <1>3, TablesAssumption DEF QuiescenceInv, OneCallEach
  <2>2. k \in Keys
    BY <2>1 DEF KeyOf, Keys, Handlers
  <2>3. \A u \in Threads \ {t} : call[u].handler # h
    BY <2>1 DEF QuiescenceInv, OneCallEach
  <2> QED
    BY <2>1, <2>2, <2>3
<1>5. /\ table \in [Keys -> Seq(Handlers)] /\ EntriesInv
      /\ CallKey(t) = k /\ CallKey(t)' = k /\ table[k] = <<h>>
  BY <1>1, <1>3, Zenon DEF QuiescenceInv, EntriesInv, CallKey
<1> HIDE DEF h, k
<1>6. table'[k] = <<>> /\ \A j \in Keys \ {k} : table'[j] = table[j]
  BY <1>2, <1>4, <1>5
<1>7. table' \in [Keys -> Seq(Handlers)] /\ status' \in [Handlers -> {"new", "registered", "unregistered"}]
  <2>1. <<>> \in Seq(Handlers)
    OBVIOUS
  <2> QED
    BY <1>2, <1>5, <2>1, Zenon DEF QuiescenceInv
<1>8. \A g \in Handlers : /\ Entered(g)' => Entered(g)
                          /\ KeyOf(g) # k => (Entered(g)' <=> Entered(g))
                          /\ KeyOf(g) = k /\ Entered(g) => g = h
  <2> SUFFICES ASSUME NEW g \in Handlers
               PROVE  /\ Entered(g)' => Entered(g)
                      /\ KeyOf(g) # k => (Entered(g)' <=> Entered(g))
                      /\ KeyOf(g) = k /\ Entered(g) => g = h
    OBVIOUS
  <2>1. KeyOf(g) \in Keys
    BY DEF KeyOf, Keys, Handlers
  <2>2. Entered(g)' <=> \E i \in 1 .. Len(table'[KeyOf(g)]) : table'[KeyOf(g)][i] = g
    BY DEF Entered, KeyOf
  <2>3. CASE KeyOf(g) # k
    BY <1>6, <2>1, <2>2, <2>3 DEF Entered
  <2>4. CASE KeyOf(g) = k
    <3>1. ~Entered(g)'
      BY <1>6, <2>2, <2>4
    <3>2. Entered(g) => g = h
      <4>1. Len(<<h>>) = 1 /\ \A i \in 1 .. 1 : <<h>>[i] = h
        OBVIOUS
      <4> QED
        BY <1>5, <2>4, <4>1 DEF Entered
    <3> QED
      BY <2>4, <3>1, <3>2
  <2> QED
    BY <2>3, <2>4
<1>9. \A u \in Threads \ {t} :
        /\ Adding(u)' <=> Adding(u)
        /\ Withdrawn(u)' <=> Withdrawn(u)
        /\ Erased(u)' <=> Erased(u)
        /\ call'[u].handler = call[u].handler /\ CallKey(u)' = CallKey(u)
  BY <1>1 DEF Adding, CallKey, Withdrawn, Erased
<1>10. /\ ~Adding(t) /\ ~Adding(t)' /\ ~Withdrawn(t)' /\ "erase" \notin Left(t)' /\ "insert" \notin Left(t)'
       /\ Withdrawn(t) \/ Erased(t)'
  BY <1>1, <1>2, <1>3 DEF Adding, Withdrawn, Erased
<1>11. \A u \in Threads \ {t} : Adding(u) \/ "erase" \in Left(u) => CallKey(u) # k
  <2> SUFFICES ASSUME NEW u \in Threads \ {t}, CallKey(u) = k, Adding(u) \/ "erase" \in Left(u)
               PROVE  FALSE
    OBVIOUS
  <2>1. call[u].handler \in Handlers
    BY TablesAssumption DEF QuiescenceInv, OneCallEach, Adding
  <2>2. CASE Adding(u)
    <3>1. Entered(call[u].handler)
      BY <1>5, <2>2 DEF EntriesInv
    <3> QED
      BY <1>4, <1>8, <2>1, <3>1 DEF CallKey
  <2>3. CASE "erase" \in Left(u)
    <3>1. table[k] = <<call[u].handler>>
      BY <1>5, <2>3 DEF EntriesInv
    <3>2. call[u].handler = h
      BY <1>5, <3>1
    <3> QED
      BY <1>4, <3>2
  <2> QED
    BY <2>2, <2>3
<1>12. EntriesInv'
  <2>1. ASSUME NEW g \in Handlers, Entered(g)'
        PROVE  status'[g] # "new" \/ \E u \in Threads : Adding(u)' /\ call'[u].handler = g
    <3>1. status[g] # "new" \/ \E u \in Threads : Adding(u) /\ call[u].handler = g
      BY <1>5, <1>8, <2>1 DEF EntriesInv
    <3> QED
      BY <1>2, <1>9, <1>10, <3>1
  <2>2. ASSUME NEW j \in SignalHandlers PROVE table'[j] \in {<<>>, <<j>>}
    <3>1. j \in Keys /\ table[j] \in {<<>>, <<j>>}
      BY <1>5 DEF Keys, EntriesInv
    <3> QED
      BY <1>6, <3>1
  <2>3. ASSUME NEW u \in Threads
        PROVE  /\ "insert" \in Left(u)' => status'[call'[u].handler] = "new"
               /\ Adding(u)' => Entered(call[u].handler)'
               /\ "erase" \in Left(u)' => table'[CallKey(u)'] = <<call'[u].handler>>
               /\ Withdrawn(u)' => CallKey(u)' \notin epoll'
               /\ Erased(u)' => table'[CallKey(u)'] = <<>>
    <3>1. CASE u = t
      BY <1>5, <1>6, <1>10, <3>1
    <3>2. CASE u # t
      <4>1. "insert" \in Left(u)' => status'[call'[u].handler] = "new"
        <5>1. "insert" \in Left(u) => status[call[u].handler] = "new"
          BY <1>5 DEF EntriesInv
        <5>2. Left(u)' = Left(u) /\ call'[u] = call[u] /\ status' = status
          BY <1>1, <1>2, <3>2
        <5> QED
          BY <5>1, <5>2
      <4>2. \A s \in {"epollAdd", "erase", "epollRemove"} : s \in Left(u) =>
              call[u].handler \in Handlers /\ CallKey(u) \in Keys
        <5>1. \A s \in {"epollAdd", "erase", "epollRemove"} : s \in Left(u) => call[u].handler \in Handlers
          BY <3>2, TablesAssumption DEF QuiescenceInv, OneCallEach
        <5> QED
          BY <5>1 DEF CallKey, KeyOf, Keys, Handlers
      <4>3. Adding(u)' => Entered(call[u].handler)'
        <5>1. Adding(u) => Entered(call[u].handler) /\ CallKey(u) # k /\ call[u].handler \in Handlers
          BY <1>5, <1>11, <3>2, <4>2 DEF EntriesInv, Adding
        <5> QED
          BY <1>8, <1>9, <3>2, <5>1 DEF CallKey
      <4>4. "erase" \in Left(u)' => table'[CallKey(u)'] = <<call'[u].handler>>
        <5>1. "erase" \in Left(u) => /\ table[CallKey(u)] = <<call[u].handler>>
                                      /\ CallKey(u) \in Keys /\ CallKey(u) # k
          BY <1>5, <1>11, <3>2, <4>2 DEF EntriesInv
        <5> QED
          BY <1>1, <1>6, <1>9, <3>2, <5>1, Zenon
      <4>5. Withdrawn(u)' => CallKey(u)' \notin epoll'
        <5>1. Withdrawn(u) => CallKey(u) \notin epoll
          BY <1>5 DEF EntriesInv
        <5> QED
          BY <1>2, <1>9, <3>2, <5>1
      <4>6. Erased(u)' => table'[CallKey(u)'] = <<>>
        <5>1. Erased(u) => table[CallKey(u)] = <<>> /\ CallKey(u) \in Keys
          BY <1>5, <4>2 DEF EntriesInv, Erased
        <5> QED
          BY <1>6, <1>9, <3>2, <5>1
      <4> QED
        BY <4>1, <4>3, <4>4, <4>5, <4>6
    <3> QED
      BY <3>1, <3>2
  <2>4. ASSUME NEW j \in Keys
        PROVE  /\ table'[j] # <<>> /\ j \notin epoll' =>
                    \E u \in Threads : (Adding(u)' \/ Withdrawn(u)') /\ CallKey(u)' = j
               /\ table'[j] = <<>> /\ j \in epoll' => \E u \in Threads : Erased(u)' /\ CallKey(u)' = j
    <3>1. CASE j = k
      <4>1. Withdrawn(t) => k \notin epoll
        BY <1>5 DEF EntriesInv
      <4> QED
        BY <1>2, <1>5, <1>6, <1>10, <3>1, <4>1
    <3>2. CASE j # k
      <4>1. /\ table[j] # <<>> /\ j \notin epoll =>
                    \E u \in Threads : (Adding(u) \/ Withdrawn(u)) /\ CallKey(u) = j
            /\ table[j] = <<>> /\ j \in epoll => \E u \in Threads : Erased(u) /\ CallKey(u) = j
        BY <1>5 DEF EntriesInv
      <4>2. \A u \in Threads : CallKey(u) = j => u # t
        BY <1>5, <3>2
      <4> QED
        BY <1>2, <1>6, <1>9, <3>2, <4>1, <4>2
    <3> QED
      BY <3>1, <3>2
  <2> QED
    BY <2>1, <2>2, <2>3, <2>4 DEF EntriesInv
<1> QED
  BY <1>1, <1>7, <1>12, QuiescenceStep, Zenon

(* epoll stops to watch the key of the last handler.                       *)
LEMMA EpollRemoveKeepsQuiescence ==
  ASSUME QuiescenceInv, TablesInv', NEW t \in Threads, epollRemove(t) PROVE QuiescenceInv'
<1> DEFINE k == CallKey(t)
<1>1. /\ TablesInv' /\ UNCHANGED <<owner, reads>>
      /\ \A u \in Threads \ {t} : call'[u] = call[u] /\ Left(u)' = Left(u)
      /\ call'[t].handler = call[t].handler
      /\ Left(t)' = Left(t) \ {Head(call[t].todo)} /\ Head(call[t].todo) \in Left(t)
      /\ Ordered(call'[t].todo) /\ Closed(Left(t)') /\ Balanced(t)' /\ OneCallEach'
  BY AccessStep
<1>2. /\ Head(call[t].todo) = "epollRemove" /\ EntriesInv
      /\ epoll' = epoll \ {k} /\ UNCHANGED <<table, status>>
  BY DEF epollRemove, At, CallKey, QuiescenceInv
<1>3. "epollRemove" \in Left(t) /\ "insert" \notin Left(t) /\ "epollAdd" \notin Left(t)
  BY <1>1, <1>2, Zenon DEF QuiescenceInv, Closed
<1>4. CallKey(t)' = k
  BY <1>1 DEF CallKey
<1>5. table' \in [Keys -> Seq(Handlers)] /\ status' \in [Handlers -> {"new", "registered", "unregistered"}]
  BY <1>2 DEF QuiescenceInv
<1>6. \A g : Entered(g)' <=> Entered(g)
  BY <1>2 DEF Entered, KeyOf
<1>7. \A u \in Threads \ {t} :
        /\ Adding(u)' <=> Adding(u)
        /\ Withdrawn(u)' <=> Withdrawn(u)
        /\ Erased(u)' <=> Erased(u)
        /\ call'[u].handler = call[u].handler /\ CallKey(u)' = CallKey(u)
  BY <1>1 DEF Adding, CallKey, Withdrawn, Erased
<1>8. /\ ~Adding(t) /\ ~Adding(t)' /\ ~Withdrawn(t) /\ ~Erased(t)' /\ "insert" \notin Left(t)'
      /\ "erase" \in Left(t)' <=> "erase" \in Left(t)
      /\ Withdrawn(t)' \/ Erased(t)
  BY <1>1, <1>2, <1>3 DEF Adding, Withdrawn, Erased
<1> HIDE DEF k
<1>9. EntriesInv'
  <2>1. ASSUME NEW g \in Handlers, Entered(g)'
        PROVE  status'[g] # "new" \/ \E u \in Threads : Adding(u)' /\ call'[u].handler = g
    BY <1>2, <1>6, <1>7, <1>8, <2>1 DEF EntriesInv
  <2>2. \A j \in SignalHandlers : table'[j] \in {<<>>, <<j>>}
    BY <1>2 DEF EntriesInv
  <2>3. ASSUME NEW u \in Threads
        PROVE  /\ "insert" \in Left(u)' => status'[call'[u].handler] = "new"
               /\ Adding(u)' => Entered(call[u].handler)'
               /\ "erase" \in Left(u)' => table'[CallKey(u)'] = <<call'[u].handler>>
               /\ Withdrawn(u)' => CallKey(u)' \notin epoll'
               /\ Erased(u)' => table'[CallKey(u)'] = <<>>
    <3>1. CASE u = t
      <4>1. "erase" \in Left(t) => table[CallKey(t)] = <<call[t].handler>>
        BY <1>2 DEF EntriesInv
      <4> QED
        BY <1>1, <1>2, <1>4, <1>8, <3>1, <4>1 DEF k
    <3>2. CASE u # t
      BY <1>1, <1>2, <3>2, OtherCall
    <3> QED
      BY <3>1, <3>2
  <2>4. ASSUME NEW j \in Keys
        PROVE  /\ table'[j] # <<>> /\ j \notin epoll' =>
                    \E u \in Threads : (Adding(u)' \/ Withdrawn(u)') /\ CallKey(u)' = j
               /\ table'[j] = <<>> /\ j \in epoll' => \E u \in Threads : Erased(u)' /\ CallKey(u)' = j
    <3>1. CASE j = k
      <4>1. Erased(t) => table[k] = <<>>
        BY <1>2 DEF EntriesInv, k
      <4> QED
        <5>1. k \notin epoll'
          BY <1>2
        <5>2. table'[k] = table[k]
          BY <1>2
        <5> QED
          BY <1>4, <1>8, <3>1, <4>1, <5>1, <5>2
    <3>2. CASE j # k
      <4>1. /\ table[j] # <<>> /\ j \notin epoll =>
                    \E u \in Threads : (Adding(u) \/ Withdrawn(u)) /\ CallKey(u) = j
            /\ table[j] = <<>> /\ j \in epoll => \E u \in Threads : Erased(u) /\ CallKey(u) = j
        BY <1>2 DEF EntriesInv
      <4>2. \A u \in Threads : CallKey(u) = j => u # t
        BY <3>2 DEF k
      <4> QED
        BY <1>2, <1>7, <3>2, <4>1, <4>2, Zenon
    <3> QED
      BY <3>1, <3>2
  <2> QED
    BY <2>1, <2>2, <2>3, <2>4 DEF EntriesInv
<1> QED
  BY <1>1, <1>5, <1>9, QuiescenceStep, Zenon

(* Iterating changes nothing, and neither does erasing from a copy.        *)
LEMMA IterateKeepsQuiescence ==
  ASSUME QuiescenceInv, TablesInv', NEW t \in Threads, eraseFromCopy(t) \/ iterate(t) PROVE QuiescenceInv'
<1>1. /\ TablesInv' /\ UNCHANGED <<owner, reads>>
      /\ \A u \in Threads \ {t} : call'[u] = call[u] /\ Left(u)' = Left(u)
      /\ call'[t].handler = call[t].handler
      /\ Left(t)' = Left(t) \ {Head(call[t].todo)}
      /\ Ordered(call'[t].todo) /\ Closed(Left(t)') /\ Balanced(t)' /\ OneCallEach'
  BY AccessStep
<1>2. Head(call[t].todo) \in {"eraseFromCopy", "iterate"} /\ UNCHANGED <<table, epoll, status>>
  BY DEF eraseFromCopy, iterate, At
<1>3. \A s \in {"insert", "epollAdd", "erase", "epollRemove"} : s \in Left(t)' <=> s \in Left(t)
  BY <1>1, <1>2
<1>4. EntriesInv'
  BY <1>1, <1>2, <1>3, SameEntries
<1>5. table' \in [Keys -> Seq(Handlers)] /\ status' \in [Handlers -> {"new", "registered", "unregistered"}]
  BY <1>2 DEF QuiescenceInv
<1> QED
  BY <1>1, <1>4, <1>5, QuiescenceStep, Zenon

(* epoll begins to watch the key, and the registration is over.            *)
LEMMA EpollAddKeepsQuiescence ==
  ASSUME QuiescenceInv, TablesInv', NEW t \in Threads, epollAdd(t) PROVE QuiescenceInv'
<1> DEFINE h == call[t].handler
           k == KeyOf(h)
<1>1. TablesInv' /\ UNCHANGED <<owner, reads, table>> /\ EntriesInv /\ table \in [Keys -> Seq(Handlers)]
  BY DEF epollAdd, lockVars, QuiescenceInv
<1>2. /\ call[t].todo \in Seq(Steps) /\ call[t].todo # <<>> /\ Head(call[t].todo) = "epollAdd"
      /\ Ordered(call[t].todo)
  BY DEF epollAdd, At, Idle, QuiescenceInv, TablesInv
<1>3. Left(t) = {"epollAdd"}
  BY <1>2, OrderedTail DEF Left
<1>4. /\ call'[t] = NoCall /\ \A u \in Threads \ {t} : call'[u] = call[u] /\ Left(u)' = Left(u)
      /\ status' = [status EXCEPT ![h] = "registered"] /\ epoll' = epoll \cup {k}
  BY Zenon DEF epollAdd, Finish, QuiescenceInv, TablesInv, Left
<1>5. Left(t)' = {} /\ Ordered(call'[t].todo)
  BY <1>4 DEF NoCall, Left, StepsIn, Ordered
<1>6. Closed(Left(t)')
  BY <1>5 DEF Closed
<1>7. Balanced(t)'
  BY <1>1, <1>3, <1>5 DEF QuiescenceInv, Balanced
<1>8. OneCallEach'
  BY <1>4, StillOneCallEach
<1>9. h \in Handlers /\ k \in Keys /\ \A u \in Threads \ {t} : call[u].handler # h
  <2>1. t # SessionThread /\ h \in Handlers
    BY <1>3, TablesAssumption, Zenon DEF QuiescenceInv, OneCallEach
  <2>2. \A u \in Threads \ {t} : call[u].handler # h
    BY <2>1 DEF QuiescenceInv, OneCallEach
  <2> QED
    BY <2>1, <2>2 DEF KeyOf, Keys, Handlers
<1>10. Entered(h) /\ CallKey(t) = k
  BY <1>1, <1>3 DEF EntriesInv, Adding, CallKey
<1> HIDE DEF h, k
<1>11. /\ status' \in [Handlers -> {"new", "registered", "unregistered"}] /\ status'[h] = "registered"
       /\ \A g \in Handlers \ {h} : status'[g] = status[g]
  BY <1>4, <1>9, Zenon DEF QuiescenceInv
<1>12. /\ ~Adding(t)' /\ ~Withdrawn(t)' /\ ~Erased(t)' /\ "insert" \notin Left(t)' /\ "erase" \notin Left(t)'
       /\ ~Withdrawn(t) /\ ~Erased(t)
  BY <1>3, <1>5 DEF Adding, Withdrawn, Erased
<1>13. \A u \in Threads \ {t} :
        /\ Adding(u)' <=> Adding(u)
        /\ Withdrawn(u)' <=> Withdrawn(u)
        /\ Erased(u)' <=> Erased(u)
        /\ call'[u].handler = call[u].handler /\ CallKey(u)' = CallKey(u)
  BY <1>4 DEF Adding, CallKey, Withdrawn, Erased
<1>14. \A g : Entered(g)' <=> Entered(g)
  BY <1>1 DEF Entered, KeyOf
<1>15. table[k] # <<>>
  <2>1. table[KeyOf(h)] # <<>>
    BY <1>10 DEF Entered
  <2> QED
    BY <2>1 DEF k
<1>16. \A u \in Threads \ {t} : "erase" \in Left(u) => CallKey(u) # k
  <2> SUFFICES ASSUME NEW u \in Threads \ {t}, "erase" \in Left(u), CallKey(u) = k PROVE FALSE
    OBVIOUS
  <2>1. table[k] = <<call[u].handler>>
    BY <1>1 DEF EntriesInv
  <2>2. \A i \in 1 .. Len(table[k]) : table[k][i] = call[u].handler
    BY <2>1
  <2>3. call[u].handler = h
    BY <1>10, <2>2 DEF Entered, k
  <2> QED
    BY <1>9, <2>3
<1>17. EntriesInv'
  <2>1. ASSUME NEW g \in Handlers, Entered(g)'
        PROVE  status'[g] # "new" \/ \E u \in Threads : Adding(u)' /\ call'[u].handler = g
    <3>1. CASE g = h
      BY <1>11, <3>1
    <3>2. CASE g # h
      <4>1. status[g] # "new" \/ \E u \in Threads : Adding(u) /\ call[u].handler = g
        BY <1>1, <1>14, <2>1 DEF EntriesInv
      <4>2. \A u \in Threads : call[u].handler = g => u # t
        BY <3>2 DEF h
      <4> QED
        BY <1>11, <1>13, <3>2, <4>1, <4>2
    <3> QED
      BY <3>1, <3>2
  <2>2. \A j \in SignalHandlers : table'[j] \in {<<>>, <<j>>}
    BY <1>1 DEF EntriesInv
  <2>3. ASSUME NEW u \in Threads
        PROVE  /\ "insert" \in Left(u)' => status'[call'[u].handler] = "new"
               /\ Adding(u)' => Entered(call[u].handler)'
               /\ "erase" \in Left(u)' => table'[CallKey(u)'] = <<call'[u].handler>>
               /\ Withdrawn(u)' => CallKey(u)' \notin epoll'
               /\ Erased(u)' => table'[CallKey(u)'] = <<>>
    <3>1. CASE u = t
      BY <1>12, <3>1
    <3>2. CASE u # t
      <4>1. "insert" \in Left(u)' => status'[call'[u].handler] = "new"
        <5>1. "insert" \in Left(u) => status[call[u].handler] = "new"
          BY <1>1, Zenon DEF EntriesInv
        <5>2. "insert" \in Left(u) => call[u].handler \in Handlers
          BY TablesAssumption DEF QuiescenceInv, OneCallEach
        <5>3. call[u].handler # h
          BY <1>9, <3>2
        <5> QED
          BY <1>4, <1>11, <1>13, <3>2, <5>1, <5>2, <5>3
      <4>2. Withdrawn(u)' => CallKey(u)' \notin epoll'
        <5>1. Withdrawn(u) => CallKey(u) \notin epoll /\ CallKey(u) # k
          BY <1>1, <1>16, <3>2 DEF EntriesInv, Withdrawn
        <5> QED
          BY <1>4, <1>13, <3>2, <5>1
      <4>3. /\ Adding(u)' => Entered(call[u].handler)'
            /\ "erase" \in Left(u)' => table'[CallKey(u)'] = <<call'[u].handler>>
            /\ Erased(u)' => table'[CallKey(u)'] = <<>>
        BY <1>1, <1>4, <3>2, OtherCall
      <4> QED
        BY <4>1, <4>2, <4>3
    <3> QED
      BY <3>1, <3>2
  <2>4. ASSUME NEW j \in Keys
        PROVE  /\ table'[j] # <<>> /\ j \notin epoll' =>
                    \E u \in Threads : (Adding(u)' \/ Withdrawn(u)') /\ CallKey(u)' = j
               /\ table'[j] = <<>> /\ j \in epoll' => \E u \in Threads : Erased(u)' /\ CallKey(u)' = j
    <3>1. CASE j = k
      BY <1>1, <1>4, <1>15, <3>1
    <3>2. CASE j # k
      <4>1. /\ table[j] # <<>> /\ j \notin epoll =>
                    \E u \in Threads : (Adding(u) \/ Withdrawn(u)) /\ CallKey(u) = j
            /\ table[j] = <<>> /\ j \in epoll => \E u \in Threads : Erased(u) /\ CallKey(u) = j
        BY <1>1, Zenon DEF EntriesInv
      <4>2. \A u \in Threads : CallKey(u) = j => u # t
        BY <1>10, <3>2
      <4> QED
        BY <1>1, <1>4, <1>13, <3>2, <4>1, <4>2
    <3> QED
      BY <3>1, <3>2
  <2> QED
    BY <2>1, <2>2, <2>3, <2>4 DEF EntriesInv
<1>18. table' \in [Keys -> Seq(Handlers)]
  BY <1>1
<1> QED
  BY <1>1, <1>4, <1>5, <1>6, <1>7, <1>8, <1>11, <1>17, <1>18, QuiescenceStep, Zenon

(* What a removal has to do after the lookup.                              *)
LEMMA Removals ==
  ASSUME NEW h \in Handlers, table \in [Keys -> Seq(Handlers)]
  PROVE  /\ Ordered(AfterFind(h))
         /\ \/ StepsIn(AfterFind(h)) = {"unshare"}
            \/ /\ StepsIn(AfterFind(h)) = {"erase", "upgrade", "epollRemove", "downgrade", "unshare"}
               /\ Entered(h) /\ (h \in SignalHandlers \/ Len(table[KeyOf(h)]) = 1)
            \/ StepsIn(AfterFind(h)) = {"upgrade", "eraseFromCopy", "downgrade", "unshare"}
<1>1. ASSUME NEW s, s = <<"unshare">> PROVE Ordered(s) /\ StepsIn(s) = {"unshare"}
  <2>1. Len(s) = 1 /\ s[1] = "unshare"
    BY <1>1
  <2>2. 1 .. 1 = {1}
    OBVIOUS
  <2> QED
    BY <2>1, <2>2 DEF Ordered, StepsIn
<1>2. ASSUME NEW s, s = <<"erase", "upgrade", "epollRemove", "downgrade", "unshare">>
      PROVE  Ordered(s) /\ StepsIn(s) = {"erase", "upgrade", "epollRemove", "downgrade", "unshare"}
  <2>1. /\ Len(s) = 5 /\ s[1] = "erase" /\ s[2] = "upgrade" /\ s[3] = "epollRemove"
        /\ s[4] = "downgrade" /\ s[5] = "unshare"
    BY <1>2
  <2>2. 1 .. 5 = {1, 2, 3, 4, 5}
    OBVIOUS
  <2>3. StepsIn(s) = {"erase", "upgrade", "epollRemove", "downgrade", "unshare"}
    BY <2>1, <2>2 DEF StepsIn
  <2> QED
    BY <2>1, <2>2, <2>3 DEF Ordered
<1>3. ASSUME NEW s, s = <<"epollRemove", "upgrade", "erase", "downgrade", "unshare">>
      PROVE  Ordered(s) /\ StepsIn(s) = {"erase", "upgrade", "epollRemove", "downgrade", "unshare"}
  <2>1. /\ Len(s) = 5 /\ s[1] = "epollRemove" /\ s[2] = "upgrade" /\ s[3] = "erase"
        /\ s[4] = "downgrade" /\ s[5] = "unshare"
    BY <1>3
  <2>2. 1 .. 5 = {1, 2, 3, 4, 5}
    OBVIOUS
  <2>3. StepsIn(s) = {"erase", "upgrade", "epollRemove", "downgrade", "unshare"}
    BY <2>1, <2>2 DEF StepsIn
  <2> QED
    BY <2>1, <2>2, <2>3 DEF Ordered
<1>4. ASSUME NEW s, s = <<"upgrade", "eraseFromCopy", "downgrade", "unshare">>
      PROVE  Ordered(s) /\ StepsIn(s) = {"upgrade", "eraseFromCopy", "downgrade", "unshare"}
  <2>1. Len(s) = 4 /\ s[1] = "upgrade" /\ s[2] = "eraseFromCopy" /\ s[3] = "downgrade" /\ s[4] = "unshare"
    BY <1>4
  <2>2. 1 .. 4 = {1, 2, 3, 4}
    OBVIOUS
  <2>3. StepsIn(s) = {"upgrade", "eraseFromCopy", "downgrade", "unshare"}
    BY <2>1, <2>2 DEF StepsIn
  <2> QED
    BY <2>1, <2>2, <2>3 DEF Ordered
<1>5. \/ AfterFind(h) = <<"unshare">>
      \/ /\ AfterFind(h) = <<"erase", "upgrade", "epollRemove", "downgrade", "unshare">>
         /\ h \in SignalHandlers /\ \E i \in DOMAIN table[KeyOf(h)] : table[KeyOf(h)][i] = h
      \/ /\ AfterFind(h) = <<"epollRemove", "upgrade", "erase", "downgrade", "unshare">>
         /\ Len(table[KeyOf(h)]) = 1 /\ \E i \in DOMAIN table[KeyOf(h)] : table[KeyOf(h)][i] = h
      \/ AfterFind(h) = <<"upgrade", "eraseFromCopy", "downgrade", "unshare">>
  BY Zenon DEF AfterFind
<1>6. (\E i \in DOMAIN table[KeyOf(h)] : table[KeyOf(h)][i] = h) => Entered(h)
  <2>1. KeyOf(h) \in Keys
    BY DEF KeyOf, Keys, Handlers
  <2>2. DOMAIN table[KeyOf(h)] = 1 .. Len(table[KeyOf(h)])
    BY <2>1
  <2> QED
    BY <2>2 DEF Entered
<1> QED
  BY <1>1, <1>2, <1>3, <1>4, <1>5, <1>6, Zenon

(* The lookup of the handler decides how it is removed.                    *)
LEMMA FindKeepsQuiescence ==
  ASSUME QuiescenceInv, TablesInv', NEW t \in Threads, find(t) PROVE QuiescenceInv'
<1> DEFINE h == call[t].handler
<1>1. /\ TablesInv' /\ UNCHANGED <<owner, reads, table, epoll, status>> /\ EntriesInv
      /\ table \in [Keys -> Seq(Handlers)]
  BY DEF find, lockVars, QuiescenceInv
<1>2. /\ call[t].todo \in Seq(Steps) /\ call[t].todo # <<>> /\ Head(call[t].todo) = "find"
      /\ Ordered(call[t].todo)
  BY DEF find, At, Idle, QuiescenceInv, TablesInv
<1>3. Left(t) = {"find"}
  BY <1>2, OrderedTail DEF Left
<1>4. t # SessionThread /\ h \in Handlers
  BY <1>3, TablesAssumption, Zenon DEF QuiescenceInv, OneCallEach
<1>5. /\ call'[t].todo = AfterFind(h) /\ call'[t].handler = h
      /\ \A u \in Threads \ {t} : call'[u] = call[u] /\ Left(u)' = Left(u)
  BY DEF find, QuiescenceInv, TablesInv, Left
<1> HIDE DEF h
<1>6. Left(t)' = StepsIn(AfterFind(h))
  BY <1>5 DEF Left
<1>7. /\ Ordered(call'[t].todo)
      /\ \/ Left(t)' = {"unshare"}
         \/ /\ Left(t)' = {"erase", "upgrade", "epollRemove", "downgrade", "unshare"}
            /\ Entered(h) /\ (h \in SignalHandlers \/ Len(table[KeyOf(h)]) = 1)
         \/ Left(t)' = {"upgrade", "eraseFromCopy", "downgrade", "unshare"}
  BY <1>1, <1>4, <1>5, <1>6, Removals
<1>8. Closed(Left(t)')
  BY <1>7 DEF Closed
<1>9. Balanced(t)'
  <2>1. owner[t] = "none" /\ reads[<<t, 1>>] = "held" /\ \A d \in 1 .. Depth : d # 1 => reads[<<t, d>>] = "none"
    BY <1>3, Zenon DEF QuiescenceInv, Balanced
  <2>2. /\ "unlock" \notin Left(t)' /\ "share" \notin Left(t)' /\ "unshare" \in Left(t)'
        /\ "downgrade" \in Left(t)' => "upgrade" \in Left(t)'
    BY <1>7
  <2> QED
    BY <1>1, <2>1, <2>2 DEF Balanced
<1>10. OneCallEach'
  <2>1. \A u \in Threads : call'[u].handler = call[u].handler
    BY <1>5 DEF h
  <2> QED
    BY <1>4, <1>5, <2>1, TablesAssumption, Zenon DEF QuiescenceInv, OneCallEach, h
<1>11. EntriesInv'
  <2>1. CASE \A s \in {"erase", "epollRemove"} : s \notin Left(t)'
    <3>1. \A s \in {"insert", "epollAdd", "erase", "epollRemove"} : s \notin Left(t)' /\ s \notin Left(t)
      BY <1>3, <1>7, <2>1
    <3> QED
      BY <1>1, <1>5, <3>1, SameEntries
  <2>2. CASE /\ Left(t)' = {"erase", "upgrade", "epollRemove", "downgrade", "unshare"}
             /\ Entered(h) /\ (h \in SignalHandlers \/ Len(table[KeyOf(h)]) = 1)
    <3>1. table[KeyOf(h)] = <<h>>
      <4>1. KeyOf(h) \in Keys
        BY <1>4 DEF KeyOf, Keys, Handlers
      <4>2. PICK i \in 1 .. Len(table[KeyOf(h)]) : table[KeyOf(h)][i] = h
        BY <2>2 DEF Entered
      <4>3. CASE h \in SignalHandlers
        <5>1. KeyOf(h) = h
          BY <4>3, HandlersAssumption DEF KeyOf
        <5>2. table[h] \in {<<>>, <<h>>}
          BY <1>1, <4>3, Zenon DEF EntriesInv
        <5>3. table[h] # <<>>
          BY <4>2, <5>1
        <5> QED
          BY <5>1, <5>2, <5>3
      <4>4. CASE Len(table[KeyOf(h)]) = 1
        <5>1. \A s \in Seq(Handlers) : Len(s) = 1 /\ s[1] = h => s = <<h>>
          OBVIOUS
        <5>2. i = 1 /\ table[KeyOf(h)] \in Seq(Handlers)
          BY <1>1, <4>1, <4>2, <4>4
        <5> QED
          BY <4>2, <4>4, <5>1, <5>2
      <4> QED
        BY <2>2, <4>3, <4>4
    <3>2. /\ ~Adding(t) /\ ~Withdrawn(t) /\ ~Erased(t) /\ ~Adding(t)' /\ ~Withdrawn(t)' /\ ~Erased(t)'
          /\ "insert" \notin Left(t)' /\ CallKey(t)' = KeyOf(h)
      BY <1>3, <1>5, <2>2 DEF Adding, Withdrawn, Erased, CallKey, KeyOf
    <3>3. \A u \in Threads \ {t} :
            /\ Adding(u)' <=> Adding(u)
            /\ Withdrawn(u)' <=> Withdrawn(u)
            /\ Erased(u)' <=> Erased(u)
            /\ call'[u].handler = call[u].handler /\ CallKey(u)' = CallKey(u)
      BY <1>5 DEF Adding, CallKey, Withdrawn, Erased
    <3>4. \A g : Entered(g)' <=> Entered(g)
      BY <1>1 DEF Entered, KeyOf
    <3>5. ASSUME NEW g \in Handlers, Entered(g)'
          PROVE  status'[g] # "new" \/ \E u \in Threads : Adding(u)' /\ call'[u].handler = g
      BY <1>1, <3>2, <3>3, <3>4, <3>5, Zenon DEF EntriesInv
    <3>6. \A j \in SignalHandlers : table'[j] \in {<<>>, <<j>>}
      BY <1>1, Zenon DEF EntriesInv
    <3>7. ASSUME NEW u \in Threads
          PROVE  /\ "insert" \in Left(u)' => status'[call'[u].handler] = "new"
                 /\ Adding(u)' => Entered(call[u].handler)'
                 /\ "erase" \in Left(u)' => table'[CallKey(u)'] = <<call'[u].handler>>
                 /\ Withdrawn(u)' => CallKey(u)' \notin epoll'
                 /\ Erased(u)' => table'[CallKey(u)'] = <<>>
      <4>1. CASE u = t
        BY <1>1, <1>5, <3>1, <3>2, <4>1, Zenon
      <4>2. CASE u # t
        BY <1>1, <1>5, <4>2, OtherCall, Zenon
      <4> QED
        BY <4>1, <4>2
    <3>8. ASSUME NEW j \in Keys
          PROVE  /\ table'[j] # <<>> /\ j \notin epoll' =>
                      \E u \in Threads : (Adding(u)' \/ Withdrawn(u)') /\ CallKey(u)' = j
                 /\ table'[j] = <<>> /\ j \in epoll' => \E u \in Threads : Erased(u)' /\ CallKey(u)' = j
      <4>1. /\ table[j] # <<>> /\ j \notin epoll =>
                 \E u \in Threads : (Adding(u) \/ Withdrawn(u)) /\ CallKey(u) = j
            /\ table[j] = <<>> /\ j \in epoll => \E u \in Threads : Erased(u) /\ CallKey(u) = j
        BY <1>1 DEF EntriesInv
      <4>2. \A u \in Threads : (Adding(u) \/ Withdrawn(u)) /\ CallKey(u) = j =>
              (Adding(u)' \/ Withdrawn(u)') /\ CallKey(u)' = j
        BY <3>2, <3>3
      <4>3. \A u \in Threads : Erased(u) /\ CallKey(u) = j => Erased(u)' /\ CallKey(u)' = j
        BY <3>2, <3>3
      <4> QED
        BY <1>1, <4>1, <4>2, <4>3
    <3> QED
      BY <3>5, <3>6, <3>7, <3>8 DEF EntriesInv
  <2> QED
    BY <1>7, <2>1, <2>2
<1>12. /\ table' \in [Keys -> Seq(Handlers)]
       /\ status' \in [Handlers -> {"new", "registered", "unregistered"}]
  BY <1>1 DEF QuiescenceInv
<1> QED
  BY <1>1, <1>5, <1>7, <1>8, <1>9, <1>10, <1>11, <1>12, QuiescenceStep

(* The shared hold is given back, and the call is over.                    *)
LEMMA UnshareKeepsQuiescence ==
  ASSUME QuiescenceInv, TablesInv', NEW t \in Threads, unshare(t) PROVE QuiescenceInv'
<1> DEFINE h == call[t].handler
<1>1. /\ TablesInv' /\ UNCHANGED <<table, epoll>> /\ EntriesInv /\ LockTypeOK
      /\ table' \in [Keys -> Seq(Handlers)] /\ 1 \in 1 .. Depth
  <2>1. /\ TablesInv' /\ EntriesInv /\ LockTypeOK /\ table \in [Keys -> Seq(Handlers)]
    BY Zenon DEF QuiescenceInv, TablesInv, LockInv
  <2>2. UNCHANGED <<table, epoll>>
    BY DEF unshare
  <2>3. 1 \in 1 .. Depth
    BY TablesAssumption, DepthAssumption
  <2> QED
    BY <2>1, <2>2, <2>3
<1>2. /\ call[t].todo \in Seq(Steps) /\ call[t].todo # <<>> /\ Head(call[t].todo) = "unshare"
      /\ Ordered(call[t].todo)
  BY Zenon DEF unshare, At, Idle, QuiescenceInv, TablesInv
<1>3. Left(t) = {"unshare"}
  BY <1>2, OrderedTail DEF Left
<1>4. /\ call'[t] = NoCall /\ \A u \in Threads \ {t} : call'[u] = call[u] /\ Left(u)' = Left(u)
      /\ \/ t = SessionThread /\ status' = status
         \/ t # SessionThread /\ status' = [status EXCEPT ![h] = "unregistered"]
  BY DEF unshare, Finish, QuiescenceInv, TablesInv, Left
<1>5. Left(t)' = {} /\ Ordered(call'[t].todo)
  BY <1>4 DEF NoCall, Left, StepsIn, Ordered
<1>6. Closed(Left(t)')
  BY <1>5 DEF Closed
<1>7. /\ UNCHANGED owner /\ reads'[<<t, 1>>] = "none"
      /\ \A u \in Threads, d \in 1 .. Depth : u # t \/ d # 1 => reads'[<<u, d>>] = reads[<<u, d>>]
  <2>1. UNCHANGED owner /\ reads' = [reads EXCEPT ![<<t, 1>>] = "none"]
    BY DEF unshare, unlock_shared, Hold
  <2>2. <<t, 1>> \in Holds
    BY <1>1 DEF Holds
  <2>3. \A u \in Threads, d \in 1 .. Depth : <<u, d>> \in Holds /\ (u # t \/ d # 1 => <<u, d>> # <<t, 1>>)
    BY DEF Holds
  <2> QED
    BY <1>1, <2>1, <2>2, <2>3 DEF LockTypeOK
<1>8. Balanced(t)'
  <2>1. owner[t] = "none" /\ \A d \in 1 .. Depth : d # 1 => reads[<<t, d>>] = "none"
    BY <1>3, Zenon DEF QuiescenceInv, Balanced
  <2> QED
    BY <1>5, <1>7, <2>1 DEF Balanced
<1>9. OneCallEach'
  BY <1>4, StillOneCallEach
<1>10. /\ t # SessionThread => h \in Handlers /\ \A u \in Threads \ {t} : call[u].handler # h
  BY <1>3, Zenon DEF QuiescenceInv, OneCallEach
<1> HIDE DEF h
<1>11. /\ status' \in [Handlers -> {"new", "registered", "unregistered"}]
       /\ \A g \in Handlers : status'[g] = status[g] \/ status'[g] = "unregistered"
       /\ \A g \in Handlers : t = SessionThread \/ g # h => status'[g] = status[g]
  BY <1>4, <1>10, Zenon DEF QuiescenceInv
<1>12. /\ ~Adding(t) /\ ~Withdrawn(t) /\ ~Erased(t) /\ ~Adding(t)' /\ ~Withdrawn(t)' /\ ~Erased(t)'
       /\ "insert" \notin Left(t)' /\ "erase" \notin Left(t)'
  BY <1>3, <1>5 DEF Adding, Withdrawn, Erased
<1>13. \A u \in Threads \ {t} :
        /\ Adding(u)' <=> Adding(u)
        /\ Withdrawn(u)' <=> Withdrawn(u)
        /\ Erased(u)' <=> Erased(u)
        /\ call'[u].handler = call[u].handler /\ CallKey(u)' = CallKey(u)
  BY <1>4 DEF Adding, CallKey, Withdrawn, Erased
<1>14. \A g : Entered(g)' <=> Entered(g)
  BY <1>1 DEF Entered, KeyOf
<1>15. EntriesInv'
  <2>1. ASSUME NEW g \in Handlers, Entered(g)'
        PROVE  status'[g] # "new" \/ \E u \in Threads : Adding(u)' /\ call'[u].handler = g
    <3>1. status[g] # "new" \/ \E u \in Threads : Adding(u) /\ call[u].handler = g
      BY <1>1, <1>14, <2>1, Zenon DEF EntriesInv
    <3> QED
      BY <1>11, <1>12, <1>13, <3>1
  <2>2. \A j \in SignalHandlers : table'[j] \in {<<>>, <<j>>}
    BY <1>1 DEF EntriesInv
  <2>3. ASSUME NEW u \in Threads
        PROVE  /\ "insert" \in Left(u)' => status'[call'[u].handler] = "new"
               /\ Adding(u)' => Entered(call[u].handler)'
               /\ "erase" \in Left(u)' => table'[CallKey(u)'] = <<call'[u].handler>>
               /\ Withdrawn(u)' => CallKey(u)' \notin epoll'
               /\ Erased(u)' => table'[CallKey(u)'] = <<>>
    <3>1. CASE u = t
      BY <1>12, <3>1
    <3>2. CASE u # t
      <4>1. "insert" \in Left(u)' => status'[call'[u].handler] = "new"
        <5>1. "insert" \in Left(u) => status[call[u].handler] = "new"
          BY <1>1, Zenon DEF EntriesInv
        <5>2. "insert" \in Left(u) => call[u].handler \in Handlers
          BY TablesAssumption DEF QuiescenceInv, OneCallEach
        <5>3. t = SessionThread \/ call[u].handler # h
          BY <1>10, <3>2
        <5> QED
          BY <1>4, <1>11, <1>13, <3>2, <5>1, <5>2, <5>3, Zenon
      <4>2. /\ Adding(u)' => Entered(call[u].handler)'
            /\ "erase" \in Left(u)' => table'[CallKey(u)'] = <<call'[u].handler>>
            /\ Withdrawn(u)' => CallKey(u)' \notin epoll'
            /\ Erased(u)' => table'[CallKey(u)'] = <<>>
        BY <1>1, <1>4, <3>2, OtherCall, Zenon
      <4> QED
        BY <4>1, <4>2
    <3> QED
      BY <3>1, <3>2
  <2>4. ASSUME NEW j \in Keys
        PROVE  /\ table'[j] # <<>> /\ j \notin epoll' =>
                    \E u \in Threads : (Adding(u)' \/ Withdrawn(u)') /\ CallKey(u)' = j
               /\ table'[j] = <<>> /\ j \in epoll' => \E u \in Threads : Erased(u)' /\ CallKey(u)' = j
    <3>1. /\ table[j] # <<>> /\ j \notin epoll =>
               \E u \in Threads : (Adding(u) \/ Withdrawn(u)) /\ CallKey(u) = j
          /\ table[j] = <<>> /\ j \in epoll => \E u \in Threads : Erased(u) /\ CallKey(u) = j
      BY <1>1 DEF EntriesInv
    <3>2. \A u \in Threads : (Adding(u) \/ Withdrawn(u)) /\ CallKey(u) = j =>
            (Adding(u)' \/ Withdrawn(u)') /\ CallKey(u)' = j
      BY <1>12, <1>13
    <3>3. \A u \in Threads : Erased(u) /\ CallKey(u) = j => Erased(u)' /\ CallKey(u)' = j
      BY <1>12, <1>13
    <3> QED
      BY <1>1, <3>1, <3>2, <3>3
  <2> QED
    BY <2>1, <2>2, <2>3, <2>4 DEF EntriesInv
<1> QED
  BY <1>1, <1>4, <1>5, <1>6, <1>7, <1>8, <1>9, <1>11, <1>15, QuiescenceStep, Zenon

(* The tables begin empty and the lock free.                               *)
LEMMA InitQuiescence == TablesInit /\ LockInv => QuiescenceInv
<1> SUFFICES ASSUME TablesInit, LockInv PROVE QuiescenceInv
  OBVIOUS
<1>1. TablesInv
  BY InitTablesInv
<1>2. /\ \A k \in Keys : table[k] = <<>>
      /\ epoll = {} /\ \A h \in Handlers : status[h] = "new"
      /\ \A t \in Threads : call[t] = NoCall /\ owner[t] = "none"
      /\ \A h \in Holds : reads[h] = "none"
  BY DEF TablesInit, LockInit
<1>3. /\ table \in [Keys -> Seq(Handlers)]
      /\ status \in [Handlers -> {"new", "registered", "unregistered"}]
  <2>1. <<>> \in Seq(Handlers)
    OBVIOUS
  <2> QED
    BY <2>1 DEF TablesInit
<1>4. \A t \in Threads : Left(t) = {} /\ Ordered(call[t].todo) /\ call[t].handler = NoHandler
  BY <1>2 DEF NoCall, Left, StepsIn, Ordered
<1>5. \A t \in Threads : Closed(Left(t)) /\ Balanced(t)
  <2>1. \A t \in Threads, d \in 1 .. Depth : <<t, d>> \in Holds
    BY DEF Holds
  <2>2. 1 \in 1 .. Depth
    BY TablesAssumption, DepthAssumption
  <2> QED
    BY <1>2, <1>4, <2>1, <2>2 DEF Closed, Balanced
<1>6. OneCallEach
  BY <1>4, TablesAssumption, HandlersAssumption DEF OneCallEach
<1>7. EntriesInv
  <2>1. \A h \in Handlers : ~Entered(h)
    <3>1. \A h \in Handlers : KeyOf(h) \in Keys
      BY DEF KeyOf, Keys, Handlers
    <3> QED
      BY <1>2, <3>1 DEF Entered
  <2>2. \A t \in Threads : ~Adding(t) /\ ~Withdrawn(t) /\ ~Erased(t)
    BY <1>4 DEF Adding, Withdrawn, Erased
  <2>3. SignalHandlers \subseteq Keys
    BY DEF Keys
  <2> QED
    BY <1>2, <1>4, <2>1, <2>2, <2>3, Zenon DEF EntriesInv
<1> QED
  BY <1>1, <1>3, <1>4, <1>5, <1>6, <1>7 DEF QuiescenceInv

(* Every step of the tables preserves it.                                  *)
LEMMA NextQuiescence ==
  ASSUME QuiescenceInv, LockInv', [TablesNext]_handlerVars
  PROVE  QuiescenceInv'
<1>0. TablesInv'
  BY NextTablesInv DEF QuiescenceInv
<1>1. CASE UNCHANGED handlerVars
  <2>1. /\ UNCHANGED <<owner, reads, table, epoll, call, status>> /\ UNCHANGED lockVars
    BY <1>1 DEF handlerVars, tableVars, lockVars
  <2>3. SessionThread \in Threads /\ \A u \in Threads : Left(u)' = Left(u)
    BY <2>1, TablesAssumption DEF Left
  <2>4. EntriesInv'
    BY <2>1, <2>3, SameEntries
  <2>5. OneCallEach'
    BY <2>1, <2>3 DEF QuiescenceInv, OneCallEach
  <2>6. Balanced(SessionThread)' /\ Closed(Left(SessionThread)')
    BY <2>1, <2>3 DEF QuiescenceInv, Balanced
  <2>7. /\ table' \in [Keys -> Seq(Handlers)] /\ Ordered(call'[SessionThread].todo)
        /\ status' \in [Handlers -> {"new", "registered", "unregistered"}]
    BY <2>1, <2>3 DEF QuiescenceInv
  <2> QED
    BY <1>0, <2>1, <2>3, <2>4, <2>5, <2>6, <2>7, QuiescenceStep
<1>2. ASSUME NEW t \in Threads, NEW h \in Handlers, registerHandler(t, h) \/ unregisterHandler(t, h)
      PROVE  QuiescenceInv'
  BY <1>0, <1>2, RegisterKeepsQuiescence
<1>3. CASE foreach
  BY <1>0, <1>3, ForeachKeepsQuiescence
<1>4. ASSUME NEW t \in Threads,
             \/ LockStep(t) \/ insert(t) \/ epollAdd(t) \/ find(t) \/ epollRemove(t) \/ erase(t)
             \/ eraseFromCopy(t) \/ iterate(t) \/ unshare(t)
      PROVE  QuiescenceInv'
  BY <1>0, <1>4, LockStepKeepsQuiescence, InsertKeepsQuiescence, EpollAddKeepsQuiescence,
     FindKeepsQuiescence, EpollRemoveKeepsQuiescence, EraseKeepsQuiescence,
     IterateKeepsQuiescence, UnshareKeepsQuiescence
<1> QED
  BY <1>1, <1>2, <1>3, <1>4 DEF TablesNext

(* What the invariant says of the moments between calls.                   *)
LEMMA QuiescenceIsClean ==
  ASSUME QuiescenceInv
  PROVE  /\ (\A t \in Threads \ {SessionThread} : Idle(t)) =>
              \A k \in Keys : k \in epoll <=> table[k] # <<>>
         /\ (\A t \in Threads : Idle(t)) =>
              /\ \A t \in Threads : owner[t] = "none"
              /\ \A t \in Threads, d \in 1 .. Depth : reads[<<t, d>>] = "none"
<1>1. ASSUME \A t \in Threads \ {SessionThread} : Idle(t), NEW k \in Keys
      PROVE  k \in epoll <=> table[k] # <<>>
  <2>1. \A t \in Threads : Left(t) \subseteq {"share", "iterate", "unshare"}
    BY <1>1, IdleHoldsNothing DEF QuiescenceInv, OneCallEach
  <2>2. \A t \in Threads : ~Adding(t) /\ ~Withdrawn(t) /\ ~Erased(t)
    BY <2>1 DEF Adding, Withdrawn, Erased
  <2> QED
    BY <2>2 DEF QuiescenceInv, EntriesInv
<1> QED
  BY <1>1, IdleHoldsNothing
=============================================================================
