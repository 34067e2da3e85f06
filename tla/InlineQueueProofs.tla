-------------------------- MODULE InlineQueueProofs -------------------------
(***************************************************************************)
(* The tables of the inline queue, the events and epoll agree, for any     *)
(* finite sets of keys, any handlers and batches of any size.  And the     *)
(* session whose thread serves the shared queues: sessions leave nothing   *)
(* behind for each other, however many are started.                        *)
(***************************************************************************)
EXTENDS InlineQueue, Session, FiniteSetTheorems, SequenceTheorems, TLAPS

(* Init establishes the invariant: no session has been started.            *)
LEMMA SessionInitInv == SessionInit => SessionInv
  BY Zenon DEF SessionInit, SessionInv, SessionTypeOK, Serving, Running, Stopping

(* What a call of start() or stop() and the steps of the user thread do to *)
(* the invariant.                                                          *)
LEMMA UserKeepsInv == SessionInv /\ (start \/ stop \/ User) => SessionInv'
<1> SUFFICES ASSUME SessionInv, start \/ stop \/ User
             PROVE  SessionInv'
  OBVIOUS
<1> USE DEF SessionInv, SessionTypeOK, Serving, Running, Stopping
<1>1. CASE start BY <1>1, Zenon DEF start
<1>2. CASE stop BY <1>2 DEF stop
<1>3. CASE started BY <1>3 DEF started
<1>4. CASE notify BY <1>4 DEF notify
<1>5. CASE write BY <1>5, Zenon DEF write
<1>6. CASE join BY <1>6, Zenon DEF join
<1>7. QED BY <1>1, <1>2, <1>3, <1>4, <1>5, <1>6 DEF User

(* What the loop thread does to it, traffic included.                      *)
LEMMA LoopKeepsInv == SessionInv /\ (Loop \/ traffic) => SessionInv'
<1> SUFFICES ASSUME SessionInv, Loop \/ traffic
             PROVE  SessionInv'
  OBVIOUS
<1> USE DEF SessionInv, SessionTypeOK, Serving, Running, Stopping
<1>1. CASE announce BY <1>1 DEF announce
<1>2. CASE test BY <1>2 DEF test
<1>3. CASE enter BY <1>3 DEF enter
<1>4. CASE woken BY <1>4, Zenon DEF woken
<1>5. CASE traffic BY <1>5 DEF traffic
<1>6. CASE leave BY <1>6, Zenon DEF leave
<1>7. CASE exit BY <1>7, Zenon DEF exit
<1>8. CASE reset BY <1>8 DEF reset
<1>9. QED BY <1>1, <1>2, <1>3, <1>4, <1>5, <1>6, <1>7, <1>8 DEF Loop

(* The session's inductive invariant holds throughout, for every number of *)
(* sessions.                                                               *)
THEOREM SessionInvariant == SessionSpec => []SessionInv
<1>1. ASSUME SessionInv, [SessionNext]_sessionVars PROVE SessionInv'
  <2>1. CASE UNCHANGED sessionVars
    BY <1>1, <2>1 DEF sessionVars, SessionInv, SessionTypeOK, Serving, Running, Stopping
  <2>2. CASE SessionNext
    BY <1>1, <2>2, UserKeepsInv, LoopKeepsInv DEF SessionNext
  <2>3. QED BY <1>1, <2>1, <2>2
<1>2. QED BY SessionInitInv, <1>1, PTL DEF SessionSpec

(* Nothing of a session is left for the next one, and its loop never runs  *)
(* on a manager that was freed (Session.cpp:55-90), however many sessions  *)
(* there are and whether or not there is traffic.                          *)
THEOREM SessionsAreSeparate == SessionSpec => []SessionsSeparate
<1>1. SessionInv => SessionsSeparate
  BY DEF SessionInv, SessionTypeOK, Serving, Running, Stopping, SessionsSeparate
<1>2. QED BY SessionInvariant, <1>1, PTL
-----------------------------------------------------------------------------
(* Every event has a key, which is not the queue's own timer.              *)
LEMMA KeyOfHandler ==
  ASSUME NEW e \in Handlers
  PROVE  InlineKey(e) \in InlineKeys /\ InlineKey(e) # Timeout
BY InlineAssumption DEF Handlers, InlineKeys, InlineKey

(* What epoll watches is finite.                                           *)
LEMMA WatchedFinite == ASSUME NEW W, W \subseteq InlineKeys PROVE IsFiniteSet(W)
<1>1. IsFiniteSet(Files \cup Clocks)
  BY InlineAssumption, FS_Union, Zenon
<1>2. IsFiniteSet(Files \cup Clocks \cup Signals)
  BY <1>1, InlineAssumption, FS_Union, Zenon
<1>3. IsFiniteSet(InlineKeys)
  BY <1>2, FS_AddElement DEF InlineKeys
<1> QED
  BY <1>3, FS_Subset

(* EventPoll::add and remove keep the count, remove of what is watched.    *)
LEMMA CountOfWatched ==
  ASSUME watched \subseteq InlineKeys, m_events = Cardinality(watched), NEW k \in InlineKeys
  PROVE  /\ pollAdd(k) => m_events' = Cardinality(watched')
         /\ k \in watched /\ pollRemove(k) => m_events' = Cardinality(watched')
<1>1. IsFiniteSet(watched) /\ Cardinality(watched) \in Nat
  BY WatchedFinite, FS_CardinalityType
<1>2. ASSUME pollAdd(k) PROVE m_events' = Cardinality(watched')
  <2>1. CASE k \in watched
    <3>1. watched' = watched
      BY <1>2, <2>1 DEF pollAdd
    <3> QED
      BY <1>2, <2>1, <3>1 DEF pollAdd
  <2>2. CASE k \notin watched
    BY <1>1, <1>2, <2>2, FS_AddElement DEF pollAdd
  <2> QED
    BY <2>1, <2>2
<1>3. ASSUME k \in watched, pollRemove(k) PROVE m_events' = Cardinality(watched')
  BY <1>1, <1>3, FS_RemoveElement DEF pollRemove
<1> QED
  BY <1>2, <1>3

(* Nothing is registered at first.                                         *)
LEMMA InlineInitInv == InlineInit => InlineInv
<1> SUFFICES ASSUME InlineInit PROVE InlineInv
  OBVIOUS
<1>1. Cardinality({}) = 0
  BY FS_EmptySet
<1>2. Timeout \in InlineKeys
  BY DEF InlineKeys
<1>3. TablesAgree
  BY <1>1 DEF InlineInit, TablesAgree
<1> QED
  BY <1>2, <1>3 DEF InlineInit, InlineInv, Untimed

(* A new handler goes to the end of its key's list.                        *)
LEMMA RegisterKeepsInv ==
  ASSUME InlineInv, NEW e \in Handlers, registerHandler(e)
  PROVE  InlineInv'
<1> DEFINE k == InlineKey(e)
<1>1. k \in InlineKeys /\ k # Timeout
  BY KeyOfHandler
<1>2. /\ events' = events \cup {e} /\ lookup' = [lookup EXCEPT ![k] = Append(@, e)]
      /\ watched' = watched \cup {k} /\ UNCHANGED <<thread, timed>>
  BY DEF registerHandler, pollAdd
<1>3. lookup \in [InlineKeys -> Seq(Handlers \cup {Timeout})]
  BY DEF InlineInv
<1>4. /\ lookup' \in [InlineKeys -> Seq(Handlers \cup {Timeout})]
      /\ lookup'[k] = Append(lookup[k], e)
      /\ \A j \in InlineKeys \ {k} : lookup'[j] = lookup[j]
  BY <1>1, <1>2, <1>3
<1>5. /\ Len(lookup'[k]) = Len(lookup[k]) + 1 /\ lookup'[k][Len(lookup[k]) + 1] = e
      /\ \A i \in DOMAIN lookup[k] : i \in DOMAIN lookup'[k] /\ lookup'[k][i] = lookup[k][i]
      /\ DOMAIN lookup'[k] = DOMAIN lookup[k] \cup {Len(lookup[k]) + 1}
      /\ DOMAIN lookup[k] = 1 .. Len(lookup[k]) /\ Len(lookup[k]) \in Nat
      /\ lookup'[k] # <<>>
  BY <1>1, <1>3, <1>4
<1>6. events' \subseteq Handlers /\ watched' \subseteq InlineKeys
  BY <1>1, <1>2 DEF InlineInv
<1>7. \A j \in InlineKeys \ {Timeout} : \A i \in DOMAIN lookup'[j] : InlineKey(lookup'[j][i]) = j
  <2> SUFFICES ASSUME NEW j \in InlineKeys \ {Timeout}, NEW i \in DOMAIN lookup'[j]
               PROVE  InlineKey(lookup'[j][i]) = j
    OBVIOUS
  <2>1. CASE j = k
    BY <1>5, <2>1, Zenon DEF InlineInv
  <2>2. CASE j # k
    BY <1>4, <2>2 DEF InlineInv
  <2> QED
    BY <2>1, <2>2
<1>8. \A x \in events' : Listed(x)'
  <2> SUFFICES ASSUME NEW x \in events' PROVE Listed(x)'
    OBVIOUS
  <2>1. CASE x = e
    BY <1>5, <2>1 DEF Listed, InlineKey
  <2>2. CASE x # e
    <3>1. x \in Handlers /\ Listed(x) /\ InlineKey(x) \in InlineKeys
      BY <1>2, <2>2, KeyOfHandler DEF InlineInv
    <3>2. CASE InlineKey(x) = k
      BY <1>5, <3>1, <3>2 DEF Listed, InlineKey
    <3>3. CASE InlineKey(x) # k
      BY <1>4, <3>1, <3>3 DEF Listed, InlineKey
    <3> QED
      BY <3>2, <3>3
  <2> QED
    BY <2>1, <2>2
<1>9. Timeout \in InlineKeys /\ lookup'[Timeout] = lookup[Timeout]
  BY <1>1, <1>4 DEF InlineKeys
<1>10. TablesAgree'
  <2>1. ASSUME NEW j \in InlineKeys, NEW i \in DOMAIN lookup'[j]
        PROVE  \/ lookup'[j][i] \in events'
               \/ j = Timeout /\ timed' # "no"
               \/ Shared(j)'
    <3>1. CASE j # k
      BY <1>2, <1>4, <2>1, <3>1 DEF InlineInv, TablesAgree, Shared
    <3>2. CASE j = k /\ Len(lookup[k]) = 0
      BY <1>2, <1>5, <2>1, <3>2
    <3>3. CASE j = k /\ Len(lookup[k]) # 0
      BY <1>5, <3>3 DEF Shared
    <3> QED
      BY <3>1, <3>2, <3>3
  <2>2. ASSUME NEW j \in InlineKeys PROVE j \in watched' <=> lookup'[j] # <<>>
    BY <1>2, <1>4, <1>5, <2>2 DEF InlineInv, TablesAgree
  <2>3. m_events' = Cardinality(watched')
    BY <1>1, CountOfWatched DEF InlineInv, TablesAgree, registerHandler
  <2> QED
    BY <2>1, <2>2, <2>3 DEF TablesAgree
<1> QED
  BY <1>2, <1>4, <1>6, <1>7, <1>8, <1>9, <1>10 DEF InlineInv

(* The last handler of a key leaves with the key's entry in epoll; one of  *)
(* several leaves nothing behind but the event.                            *)
LEMMA UnregisterKeepsInv ==
  ASSUME InlineInv, NEW e \in Handlers, unregisterInline(e)
  PROVE  InlineInv'
<1> DEFINE k == InlineKey(e)
<1>1. k \in InlineKeys /\ k # Timeout /\ Timeout \in InlineKeys
  BY KeyOfHandler DEF InlineKeys
<1>2. /\ e \in events /\ events' = events \ {e} /\ UNCHANGED <<thread, timed>>
      /\ eraseHandler(e)
  BY DEF unregisterInline
<1>3. lookup \in [InlineKeys -> Seq(Handlers \cup {Timeout})]
  BY DEF InlineInv
<1>4. lookup[k] \in Seq(Handlers \cup {Timeout}) /\ lookup[k] # <<>>
  BY <1>1, <1>2, <1>3 DEF InlineInv, Listed
<1>5. ASSUME NEW j \in InlineKeys \ {Timeout, k}, NEW i \in DOMAIN lookup[j]
      PROVE  lookup[j][i] # e
  BY <1>1, <1>5 DEF InlineInv
<1>6. events' \subseteq Handlers /\ \A x \in events' : x \in events /\ x # e /\ Listed(x)
  BY <1>2 DEF InlineInv
<1>7. CASE Len(lookup[k]) = 1
  <2>1. /\ pollRemove(k) /\ lookup' = [lookup EXCEPT ![k] = <<>>]
        /\ watched' = watched \ {k}
    BY <1>2, <1>7 DEF eraseHandler, pollRemove
  <2>2. /\ lookup' \in [InlineKeys -> Seq(Handlers \cup {Timeout})] /\ lookup'[k] = <<>>
        /\ \A j \in InlineKeys \ {k} : lookup'[j] = lookup[j]
    BY <1>1, <1>3, <2>1
  <2>3. DOMAIN lookup[k] = {1} /\ lookup[k][1] = e
    BY <1>2, <1>4, <1>7 DEF InlineInv, Listed
  <2>4. ASSUME NEW x \in events' PROVE InlineKey(x) # k /\ InlineKey(x) \in InlineKeys
    BY <1>6, <2>3, <2>4, KeyOfHandler DEF Listed
  <2>5. \A x \in events' : Listed(x)'
    BY <1>6, <2>2, <2>4 DEF Listed, InlineKey
  <2>6. \A j \in InlineKeys \ {Timeout} : \A i \in DOMAIN lookup'[j] :
          InlineKey(lookup'[j][i]) = j
    BY <2>2 DEF InlineInv
  <2>7. TablesAgree'
    <3>1. ASSUME NEW j \in InlineKeys, NEW i \in DOMAIN lookup'[j]
          PROVE  \/ lookup'[j][i] \in events'
                 \/ j = Timeout /\ timed' # "no"
                 \/ Shared(j)'
      <4>1. j # k /\ lookup'[j] = lookup[j]
        BY <2>2, <3>1
      <4>2. CASE j = Timeout
        BY <1>1, <1>2, <4>1, <4>2 DEF InlineInv
      <4>3. CASE j # Timeout
        BY <1>2, <1>5, <4>1, <4>3 DEF InlineInv, TablesAgree, Shared
      <4> QED
        BY <4>2, <4>3
    <3>2. ASSUME NEW j \in InlineKeys PROVE j \in watched' <=> lookup'[j] # <<>>
      BY <2>1, <2>2, <3>2 DEF InlineInv, TablesAgree
    <3>3. m_events' = Cardinality(watched')
      BY <1>1, <1>4, <2>1, CountOfWatched, Zenon DEF InlineInv, TablesAgree
    <3> QED
      BY <3>1, <3>2, <3>3 DEF TablesAgree
  <2>8. watched' \subseteq InlineKeys /\ lookup'[Timeout] = lookup[Timeout]
    BY <1>1, <2>1, <2>2 DEF InlineInv
  <2> QED
    BY <1>2, <1>6, <2>2, <2>5, <2>6, <2>7, <2>8 DEF InlineInv
<1>8. CASE Len(lookup[k]) # 1
  <2>1. UNCHANGED <<lookup, watched, m_events>>
    BY <1>2, <1>8 DEF eraseHandler
  <2>2. Len(lookup[k]) > 1
    <3>1. Len(lookup[k]) \in Nat /\ Len(lookup[k]) # 0
      BY <1>4, EmptySeq, Zenon
    <3>2. \A n \in Nat : n # 0 /\ n # 1 => n > 1
      OBVIOUS
    <3> QED
      BY <1>8, <3>1, <3>2, Zenon
  <2>3. \A x \in events' : Listed(x)'
    BY <1>6, <2>1 DEF Listed, InlineKey
  <2>4. TablesAgree'
    <3>1. ASSUME NEW j \in InlineKeys, NEW i \in DOMAIN lookup'[j]
          PROVE  \/ lookup'[j][i] \in events'
                 \/ j = Timeout /\ timed' # "no"
                 \/ Shared(j)'
      <4>1. CASE j = Timeout
        BY <1>1, <1>2, <2>1, <3>1, <4>1 DEF InlineInv
      <4>2. CASE j = k
        BY <2>1, <2>2, <4>2 DEF Shared
      <4>3. CASE j \notin {Timeout, k}
        BY <1>2, <1>5, <2>1, <3>1, <4>3 DEF InlineInv, TablesAgree, Shared
      <4> QED
        BY <4>1, <4>2, <4>3
    <3> QED
      BY <2>1, <3>1 DEF InlineInv, TablesAgree
  <2> QED
    BY <1>2, <1>6, <2>1, <2>3, <2>4 DEF InlineInv
<1> QED
  BY <1>7, <1>8

(* What touches neither the tables nor the events keeps the invariant,     *)
(* wherever the thread goes within its call.                               *)
LEMMA TablesUntouched ==
  ASSUME InlineInv, UNCHANGED <<tables, timed>>,
         thread \in Untimed => thread' \in Untimed,
         thread \in TimedCalls => thread' \in TimedCalls
  PROVE  InlineInv'
<1>1. TablesAgree'
  BY DEF InlineInv, TablesAgree, tables, Shared
<1>2. \A e \in events' : Listed(e)'
  BY DEF InlineInv, Listed, tables, InlineKey
<1> QED
  BY <1>1, <1>2 DEF InlineInv, tables

(* What a step puts in front of the steps that are left.                   *)
LEMMA Joined ==
  ASSUME NEW x, NEW y, NEW z
  PROVE  /\ <<x>> \o <<y>> = <<x, y>>
         /\ <<x, y>> \o <<z>> = <<x, y, z>>
         /\ <<x>> \o <<>> = <<x>> /\ <<x, y>> \o <<>> = <<x, y>> /\ <<>> \o <<>> = <<>>
         /\ <<>> \o <<x>> = <<x>> /\ <<>> \o <<x, y>> = <<x, y>>
         /\ <<>> \o <<x, y, z>> = <<x, y, z>>
<1> DEFINE S == {x, y, z}
<1>1. <<x>> \o <<y>> = <<x, y>>
  <2>1. <<x>> \in Seq(S) /\ <<y>> \in Seq(S) /\ <<x, y>> \in Seq(S) /\ <<x>> \o <<y>> \in Seq(S)
    OBVIOUS
  <2>2. Len(<<x>> \o <<y>>) = 2 /\ \A i \in 1 .. 2 : (<<x>> \o <<y>>)[i] = <<x, y>>[i]
    BY <2>1
  <2> HIDE DEF S
  <2> QED
    BY <2>1, <2>2, SeqEqual, Zenon
<1>2. <<x, y>> \o <<z>> = <<x, y, z>>
  <2>1. <<x, y, z>> \in Seq(S) /\ <<x, y>> \o <<z>> \in Seq(S)
    OBVIOUS
  <2>2. Len(<<x, y>> \o <<z>>) = 3 /\ \A i \in 1 .. 3 : (<<x, y>> \o <<z>>)[i] = <<x, y, z>>[i]
    BY <2>1
  <2> HIDE DEF S
  <2> QED
    BY <2>1, <2>2, SeqEqual, Zenon
<1>3. /\ <<x>> \o <<>> = <<x>> /\ <<x, y>> \o <<>> = <<x, y>> /\ <<>> \o <<>> = <<>>
      /\ <<>> \o <<x>> = <<x>> /\ <<>> \o <<x, y>> = <<x, y>>
      /\ <<>> \o <<x, y, z>> = <<x, y, z>>
  OBVIOUS
<1> QED
  BY <1>1, <1>2, <1>3

(* The same of two steps in front of two.                                   *)
LEMMA JoinedPairs ==
  ASSUME NEW w, NEW x, NEW y, NEW z
  PROVE  <<w, x>> \o <<y, z>> = <<w, x, y, z>>
<1> DEFINE S == {w, x, y, z}
<1>1. <<w, x, y, z>> \in Seq(S) /\ <<w, x>> \o <<y, z>> \in Seq(S)
  OBVIOUS
<1>2. Len(<<w, x>> \o <<y, z>>) = 4
      /\ \A i \in 1 .. 4 : (<<w, x>> \o <<y, z>>)[i] = <<w, x, y, z>>[i]
  BY <1>1
<1> HIDE DEF S
<1> QED
  BY <1>1, <1>2, SeqEqual, Zenon

(* A step of dispatch stays within the calls of its kind.                  *)
LEMMA ThreadContinues ==
  ASSUME NEW step, NEW next,
         Continues(step, next),
         \/ step = "wait" /\ next \in {<<>>, <<"batch">>}
         \/ step = "batch" /\ next \in {<<>>, <<"each", "batch">>}
         \/ step = "each" /\ next \in {<<>>, <<"callback", "each">>}
         \/ step = "callback" /\ next = <<>>
  PROVE  /\ thread \in Untimed => thread' \in Untimed
         /\ thread \in TimedCalls => thread' \in TimedCalls
<1>1. ASSUME thread \in Untimed PROVE thread' \in Untimed
  <2>1. CASE thread = <<>>
    BY <2>1 DEF Continues
  <2>2. CASE thread = <<"wait">>
    <3>1. thread' = next \o <<>> /\ step = "wait"
      BY <2>2 DEF Continues
    <3>2. next \in {<<>>, <<"batch">>}
      BY <3>1
    <3>3. thread' \in {<<>>, <<"batch">>}
      BY <3>1, <3>2, Joined
    <3> QED
      BY <3>3 DEF Untimed
  <2>3. CASE thread = <<"batch">>
    <3>1. thread' = next \o <<>> /\ step = "batch"
      BY <2>3 DEF Continues
    <3>2. next \in {<<>>, <<"each", "batch">>}
      BY <3>1
    <3>3. thread' \in {<<>>, <<"each", "batch">>}
      BY <3>1, <3>2, Joined
    <3> QED
      BY <3>3 DEF Untimed
  <2>4. CASE thread = <<"each", "batch">>
    <3>1. thread' = next \o <<"batch">> /\ step = "each"
      BY <2>4 DEF Continues
    <3>2. next \in {<<>>, <<"callback", "each">>}
      BY <3>1
    <3>3. <<"callback", "each">> \o <<"batch">> = <<"callback", "each", "batch">>
      BY Joined, Zenon
    <3>4. <<>> \o <<"batch">> = <<"batch">>
      BY Joined
    <3>5. thread' \in {<<"batch">>, <<"callback", "each", "batch">>}
      BY <3>1, <3>2, <3>3, <3>4, Zenon
    <3> QED
      BY <3>5 DEF Untimed
  <2>5. CASE thread = <<"callback", "each", "batch">>
    <3>1. thread' = next \o <<"each", "batch">> /\ step = "callback"
      BY <2>5 DEF Continues
    <3>2. next \in {<<>>}
      BY <3>1
    <3>3. thread' \in {<<"each", "batch">>}
      BY <3>1, <3>2, Joined
    <3> QED
      BY <3>3 DEF Untimed
  <2> QED
    BY <1>1, <2>1, <2>2, <2>3, <2>4, <2>5 DEF Untimed
<1>2. ASSUME thread \in TimedCalls PROVE thread' \in TimedCalls
  <2>1. CASE thread = <<"unregister">>
    BY <2>1 DEF Continues
  <2>2. CASE thread = <<"wait", "unregister">>
    <3>1. thread' = next \o <<"unregister">> /\ step = "wait"
      BY <2>2 DEF Continues
    <3>2. next \in {<<>>, <<"batch">>}
      BY <3>1
    <3>3. thread' \in {<<"unregister">>, <<"batch", "unregister">>}
      BY <3>1, <3>2, Joined, Zenon
    <3> QED
      BY <3>3 DEF TimedCalls
  <2>3. CASE thread = <<"batch", "unregister">>
    <3>1. thread' = next \o <<"unregister">> /\ step = "batch"
      BY <2>3 DEF Continues
    <3>2. next \in {<<>>, <<"each", "batch">>}
      BY <3>1
    <3>3. <<"each", "batch">> \o <<"unregister">> = <<"each", "batch", "unregister">>
      BY Joined, Zenon
    <3>4. <<>> \o <<"unregister">> = <<"unregister">>
      BY Joined
    <3>5. thread' \in {<<"unregister">>, <<"each", "batch", "unregister">>}
      BY <3>1, <3>2, <3>3, <3>4, Zenon
    <3> QED
      BY <3>5 DEF TimedCalls
  <2>4. CASE thread = <<"each", "batch", "unregister">>
    <3>1. thread' = next \o <<"batch", "unregister">> /\ step = "each"
      BY <2>4 DEF Continues
    <3>2. next \in {<<>>, <<"callback", "each">>}
      BY <3>1
    <3>3. <<"callback", "each">> \o <<"batch", "unregister">> = <<"callback", "each", "batch", "unregister">>
      BY JoinedPairs
    <3>4. <<>> \o <<"batch", "unregister">> = <<"batch", "unregister">>
      BY Joined
    <3>5. thread' \in {<<"batch", "unregister">>, <<"callback", "each", "batch", "unregister">>}
      BY <3>1, <3>2, <3>3, <3>4, Zenon
    <3> QED
      BY <3>5 DEF TimedCalls
  <2>5. CASE thread = <<"callback", "each", "batch", "unregister">>
    <3>1. thread' = next \o <<"each", "batch", "unregister">> /\ step = "callback"
      BY <2>5 DEF Continues
    <3>2. next \in {<<>>}
      BY <3>1
    <3>3. thread' \in {<<"each", "batch", "unregister">>}
      BY <3>1, <3>2, Joined
    <3> QED
      BY <3>3 DEF TimedCalls
  <2> QED
    BY <1>2, <2>1, <2>2, <2>3, <2>4, <2>5 DEF TimedCalls
<1> QED
  BY <1>1, <1>2

(* dispatch(timeout) enters the timer in the tables and takes it out.      *)
LEMMA TimerKeepsInv ==
  ASSUME InlineInv, dispatchInlineTimeout \/ unregisterTimeout
  PROVE  InlineInv'
<1>1. Timeout \in InlineKeys
  BY DEF InlineKeys
<1>2. lookup \in [InlineKeys -> Seq(Handlers \cup {Timeout})]
  BY DEF InlineInv
<1>3. /\ lookup' \in [InlineKeys -> Seq(Handlers \cup {Timeout})]
      /\ \A k \in InlineKeys \ {Timeout} : lookup'[k] = lookup[k]
      /\ events' = events /\ watched' \subseteq InlineKeys
  <2>1. <<>> \in Seq(Handlers \cup {Timeout}) /\ <<Timeout>> \in Seq(Handlers \cup {Timeout})
    OBVIOUS
  <2>2. CASE dispatchInlineTimeout
    <3>1. lookup' = [lookup EXCEPT ![Timeout] = <<Timeout>>] /\ UNCHANGED events
          /\ watched' = watched \cup {Timeout}
      BY <2>2 DEF dispatchInlineTimeout, pollAdd
    <3> QED
      BY <1>1, <1>2, <2>1, <3>1 DEF InlineInv
  <2>3. CASE unregisterTimeout
    <3>1. lookup' = [lookup EXCEPT ![Timeout] = <<>>] /\ UNCHANGED events
          /\ watched' = watched \ {Timeout}
      BY <2>3 DEF unregisterTimeout, pollRemove
    <3> QED
      BY <1>1, <1>2, <2>1, <3>1 DEF InlineInv
  <2> QED
    BY <2>2, <2>3
<1>4. \A e \in events' : Listed(e)'
  <2> SUFFICES ASSUME NEW e \in events' PROVE Listed(e)'
    OBVIOUS
  <2>1. e \in events /\ e \in Handlers
    BY <1>3 DEF InlineInv
  <2>2. lookup'[InlineKey(e)] = lookup[InlineKey(e)]
    BY <1>3, <2>1, KeyOfHandler
  <2> QED
    BY <2>1, <2>2 DEF InlineInv, Listed, InlineKey
<1>5. \A k \in InlineKeys \ {Timeout} : \A i \in DOMAIN lookup'[k] : InlineKey(lookup'[k][i]) = k
  BY <1>3 DEF InlineInv
<1>6. \A k \in InlineKeys \ {Timeout} : \A i \in DOMAIN lookup'[k] :
        lookup'[k][i] \in events' \/ Shared(k)'
  BY <1>3 DEF InlineInv, TablesAgree, Shared
<1>7. CASE dispatchInlineTimeout
  <2>1. /\ thread' = <<"wait", "unregister">> /\ timed' # "no" /\ pollAdd(Timeout)
        /\ lookup'[Timeout] = <<Timeout>> /\ watched' = watched \cup {Timeout}
    BY <1>1, <1>2, <1>7 DEF dispatchInlineTimeout, pollAdd
  <2>2. m_events' = Cardinality(watched')
    BY <1>1, <2>1, CountOfWatched, Zenon DEF InlineInv, TablesAgree
  <2>3. \A k \in InlineKeys : k \in watched' <=> lookup'[k] # <<>>
    BY <1>3, <2>1 DEF InlineInv, TablesAgree
  <2>4. TablesAgree'
    BY <1>6, <2>1, <2>2, <2>3 DEF TablesAgree
  <2>5. thread' \in TimedCalls
    BY <2>1 DEF TimedCalls
  <2> QED
    BY <1>3, <1>4, <1>5, <2>1, <2>4, <2>5 DEF InlineInv
<1>8. CASE unregisterTimeout
  <2>1. /\ thread # <<>> /\ Head(thread) = "unregister" /\ thread' = <<>> \o Tail(thread)
        /\ timed' = "no" /\ pollRemove(Timeout)
        /\ lookup'[Timeout] = <<>> /\ watched' = watched \ {Timeout}
    BY <1>1, <1>2, <1>8 DEF unregisterTimeout, pollRemove, Continues
  <2>2. thread = <<"unregister">> /\ lookup[Timeout] = <<Timeout>>
    BY <2>1 DEF InlineInv, Untimed, TimedCalls
  <2>3. thread' = <<>>
    BY <2>1, <2>2
  <2>4. m_events' = Cardinality(watched')
    <3>1. <<Timeout>> # <<>>
      OBVIOUS
    <3>2. Timeout \in watched
      BY <1>1, <2>2, <3>1, Zenon DEF InlineInv, TablesAgree
    <3>3. watched \subseteq InlineKeys /\ m_events = Cardinality(watched)
      BY DEF InlineInv, TablesAgree
    <3> QED
      BY <1>1, <2>1, <3>2, <3>3, CountOfWatched, Zenon
  <2>5. \A k \in InlineKeys : k \in watched' <=> lookup'[k] # <<>>
    BY <1>3, <2>1 DEF InlineInv, TablesAgree
  <2>6. TablesAgree'
    BY <1>6, <2>1, <2>4, <2>5 DEF TablesAgree
  <2>7. thread' \in Untimed
    BY <2>3 DEF Untimed
  <2> QED
    BY <1>3, <1>4, <1>5, <2>1, <2>6, <2>7 DEF InlineInv
<1> QED
  BY <1>7, <1>8

(* Every step keeps the invariant: those of dispatch and of the kernel     *)
(* leave the tables alone.                                                 *)
LEMMA InlineNextInv == ASSUME InlineInv, [InlineNext]_inlineVars PROVE InlineInv'
<1>1. ASSUME NEW e \in Handlers, registerHandler(e) \/ unregisterInline(e) PROVE InlineInv'
  BY <1>1, RegisterKeepsInv, UnregisterKeepsInv
<1>2. CASE dispatchInlineTimeout \/ unregisterTimeout
  BY <1>2, TimerKeepsInv
<1>3. CASE dispatchInline
  <2>1. thread = <<>> /\ thread' = <<"wait">> /\ UNCHANGED <<tables, timed>>
    BY <1>3 DEF dispatchInline, Calls
  <2>2. thread \notin TimedCalls /\ thread' \in Untimed
    BY <2>1 DEF TimedCalls, Untimed
  <2> QED
    BY <2>1, <2>2, TablesUntouched
<1>4. CASE TimeoutExpires \/ (\E k \in InlineKeys \ {Timeout} : Happens(k))
            \/ UNCHANGED inlineVars
  <2>1. UNCHANGED <<tables, timed, thread>>
    BY <1>4 DEF TimeoutExpires, Happens, inlineVars
  <2> QED
    BY <2>1, TablesUntouched
<1>5. CASE run \/ runInterrupted
  <2>1. UNCHANGED <<tables, timed>>
    BY <1>5 DEF run, runInterrupted
  <2>2. Continues("wait", <<>>) \/ Continues("wait", <<"batch">>)
    BY <1>5 DEF run, runInterrupted
  <2> QED
    BY <2>1, <2>2, TablesUntouched, ThreadContinues
<1>6. CASE serviced \/ \E k \in InlineKeys : service(k)
  <2>1. UNCHANGED <<tables, timed>>
    BY <1>6 DEF serviced, service
  <2>2. Continues("batch", <<>>) \/ Continues("batch", <<"each", "batch">>)
    BY <1>6 DEF serviced, service
  <2> QED
    BY <2>1, <2>2, TablesUntouched, ThreadContinues
<1>7. CASE each
  <2>1. UNCHANGED <<tables, timed>>
    BY <1>7 DEF each
  <2>2. Continues("each", <<>>) \/ Continues("each", <<"callback", "each">>)
    BY <1>7 DEF each
  <2> QED
    BY <2>1, <2>2, TablesUntouched, ThreadContinues
<1>8. CASE callbackReturns
  <2>1. UNCHANGED <<tables, timed>> /\ Continues("callback", <<>>)
    BY <1>8 DEF callbackReturns
  <2> QED
    BY <2>1, TablesUntouched, ThreadContinues
<1> QED
  BY <1>1, <1>2, <1>3, <1>4, <1>5, <1>6, <1>7, <1>8 DEF InlineNext, Dispatching

(* The tables of InlineEventManager lead to live events only, and epoll    *)
(* and EventPoll's count follow them (InlineEventManager.cpp,              *)
(* PollManager.cpp), for every set of events and every batch size.         *)
THEOREM InlineTablesAgree == InlineSpec => []TablesAgree
<1>1. InlineInv => TablesAgree
  BY DEF InlineInv
<1> QED
  BY <1>1, InlineInitInv, InlineNextInv, PTL DEF InlineSpec
=============================================================================
