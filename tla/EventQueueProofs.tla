-------------------------- MODULE EventQueueProofs ---------------------------
(***************************************************************************)
(* That no thread uses a deleted event and that unregistered events stay   *)
(* silent, for any events, ring and number of arrivals m_awaitingDispatch  *)
(* can count, if the handler tables are erased from exclusively and no     *)
(* event unregisters itself in its own callback.                           *)
(***************************************************************************)
EXTENDS EventQueue, FiniteSetTheorems, SequenceTheorems, TLAPS

(* The elements of an event in a ring are finitely many, and none exactly  *)
(* when it has no place in it.                                             *)
LEMMA PlacesFinite ==
  ASSUME NEW q \in Seq(Events), NEW e \in Events
  PROVE  /\ IsFiniteSet(Places(q, e))
         /\ Cardinality(Places(q, e)) \in Nat
         /\ Cardinality(Places(q, e)) = 0 => \A i \in 1 .. Len(q) : q[i] # e
<1>1. IsFiniteSet(1 .. Len(q))
  BY FS_Interval
<1>2. IsFiniteSet(Places(q, e))
  BY <1>1, FS_Subset DEF Places
<1>3. Cardinality(Places(q, e)) = 0 => Places(q, e) = {}
  BY <1>2, FS_EmptySet
<1> QED
  BY <1>2, <1>3, FS_CardinalityType DEF Places

(* A push adds a place to the event pushed, and to no other.               *)
LEMMA PlacesOfPush ==
  ASSUME NEW q \in Seq(Events), NEW v \in Events, NEW e \in Events
  PROVE  Cardinality(Places(Append(q, v), e)) = Cardinality(Places(q, e)) + One(v = e)
<1>1. Places(Append(q, v), e) = IF v = e THEN Places(q, e) \cup {Len(q) + 1} ELSE Places(q, e)
  BY DEF Places
<1>2. Len(q) + 1 \notin Places(q, e)
  BY DEF Places
<1>3. Cardinality(Places(q, e) \cup {Len(q) + 1}) = Cardinality(Places(q, e)) + 1
  BY <1>2, PlacesFinite, FS_AddElement, Zenon
<1>4. Cardinality(Places(q, e)) \in Nat
  BY PlacesFinite
<1> QED
  BY <1>1, <1>3, <1>4 DEF One

(* A pop takes a place from the event popped, and from no other.           *)
LEMMA PlacesOfPop ==
  ASSUME NEW q \in Seq(Events), NEW e \in Events, q # <<>>
  PROVE  Cardinality(Places(q, e)) = Cardinality(Places(Tail(q), e)) + One(Head(q) = e)
<1> DEFINE later == Places(q, e) \ {1}
           f == [i \in later |-> i - 1]
<1>1. Tail(q) \in Seq(Events) /\ Len(Tail(q)) = Len(q) - 1 /\ Len(q) > 0 /\ Head(q) = q[1]
  OBVIOUS
<1>2. \A i \in 1 .. Len(Tail(q)) : Tail(q)[i] = q[i + 1]
  OBVIOUS
<1>3. f \in Bijection(later, Places(Tail(q), e))
  <2>1. \A i \in later : i - 1 \in Places(Tail(q), e)
    BY <1>1, <1>2 DEF Places
  <2>2. \A j \in Places(Tail(q), e) : j + 1 \in later /\ f[j + 1] = j
    BY <1>1, <1>2 DEF Places
  <2>3. \A i, j \in later : f[i] = f[j] => i = j
    BY DEF Places
  <2> HIDE DEF later
  <2> QED
    BY <2>1, <2>2, <2>3, Zenon DEF Bijection, Injection, Surjection, IsInjective
<1>4. IsFiniteSet(later)
  BY PlacesFinite, FS_Subset
<1>5. Cardinality(later) = Cardinality(Places(Tail(q), e))
  BY <1>3, <1>4, FS_Bijection DEF ExistsBijection
<1> HIDE DEF later, f
<1>6. 1 \in Places(q, e) <=> Head(q) = e
  BY <1>1 DEF Places
<1>7. CASE Head(q) = e
  <2>1. Places(q, e) = later \cup {1}
    BY <1>6, <1>7 DEF later
  <2>2. Cardinality(later \cup {1}) = Cardinality(later) + 1
    BY <1>4, FS_AddElement, Zenon DEF later
  <2> QED
    BY <1>5, <1>7, <2>1, <2>2 DEF One
<1>8. CASE Head(q) # e
  <2>1. Places(q, e) = later
    BY <1>6, <1>8 DEF later
  <2>2. Cardinality(Places(Tail(q), e)) \in Nat
    BY <1>1, PlacesFinite, Zenon
  <2> QED
    BY <1>5, <1>8, <2>1, <2>2 DEF One
<1> QED
  BY <1>7, <1>8
-----------------------------------------------------------------------------
(* No event is born yet and the ring is empty.                             *)
LEMMA EventsInitInv == Init => EventsInv
<1> SUFFICES ASSUME Init PROVE EventsInv
  OBVIOUS
<1> USE DEF Init, Ring!FifoInit, Idle
<1>1. EventsTypeOK
  BY EventsAssumption DEF EventsTypeOK
<1>2. ASSUME NEW e \in Events PROVE EventInv(e)
  <2>1. Places(m_queue, e) = {}
    BY DEF Places
  <2>2. Cardinality(Places(m_queue, e)) = 0
    BY <2>1, FS_EmptySet, Zenon
  <2>3. e # NoEvent
    BY EventsAssumption
  <2> QED
    BY <2>2, <2>3 DEF EventInv, Elements, Coming, One, Notifying, InRing, InHand
<1> QED
  BY <1>1, <1>2 DEF EventsInv

(* Nothing but the world changes: input arrives and is reported.           *)
LEMMA ArriveKeepsInv ==
  ASSUME EventsInv, NEW a \in Events, Arrive(a) PROVE EventsInv'
<1> USE DEF Arrive, appVars, ringVars
<1>1. EventsTypeOK'
  BY EventsAssumption DEF EventsInv, EventsTypeOK
<1>2. ASSUME NEW e \in Events PROVE EventInv(e)'
  <2>1. EventInv(e) /\ EventsTypeOK
    BY DEF EventsInv
  <2>2. Cardinality(Places(m_queue, e)) \in Nat
    BY <2>1, PlacesFinite DEF EventsTypeOK
  <2>3. Elements(e)' = Elements(e)
    BY DEF Elements
  <2>4. Coming(e)' <= Coming(e) + 1 /\ Coming(e)' \in Nat /\ Coming(e) \in Nat
    BY DEF Coming, One
  <2>5. arrivals' = arrivals + 1 /\ arrivals \in Nat /\ m_awaitingDispatch[e] \in Nat
    BY <2>1 DEF EventsTypeOK
  <2>6. m_awaitingDispatch[e] + Coming(e)' <= arrivals' + One(life[e] # "unborn")
    BY <2>1, <2>4, <2>5 DEF EventInv, One
  <2> QED
    BY <2>1, <2>3, <2>6 DEF EventInv, Notifying, InRing, InHand
<1> QED
  BY <1>1, <1>2 DEF EventsInv
-----------------------------------------------------------------------------
(* The session thread.                                                     *)
LEMMA PollKeepsInv ==
  ASSUME EventsInv, NEW a \in Events, Poll(a) PROVE EventsInv'
<1> USE DEF Poll, appVars, ringVars, Idle
<1>1. EventsTypeOK'
  BY DEF EventsInv, EventsTypeOK
<1>2. ASSUME NEW e \in Events PROVE EventInv(e)'
  <2>1. EventInv(e) /\ EventsTypeOK
    BY DEF EventsInv
  <2>2. Elements(e)' = Elements(e)
    BY DEF Elements, One
  <2>3. Coming(e)' = Coming(e)
    BY <2>1 DEF Coming, One, EventsTypeOK
  <2> QED
    BY <2>1, <2>2, <2>3 DEF EventInv, Notifying, InRing, InHand
<1> QED
  BY <1>1, <1>2 DEF EventsInv

(* The session's thread looks the reported event up.                       *)
LEMMA LookupKeepsInv ==
  ASSUME EventsInv, Lookup PROVE EventsInv'
<1> USE DEF Lookup, appVars, ringVars, worldVars, Idle
<1>1. EventsTypeOK'
  BY DEF EventsInv, EventsTypeOK
<1>2. ASSUME NEW e \in Events PROVE EventInv(e)'
  <2>1. EventInv(e) /\ EventsTypeOK /\ e # NoEvent
    BY EventsAssumption DEF EventsInv
  <2>2. Elements(e)' = Elements(e)
    BY <2>1 DEF Elements, One, EventsTypeOK
  <2>3. Coming(e)' <= Coming(e) /\ Coming(e)' \in Nat /\ Coming(e) \in Nat
    BY <2>1 DEF Coming, One, EventsTypeOK
  <2>4. arrivals \in Nat /\ m_awaitingDispatch[e] \in Nat
    BY <2>1 DEF EventsTypeOK
  <2>5. m_awaitingDispatch[e] + Coming(e)' <= arrivals + One(life[e] # "unborn")
    BY <2>1, <2>3, <2>4 DEF EventInv, One
  <2>6. Notifying(e)' => e \in handlers
    BY <2>1 DEF Notifying, EventsTypeOK
  <2> QED
    BY <2>1, <2>2, <2>5, <2>6 DEF EventInv, InRing, InHand
<1> QED
  BY <1>1, <1>2 DEF EventsInv

(* An event that is notified has an element on its way, and is counted;    *)
(* the count cannot wrap, since each element is one of the arrivals.       *)
LEMMA NotifyKeepsInv ==
  ASSUME EventsInv, Notify PROVE EventsInv'
<1> DEFINE n == session.event
<1> USE DEF Notify, appVars, ringVars, Idle
<1>1. n \in Events /\ EventsTypeOK /\ EventInv(n)
  BY DEF EventsInv, EventsTypeOK
<1>2. CASE n \in DataEvents /\ m_awaitingDispatch[n] # 0
  <2>1. session' = Idle /\ UNCHANGED <<m_awaitingDispatch, ready>>
    BY <1>2
  <2>2. EventsTypeOK'
    BY <1>1, <2>1 DEF EventsTypeOK
  <2>3. ASSUME NEW e \in Events PROVE EventInv(e)'
    <3>1. EventInv(e) /\ e # NoEvent
      BY EventsAssumption DEF EventsInv
    <3>2. Elements(e)' = Elements(e)
      BY <2>1, <3>1 DEF Elements, One
    <3>3. Coming(e)' <= Coming(e) /\ Coming(e)' \in Nat /\ Coming(e) \in Nat
      BY <2>1, <3>1 DEF Coming, One
    <3>4. arrivals \in Nat /\ m_awaitingDispatch[e] \in Nat
      BY <1>1 DEF EventsTypeOK
    <3>5. m_awaitingDispatch[e] + Coming(e)' <= arrivals + One(life[e] # "unborn")
      BY <3>1, <3>3, <3>4 DEF EventInv, One
    <3> QED
      BY <2>1, <3>1, <3>2, <3>5 DEF EventInv, InRing, InHand, Notifying
  <2> QED
    BY <2>2, <2>3 DEF EventsInv
<1>3. CASE ~(n \in DataEvents /\ m_awaitingDispatch[n] # 0)
  <2>1. /\ pushDispatch(n) /\ session' = [session EXCEPT !.pc = "enqueue"]
        /\ ready' = ready \ (TimerEvents \cap {n})
    BY <1>3
  <2>2. /\ m_awaitingDispatch[n] \in Nat /\ arrivals \in Nat /\ arrivals <= MaxArrivals
        /\ Coming(n) >= 1 /\ Coming(n) \in Nat
    BY <1>1 DEF EventsTypeOK, Coming, One
  <2>3. m_awaitingDispatch[n] + 1 < 65536
    BY <1>1, <2>2, EventsAssumption DEF EventInv, One
  <2>4. /\ m_awaitingDispatch' \in [Events -> Nat]
        /\ \A e \in Events : m_awaitingDispatch'[e] = m_awaitingDispatch[e] + One(e = n)
    <3>1. (m_awaitingDispatch[n] + 1) % 65536 = m_awaitingDispatch[n] + 1
      BY <2>2, <2>3
    <3>2. m_awaitingDispatch \in [Events -> Nat]
      BY <1>1 DEF EventsTypeOK
    <3> DEFINE k == (m_awaitingDispatch[n] + 1) % 65536
    <3>3. m_awaitingDispatch' = [m_awaitingDispatch EXCEPT ![n] = k]
      BY <2>1 DEF pushDispatch
    <3>4. k \in Nat /\ k = m_awaitingDispatch[n] + 1
      BY <2>2, <3>1
    <3> HIDE DEF k
    <3>5. /\ [m_awaitingDispatch EXCEPT ![n] = k] \in [Events -> Nat]
          /\ \A e \in Events :
               [m_awaitingDispatch EXCEPT ![n] = k][e] = IF e = n THEN k ELSE m_awaitingDispatch[e]
      BY <1>1, <3>2, <3>4
    <3>6. /\ m_awaitingDispatch' \in [Events -> Nat]
          /\ \A e \in Events : m_awaitingDispatch'[e] = IF e = n THEN k ELSE m_awaitingDispatch[e]
      BY <3>3, <3>5, Zenon
    <3> QED
      BY <3>2, <3>4, <3>6 DEF One
  <2>5. EventsTypeOK'
    <3>1. session' \in [pc : {"wait", "lookup", "notify", "enqueue"}, event : Events \cup {NoEvent}]
          /\ session'.event = n /\ ready' \subseteq Events
      BY <1>1, <2>1 DEF EventsTypeOK
    <3>2. UNCHANGED <<appVars, ringVars, unread, arrivals, handlers>>
      BY DEF Notify
    <3> HIDE DEF Notify
    <3> QED
      BY <1>1, <2>4, <3>1, <3>2 DEF EventsTypeOK
  <2>6. ASSUME NEW e \in Events PROVE EventInv(e)'
    <3>1. EventInv(e) /\ Notifying(e)' = Notifying(e)
      BY <1>1, <2>1 DEF EventsInv, Notifying, EventsTypeOK
    <3>2. m_awaitingDispatch'[e] = m_awaitingDispatch[e] + One(e = n)
      BY <1>1, <2>4 DEF One, EventsTypeOK
    <3>3. /\ Cardinality(Places(m_queue, e)) \in Nat
          /\ m_awaitingDispatch[e] \in Nat /\ arrivals \in Nat
      BY <1>1, PlacesFinite DEF EventsTypeOK
    <3>4. Elements(e)' <= Elements(e) + One(e = n) /\ Elements(e) \in Nat /\ Elements(e)' \in Nat
      BY <1>1, <2>1, <3>3 DEF Elements, One, EventsTypeOK
    <3>5. Coming(e)' + One(e = n) <= Coming(e) /\ Coming(e) \in Nat /\ Coming(e)' \in Nat
      BY <1>1, <2>1 DEF Coming, One, EventsTypeOK
    <3>6. Elements(e)' <= m_awaitingDispatch'[e]
      BY <3>1, <3>2, <3>3, <3>4 DEF EventInv, One
    <3>7. m_awaitingDispatch'[e] + Coming(e)' <= arrivals + One(life[e] # "unborn")
      BY <3>1, <3>2, <3>3, <3>5 DEF EventInv, One
    <3> QED
      BY <3>1, <3>6, <3>7 DEF EventInv, InRing, InHand
  <2> QED
    BY <2>5, <2>6 DEF EventsInv
<1> QED
  BY <1>2, <1>3

(* An event that was looked up goes into the ring, or is refused.          *)
LEMMA EnqueueKeepsInv ==
  ASSUME EventsInv, Enqueue PROVE EventsInv'
<1> DEFINE n == session.event
<1> USE DEF appVars, worldVars, Idle
<1>1. n \in Events /\ EventsTypeOK /\ EventInv(n)
  BY DEF EventsInv, EventsTypeOK, Enqueue
<1>2. dispatcher' = dispatcher /\ (m_queue' = Append(m_queue, n) \/ m_queue' = m_queue)
  BY DEF Enqueue, Ring!Push, Ring!PushFull
<1>3. /\ session.pc = "enqueue" /\ session' = Idle
      /\ UNCHANGED <<appVars, worldVars, handlers, m_awaitingDispatch>>
  BY DEF Enqueue
<1>4. m_queue \in Seq(Events) /\ Append(m_queue, n) \in Seq(Events) /\ m_queue' \in Seq(Events)
  <2>1. m_queue \in Seq(Events) /\ Append(m_queue, n) \in Seq(Events)
    BY <1>1 DEF EventsTypeOK
  <2> QED
    BY <1>2, <2>1, Zenon
<1>5. EventsTypeOK'
  BY <1>1, <1>2, <1>3, <1>4 DEF EventsTypeOK
<1>6. ASSUME NEW e \in Events PROVE EventInv(e)'
  <2>1. EventInv(e) /\ e # NoEvent
    BY EventsAssumption DEF EventsInv
  <2>2. /\ Cardinality(Places(m_queue, e)) \in Nat
        /\ m_awaitingDispatch[e] \in Nat /\ arrivals \in Nat
    BY <1>1, PlacesFinite DEF EventsTypeOK
  <2>3. /\ Cardinality(Places(m_queue', e)) <= Cardinality(Places(m_queue, e)) + One(n = e)
        /\ Cardinality(Places(m_queue', e)) \in Nat
    <3>1. Cardinality(Places(Append(m_queue, n), e))
            = Cardinality(Places(m_queue, e)) + One(n = e)
      BY <1>1, PlacesOfPush DEF EventsTypeOK
    <3>2. One(n = e) \in {0, 1}
      BY DEF One
    <3>3. /\ Cardinality(Places(Append(m_queue, n), e)) <= Cardinality(Places(m_queue, e)) + One(n = e)
          /\ Cardinality(Places(m_queue, e)) <= Cardinality(Places(m_queue, e)) + One(n = e)
          /\ Cardinality(Places(Append(m_queue, n), e)) \in Nat
      BY <2>2, <3>1, <3>2
    <3> QED
      BY <1>2, <2>2, <3>3, Zenon
  <2>4. Elements(e)' <= Elements(e) /\ Elements(e) \in Nat /\ Elements(e)' \in Nat
    BY <1>2, <1>3, <2>1, <2>2, <2>3 DEF Elements, One
  <2>5. Elements(e)' <= m_awaitingDispatch[e]
    BY <2>1, <2>2, <2>4 DEF EventInv
  <2>6. Coming(e)' = Coming(e)
    BY <1>3, <2>1 DEF Coming, One
  <2>7. InRing(e)' => InRing(e) \/ e = n
    <3>1. CASE m_queue' = m_queue
      BY <3>1 DEF InRing
    <3>2. CASE m_queue' = Append(m_queue, n)
      <4>1. \A i \in 1 .. Len(m_queue') : m_queue'[i] = n \/ (i \in 1 .. Len(m_queue) /\ m_queue'[i] = m_queue[i])
        BY <1>1, <3>2 DEF EventsTypeOK
      <4>2. DOMAIN m_queue = 1 .. Len(m_queue) /\ DOMAIN m_queue' = 1 .. Len(m_queue')
        BY <1>1, <1>4 DEF EventsTypeOK
      <4> QED
        BY <4>1, <4>2 DEF InRing
    <3> QED
      BY <1>2, <3>1, <3>2
  <2>8. e = n => life[e] = "live"
    BY <1>3, <2>1 DEF EventInv, Notifying
  <2> QED
    BY <1>2, <1>3, <2>1, <2>5, <2>6, <2>7, <2>8 DEF EventInv, InHand, Notifying
<1> QED
  BY <1>2, <1>3, <1>5, <1>6 DEF EventsInv
-----------------------------------------------------------------------------
(* The client thread.                                                      *)
LEMMA RegisterKeepsInv ==
  ASSUME EventsInv, NEW a \in Events, registerEvent(a) PROVE EventsInv'
<1> USE DEF registerEvent, ringVars
<1>1. EventsTypeOK /\ EventInv(a)
  BY DEF EventsInv
<1>2. EventsTypeOK'
  BY <1>1 DEF EventsTypeOK
<1>3. ASSUME NEW e \in Events PROVE EventInv(e)'
  <2>1. EventInv(e) /\ e # NoEvent
    BY EventsAssumption DEF EventsInv
  <2>2. Elements(e)' = Elements(e)
    BY DEF Elements
  <2>3. Coming(e)' <= Coming(e) + One(e = a) /\ Coming(e)' \in Nat /\ Coming(e) \in Nat
    BY DEF Coming, One
  <2>4. arrivals \in Nat /\ m_awaitingDispatch[e] \in Nat
    BY <1>1 DEF EventsTypeOK
  <2>5. life'[e] = IF e = a THEN "live" ELSE life[e]
    BY <1>1 DEF EventsTypeOK
  <2>6. m_awaitingDispatch[e] + Coming(e)' <= arrivals + One(life'[e] # "unborn")
    BY <2>1, <2>3, <2>4, <2>5 DEF EventInv, One
  <2>7. e = a => e \notin m_pendingRemoval
    BY <1>1, <2>1 DEF EventInv
  <2> QED
    BY <1>1, <2>1, <2>2, <2>5, <2>6, <2>7 DEF EventInv, Notifying, InRing, InHand
<1> QED
  BY <1>2, <1>3 DEF EventsInv

(* The event leaves the table, which the session thread is not in for it.  *)
LEMMA UnregisterKeepsInv ==
  ASSUME EventsInv, Careful, NEW a \in Events, unregisterHandler(a) PROVE EventsInv'
<1> USE DEF unregisterHandler, ringVars
<1>1. EventsTypeOK /\ EventInv(a) /\ a # NoEvent
  BY EventsAssumption DEF EventsInv
<1>2. EventsTypeOK'
  BY <1>1 DEF EventsTypeOK
<1>3. client # "idle" => a # dispatcher
  BY DEF Careful, Site
<1>4. ~Notifying(a)
  BY DEF Careful
<1>5. ASSUME NEW e \in Events PROVE EventInv(e)'
  <2>1. EventInv(e) /\ e # NoEvent
    BY EventsAssumption DEF EventsInv
  <2>2. Elements(e)' = Elements(e)
    BY DEF Elements
  <2>3. Coming(e)' <= Coming(e) /\ Coming(e)' \in Nat /\ Coming(e) \in Nat
    BY DEF Coming, One
  <2>4. arrivals \in Nat /\ m_awaitingDispatch[e] \in Nat
    BY <1>1 DEF EventsTypeOK
  <2>5. m_awaitingDispatch[e] + Coming(e)' <= arrivals + One(life[e] # "unborn")
    BY <2>1, <2>3, <2>4 DEF EventInv, One
  <2>6. Notifying(e)' => e \in handlers'
    BY <1>4, <2>1 DEF EventInv, Notifying
  <2> QED
    BY <1>1, <2>1, <2>2, <2>5, <2>6 DEF EventInv, InRing, InHand
<1> QED
  BY <1>2, <1>3, <1>5 DEF EventsInv

(* An event without elements is deleted, one with elements is marked.      *)
LEMMA FinishUnregisterKeepsInv ==
  ASSUME EventsInv, finishUnregister PROVE EventsInv'
<1> USE DEF finishUnregister, Delete, ringVars, worldVars
<1>1. EventsTypeOK /\ target \in Events /\ EventInv(target)
  BY DEF EventsInv, EventsTypeOK
<1>2. EventsTypeOK'
  BY <1>1 DEF EventsTypeOK
<1>3. life[target] = "live" /\ target \notin handlers /\ target \notin m_pendingRemoval
  BY <1>1 DEF EventInv
<1>4. ASSUME NEW e \in Events PROVE EventInv(e)'
  <2>1. EventInv(e) /\ e # NoEvent
    BY EventsAssumption DEF EventsInv
  <2>2. Elements(e)' = Elements(e) /\ Coming(e)' = Coming(e)
    BY DEF Elements, Coming
  <2>3. /\ Cardinality(Places(m_queue, e)) \in Nat /\ m_queue \in Seq(Events)
        /\ Cardinality(Places(m_queue, e)) = 0 => \A i \in 1 .. Len(m_queue) : m_queue[i] # e
    BY <1>1, PlacesFinite DEF EventsTypeOK
  <2>4. CASE e # target
    <3>1. life'[e] = life[e] /\ (e \in m_registeredEvents' <=> e \in m_registeredEvents)
          /\ (e \in m_pendingRemoval' <=> e \in m_pendingRemoval)
      BY <1>1, <2>4 DEF EventsTypeOK
    <3> QED
      BY <2>1, <2>2, <2>4, <3>1 DEF EventInv, Notifying, InRing, InHand
  <2>5. CASE e = target /\ m_awaitingDispatch[e] # 0
    <3>1. /\ life' = life /\ m_registeredEvents' = m_registeredEvents
          /\ e \in m_pendingRemoval'
      BY <2>5
    <3> QED
      BY <1>3, <2>1, <2>2, <2>5, <3>1 DEF EventInv, Notifying, InRing, InHand
  <2>6. CASE e = target /\ m_awaitingDispatch[e] = 0
    <3>1. /\ life'[e] = "deleted" /\ e \notin m_registeredEvents'
          /\ m_pendingRemoval' = m_pendingRemoval
      BY <1>1, <2>6 DEF EventsTypeOK
    <3>2. Elements(e) <= 0
      BY <2>1, <2>6 DEF EventInv
    <3>3. Cardinality(Places(m_queue, e)) = 0 /\ ~(client = "dispatch" /\ dispatcher = e)
      BY <2>3, <3>2 DEF Elements, One
    <3>4. ~InRing(e)'
      BY <2>3, <3>3 DEF InRing
    <3>5. ~InHand(e)'
      BY <2>6 DEF EventsInv, InHand
    <3>6. One(life'[e] # "unborn") = One(life[e] # "unborn")
      BY <1>3, <2>6, <3>1 DEF One
    <3> QED
      BY <1>3, <2>1, <2>2, <2>6, <3>1, <3>4, <3>5, <3>6 DEF EventInv, Notifying
  <2> QED
    BY <2>4, <2>5, <2>6
<1> QED
  BY <1>2, <1>4 DEF EventsInv

(* The element moves from the ring into the client's hand.                 *)
LEMMA PopKeepsInv ==
  ASSUME EventsInv, Pop PROVE EventsInv'
<1>1. EventsTypeOK
  BY DEF EventsInv
<1>2. /\ m_queue # <<>> /\ dispatcher' = Head(m_queue) /\ m_queue' = Tail(m_queue)
      /\ client = "idle" /\ client' = "dispatch" /\ target = NoEvent
      /\ UNCHANGED <<life, m_registeredEvents, m_pendingRemoval, target, worldVars,
                     handlers, m_awaitingDispatch, session>>
  BY DEF Pop, Ring!Pop
<1>3. /\ m_queue \in Seq(Events) /\ m_queue' \in Seq(Events) /\ Head(m_queue) \in Events
      /\ Len(m_queue') = Len(m_queue) - 1 /\ Head(m_queue) = m_queue[1]
      /\ Len(m_queue) \in Nat /\ Len(m_queue) > 0
      /\ \A i \in 1 .. Len(m_queue') : m_queue'[i] = m_queue[i + 1]
  <2>1. m_queue \in Seq(Events)
    BY <1>1 DEF EventsTypeOK
  <2> QED
    BY <1>2, <2>1
<1>4. EventsTypeOK'
  BY <1>1, <1>2, <1>3 DEF EventsTypeOK, worldVars
<1>5. ASSUME NEW e \in Events PROVE EventInv(e)'
  <2>1. EventInv(e) /\ e # NoEvent
    BY EventsAssumption DEF EventsInv
  <2>2. /\ Cardinality(Places(m_queue, e)) = Cardinality(Places(m_queue', e)) + One(Head(m_queue) = e)
        /\ Cardinality(Places(m_queue', e)) \in Nat
    BY <1>2, <1>3, PlacesOfPop, PlacesFinite, Zenon
  <2>3. Elements(e)' = Elements(e)
    BY <1>2, <2>2 DEF Elements, One
  <2>4. Coming(e)' = Coming(e)
    BY <1>2 DEF Coming, worldVars
  <2>5. InRing(e)' \/ InHand(e)' => InRing(e)
    BY <1>2, <1>3 DEF InRing, InHand
  <2> QED
    BY <1>2, <2>1, <2>3, <2>4, <2>5 DEF EventInv, Notifying, worldVars
<1> QED
  BY <1>2, <1>4, <1>5 DEF EventsInv

(* The count goes down before the callback: the element is the client's.   *)
LEMMA DispatchKeepsInv ==
  ASSUME EventsInv, Dispatch PROVE EventsInv'
<1> DEFINE d == dispatcher
<1> USE DEF Dispatch, popDispatch, ringVars, worldVars
<1>1. EventsTypeOK /\ d \in Events /\ EventInv(d) /\ target = NoEvent
  BY DEF EventsInv, EventsTypeOK
<1>2. /\ m_awaitingDispatch \in [Events -> Nat] /\ m_awaitingDispatch[d] \in Nat
      /\ m_queue \in Seq(Events) /\ arrivals \in Nat /\ arrivals <= MaxArrivals
  BY <1>1 DEF EventsTypeOK
<1>3. m_awaitingDispatch[d] >= 1 /\ m_awaitingDispatch[d] < 65536
  <2>1. Cardinality(Places(m_queue, d)) \in Nat
    BY <1>1, <1>2, PlacesFinite
  <2>2. Elements(d) >= 1 /\ Elements(d) \in Nat /\ Coming(d) \in Nat
    BY <2>1 DEF Elements, Coming, One
  <2> QED
    BY <1>1, <1>2, <2>2, EventsAssumption DEF EventInv, One
<1>4. /\ m_awaitingDispatch' \in [Events -> Nat]
      /\ \A e \in Events : m_awaitingDispatch'[e] = m_awaitingDispatch[e] - One(e = d)
  <2> DEFINE c == m_awaitingDispatch[d]
             k == (c - 1) % 65536
  <2>1. m_awaitingDispatch' = [m_awaitingDispatch EXCEPT ![d] = k]
    BY DEF popDispatch
  <2>2. c \in Nat /\ c >= 1 /\ c < 65536
    BY <1>2, <1>3
  <2> HIDE DEF Dispatch, popDispatch, c
  <2>3. k \in Nat /\ k = c - 1
    BY <2>2
  <2> HIDE DEF k
  <2>4. /\ [m_awaitingDispatch EXCEPT ![d] = k] \in [Events -> Nat]
        /\ \A e \in Events :
             [m_awaitingDispatch EXCEPT ![d] = k][e] = IF e = d THEN k ELSE m_awaitingDispatch[e]
    BY <1>1, <1>2, <2>2, <2>3
  <2>5. /\ m_awaitingDispatch' \in [Events -> Nat]
        /\ \A e \in Events : m_awaitingDispatch'[e] = IF e = d THEN k ELSE m_awaitingDispatch[e]
    BY <2>1, <2>4, Zenon
  <2> QED
    BY <1>2, <2>3, <2>5 DEF One, c
<1>5. EventsTypeOK'
  BY <1>1, <1>4 DEF EventsTypeOK
<1>6. ASSUME NEW e \in Events PROVE EventInv(e)'
  <2>1. EventInv(e) /\ e # NoEvent
    BY EventsAssumption DEF EventsInv
  <2>2. Cardinality(Places(m_queue, e)) \in Nat /\ m_awaitingDispatch[e] \in Nat
    BY <1>2, PlacesFinite
  <2>3. Elements(e)' = Elements(e) - One(e = d) /\ Elements(e) \in Nat
    <3>1. client' # "dispatch" /\ client = "dispatch"
      OBVIOUS
    <3>2. UNCHANGED <<m_queue, session, dispatcher>>
      OBVIOUS
    <3> QED
      BY <2>2, <3>1, <3>2 DEF Elements, One
  <2>4. Coming(e)' = Coming(e) /\ Coming(e) \in Nat
    BY DEF Coming, One
  <2>5. /\ Elements(e)' <= m_awaitingDispatch'[e]
        /\ m_awaitingDispatch'[e] + Coming(e) <= arrivals + One(life[e] # "unborn")
    <3> HIDE DEF Dispatch, popDispatch
    <3>1. /\ Elements(e) <= m_awaitingDispatch[e]
          /\ m_awaitingDispatch[e] + Coming(e) <= arrivals + One(life[e] # "unborn")
      BY <2>1 DEF EventInv
    <3>2. m_awaitingDispatch'[e] = m_awaitingDispatch[e] - One(e = d)
      BY <1>4
    <3>3. One(e = d) \in 0 .. 1 /\ One(life[e] # "unborn") \in 0 .. 1
      BY DEF One
    <3> QED
      BY <1>2, <2>2, <2>3, <2>4, <3>1, <3>2, <3>3
  <2>6. InHand(e)' <=> InHand(e)
    BY DEF InHand
  <2> QED
    BY <2>1, <2>4, <2>5, <2>6 DEF EventInv, InRing, Notifying
<1> QED
  BY <1>1, <1>5, <1>6 DEF EventsInv

(* The callback reads, or returns.                                         *)
LEMMA CallbackKeepsInv ==
  ASSUME EventsInv, Drain \/ Return PROVE EventsInv'
<1>1. /\ client \in {"callback", "drained"} /\ client' \in {"drained", "reap"}
      /\ target = NoEvent
      /\ UNCHANGED <<life, m_registeredEvents, m_pendingRemoval, target, ringVars,
                     ready, arrivals, handlers, m_awaitingDispatch, session>>
  BY DEF Drain, Return, worldVars
<1>2. EventsTypeOK'
  <2>1. EventsTypeOK
    BY DEF EventsInv
  <2> QED
    BY <1>1, <2>1 DEF EventsTypeOK, ringVars
<1>3. ASSUME NEW e \in Events PROVE EventInv(e)'
  <2>1. EventInv(e)
    BY DEF EventsInv
  <2>2. Elements(e)' = Elements(e) /\ Coming(e)' = Coming(e) /\ (InHand(e)' <=> InHand(e))
    BY <1>1 DEF Elements, Coming, One, InHand, ringVars
  <2> QED
    BY <1>1, <2>1, <2>2 DEF EventInv, Notifying, InRing, ringVars
<1> QED
  BY <1>1, <1>2, <1>3 DEF EventsInv

(* A marked event goes with its last element.                              *)
LEMMA ReapKeepsInv ==
  ASSUME EventsInv, Reap PROVE EventsInv'
<1> DEFINE d == dispatcher
<1> DEFINE last == d \in m_pendingRemoval /\ m_awaitingDispatch[d] = 0
<1>1. EventsTypeOK /\ d \in Events /\ EventInv(d) /\ target = NoEvent /\ client = "reap"
  BY DEF EventsInv, EventsTypeOK, Reap
<1>2. /\ client' = "idle" /\ dispatcher' = NoEvent
      /\ UNCHANGED <<m_pendingRemoval, target, m_queue, ready, arrivals, handlers,
                     m_awaitingDispatch, session>>
  BY DEF Reap, worldVars
<1>3. /\ life' \in [Events -> {"unborn", "live", "deleted"}] /\ m_registeredEvents' \subseteq Events
      /\ last => life' = [life EXCEPT ![d] = "deleted"] /\ m_registeredEvents' = m_registeredEvents \ {d}
      /\ ~last => life' = life /\ m_registeredEvents' = m_registeredEvents
  <2>1. CASE last
    BY <1>1, <2>1 DEF Reap, Delete, EventsTypeOK
  <2>2. CASE ~last
    BY <1>1, <2>2 DEF Reap, EventsTypeOK
  <2> QED
    BY <2>1, <2>2
<1> HIDE DEF last
<1>4. life \in [Events -> {"unborn", "live", "deleted"}]
  BY <1>1 DEF EventsTypeOK
<1>5. EventsTypeOK'
  BY <1>1, <1>2, <1>3 DEF EventsTypeOK
<1>6. ASSUME NEW e \in Events PROVE EventInv(e)'
  <2>1. EventInv(e) /\ e # NoEvent
    BY EventsAssumption DEF EventsInv
  <2>2. Elements(e)' = Elements(e) /\ Coming(e)' = Coming(e) /\ ~InHand(e)'
    BY <1>1, <1>2, <2>1 DEF Elements, Coming, One, InHand
  <2>3. CASE ~(e = d /\ last)
    <3>1. life'[e] = life[e] /\ (e \in m_registeredEvents' <=> e \in m_registeredEvents)
      <4>1. CASE ~last
        BY <1>3, <4>1
      <4>2. CASE last /\ e # d
        <5>1. life' = [life EXCEPT ![d] = "deleted"] /\ m_registeredEvents' = m_registeredEvents \ {d}
          BY <1>3, <4>2, Zenon
        <5>2. life'[e] = life[e]
          BY <1>4, <4>2, <5>1
        <5>3. e \in m_registeredEvents' <=> e \in m_registeredEvents
          BY <4>2, <5>1
        <5> QED
          BY <5>2, <5>3
      <4> QED
        BY <2>3, <4>1, <4>2
    <3> QED
      BY <1>2, <2>1, <2>2, <3>1 DEF EventInv, Notifying, InRing
  <2>4. CASE e = d /\ last
    <3>1. /\ e \in m_pendingRemoval /\ m_awaitingDispatch[e] = 0
          /\ life'[e] = "deleted" /\ e \notin m_registeredEvents'
      BY <1>3, <1>4, <2>4 DEF last
    <3>2. e \notin handlers /\ ~Notifying(e) /\ life[e] # "unborn" /\ Elements(e) <= 0
      BY <2>1, <3>1 DEF EventInv
    <3>3. m_queue \in Seq(Events)
      BY <1>1 DEF EventsTypeOK
    <3>4. /\ Cardinality(Places(m_queue, e)) \in Nat
          /\ Cardinality(Places(m_queue, e)) = 0 => \A i \in 1 .. Len(m_queue) : m_queue[i] # e
      BY <3>3, PlacesFinite
    <3>5. Cardinality(Places(m_queue, e)) = 0
      BY <3>2, <3>4 DEF Elements, One
    <3>6. ~InRing(e)'
      BY <1>2, <3>4, <3>5 DEF InRing
    <3>7. One(life'[e] # "unborn") = One(life[e] # "unborn")
      BY <3>1, <3>2 DEF One
    <3>8. ~Notifying(e)'
      BY <1>2, <3>2 DEF Notifying
    <3>9. e # target'
      BY <1>1, <1>2, <2>1
    <3>10. /\ Elements(e)' <= m_awaitingDispatch'[e]
           /\ m_awaitingDispatch'[e] + Coming(e)' <= arrivals' + One(life'[e] # "unborn")
      BY <1>2, <2>1, <2>2, <3>7 DEF EventInv
    <3>11. handlers' = handlers
      BY <1>2
    <3> QED
      BY <2>2, <3>1, <3>2, <3>6, <3>8, <3>9, <3>10, <3>11 DEF EventInv
  <2> QED
    BY <2>3, <2>4
<1> QED
  BY <1>1, <1>2, <1>5, <1>6 DEF EventsInv
-----------------------------------------------------------------------------
(* EventsInv is inductive: every step of the session's thread, the         *)
(* client's thread and the world keeps it.                                 *)
LEMMA EventsNextInv ==
  ASSUME EventsInv, Careful, [Next]_vars PROVE EventsInv'
<1>1. ASSUME NEW e \in Events, Arrive(e) PROVE EventsInv'
  BY <1>1, ArriveKeepsInv
<1>2. ASSUME NEW e \in Events, Poll(e) PROVE EventsInv'
  BY <1>2, PollKeepsInv
<1>3. CASE Lookup \/ Notify \/ Enqueue
  BY <1>3, LookupKeepsInv, NotifyKeepsInv, EnqueueKeepsInv
<1>4. CASE finishUnregister \/ Pop \/ Dispatch
  BY <1>4, FinishUnregisterKeepsInv, PopKeepsInv, DispatchKeepsInv
<1>5. CASE Drain \/ Return \/ Reap
  BY <1>5, CallbackKeepsInv, ReapKeepsInv
<1>6. ASSUME NEW e \in Events, registerEvent(e) \/ unregisterHandler(e) PROVE EventsInv'
  BY <1>6, RegisterKeepsInv, UnregisterKeepsInv
<1>7. CASE UNCHANGED vars
  <2>1. UNCHANGED <<life, m_registeredEvents, m_pendingRemoval, client, target, m_queue,
                    dispatcher, ready, arrivals, handlers, m_awaitingDispatch, session>>
    BY <1>7 DEF vars, appVars, ringVars, worldVars
  <2>2. EventsTypeOK'
    BY <2>1 DEF EventsInv, EventsTypeOK
  <2>3. ASSUME NEW e \in Events PROVE EventInv(e)'
    <3>1. EventInv(e)
      BY DEF EventsInv
    <3>2. Elements(e)' = Elements(e) /\ Coming(e)' = Coming(e) /\ (InHand(e)' <=> InHand(e))
      BY <2>1 DEF Elements, Coming, One, InHand
    <3> QED
      BY <2>1, <3>1, <3>2 DEF EventInv, Notifying, InRing
  <2> QED
    BY <2>1, <2>2, <2>3 DEF EventsInv
<1> QED
  BY <1>1, <1>2, <1>3, <1>4, <1>5, <1>6, <1>7 DEF Next, Session, Client

(* No thread is left with a deleted event, if tables are erased from       *)
(* exclusively and no event unregisters itself in its own callback: for    *)
(* any events, any ring, any order of notification, dispatch and           *)
(* unregistration (Queue.cpp:99-117, SharedQueue.h:50-60).                 *)
THEOREM EventsStayLive ==
  ASSUME Careful PROVE Spec => []NoUseAfterFree
<1>1. EventsInv => NoUseAfterFree
  BY DEF EventsInv, EventInv, NoUseAfterFree
<1>2. EventsInv /\ [Next]_vars => EventsInv'
  BY EventsNextInv
<1> QED
  BY <1>1, <1>2, EventsInitInv, PTL DEF Spec

(* Once an event is unregistered no callback of it begins, whatever the    *)
(* ring still holds: "This will block any further callback to client       *)
(* code, which may still exist in the queue" (Queue.cpp:103).              *)
THEOREM UnregisteredStaySilent ==
  ASSUME Careful PROVE Spec => SilentAfterUnregister
<1>1. EventsInv /\ [Next]_vars
        => [client = "dispatch" /\ client' = "callback" => dispatcher \in handlers]_vars
  <2> SUFFICES ASSUME EventsInv, Next, client = "dispatch", client' = "callback"
               PROVE  dispatcher \in handlers
    OBVIOUS
  <2>1. dispatcher \in Events /\ EventInv(dispatcher) /\ target = NoEvent /\ dispatcher # NoEvent
    BY EventsAssumption DEF EventsInv, EventsTypeOK
  <2>2. Dispatch
    BY DEF Next, Session, Client, Arrive, Poll, Lookup, Notify, Enqueue, finishUnregister, Pop,
           Drain, Return, Reap, registerEvent, unregisterHandler, appVars
  <2>3. dispatcher \notin m_pendingRemoval
    BY <2>2 DEF Dispatch
  <2> QED
    BY <2>1, <2>3 DEF EventInv, InHand
<1>2. EventsInv /\ [Next]_vars => EventsInv'
  BY EventsNextInv
<1> QED
  BY <1>1, <1>2, EventsInitInv, PTL DEF Spec, SilentAfterUnregister
=============================================================================
