------------------------------- MODULE Router -------------------------------
(***************************************************************************)
(* fprouter and its TCP clients (fastpath/router: bootstrap,               *)
(* peer_connection, tcp_peer_connection, tcp_server_transport; fastpath/   *)
(* event: InlineQueue, InlineEventManager; and, on the clients' side, what *)
(* MessageListener and TCPTransport send).                                 *)
(*                                                                         *)
(* The router is one thread: epoll_wait hands it a batch of descriptors,   *)
(* edge triggered, and every handler registered for a descriptor reads     *)
(* until there is nothing left.  Clients run beside it: they connect,      *)
(* register interest, publish, lose their connection and come back.        *)
(*                                                                         *)
(* A peer_connection is named by the connection it was accepted for.  Its  *)
(* socket is m_connected exactly while the router holds its descriptor,    *)
(* and a closed descriptor is given to the next connection accepted.       *)
(***************************************************************************)
EXTENDS Integers, Sequences, SequencesExt, FiniteSets, FiniteSetsExt

CONSTANTS
  Publishers, Subscribers,  \* clients that publish, clients that subscribe
  Patterns,        \* what clients subscribe to: sequences of elements
  Subjects,        \* what clients publish on: sequences of elements
  MaxConnections,  \* bound: connections made in all
  MaxObservers,    \* bound: observers of one client
  MaxEvents        \* bound: messages published, observers removed and router
                   \* processes ended, together

Clients == Publishers \cup Subscribers
Connections == 1 .. MaxConnections
NoConnection == 0
Listener == 0                      \* the server socket's descriptor
Descriptors == 1 .. MaxConnections \* the peers' descriptors

ASSUME RouterAssumption ==
  /\ {MaxConnections, MaxObservers, MaxEvents} \subseteq Nat
  /\ Patterns \subseteq Seq(STRING) \ {<<>>}
  /\ Subjects \subseteq Seq(STRING) \ {<<>>}

VARIABLES
  \* the clients
  observers,  \* m_observers: the patterns of each client's subscribers
  link,       \* each client's connection, or NoConnection
  m_sendBuffer,  \* what each client encoded and has not sent
  asked,      \* history: the patterns registered over each open connection
  made, events, \* counters of the bounds
  \* the network and epoll
  up,         \* bytes sent and not yet read by the router, per connection
  down,       \* messages the router has sent over each open connection
  clientOpen, \* connections the client has not closed
  backlog,    \* connections made and not yet accepted
  ready,      \* descriptors epoll_wait would report, in order
  \* the router process
  open,       \* connections whose descriptor the router holds
  fd,         \* the descriptor a peer's socket was created with
  m_connections, m_subscriptions, m_ioHandlerLookup,
  batch,      \* reported by epoll_wait, not yet serviced
  running     \* handlers of the descriptor being serviced, still to run

clientVars == <<observers, link, m_sendBuffer, asked, made>>
routerVars == <<open, fd, m_connections, m_subscriptions, m_ioHandlerLookup,
                batch, running>>
netVars == <<up, down, clientOpen, backlog, ready>>
vars == <<clientVars, routerVars, netVars, events>>

Nothing == [k \in Connections |-> <<>>]

Init ==
  /\ observers = [c \in Clients |-> <<>>]
  /\ link = [c \in Clients |-> NoConnection]
  /\ m_sendBuffer = [c \in Clients |-> <<>>]
  /\ asked = [k \in Connections |-> {}]
  /\ made = 0 /\ events = 0
  /\ up = Nothing /\ down = Nothing /\ clientOpen = {}
  /\ backlog = <<>> /\ ready = <<>>
  /\ open = {} /\ fd = [k \in Connections |-> Listener]
  /\ m_connections = <<>> /\ m_subscriptions = Nothing
  /\ m_ioHandlerLookup = [f \in Descriptors |-> <<>>]
  /\ batch = <<>> /\ running = <<>>
-----------------------------------------------------------------------------
(* Subjects and subscriptions.  Elements stand for their hashes.           *)

Wildcards == {"*", ">"}

\* A pattern without a wildcard is compared as a whole; one with a wildcard
\* element by element, as far as the pattern goes.
matches(pattern, subject) ==
  IF ToSet(pattern) \cap Wildcards = {}
    THEN pattern = subject
    ELSE /\ Len(subject) >= Len(pattern)
         /\ \A i \in DOMAIN pattern : pattern[i] \in Wildcards \cup {subject[i]}

\* Mutant: any subscription is taken for interest.
is_interestedInAnything(p, subject) == subject # <<>> /\ m_subscriptions[p] # <<>>

is_interested(p, subject) ==
  \E i \in DOMAIN m_subscriptions[p] : matches(m_subscriptions[p][i], subject)
-----------------------------------------------------------------------------
(* The network.  Input and the end of input raise an edge on the           *)
(* descriptor, if the connection has one.                                  *)

Raise(edges, f) == IF Contains(edges, f) THEN edges ELSE Append(edges, f)

RaiseOn(k) == ready' = IF k \in open THEN Raise(ready, fd[k]) ELSE ready

\* The messages reach connection k, and the client's buffer is emptied.
Sent(c, k, messages) ==
  /\ up' = [up EXCEPT ![k] = @ \o messages]
  /\ asked' = [asked EXCEPT ![k] =
                 @ \cup {m.what : m \in {n \in ToSet(messages) : n.kind = "register"}}]
  /\ m_sendBuffer' = [m_sendBuffer EXCEPT ![c] = <<>>]

\* The client's socket closes.
Close(c) ==
  /\ link' = [link EXCEPT ![c] = NoConnection]
  /\ clientOpen' = clientOpen \ {link[c]}
  /\ down' = [down EXCEPT ![link[c]] = <<>>]
  /\ asked' = [asked EXCEPT ![link[c]] = {}]
  /\ RaiseOn(link[c])

\* The router has closed its end of the client's connection.
RouterHasLeft(c) ==
  link[c] # NoConnection /\ link[c] \notin open \cup ToSet(backlog)

\* TCPTransport::sendMessage: the message joins what is left in m_sendBuffer.
\* It arrives, or is lost when the router has gone; or the send fails, the
\* socket closes and the buffer keeps it.
Send(c, message) ==
  LET messages == Append(m_sendBuffer[c], message) IN
  \/ /\ link[c] = NoConnection
     /\ UNCHANGED <<up, asked, m_sendBuffer, link, clientOpen, down, ready>>
  \/ /\ link[c] # NoConnection /\ ~RouterHasLeft(c)
     /\ Sent(c, link[c], messages)
     /\ RaiseOn(link[c])
     /\ UNCHANGED <<link, clientOpen, down>>
  \/ /\ RouterHasLeft(c)
     /\ m_sendBuffer' = [m_sendBuffer EXCEPT ![c] = <<>>]
     /\ UNCHANGED <<up, asked, link, clientOpen, down, ready>>
  \/ /\ link[c] # NoConnection
     /\ m_sendBuffer' = [m_sendBuffer EXCEPT ![c] = messages]
     /\ Close(c)
     /\ UNCHANGED up

Message(kind, what, from, id) == [kind |-> kind, what |-> what, from |-> from, id |-> id]
Register(c, pattern) == Message("register", pattern, c, 0)
-----------------------------------------------------------------------------
(* The clients.                                                            *)

\* Mutant: the observers are not subscribed again.
connectForgetful(c) ==
  /\ link[c] = NoConnection
  /\ made < MaxConnections
  /\ made' = made + 1
  /\ link' = [link EXCEPT ![c] = made']
  /\ clientOpen' = clientOpen \cup {made'}
  /\ backlog' = Append(backlog, made')
  /\ ready' = Raise(ready, Listener)
  /\ UNCHANGED <<observers, m_sendBuffer, asked, up, down, routerVars, events>>

\* connect() succeeds and notifies CONNECTED: every observer is subscribed
\* again over the new connection.
connect(c) ==
  /\ link[c] = NoConnection
  /\ made < MaxConnections
  /\ made' = made + 1
  /\ link' = [link EXCEPT ![c] = made']
  /\ clientOpen' = clientOpen \cup {made'}
  /\ backlog' = Append(backlog, made')
  /\ ready' = Raise(ready, Listener)
  /\ LET requests == [i \in DOMAIN observers[c] |-> Register(c, observers[c][i])] IN
     IF requests = <<>> THEN UNCHANGED <<up, asked, m_sendBuffer>>
                        ELSE Sent(c, made', m_sendBuffer[c] \o requests)
  /\ UNCHANGED <<observers, down, routerVars, events>>

addObserver(c, pattern) ==
  /\ c \in Subscribers
  /\ Len(observers[c]) < MaxObservers
  /\ observers' = [observers EXCEPT ![c] = Append(@, pattern)]
  /\ Send(c, Register(c, pattern))
  /\ UNCHANGED <<made, backlog, routerVars, events>>

removeObserver(c, i) ==
  /\ events < MaxEvents
  /\ events' = events + 1
  /\ observers' = [observers EXCEPT ![c] = RemoveAt(@, i)]
  /\ Send(c, Message("unregister", observers[c][i], c, 0))
  /\ UNCHANGED <<made, backlog, routerVars>>

sendMessage(c, subject) ==
  /\ c \in Publishers
  /\ link[c] # NoConnection
  /\ events < MaxEvents
  /\ events' = events + 1
  /\ Send(c, Message("publish", subject, c, events'))
  /\ UNCHANGED <<observers, made, backlog, routerVars>>

\* A failed read, the end of input, or the network.
disconnect(c) ==
  /\ link[c] # NoConnection
  /\ Close(c)
  /\ UNCHANGED <<observers, m_sendBuffer, made, up, backlog, routerVars, events>>
-----------------------------------------------------------------------------
(* The router's event loop: InlineQueue::dispatch.                         *)

epoll_wait ==
  /\ batch = <<>> /\ running = <<>> /\ ready # <<>>
  /\ batch' = ready /\ ready' = <<>>
  /\ UNCHANGED <<clientVars, events, up, down, clientOpen, backlog, open, fd,
                 m_connections, m_subscriptions, m_ioHandlerLookup, running>>

\* One connection is accepted for an edge of the server socket, and its
\* descriptor, the lowest free one, joins the epoll set.
acceptPendingConnection ==
  /\ running = <<>> /\ batch # <<>> /\ Head(batch) = Listener
  /\ LET k == Head(backlog)
         f == Min(Descriptors \ {fd[j] : j \in open}) IN
     /\ backlog' = Tail(backlog)
     /\ open' = open \cup {k}
     /\ fd' = [fd EXCEPT ![k] = f]
     /\ m_ioHandlerLookup' = [m_ioHandlerLookup EXCEPT ![f] = Append(@, k)]
     /\ m_connections' = Append(m_connections, k)
     /\ ready' = IF up[k] # <<>> \/ k \notin clientOpen THEN Raise(ready, f) ELSE ready
  /\ batch' = Tail(batch)
  /\ UNCHANGED <<clientVars, events, up, down, clientOpen, m_subscriptions, running>>

\* serviceIOEvent: the handlers registered for the descriptor, one by one.
foreach_event_matching ==
  /\ running = <<>> /\ batch # <<>> /\ Head(batch) # Listener
  /\ running' = m_ioHandlerLookup[Head(batch)]
  /\ batch' = Tail(batch)
  /\ UNCHANGED <<clientVars, events, netVars, open, fd, m_connections, m_subscriptions,
                 m_ioHandlerLookup>>
-----------------------------------------------------------------------------
(* data_handler of the peer whose turn it is: one read, and the handling   *)
(* of what it returns.  recv() takes a descriptor, whichever connection    *)
(* holds it now.                                                           *)

Peer == Head(running)
Source == {k \in open : fd[k] = fd[Peer]}

\* Calling the handler of a destroyed peer is undefined: the model stops.
InHandler == running # <<>> /\ Contains(m_connections, Peer)

HasInput == \E k \in Source : up[k] # <<>>

\* Mutant: what was sent before the close is not read.
AtEndUnread == \A k \in Source : k \notin clientOpen
AtEnd == \A k \in Source : up[k] = <<>> /\ k \notin clientOpen

handle_admin_message(message) ==
  /\ m_subscriptions' =
       IF message.kind = "register"
         THEN [m_subscriptions EXCEPT ![Peer] = Append(@, message.what)]
         ELSE m_subscriptions  \* its second branch tests for "register" again
  /\ UNCHANGED <<down, open, ready>>

\* Mutant: one copy per matching subscription.
message_handlerPerSubscription(message) ==
  LET Copies(p) == Cardinality({i \in DOMAIN m_subscriptions[p] :
                                  matches(m_subscriptions[p][i], message.what)}) IN
  /\ down' = [k \in Connections |->
                IF k \in open \cap clientOpen /\ Contains(m_connections, k)
                  THEN down[k] \o [i \in 1 .. Copies(k) |-> message] ELSE down[k]]
  /\ UNCHANGED <<m_subscriptions, open, ready>>

\* Every interested peer, the source included.  A send to a connection the
\* client has closed may fail, and then closes the descriptor; the peer stays
\* in m_connections and its handler in the table.
message_handler(message) ==
  LET targets == {p \in open : Contains(m_connections, p)
                                 /\ is_interested(p, message.what)} IN
  \E failed \in SUBSET (targets \ clientOpen) :
     /\ down' = [k \in Connections |->
                   IF k \in targets \cap clientOpen THEN Append(down[k], message)
                                                    ELSE down[k]]
     /\ open' = open \ failed
     /\ ready' = SelectSeq(ready, LAMBDA f : f \notin {fd[p] : p \in failed})
     /\ UNCHANGED m_subscriptions

\* Mutant: the handler returns after one message.
process_bufferOnce ==
  /\ InHandler /\ HasInput
  /\ LET k == CHOOSE j \in Source : TRUE
         message == Head(up[k]) IN
     /\ up' = [up EXCEPT ![k] = Tail(@)]
     /\ IF message.kind = "publish" THEN message_handler(message)
                                    ELSE handle_admin_message(message)
  /\ running' = Tail(running)
  /\ UNCHANGED <<clientVars, events, clientOpen, backlog, fd, m_connections,
                 m_ioHandlerLookup, batch>>

process_buffer ==
  /\ InHandler /\ HasInput
  /\ LET k == CHOOSE j \in Source : TRUE
         message == Head(up[k]) IN
     /\ up' = [up EXCEPT ![k] = Tail(@)]
     /\ IF message.kind = "publish" THEN message_handler(message)
                                    ELSE handle_admin_message(message)
  /\ UNCHANGED <<clientVars, events, clientOpen, backlog, fd, m_connections,
                 m_ioHandlerLookup, batch, running>>

\* EAGAIN: the handler returns.
NoData ==
  /\ InHandler /\ ~HasInput /\ ~AtEnd
  /\ running' = Tail(running)
  /\ UNCHANGED <<clientVars, events, netVars, open, fd, m_connections, m_subscriptions,
                 m_ioHandlerLookup, batch>>

\* unregisterHandler: the last handler of a descriptor goes with its entry,
\* one of several is erased from a copy of the entry.
unregisterHandler(p) ==
  m_ioHandlerLookup' =
    [m_ioHandlerLookup EXCEPT ![fd[p]] = IF Len(@) = 1 THEN <<>> ELSE @]

\* The end of input, or EBADF: the socket closes and disconnection_handler
\* destroys the peer, whose destructor unregisters the event.
disconnection_handler ==
  /\ InHandler /\ AtEnd
  /\ open' = open \ {Peer}
  /\ m_connections' = SelectSeq(m_connections, LAMBDA p : p # Peer)
  /\ m_subscriptions' = [m_subscriptions EXCEPT ![Peer] = <<>>]
  /\ unregisterHandler(Peer)
  /\ ready' = IF Peer \in open THEN SelectSeq(ready, LAMBDA f : f # fd[Peer]) ELSE ready
  /\ running' = Tail(running)
  /\ UNCHANGED <<clientVars, events, up, down, clientOpen, backlog, fd, batch>>

\* The process ends, at a signal or anywhere inside a send (SIGPIPE), and is
\* started again: the kernel closes its descriptors.
restart ==
  /\ events < MaxEvents
  /\ events' = events + 1
  /\ open' = {} /\ backlog' = <<>> /\ ready' = <<>>
  /\ m_connections' = <<>> /\ m_subscriptions' = Nothing
  /\ m_ioHandlerLookup' = [f \in Descriptors |-> <<>>]
  /\ batch' = <<>> /\ running' = <<>>
  /\ UNCHANGED <<clientVars, up, down, clientOpen, fd>>
-----------------------------------------------------------------------------
RouterStep ==
  \/ epoll_wait
  \/ acceptPendingConnection
  \/ foreach_event_matching
  \/ process_buffer
  \/ NoData
  \/ disconnection_handler

ClientStep(c) ==
  \/ connect(c)
  \/ \E pattern \in Patterns : addObserver(c, pattern)
  \/ \E i \in DOMAIN observers[c] : removeObserver(c, i)
  \/ \E subject \in Subjects : sendMessage(c, subject)
  \/ disconnect(c)

Next ==
  \/ RouterStep
  \/ \E c \in Clients : ClientStep(c)
  \/ restart

\* The router's loop runs while it has work; its steps leave the clients as they
\* are, which comes first so that TLC tries less.  A client reads the end of a
\* connection the router has left, and keeps trying to connect.
Fairness ==
  /\ WF_vars(UNCHANGED <<clientVars, events>> /\ RouterStep)
  /\ \A c \in Clients : WF_vars(RouterHasLeft(c) /\ disconnect(c))
  /\ \A c \in Clients : WF_vars(connect(c))

Spec == Init /\ [][Next]_vars
FairSpec == Spec /\ Fairness
-----------------------------------------------------------------------------
\* Input is never left behind: while a connection has unread bytes, or an end
\* of input, its descriptor is reported, about to be serviced or being
\* serviced.  Edge-triggered epoll reports it once, so that this rests on
\* data_handler reading until there is nothing left.
NoUnreadInput ==
  \A k \in open :
    up[k] # <<>> \/ k \notin clientOpen =>
      fd[k] \in ToSet(ready) \cup ToSet(batch) \cup {fd[p] : p \in ToSet(running)}

\* A connection is sent only what was asked for over it, also when its
\* descriptor was another peer's before (is_interested, add_subscription).
OnlyWhatWasAskedFor ==
  \A k \in Connections : \A i \in DOMAIN down[k] :
    \E pattern \in asked[k] : matches(pattern, down[k][i].what)

\* Messages of one publisher reach a connection in the order they were sent
\* and once each, also when the publisher reconnected in between
\* (data_handler, message_handler).
DeliveredInOrder ==
  \A k \in Connections : \A i, j \in DOMAIN down[k] :
    i < j /\ down[k][i].from = down[k][j].from => down[k][i].id < down[k][j].id

\* An idle router has forgotten what its clients unregistered
\* (MessageListener::unsubscribe, UnregisterObserver, remove_subscription).
UnregisteredIsForgotten ==
  \A c \in Clients :
    link[c] \in open /\ up[link[c]] = <<>> /\ running = <<>> =>
      ToSet(m_subscriptions[link[c]]) \subseteq ToSet(observers[c])

\* The handlers in the table are those of peers that exist: the destructor of
\* a peer has taken its own out (Queue::unregisterEvent, unregisterHandler).
UnregisteredIsRemoved ==
  \A f \in Descriptors : ToSet(m_ioHandlerLookup[f]) \subseteq ToSet(m_connections)
-----------------------------------------------------------------------------
Registered(c, pattern) ==
  link[c] \in open /\ Contains(m_subscriptions[link[c]], pattern)

\* Where the router leaves a connection alone: a second connection behind one
\* edge of the server socket, a descriptor whose former handler is still in
\* the table and reads first, a client out of connections.
Stranded(k) == Contains(backlog, k) /\ ~Contains(ready \o batch, Listener)
Shadowed(k) == k \in open /\ Len(m_ioHandlerLookup[fd[k]]) > 1
OutOfReach(c) ==
  \/ link[c] = NoConnection /\ made = MaxConnections
  \/ Stranded(link[c])
  \/ Shadowed(link[c])

\* An observer ends up registered with the router its client is connected to,
\* whatever connections and router processes were lost meanwhile.
ObserversAreRegistered ==
  \A c \in Subscribers, pattern \in Patterns :
    Contains(observers[c], pattern) ~>
      \/ ~Contains(observers[c], pattern)
      \/ Registered(c, pattern)
      \/ OutOfReach(c)

Carries(messages, id) == \E i \in DOMAIN messages : messages[i].id = id

\* Message id is on its way to the router and connection k is registered for
\* it; it was cut off unread when a send to its source failed.
Awaits(k, id) ==
  /\ k \in open \cap clientOpen
  /\ \E j \in open : \E i \in DOMAIN up[j] :
       up[j][i].id = id /\ is_interested(k, up[j][i].what)
CutOff(id) == \E j \in ToSet(m_connections) \ open : Carries(up[j], id)

\* A message on its way to the router stays on its way until it has been sent
\* to every connection registered for it, even if the publisher has left
\* (data_handler, message_handler); with NoUnreadInput, it is delivered.
PublishedIsDelivered ==
  [][\A k \in Connections, id \in 1 .. MaxEvents :
       Awaits(k, id) =>
         \/ Awaits(k, id)'
         \/ Carries(down'[k], id)
         \/ k \notin open' \cap clientOpen'
         \/ CutOff(id)']_vars
=============================================================================
