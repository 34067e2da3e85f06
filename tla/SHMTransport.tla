---------------------------- MODULE SHMTransport ----------------------------
(***************************************************************************)
(* fp::SHMTransport and the router's fp::shm_peer_connection               *)
(* (fastpath/transport/SHMTransport.cpp, SharedMemoryBuffer.h,             *)
(* transport/sm/, router/shm_peer_connection.cpp): two single-reader,      *)
(* single-writer queues in a shared segment, an eventfd for each           *)
(* direction, and a Unix socket over which the client hands the router the *)
(* eventfds and by whose end it is known to be gone.                       *)
(*                                                                         *)
(* The client's threads are the application, the session thread with the   *)
(* receiver event, and a connector; the router is one thread.  calls holds *)
(* the steps each still has to make, next first.  Boost.Interprocess is    *)
(* external: a queue is a sequence with a capacity.                        *)
(***************************************************************************)
EXTENDS Naturals, Sequences

CONSTANTS QueueCapacity,  \* of an ObjPtrListType, 1024
          MaxClientSends, \* bound on sendMessage calls
          MaxRouterSends  \* bound on messages for the client

VARIABLES
  m_connected,       \* SHMTransport::m_connected
  is_connected,      \* InterprocessNotifierClient::m_connected
  leave,             \* m_shouldDisconnect, which the constructor does not set
  recvQueue,         \* whether m_recvQueue and m_sendQueue are there
  unixSocket,        \* "unconnected", "connected", "accepted", "closed", or
                     \* "abandoned": closed by the client before the router accepted it
  receiver,          \* whether the receiver event is registered
  peer,              \* whether the router has the shm_peer_connection
  subscribed,        \* the router has heard from the client
  queue, alive,      \* ClientQueue and ServerQueue: elements; existence in the segment
  count, edge,       \* of the eventfds: their value, and what epoll has not yet reported
  misused,           \* a destroyed queue was written to, or destroyed again
  clientSends, routerSends,
  calls

shmVars == <<m_connected, is_connected, leave, recvQueue, unixSocket, receiver, peer,
             subscribed, queue, alive, count, edge, misused, clientSends, routerSends, calls>>

client == <<m_connected, is_connected, leave, recvQueue, receiver>>
segment == <<queue, alive, misused>>
eventfd == <<count, edge>>
bounds == <<clientSends, routerSends>>

Queues == {"ClientQueue", "ServerQueue"}

SHMInit ==
  /\ m_connected = FALSE /\ is_connected = FALSE /\ leave \in BOOLEAN
  /\ recvQueue = FALSE /\ unixSocket = "unconnected" /\ receiver = FALSE
  /\ peer = FALSE /\ subscribed = FALSE
  /\ queue = [q \in Queues |-> <<>>] /\ alive = [q \in Queues |-> FALSE] /\ misused = FALSE
  /\ count = [q \in Queues |-> 0] /\ edge = [q \in Queues |-> FALSE]
  /\ clientSends = 0 /\ routerSends = 0
  /\ calls = [app |-> <<"construct">>, connector |-> <<>>, session |-> <<>>, router |-> <<>>]

Calls(t, step, next) ==
  /\ calls[t] # <<>> /\ Head(calls[t]) = step
  /\ calls' = [calls EXCEPT ![t] = next \o Tail(@)]

Waits(t) == calls[t] = <<>>
-----------------------------------------------------------------------------
(* SharedMemoryBuffer.                                                     *)

\* find_or_construct of both queues
Found == [q \in Queues |-> TRUE]

\* push() into a full queue is refused, which notify() does not look at.
Pushed(q) ==
  IF alive[q] /\ Len(queue[q]) < QueueCapacity THEN [queue EXCEPT ![q] = Append(@, "message")]
  ELSE queue

\* ~SharedMemoryBuffer destroys the queue for both sides.
Destroys(qs) ==
  /\ alive' = [q \in Queues |-> alive[q] /\ q \notin qs]
  /\ queue' = [q \in Queues |-> IF q \in qs THEN <<>> ELSE queue[q]]
  /\ misused' = (misused \/ \E q \in qs : ~alive[q])

\* retrieve(): one element, or none left
Retrieves(t, q) ==
  /\ Calls(t, "retrieve", IF queue[q] = <<>> THEN <<>> ELSE <<"retrieve">>)
  /\ queue' = IF queue[q] = <<>> THEN queue ELSE [queue EXCEPT ![q] = Tail(@)]

\* notify() on the eventfd of a queue
Signal(q) ==
  /\ count' = [count EXCEPT ![q] = @ + 1]
  /\ edge' = [edge EXCEPT ![q] = TRUE]
-----------------------------------------------------------------------------
(* Connecting: InterprocessNotifierClient::connect, and on_connect.        *)

\* connect() also sends the eventfds along.
notifierConnect(t, next) ==
  /\ unixSocket = "unconnected"
  /\ unixSocket' = "connected"
  /\ is_connected' = TRUE
  /\ calls' = [calls EXCEPT ![t] = next \o Tail(@)]

constructConnects ==
  /\ calls["app"] # <<>> /\ Head(calls["app"]) = "construct"
  /\ notifierConnect("app", <<"on_connect", "registerTransport">>)
  /\ UNCHANGED <<m_connected, leave, recvQueue, receiver, peer, subscribed, segment, eventfd, bounds>>

constructLaunches ==
  /\ Calls("app", "construct", <<"launch", "registerTransport">>)
  /\ UNCHANGED <<client, unixSocket, peer, subscribed, segment, eventfd, bounds>>

launch ==
  /\ calls["app"] # <<>> /\ Head(calls["app"]) = "launch"
  /\ calls' = [calls EXCEPT !["app"] = Tail(@), !["connector"] = <<"try">>]
  /\ UNCHANGED <<client, unixSocket, peer, subscribed, segment, eventfd, bounds>>

\* __connect: the loop, and what it does at its end
tryConnects ==
  /\ calls["connector"] = <<"try">> /\ ~is_connected /\ ~leave
  /\ notifierConnect("connector", <<"try">>)
  /\ UNCHANGED <<m_connected, leave, recvQueue, receiver, peer, subscribed, segment, eventfd, bounds>>

tryEnds ==
  /\ is_connected \/ leave
  /\ Calls("connector", "try", IF leave THEN <<>> ELSE <<"on_connect">>)
  /\ UNCHANGED <<client, unixSocket, peer, subscribed, segment, eventfd, bounds>>

on_connect(t) ==
  /\ Calls(t, "on_connect", <<>>)
  /\ alive' = Found
  /\ recvQueue' = TRUE
  /\ m_connected' = TRUE
  /\ UNCHANGED <<is_connected, leave, receiver, unixSocket, peer, subscribed, queue, misused,
                 eventfd, bounds>>

\* createReceiverEvent: epoll reports what is there when it is added
registerTransport ==
  /\ Calls("app", "registerTransport", <<>>)
  /\ receiver' = TRUE
  /\ edge' = [edge EXCEPT !["ClientQueue"] = count["ClientQueue"] > 0]
  /\ UNCHANGED <<m_connected, is_connected, leave, recvQueue, unixSocket, peer, subscribed,
                 segment, count, bounds>>
-----------------------------------------------------------------------------
(* Sending and receiving.                                                  *)

\* Mutant: the router is told before there is anything to retrieve.
sendNotifiesFirst ==
  /\ Waits("app") /\ receiver /\ clientSends < MaxClientSends
  /\ clientSends' = clientSends + 1
  /\ m_connected /\ is_connected
  /\ calls' = [calls EXCEPT !["app"] = <<"notify", "push">>]
  /\ UNCHANGED <<client, unixSocket, peer, subscribed, segment, eventfd, routerSends>>

\* sendMessage of a connected transport
send ==
  /\ Waits("app") /\ receiver /\ clientSends < MaxClientSends
  /\ clientSends' = clientSends + 1
  /\ m_connected /\ is_connected
  /\ calls' = [calls EXCEPT !["app"] = <<"push", "notify">>]
  /\ UNCHANGED <<client, unixSocket, peer, subscribed, segment, eventfd, routerSends>>

\* The message stays with whoever retrieves it; sendBuffer of the router is alike.
push(t, q) ==
  /\ Calls(t, "push", <<>>)
  /\ queue' = Pushed(q)
  /\ misused' = (misused \/ ~alive[q])
  /\ UNCHANGED <<client, unixSocket, peer, subscribed, alive, eventfd, bounds>>

notify(t, q) ==
  /\ Calls(t, "notify", <<>>)
  /\ Signal(q)
  /\ UNCHANGED <<client, unixSocket, peer, subscribed, segment, bounds>>

\* The receiver event; it does not reset the eventfd.
receive ==
  /\ Waits("session") /\ receiver /\ edge["ClientQueue"]
  /\ edge' = [edge EXCEPT !["ClientQueue"] = FALSE]
  /\ calls' = [calls EXCEPT !["session"] = <<"retrieve">>]
  /\ UNCHANGED <<client, unixSocket, peer, subscribed, segment, count, bounds>>

receiveRetrieves ==
  /\ Retrieves("session", "ClientQueue")
  /\ UNCHANGED <<client, unixSocket, peer, subscribed, alive, misused, eventfd, bounds>>

\* ~SHMTransport, after the session has stopped: __disconnect, then the members
destroyTransport ==
  /\ Waits("app") /\ Waits("session") /\ receiver
  /\ m_connected' = FALSE /\ leave' = TRUE /\ receiver' = FALSE /\ recvQueue' = FALSE
  /\ IF recvQueue THEN Destroys({"ClientQueue"}) ELSE UNCHANGED segment
  /\ calls' = [calls EXCEPT !["app"] = <<"join">>]
  /\ UNCHANGED <<is_connected, unixSocket, peer, subscribed, eventfd, bounds>>

\* Both queues go, if the connector came to make them in the meantime.
join ==
  /\ Calls("app", "join", <<"gone">>)
  /\ Waits("connector")
  /\ unixSocket' = IF unixSocket = "connected" THEN "abandoned" ELSE "closed"
  /\ is_connected' = FALSE
  /\ recvQueue' = FALSE
  /\ IF recvQueue THEN Destroys(Queues) ELSE UNCHANGED segment
  /\ UNCHANGED <<m_connected, leave, receiver, peer, subscribed, eventfd, bounds>>
-----------------------------------------------------------------------------
(* The router.                                                             *)

\* connectionHandler: the new shm_peer_connection finds the queues and the eventfds.
accept ==
  /\ Waits("router") /\ unixSocket \in {"connected", "abandoned"}
  /\ unixSocket' = IF unixSocket = "connected" THEN "accepted" ELSE "closed"
  /\ peer' = TRUE
  /\ alive' = Found
  /\ edge' = [edge EXCEPT !["ServerQueue"] = count["ServerQueue"] > 0]
  /\ UNCHANGED <<client, subscribed, queue, misused, count, bounds, calls>>

\* epoll reports the eventfd only while its value is not zero.
wake ==
  /\ Waits("router") /\ peer /\ edge["ServerQueue"] /\ count["ServerQueue"] > 0
  /\ edge' = [edge EXCEPT !["ServerQueue"] = FALSE]
  /\ calls' = [calls EXCEPT !["router"] = <<"reset">>]
  /\ UNCHANGED <<client, unixSocket, peer, subscribed, segment, count, bounds>>

\* notificationHandler: nothing to read would be taken for the end of the client.
reset ==
  /\ Calls("router", "reset", IF count["ServerQueue"] = 0 THEN <<"drop">> ELSE <<"retrieve">>)
  /\ count' = [count EXCEPT !["ServerQueue"] = 0]
  /\ UNCHANGED <<client, unixSocket, peer, subscribed, segment, edge, bounds>>

routerRetrieves ==
  /\ Retrieves("router", "ServerQueue")
  /\ subscribed' = (subscribed \/ queue["ServerQueue"] # <<>>)
  /\ UNCHANGED <<client, unixSocket, peer, alive, misused, eventfd, bounds>>

\* sendBuffer
sendBuffer ==
  /\ Waits("router") /\ peer /\ subscribed /\ routerSends < MaxRouterSends
  /\ routerSends' = routerSends + 1
  /\ calls' = [calls EXCEPT !["router"] = <<"push", "notify">>]
  /\ UNCHANGED <<client, unixSocket, peer, subscribed, segment, eventfd, clientSends>>

\* socketEvent reads the end of the socket, and the peer is deleted with both queues.
hangUp ==
  /\ Waits("router") /\ peer /\ unixSocket = "closed"
  /\ calls' = [calls EXCEPT !["router"] = <<"drop">>]
  /\ UNCHANGED <<client, unixSocket, peer, subscribed, segment, eventfd, bounds>>

drop ==
  /\ Calls("router", "drop", <<>>)
  /\ peer' = FALSE
  /\ subscribed' = FALSE
  /\ Destroys(Queues)
  /\ UNCHANGED <<client, unixSocket, eventfd, bounds>>
-----------------------------------------------------------------------------
ClientStep ==
  \/ constructConnects \/ constructLaunches \/ launch \/ on_connect("app")
  \/ registerTransport \/ push("app", "ServerQueue") \/ notify("app", "ServerQueue") \/ join

ConnectorStep == tryConnects \/ tryEnds \/ on_connect("connector")

RouterStep ==
  \/ reset \/ routerRetrieves \/ drop
  \/ push("router", "ClientQueue") \/ notify("router", "ClientQueue")

SHMNext ==
  \/ ClientStep \/ send \/ destroyTransport
  \/ ConnectorStep
  \/ receive \/ receiveRetrieves
  \/ RouterStep \/ accept \/ wake \/ sendBuffer \/ hangUp

SHMSpec == SHMInit /\ [][SHMNext]_shmVars
-----------------------------------------------------------------------------
InCall(t, steps) == \E i \in DOMAIN calls[t] : calls[t][i] \in steps

(* A message in a queue is on its way to be retrieved: its reader is about *)
(* to look, or epoll will report the eventfd, or the writer has yet to     *)
(* signal it.  This holds for the router, which reads the eventfd before   *)
(* it looks (shm_peer_connection.cpp:79), and for the client, which never  *)
(* reads it, from the first message sent before the router has accepted.   *)
(* And the router never takes a live client for a dead one because another *)
(* signal had been read with the last.                                     *)
QueuedIsSignalled ==
  /\ peer /\ queue["ServerQueue"] # <<>> /\ ~misused =>
       \/ InCall("router", {"reset", "retrieve", "drop"})
       \/ InCall("app", {"notify"})
       \/ edge["ServerQueue"] /\ count["ServerQueue"] > 0
  /\ receiver /\ queue["ClientQueue"] # <<>> /\ ~misused =>
       InCall("session", {"retrieve"}) \/ InCall("router", {"notify"}) \/ edge["ClientQueue"]
  /\ InCall("router", {"drop"}) => unixSocket = "closed"

\* What the threads may have to do.
CallsOK ==
  /\ DOMAIN calls = {"app", "connector", "session", "router"}
  /\ calls["app"] \in {<<>>, <<"construct">>, <<"on_connect", "registerTransport">>,
                       <<"launch", "registerTransport">>, <<"registerTransport">>,
                       <<"push", "notify">>, <<"notify">>, <<"join">>, <<"gone">>}
  /\ calls["connector"] \in {<<>>, <<"try">>, <<"on_connect">>}
  /\ calls["session"] \in {<<>>, <<"retrieve">>}
  /\ calls["router"] \in {<<>>, <<"reset">>, <<"retrieve">>, <<"drop">>, <<"push", "notify">>,
                          <<"notify">>}

(* Queues, eventfds and sockets are what they can be.                      *)
SHMTypeOK ==
  /\ unixSocket \in {"unconnected", "connected", "accepted", "closed", "abandoned"}
  /\ queue \in [Queues -> Seq({"message"})] /\ alive \in [Queues -> BOOLEAN]
  /\ count \in [Queues -> Nat] /\ edge \in [Queues -> BOOLEAN]
  /\ receiver \in BOOLEAN /\ peer \in BOOLEAN /\ misused \in BOOLEAN

(* The inductive invariant: a message is signalled also while nobody       *)
(* listens yet, and whoever goes to reset the eventfd finds it set.        *)
SHMInv ==
  /\ SHMTypeOK /\ CallsOK
  /\ QueuedIsSignalled
  /\ queue["ServerQueue"] # <<>> /\ ~misused =>
       \/ InCall("router", {"reset", "retrieve", "drop"})
       \/ InCall("app", {"notify"})
       \/ count["ServerQueue"] > 0
  /\ queue["ClientQueue"] # <<>> /\ ~misused =>
       InCall("router", {"notify"}) \/ count["ClientQueue"] > 0
  /\ InCall("router", {"reset"}) => count["ServerQueue"] > 0
=============================================================================
