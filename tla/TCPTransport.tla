---------------------------- MODULE TCPTransport ----------------------------
(***************************************************************************)
(* fp::TCPTransport over fp::TCPSocketClient, as MessageListener uses it   *)
(* (fastpath/transport/TCPTransport.cpp, socket/Socket.cpp,                *)
(* event/MessageListener.cpp): one transport, the application thread that  *)
(* owns it, the session thread that runs its receiver event, and the       *)
(* std::async threads that try to connect; and the router it talks to.     *)
(*                                                                         *)
(* A thread's todo is its call stack: the steps it still has to make, next *)
(* first.  The name of a connector thread among them is a wait for that    *)
(* thread to end.  What the application sends is the subject of Router;    *)
(* here a send only shows whether the connection still stands.             *)
(*                                                                         *)
(* A byte is <<m, i>>, part i of message m; the first part holds what      *)
(* have_complete_message looks at.                                         *)
(***************************************************************************)
EXTENDS MessageBuffer, Pool, SequencesExt

CONSTANTS Parts,        \* the number of parts of each message, in order of sending
          Hollow,       \* the messages without fields, which decode refuses
          Connectors,   \* the threads std::async may start
          Files,        \* the descriptors, 1 .. n
          MTU_SIZE,
          BufferSize,   \* first capacity of m_readBuffer, 1500
          PoolSize,     \* of m_msg_pool, 10000
          MaxConnections,  \* bound on connections made
          MaxSends         \* bound on sends of the application

VARIABLES
  connected, fd,        \* Socket::m_connected and m_socket
  file,                 \* what each descriptor is: Free, Unconnected or a connection
  conns,                \* the connections made: bytes for the client, and whether the router closed
  shouldDisconnect,     \* m_shouldDisconnect
  future,               \* the thread of m_connectionAttemptInProgress
  handler,              \* whether m_peer has its connection state handler
  notification,         \* whether m_notificationHandler is set
  event,                \* the descriptor of the registered receiver event
  manager,              \* "global": events run in the session thread, under a read
                        \* lock; "inline": in the application's thread
  readBuffer, readPos,  \* m_readBuffer; bytes read of the view being processed
  msg_pool, content,    \* m_msg_pool, and what its messages hold
  inbox,                \* messages on their way through the application's queue
  handled,              \* what the application was handed
  sentOn,               \* for each message sent, its connection
  torn,                 \* bytes of two connections met in m_readBuffer
  crossed,              \* two threads met in the handling of one change
  sends,                \* sends so far
  todo

tcpVars == <<connected, fd, file, conns, shouldDisconnect, future, handler, notification,
             event, manager, readBuffer, readPos, msg_pool, content, inbox, handled,
             sentOn, torn, crossed, sends, todo>>

sock == <<connected, fd, file, conns>>
attempt == <<shouldDisconnect, future, handler, notification, event, manager, crossed>>
input == <<readBuffer, readPos, msg_pool, content, inbox, handled, sentOn, torn>>

Threads == {"app", "session"} \cup Connectors
NoFile == 0
Free == 0
Unconnected == -1
NoThread == "none"

TCPInit ==
  /\ connected = FALSE /\ fd = NoFile
  /\ file = [f \in Files |-> Free] /\ conns = <<>>
  /\ shouldDisconnect = FALSE /\ future = NoThread
  /\ handler = FALSE /\ notification = FALSE /\ event = NoFile /\ crossed = FALSE
  /\ manager \in {"global", "inline"}
  /\ readBuffer = MessageBuffer(BufferSize) /\ readPos = 0
  /\ msg_pool = pool(PoolSize) /\ content = <<>>
  /\ inbox = <<>> /\ handled = <<>> /\ sentOn = <<>> /\ torn = FALSE
  /\ sends = 0
  /\ todo = [t \in Threads |->
       IF t = "app" THEN <<"connect", "launch?", "setHandler", "register", "setNotification">>
       ELSE <<>>]

\* t makes its next step and goes on with these before the rest.
Does(t, step, next) ==
  /\ todo[t] # <<>> /\ Head(todo[t]) = step
  /\ todo' = [todo EXCEPT ![t] = next \o Tail(@)]

Idle(t) == todo[t] = <<>>
\* t is in the middle of a change of the connection.
Changing(t) ==
  \E i \in DOMAIN todo[t] :
    todo[t][i] \in {"connect", "dial", "up", "connected", "close", "down", "disconnected", "reconnect"}

Crosses(t) == \E u \in Threads \ {t} : Changing(u)

IsConn(f) == f # NoFile /\ file[f] \in 1 .. Len(conns)
-----------------------------------------------------------------------------
(* TCPSocketClient::connect.                                               *)

\* socket() takes the lowest descriptor; there may be none left.
Lowest == IF \E f \in Files : file[f] = Free THEN Min({f \in Files : file[f] = Free}) ELSE NoFile
With(f, what) == IF f = NoFile THEN file ELSE [file EXCEPT ![f] = what]

connect(t) ==
  /\ Does(t, "connect", IF connected \/ Lowest = NoFile THEN <<>> ELSE <<"dial">>)
  /\ crossed' = (crossed \/ Crosses(t))
  /\ IF connected THEN UNCHANGED sock
     ELSE fd' = Lowest /\ file' = With(Lowest, Unconnected) /\ UNCHANGED <<connected, conns>>
  /\ UNCHANGED <<shouldDisconnect, future, handler, notification, event, manager, input, sends>>

DialSucceeds(t) ==
  /\ Does(t, "dial", <<"up">>)
  /\ fd # NoFile /\ file[fd] = Unconnected /\ Len(conns) < MaxConnections
  /\ conns' = Append(conns, [in |-> <<>>, closed |-> FALSE])
  /\ file' = With(fd, Len(conns'))
  /\ UNCHANGED <<connected, fd, attempt, input, sends>>

DialFails(t) ==
  /\ Does(t, "dial", <<>>)
  /\ file' = With(fd, Free)
  /\ UNCHANGED <<connected, fd, conns, attempt, input, sends>>

Up(t) ==
  /\ Does(t, "up", IF handler THEN <<"connected">> ELSE <<>>)
  /\ connected' = TRUE
  /\ UNCHANGED <<fd, file, conns, attempt, input, sends>>

\* Registering takes the manager's write lock, which the session thread holds
\* shared for as long as it runs an event.
MayRegister == manager = "inline" \/ Idle("session")

\* CONNECTED in MessageListener: a receiver event for the new descriptor
Connected(t) ==
  /\ Does(t, "connected", <<>>)
  /\ notification => MayRegister
  /\ event' = IF notification THEN (IF connected THEN fd ELSE NoFile) ELSE event
  /\ crossed' = (crossed \/ todo["app"] = <<"setNotification">>)
  /\ UNCHANGED <<sock, shouldDisconnect, future, handler, notification, manager, input, sends>>
-----------------------------------------------------------------------------
(* Socket::disconnect and the connection state handler.                    *)

disconnect(t) ==
  /\ Does(t, "disconnect", IF connected THEN <<"close">> ELSE <<>>)
  /\ crossed' = (crossed \/ Crosses(t))
  /\ UNCHANGED <<sock, shouldDisconnect, future, handler, notification, event, manager, input,
                 sends>>

close(t) ==
  /\ Does(t, "close", IF fd # NoFile /\ file[fd] # Free THEN <<"down">> ELSE <<>>)
  /\ file' = With(fd, Free)
  /\ UNCHANGED <<connected, fd, conns, attempt, input, sends>>

Down(t) ==
  /\ Does(t, "down", IF handler THEN <<"disconnected", "reconnect">> ELSE <<>>)
  /\ connected' = FALSE
  /\ UNCHANGED <<fd, file, conns, attempt, input, sends>>

\* DISCONNECTED in MessageListener; the event may be the one that is running
Disconnected(t) ==
  /\ Does(t, "disconnected", <<>>)
  /\ event' = IF notification THEN NoFile ELSE event
  /\ UNCHANGED <<sock, shouldDisconnect, future, handler, notification, manager, crossed, input, sends>>

\* Mutant: a failed attempt to reconnect is not repeated.
ReconnectOnce(t) ==
  /\ Does(t, "reconnect", IF shouldDisconnect THEN <<>> ELSE <<"connect">>)
  /\ UNCHANGED <<sock, attempt, input, sends>>

Reconnect(t) ==
  /\ Does(t, "reconnect", IF shouldDisconnect THEN <<>> ELSE <<"connect", "launch?">>)
  /\ UNCHANGED <<sock, attempt, input, sends>>

\* connect() answered false: start a connector.  Assigning the future waits for
\* the thread of the one it replaces.
Launch(t) ==
  \E c \in Connectors :
    /\ todo[t] # <<>> /\ Head(todo[t]) = "launch?"
    /\ ~connected
    /\ Idle(c) /\ c # future
    /\ future' = c
    /\ todo' = [todo EXCEPT ![t] = (IF future = NoThread THEN <<>> ELSE <<future>>) \o Tail(@),
                            ![c] = <<"loop">>]
    /\ UNCHANGED <<sock, shouldDisconnect, handler, notification, event, manager, crossed, input, sends>>

NoLaunch(t) ==
  /\ connected
  /\ Does(t, "launch?", <<>>)
  /\ UNCHANGED <<sock, attempt, input, sends>>

Joined(t) ==
  \E c \in Connectors :
    /\ Does(t, c, <<>>)
    /\ Idle(c)
    /\ UNCHANGED <<sock, attempt, input, sends>>

\* Mutant: the loop does not look at m_shouldDisconnect.
LoopForever(t) ==
  /\ Does(t, "loop", IF connected THEN <<>> ELSE <<"connect", "loop">>)
  /\ UNCHANGED <<sock, attempt, input, sends>>

\* __connect; the back-off between attempts has no state the others see
Loop(t) ==
  /\ Does(t, "loop", IF connected \/ shouldDisconnect THEN <<>> ELSE <<"connect", "loop">>)
  /\ UNCHANGED <<sock, attempt, input, sends>>
-----------------------------------------------------------------------------
(* The application: the constructor and registerTransport first, then      *)
(* sends, the messages it is handed, and the destructor.                   *)

setHandler ==
  /\ Does("app", "setHandler", <<>>)
  /\ handler' = TRUE
  /\ UNCHANGED <<sock, shouldDisconnect, future, notification, event, manager, crossed, input, sends>>

register ==
  /\ Does("app", "register", <<>>)
  /\ MayRegister
  /\ event' = IF connected THEN fd ELSE NoFile
  /\ UNCHANGED <<sock, shouldDisconnect, future, handler, notification, manager, crossed, input, sends>>

setNotification ==
  /\ Does("app", "setNotification", <<>>)
  /\ notification' = TRUE
  /\ UNCHANGED <<sock, shouldDisconnect, future, handler, event, manager, crossed, input, sends>>

\* The application's next call; it does not call while its own thread runs the event.
AppFree == Idle("app") /\ (manager = "inline" => Idle("session"))
InUse == notification /\ ~shouldDisconnect

\* Socket::send is refused; a write is taken as a whole or not at all.
SendFails == ~IsConn(fd) \/ conns[file[fd]].closed

sendMessage ==
  /\ AppFree /\ InUse /\ sends < MaxSends
  /\ sends' = sends + 1
  /\ todo' = [todo EXCEPT !["app"] = IF connected /\ SendFails THEN <<"disconnect">> ELSE <<>>]
  /\ UNCHANGED <<sock, attempt, input>>

handle ==
  /\ AppFree /\ inbox # <<>>
  /\ handled' = Append(handled, content[Head(inbox)])
  /\ inbox' = Tail(inbox)
  /\ msg_pool' = release(msg_pool, Head(inbox))
  /\ UNCHANGED <<sock, attempt, readBuffer, readPos, content, sentOn, torn, sends, todo>>

\* The application has stopped its session, and holds no message.
destroy ==
  /\ AppFree /\ InUse /\ Idle("session") /\ inbox = <<>>
  /\ notification' = FALSE
  /\ todo' = [todo EXCEPT !["app"] = <<"giveUp", "gone">>]
  /\ UNCHANGED <<sock, shouldDisconnect, future, handler, event, manager, crossed, input, sends>>

\* __disconnect
giveUp(t) ==
  /\ Does(t, "giveUp", <<"stop">>)
  /\ shouldDisconnect' = TRUE
  /\ UNCHANGED <<sock, future, handler, notification, event, manager, crossed, input, sends>>

stop(t) ==
  /\ Does(t, "stop", IF connected THEN <<"disconnect">>
                     ELSE IF future # NoThread THEN <<future>> ELSE <<>>)
  /\ UNCHANGED <<sock, attempt, input, sends>>

\* The members go: the future waits for its thread, the socket is closed.
gone ==
  /\ Does("app", "gone", <<>>)
  /\ future # NoThread => Idle(future)
  /\ future' = NoThread
  /\ connected' = FALSE
  /\ file' = IF connected THEN With(fd, Free) ELSE file
  /\ event' = NoFile
  /\ UNCHANGED <<fd, conns, shouldDisconnect, handler, notification, manager, crossed, input, sends>>
-----------------------------------------------------------------------------
(* The receiver event.                                                     *)

Readable(f) == IsConn(f) /\ (conns[file[f]].in # <<>> \/ conns[file[f]].closed)

Fire ==
  /\ Idle("session") /\ (manager = "inline" => Idle("app"))
  /\ InUse /\ event # NoFile /\ Readable(event)
  /\ todo' = [todo EXCEPT !["session"] = <<"read">>]
  /\ UNCHANGED <<sock, attempt, input, sends>>

\* The connection the bytes in m_readBuffer came over.
Origin == {sentOn[Visible(readBuffer)[i][1]] : i \in 1 .. visible_length(readBuffer)}

\* Socket::read from the descriptor of now, into room for MTU_SIZE bytes
MoreData ==
  /\ Does("session", "read", <<"process">>)
  /\ IsConn(fd) /\ conns[file[fd]].in # <<>>
  /\ LET c == file[fd]
     IN \E n \in 1 .. Min({MTU_SIZE, Len(conns[c].in)}) :
          /\ readBuffer' = Filled(readBuffer, SubSeq(conns[c].in, 1, n), MTU_SIZE)
          /\ conns' = [conns EXCEPT ![c].in = SubSeq(@, n + 1, Len(@))]
          /\ torn' = (torn \/ ~(Origin \subseteq {c}))
  /\ readPos' = 0
  /\ UNCHANGED <<connected, fd, file, attempt, msg_pool, content, inbox, handled, sentOn, sends>>

NoData ==
  /\ Does("session", "read", <<>>)
  /\ IsConn(fd) /\ conns[file[fd]].in = <<>> /\ ~conns[file[fd]].closed
  /\ readBuffer' = Filled(readBuffer, <<>>, MTU_SIZE)
  /\ UNCHANGED <<sock, attempt, readPos, msg_pool, content, inbox, handled, sentOn, torn, sends>>

Closed ==
  /\ Does("session", "read", <<"disconnect">>)
  /\ IsConn(fd) => conns[file[fd]].in = <<>> /\ conns[file[fd]].closed
  /\ readBuffer' = Filled(readBuffer, <<>>, MTU_SIZE)
  /\ UNCHANGED <<sock, attempt, readPos, msg_pool, content, inbox, handled, sentOn, torn, sends>>

\* What processData finds at the read pointer.
Remaining == LET st == advanceRead(byteStorage(readBuffer), readPos)
             IN readBytes(st, remainingReadLength(st))
Complete == Remaining # <<>> /\ Remaining[1][2] = 1 /\ Len(Remaining) >= Parts[Remaining[1][1]]
Intact == \A i \in 1 .. Parts[Remaining[1][1]] : Remaining[i] = <<Remaining[1][1], i>>

\* It decodes, and handleMessage passes it on; a torn one may decode to anything.
processData ==
  LET m == Remaining[1][1]
      object == Allocated(msg_pool)
  IN /\ Does("session", "process", <<"process">>)
     /\ Complete /\ (Intact => m \notin Hollow)
     /\ msg_pool' = Taken(msg_pool)
     /\ content' = [o \in DOMAIN content \cup {object} |-> IF o = object THEN m ELSE content[o]]
     /\ inbox' = Append(inbox, object)
     /\ readPos' = readPos + Parts[m]
     /\ UNCHANGED <<sock, attempt, readBuffer, handled, sentOn, torn, sends>>

\* Nothing complete, or decode answers false and the message is put back.
Processed ==
  /\ Does("session", "process", <<"read">>)
  /\ Complete /\ Intact => Remaining[1][1] \in Hollow
  /\ readBuffer' = erase_front(readBuffer, readPos)
  /\ UNCHANGED <<sock, attempt, readPos, msg_pool, content, inbox, handled, sentOn, torn, sends>>

\* decode throws behind the first part; the transport disconnects for good.
Corrupt ==
  /\ Does("session", "process", <<"giveUp", "read">>)
  /\ Complete /\ ~Intact
  /\ readBuffer' = erase_front(readBuffer, readPos + 1)
  /\ UNCHANGED <<sock, attempt, readPos, msg_pool, content, inbox, handled, sentOn, torn, sends>>
-----------------------------------------------------------------------------
(* The router.                                                             *)

RouterSends ==
  \E c \in 1 .. Len(conns) :
    LET m == Len(sentOn) + 1
    IN /\ m <= Len(Parts) /\ ~conns[c].closed
       /\ conns' = [conns EXCEPT ![c].in = @ \o [i \in 1 .. Parts[m] |-> <<m, i>>]]
       /\ sentOn' = Append(sentOn, c)
       /\ UNCHANGED <<connected, fd, file, attempt, readBuffer, readPos, msg_pool, content,
                      inbox, handled, torn, sends, todo>>

\* It closes the connection, or is killed; what was not received may be lost.
RouterCloses ==
  \E c \in 1 .. Len(conns) : \E n \in 0 .. Len(conns[c].in) :
    /\ ~conns[c].closed
    /\ conns' = [conns EXCEPT ![c].in = SubSeq(@, 1, n), ![c].closed = TRUE]
    /\ UNCHANGED <<connected, fd, file, attempt, input, sends, todo>>
-----------------------------------------------------------------------------
Step(t) ==
  \/ connect(t) \/ DialSucceeds(t) \/ DialFails(t) \/ Up(t) \/ Connected(t)
  \/ disconnect(t) \/ close(t) \/ Down(t) \/ Disconnected(t) \/ Reconnect(t)
  \/ Launch(t) \/ NoLaunch(t) \/ Joined(t) \/ Loop(t) \/ giveUp(t) \/ stop(t)

AppStep == Step("app") \/ setHandler \/ register \/ setNotification \/ gone
SessionStep == Step("session") \/ MoreData \/ NoData \/ Closed \/ processData \/ Processed \/ Corrupt

TCPNext ==
  \/ AppStep \/ sendMessage \/ handle \/ destroy
  \/ Fire \/ SessionStep
  \/ \E c \in Connectors : Step(c)
  \/ RouterSends \/ RouterCloses

\* Threads go on with what they began.
TCPFairness ==
  /\ WF_tcpVars(AppStep) /\ WF_tcpVars(SessionStep)
  /\ \A c \in Connectors : WF_tcpVars(Step(c))

TCPSpec == TCPInit /\ [][TCPNext]_tcpVars /\ TCPFairness
-----------------------------------------------------------------------------
(* The application is handed each message at most once, in the order of    *)
(* sending, and with a message all earlier ones of its connection, however *)
(* the stream is cut, whichever thread reconnects in between, and although *)
(* message objects are reused.  Excepted is a connection lost in the       *)
(* middle of a message: its bytes stay in m_readBuffer, in front of those  *)
(* of the next connection (TCPTransport.cpp:152).                          *)
HandedAsSent ==
  ~torn =>
    /\ \A i, j \in DOMAIN handled : i < j => handled[i] < handled[j]
    /\ \A j \in DOMAIN handled, m \in DOMAIN sentOn :
         m < handled[j] /\ sentOn[m] = sentOn[handled[j]] => \E i \in DOMAIN handled : handled[i] = m

AtRest == \A t \in Threads : Idle(t)

(* When no thread has anything left to do, a transport that was not told   *)
(* to disconnect is connected, and its receiver event is registered for    *)
(* the descriptor it reads from: no order of failed sends, ends of input   *)
(* and attempts to connect leaves it deaf.  Excepted are two threads that  *)
(* meet: a connection completed between the two halves of                  *)
(* registerTransport (MessageListener.cpp:56 and 63), and a connector that *)
(* reconnects while another thread still handles the loss, whose removal   *)
(* of the receiver event then comes after the new one was made.            *)
RestsReceiving ==
  AtRest /\ ~shouldDisconnect /\ ~crossed => connected /\ IsConn(fd) /\ event = fd

(* ~TCPTransport returns, whether or not a connection can be made: the     *)
(* threads that try to connect see m_shouldDisconnect.                     *)
DestructorReturns == (notification = FALSE /\ todo["app"] # <<>>) ~> Idle("app")
=============================================================================
