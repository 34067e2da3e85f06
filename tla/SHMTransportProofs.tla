------------------------- MODULE SHMTransportProofs -------------------------
(***************************************************************************)
(* SHMTransport never loses track of a queued message: QueuedIsSignalled,  *)
(* for every capacity of the queues and any number of messages.            *)
(*                                                                         *)
(* The induction goes over SHMInv.  It says of a message, also while its   *)
(* reader has not yet asked epoll for the eventfd, that the eventfd is not *)
(* zero or its writer has yet to signal; registering with epoll then finds *)
(* it.  And it says that whoever goes to read the eventfd finds a value,   *)
(* so that reading nothing is not taken for the end of the client.         *)
(* CallsOK lists what each thread may have left to do: the lemmas find the *)
(* rest of a thread's work from the step it is at.                         *)
(***************************************************************************)
EXTENDS SHMTransport, SequenceTheorems, TLAPS

(* A thread's steps, taken off the front and put before the rest.          *)
LEMMA ShortSequences ==
  /\ \A a : <<a>> # <<>> /\ Head(<<a>>) = a /\ Tail(<<a>>) = <<>> /\ <<a>> \o <<>> = <<a>>
  /\ \A a, b : /\ <<a, b>> # <<>> /\ Head(<<a, b>>) = a /\ Tail(<<a, b>>) = <<b>>
               /\ <<a, b>> \o <<>> = <<a, b>> /\ <<a>> \o <<b>> = <<a, b>>
               /\ <<>> \o <<b>> = <<b>>
  /\ <<>> \o <<>> = <<>>
<1>1. ASSUME NEW a PROVE <<a>> # <<>> /\ Head(<<a>>) = a /\ Tail(<<a>>) = <<>> /\ <<a>> \o <<>> = <<a>>
  <2>1. <<a>> \in Seq({a}) /\ Len(<<a>>) = 1
    OBVIOUS
  <2>2. Tail(<<a>>) = <<>>
    BY <2>1
  <2>3. <<a>> \o <<>> = <<a>>
    BY <2>1
  <2> QED
    BY <2>1, <2>2, <2>3
<1>2. ASSUME NEW a, NEW b
      PROVE  /\ <<a, b>> # <<>> /\ Head(<<a, b>>) = a /\ Tail(<<a, b>>) = <<b>>
             /\ <<a, b>> \o <<>> = <<a, b>> /\ <<a>> \o <<b>> = <<a, b>>
             /\ <<>> \o <<b>> = <<b>>
  <2>1. <<a, b>> \in Seq({a, b}) /\ <<a>> \in Seq({a, b}) /\ <<b>> \in Seq({a, b})
    OBVIOUS
  <2>2. Tail(<<a, b>>) = <<b>>
    BY <2>1
  <2>3. <<a, b>> \o <<>> = <<a, b>>
    BY <2>1
  <2>4. <<a>> \o <<b>> = <<a, b>>
    <3> DEFINE c == <<a>> \o <<b>>
               d == <<a, b>>
    <3>1. c \in Seq({a, b}) /\ Len(c) = 2 /\ c[1] = a /\ c[2] = b
      BY <2>1
    <3>2. d \in Seq({a, b}) /\ Len(d) = 2 /\ d[1] = a /\ d[2] = b
      BY <2>1
    <3> HIDE DEF c, d
    <3>3. c = d
      BY <3>1, <3>2
    <3> QED
      BY <3>3 DEF c, d
  <2>5. <<>> \o <<b>> = <<b>>
    BY <2>1
  <2> QED
    BY <2>1, <2>2, <2>3, <2>4, <2>5
<1>3. <<>> \o <<>> = <<>>
  OBVIOUS
<1> QED
  BY <1>1, <1>2, <1>3

(* A thread with these steps to go is in the calls they belong to.         *)
LEMMA StepsOf ==
  ASSUME NEW S, NEW c
  PROVE  /\ c = <<>> => ~\E i \in DOMAIN c : c[i] \in S
         /\ \A a : c = <<a>> => ((\E i \in DOMAIN c : c[i] \in S) <=> a \in S)
         /\ \A a, b : c = <<a, b>> => ((\E i \in DOMAIN c : c[i] \in S) <=> a \in S \/ b \in S)
<1>1. c = <<>> => ~\E i \in DOMAIN c : c[i] \in S
  OBVIOUS
<1>2. ASSUME NEW a, c = <<a>> PROVE (\E i \in DOMAIN c : c[i] \in S) <=> a \in S
  BY <1>2
<1>3. ASSUME NEW a, NEW b, c = <<a, b>>
      PROVE  (\E i \in DOMAIN c : c[i] \in S) <=> a \in S \/ b \in S
  <2>1. DOMAIN c = {1, 2} /\ c[1] = a /\ c[2] = b
    BY <1>3
  <2> QED
    BY <2>1
<1> QED
  BY <1>1, <1>2, <1>3, Zenon

\* The application, a connector, the session's thread and the router's.
SHMThreads == {"app", "connector", "session", "router"}

(* A step of a thread is the first of its calls, and leaves the others' be. *)
LEMMA CallsStep ==
  ASSUME CallsOK, NEW t \in SHMThreads, NEW step, NEW next, Calls(t, step, next)
  PROVE  /\ calls[t] # <<>> /\ Head(calls[t]) = step
         /\ calls'[t] = next \o Tail(calls[t])
         /\ DOMAIN calls' = SHMThreads /\ \A u \in SHMThreads \ {t} : calls'[u] = calls[u]
BY DEF CallsOK, Calls, SHMThreads

(* The step a thread is at tells what it has left to do after it.          *)
LEMMA LastStep == ASSUME NEW c, NEW h, c = <<h>> PROVE c # <<>> /\ Head(c) = h /\ Tail(c) = <<>>
<1>1. c # <<>> /\ Head(c) = h
  OBVIOUS
<1>2. Tail(c) = <<>>
  OBVIOUS
<1> QED
  BY <1>1, <1>2

(* Likewise with one more to come.                                         *)
LEMMA FirstStep ==
  ASSUME NEW c, NEW h, NEW r, c = <<h, r>> PROVE c # <<>> /\ Head(c) = h /\ Tail(c) = <<r>>
<1>1. c # <<>> /\ Head(c) = h
  OBVIOUS
<1>2. Tail(c) = <<r>>
  OBVIOUS
<1> QED
  BY <1>1, <1>2

(* With what it goes on before the rest, if any.                           *)
LEMMA NextSteps ==
  ASSUME NEW c, NEW h, c = <<h>>
  PROVE  /\ <<>> \o Tail(c) = <<>>
         /\ \A a : <<a>> \o Tail(c) = <<a>>
         /\ \A a, b : <<a, b>> \o Tail(c) = <<a, b>>
<1>1. Tail(c) = <<>>
  BY LastStep
<1> QED
  BY <1>1, ShortSequences, Zenon

(* What the application has left to do, by its next step.                  *)
LEMMA AppAt ==
  ASSUME NEW c, NEW h, c # <<>>, Head(c) = h,
         c \in {<<>>, <<"construct">>, <<"on_connect", "registerTransport">>,
                <<"launch", "registerTransport">>, <<"registerTransport">>,
                <<"push", "notify">>, <<"notify">>, <<"join">>, <<"gone">>}
  PROVE  /\ h \in {"construct", "registerTransport", "notify", "join", "gone"} => c = <<h>>
         /\ h \in {"on_connect", "launch"} => c = <<h, "registerTransport">>
         /\ h = "push" => c = <<"push", "notify">>
         /\ h \notin {"try", "retrieve", "reset", "drop"}
OBVIOUS

(* What the router has left to do, by its next step.                       *)
LEMMA RouterAt ==
  ASSUME NEW c, NEW h, c # <<>>, Head(c) = h,
         c \in {<<>>, <<"reset">>, <<"retrieve">>, <<"drop">>, <<"push", "notify">>, <<"notify">>}
  PROVE  /\ h = "push" => c = <<"push", "notify">>
         /\ h \in {"reset", "retrieve", "drop", "notify"} => c = <<h>>
OBVIOUS

(* What a connector and the session's thread have left to do.              *)
LEMMA OthersAt ==
  ASSUME NEW c, NEW h, c # <<>>, Head(c) = h
  PROVE  /\ c \in {<<>>, <<"try">>, <<"on_connect">>} => h \in {"try", "on_connect"} /\ c = <<h>>
         /\ c \in {<<>>, <<"retrieve">>} => h = "retrieve" /\ c = <<h>>
OBVIOUS

(* Threads that keep their calls keep what is true of them.                *)
LEMMA SameCalls ==
  ASSUME NEW t, calls'[t] = calls[t], NEW S PROVE InCall(t, S)' <=> InCall(t, S)
BY DEF InCall

(* A step that neither moves a message nor signals one.                    *)
LEMMA QuietKeepsInv ==
  ASSUME SHMInv, SHMTypeOK', CallsOK', UNCHANGED <<queue, count, edge, misused, peer, receiver>>,
         calls'["router"] = calls["router"], calls'["session"] = calls["session"],
         InCall("app", {"notify"})' <=> InCall("app", {"notify"}),
         unixSocket = "closed" => unixSocket' = "closed"
  PROVE  SHMInv'
BY SameCalls DEF SHMInv, QueuedIsSignalled

(* Nobody has sent anything.                                               *)
LEMMA SHMInitInv == SHMInit => SHMInv
<1> SUFFICES ASSUME SHMInit PROVE SHMInv
  OBVIOUS
<1>1. /\ calls["app"] = <<"construct">> /\ calls["connector"] = <<>>
      /\ calls["session"] = <<>> /\ calls["router"] = <<>>
      /\ DOMAIN calls = {"app", "connector", "session", "router"}
  BY DEF SHMInit
<1>2. CallsOK
  BY <1>1 DEF CallsOK
<1>3. SHMTypeOK
  <2>1. queue \in [Queues -> Seq({"message"})]
    BY DEF SHMInit
  <2>2. /\ alive \in [Queues -> BOOLEAN] /\ count \in [Queues -> Nat]
        /\ edge \in [Queues -> BOOLEAN] /\ unixSocket = "unconnected"
    BY DEF SHMInit
  <2>3. receiver \in BOOLEAN /\ peer \in BOOLEAN /\ misused \in BOOLEAN
    BY Zenon DEF SHMInit
  <2> QED
    BY <2>1, <2>2, <2>3 DEF SHMTypeOK
<1>4. \A S : ~InCall("router", S)
  BY <1>1 DEF InCall
<1> QED
  BY <1>2, <1>3, <1>4 DEF SHMInit, SHMInv, QueuedIsSignalled, Queues

(* The transport is made and connects, or a connector does.                *)
LEMMA ConnectingKeepsInv ==
  ASSUME SHMInv, constructConnects \/ constructLaunches \/ launch \/ tryConnects \/ tryEnds
  PROVE  SHMInv'
<1> USE DEF client, segment, eventfd, bounds
<1>1. /\ SHMTypeOK' /\ CallsOK
      /\ UNCHANGED <<queue, count, edge, misused, peer, receiver>>
      /\ unixSocket = "closed" => unixSocket' = "closed"
  BY DEF SHMInv, SHMTypeOK, constructConnects, constructLaunches, launch, tryConnects, tryEnds,
         notifierConnect
<1>2. CASE constructConnects \/ constructLaunches
  <2>1. calls["app"] # <<>> /\ Head(calls["app"]) = "construct"
    BY <1>2 DEF constructConnects, constructLaunches, Calls
  <2>2. calls["app"] = <<"construct">>
    BY <1>1, <2>1, AppAt DEF CallsOK
  <2>3. Tail(calls["app"]) = <<>>
    BY <2>2, LastStep
  <2>4. /\ \/ calls'["app"] = <<"on_connect", "registerTransport">> \o Tail(calls["app"])
           \/ calls'["app"] = <<"launch", "registerTransport">> \o Tail(calls["app"])
        /\ DOMAIN calls' = SHMThreads /\ \A u \in SHMThreads \ {"app"} : calls'[u] = calls[u]
    BY <1>1, <1>2 DEF CallsOK, constructConnects, constructLaunches, Calls, notifierConnect, SHMThreads
  <2>5. \/ calls'["app"] = <<"on_connect", "registerTransport">>
        \/ calls'["app"] = <<"launch", "registerTransport">>
    <3>1. <<"on_connect", "registerTransport">> \o <<>> = <<"on_connect", "registerTransport">>
      OBVIOUS
    <3>2. <<"launch", "registerTransport">> \o <<>> = <<"launch", "registerTransport">>
      OBVIOUS
    <3> QED
      BY <2>3, <2>4, <3>1, <3>2, Zenon
  <2>6. CallsOK'
    BY <1>1, <2>4, <2>5 DEF CallsOK, SHMThreads
  <2>7. ~InCall("app", {"notify"}) /\ ~InCall("app", {"notify"})'
    BY <2>2, <2>5 DEF InCall
  <2> QED
    BY <1>1, <2>4, <2>6, <2>7, QuietKeepsInv DEF SHMThreads
<1>3. CASE launch
  <2>1. calls["app"] = <<"launch", "registerTransport">>
    BY <1>1, <1>3, AppAt DEF CallsOK, launch
  <2>2. /\ calls'["app"] = Tail(calls["app"]) /\ calls'["connector"] = <<"try">>
        /\ DOMAIN calls' = SHMThreads /\ \A u \in {"session", "router"} : calls'[u] = calls[u]
    BY <1>1, <1>3, Zenon DEF CallsOK, launch, SHMThreads
  <2>3. calls'["app"] = <<"registerTransport">>
    BY <2>1, <2>2, FirstStep
  <2>4. CallsOK'
    BY <1>1, <2>2, <2>3, Zenon DEF CallsOK, SHMThreads
  <2>5. ~InCall("app", {"notify"}) /\ ~InCall("app", {"notify"})'
    BY <2>1, <2>3 DEF InCall
  <2> QED
    BY <1>1, <2>2, <2>4, <2>5, QuietKeepsInv
<1>4. CASE tryConnects \/ tryEnds
  <2>1. calls["connector"] = <<"try">>
    <3>1. tryEnds => calls["connector"] # <<>> /\ Head(calls["connector"]) = "try"
      BY DEF tryEnds, Calls
    <3> QED
      BY <1>1, <1>4, <3>1, OthersAt DEF CallsOK, tryConnects
  <2>2. /\ \/ calls'["connector"] = <<"try">> \o Tail(calls["connector"])
           \/ calls'["connector"] = <<>> \o Tail(calls["connector"])
           \/ calls'["connector"] = <<"on_connect">> \o Tail(calls["connector"])
        /\ DOMAIN calls' = SHMThreads /\ \A u \in SHMThreads \ {"connector"} : calls'[u] = calls[u]
    BY <1>1, <1>4, Zenon DEF CallsOK, tryConnects, tryEnds, Calls, notifierConnect, SHMThreads
  <2>3. calls'["connector"] \in {<<>>, <<"try">>, <<"on_connect">>}
    BY <2>1, <2>2, NextSteps, Zenon
  <2>4. CallsOK'
    BY <1>1, <2>2, <2>3 DEF CallsOK, SHMThreads
  <2> QED
    BY <1>1, <2>2, <2>4, SameCalls, QuietKeepsInv DEF SHMThreads
<1> QED
  BY <1>2, <1>3, <1>4

(* on_connect makes the queues if they are not there.                      *)
LEMMA ConnectedKeepsInv ==
  ASSUME SHMInv, NEW t \in {"app", "connector"}, on_connect(t) PROVE SHMInv'
<1>1. /\ CallsOK /\ SHMTypeOK /\ t \in SHMThreads /\ Calls(t, "on_connect", <<>>)
      /\ UNCHANGED <<queue, count, edge, misused, peer, receiver, unixSocket>>
      /\ alive' = [q \in Queues |-> TRUE]
  BY DEF SHMInv, on_connect, SHMThreads, Found, eventfd
<1>2. SHMTypeOK'
  BY <1>1 DEF SHMTypeOK
<1>3. /\ calls[t] # <<>> /\ Head(calls[t]) = "on_connect" /\ calls'[t] = <<>> \o Tail(calls[t])
      /\ DOMAIN calls' = SHMThreads /\ \A u \in SHMThreads \ {t} : calls'[u] = calls[u]
  BY <1>1, CallsStep, Zenon
<1>4. CASE t = "app"
  <2>1. calls["app"] = <<"on_connect", "registerTransport">>
    BY <1>1, <1>3, <1>4, AppAt DEF CallsOK
  <2>2. Tail(calls["app"]) = <<"registerTransport">>
    BY <2>1, FirstStep
  <2>3. calls'["app"] = <<"registerTransport">>
    <3>1. <<>> \o <<"registerTransport">> = <<"registerTransport">>
      OBVIOUS
    <3> QED
      BY <1>3, <1>4, <2>2, <3>1, Zenon
  <2>4. CallsOK'
    BY <1>1, <1>3, <1>4, <2>3 DEF CallsOK, SHMThreads
  <2>5. ~InCall("app", {"notify"}) /\ ~InCall("app", {"notify"})'
    BY <2>1, <2>3 DEF InCall
  <2> QED
    BY <1>1, <1>2, <1>3, <1>4, <2>4, <2>5, QuietKeepsInv DEF SHMThreads
<1>5. CASE t = "connector"
  <2>1. calls["connector"] = <<"on_connect">>
    BY <1>1, <1>3, <1>5, OthersAt DEF CallsOK
  <2>2. calls'["connector"] = <<>>
    BY <1>3, <1>5, <2>1, NextSteps, Zenon
  <2>3. CallsOK'
    BY <1>1, <1>3, <1>5, <2>2 DEF CallsOK, SHMThreads
  <2> QED
    BY <1>1, <1>2, <1>3, <1>5, <2>3, SameCalls, QuietKeepsInv DEF SHMThreads
<1> QED
  BY <1>4, <1>5

(* epoll reports what is already there when the event is registered.       *)
LEMMA RegisterTransportKeepsInv ==
  ASSUME SHMInv, registerTransport PROVE SHMInv'
<1>1. /\ CallsOK /\ SHMTypeOK /\ "app" \in SHMThreads /\ Calls("app", "registerTransport", <<>>)
      /\ UNCHANGED <<queue, alive, count, misused, peer, unixSocket>> /\ receiver' = TRUE
      /\ edge' = [edge EXCEPT !["ClientQueue"] = count["ClientQueue"] > 0]
  BY DEF SHMInv, registerTransport, SHMThreads, segment
<1>2. /\ edge' \in [Queues -> BOOLEAN] /\ edge'["ServerQueue"] = edge["ServerQueue"]
      /\ edge'["ClientQueue"] = (count["ClientQueue"] > 0)
  BY <1>1 DEF SHMTypeOK, Queues
<1>3. SHMTypeOK'
  BY <1>1, <1>2 DEF SHMTypeOK
<1>4. /\ calls["app"] # <<>> /\ Head(calls["app"]) = "registerTransport"
      /\ calls'["app"] = <<>> \o Tail(calls["app"])
      /\ DOMAIN calls' = SHMThreads /\ \A u \in SHMThreads \ {"app"} : calls'[u] = calls[u]
  BY <1>1, CallsStep, Zenon
<1>5. calls["app"] = <<"registerTransport">>
  BY <1>1, <1>4, AppAt DEF CallsOK
<1>6. calls'["app"] = <<>>
  BY <1>4, <1>5, NextSteps, Zenon
<1>7. CallsOK'
  BY <1>1, <1>4, <1>6 DEF CallsOK, SHMThreads
<1>8. ~InCall("app", {"notify"}) /\ ~InCall("app", {"notify"})'
  BY <1>5, <1>6 DEF InCall
<1>9. \A S : InCall("router", S)' <=> InCall("router", S)
  BY <1>4, SameCalls DEF SHMThreads
<1> QED
  BY <1>1, <1>2, <1>3, <1>7, <1>8, <1>9, Zenon DEF SHMInv, QueuedIsSignalled

(* The application begins to send.                                         *)
LEMMA SendKeepsInv ==
  ASSUME SHMInv, send PROVE SHMInv'
<1>1. /\ CallsOK /\ SHMTypeOK' /\ calls["app"] = <<>> /\ calls' = [calls EXCEPT !["app"] = <<"push", "notify">>]
      /\ UNCHANGED <<queue, count, edge, misused, peer, receiver, unixSocket>>
  BY DEF SHMInv, SHMTypeOK, send, Waits, client, segment, eventfd
<1>2. /\ calls'["app"] = <<"push", "notify">>
      /\ DOMAIN calls' = SHMThreads /\ \A u \in SHMThreads \ {"app"} : calls'[u] = calls[u]
  BY <1>1 DEF CallsOK, SHMThreads
<1>3. CallsOK'
  BY <1>1, <1>2 DEF CallsOK, SHMThreads
<1>4. ~InCall("app", {"notify"}) /\ InCall("app", {"notify"})'
  BY <1>1, <1>2 DEF InCall
<1>5. \A S : /\ InCall("router", S)' <=> InCall("router", S)
             /\ InCall("session", S)' <=> InCall("session", S)
  BY <1>2, SameCalls DEF SHMThreads
<1> QED
  BY <1>1, <1>3, <1>4, <1>5 DEF SHMInv, QueuedIsSignalled

(* What a thread is in, by the steps it has to go, now and after.          *)
LEMMA InSteps ==
  ASSUME NEW t, NEW S
  PROVE  /\ calls[t] = <<>> => ~InCall(t, S)
         /\ \A a : calls[t] = <<a>> => (InCall(t, S) <=> a \in S)
         /\ \A a, b : calls[t] = <<a, b>> => (InCall(t, S) <=> a \in S \/ b \in S)
         /\ calls'[t] = <<>> => ~InCall(t, S)'
         /\ \A a : calls'[t] = <<a>> => (InCall(t, S)' <=> a \in S)
         /\ \A a, b : calls'[t] = <<a, b>> => (InCall(t, S)' <=> a \in S \/ b \in S)
<1>1. InCall(t, S)' <=> \E i \in DOMAIN calls'[t] : calls'[t][i] \in S
  BY DEF InCall
<1>2. InCall(t, S) <=> \E i \in DOMAIN calls[t] : calls[t][i] \in S
  BY DEF InCall
<1> QED
  BY <1>1, <1>2, StepsOf, Zenon

(* A message goes into a queue, and its writer goes on to signal it.       *)
LEMMA PushKeepsInv ==
  ASSUME SHMInv, NEW t, NEW q, push(t, q),
         \/ t = "app" /\ q = "ServerQueue"
         \/ t = "router" /\ q = "ClientQueue"
  PROVE  SHMInv'
<1>1. /\ CallsOK /\ SHMTypeOK /\ t \in SHMThreads /\ q \in Queues /\ Calls(t, "push", <<>>)
      /\ queue' = Pushed(q) /\ misused' = (misused \/ ~alive[q])
      /\ UNCHANGED <<alive, count, edge, peer, receiver, unixSocket>>
  BY DEF SHMInv, push, SHMThreads, Queues, client, eventfd
<1>2. queue' \in [Queues -> Seq({"message"})] /\ \A r \in Queues \ {q} : queue'[r] = queue[r]
  <2>1. Append(queue[q], "message") \in Seq({"message"})
    BY <1>1 DEF SHMTypeOK
  <2> QED
    BY <1>1, <2>1 DEF SHMTypeOK, Pushed
<1>3. misused' \in BOOLEAN
  BY <1>1
<1>4. SHMTypeOK'
  BY <1>1, <1>2, <1>3 DEF SHMTypeOK
<1>5. /\ calls[t] # <<>> /\ Head(calls[t]) = "push" /\ calls'[t] = <<>> \o Tail(calls[t])
      /\ DOMAIN calls' = SHMThreads /\ \A u \in SHMThreads \ {t} : calls'[u] = calls[u]
  BY <1>1, CallsStep, Zenon
<1>6. calls[t] = <<"push", "notify">>
  BY <1>1, <1>5, AppAt, RouterAt DEF CallsOK
<1>7. Tail(calls[t]) = <<"notify">>
  BY <1>6, FirstStep
<1>8. calls'[t] = <<"notify">>
  <2>1. <<>> \o <<"notify">> = <<"notify">>
    OBVIOUS
  <2> QED
    BY <1>5, <1>7, <2>1, Zenon
<1>9. CallsOK'
  BY <1>1, <1>5, <1>8, Zenon DEF CallsOK, SHMThreads
<1>10. \A S : /\ InCall(t, S) <=> "push" \in S \/ "notify" \in S
              /\ InCall(t, S)' <=> "notify" \in S
  BY <1>6, <1>8, InSteps, Zenon
<1>11. \A u \in SHMThreads \ {t} : \A S : InCall(u, S)' <=> InCall(u, S)
  BY <1>5, SameCalls
<1>12. misused => misused'
  BY <1>1, Zenon
<1>13. CASE t = "app" /\ q = "ServerQueue"
  <2>1. queue'["ClientQueue"] = queue["ClientQueue"]
    BY <1>1, <1>2, <1>13 DEF Queues
  <2>2. \A S : InCall("router", S)' <=> InCall("router", S)
    BY <1>11, <1>13 DEF SHMThreads
  <2>3. \A S : InCall("session", S)' <=> InCall("session", S)
    BY <1>11, <1>13 DEF SHMThreads
  <2>4. InCall("app", {"notify"})'
    BY <1>10, <1>13
  <2> QED
    BY <1>1, <1>4, <1>9, <1>12, <2>1, <2>2, <2>3, <2>4 DEF SHMInv, QueuedIsSignalled
<1>14. CASE t = "router" /\ q = "ClientQueue"
  <2>1. queue'["ServerQueue"] = queue["ServerQueue"]
    BY <1>1, <1>2, <1>14 DEF Queues
  <2>2. \A S : InCall("app", S)' <=> InCall("app", S)
    BY <1>11, <1>14 DEF SHMThreads
  <2>3. /\ InCall("router", {"notify"})' /\ ~InCall("router", {"drop"})'
        /\ ~InCall("router", {"reset"})' /\ ~InCall("router", {"reset", "retrieve", "drop"})
    BY <1>10, <1>14
  <2> QED
    BY <1>1, <1>4, <1>9, <1>12, <2>1, <2>2, <2>3 DEF SHMInv, QueuedIsSignalled
<1> QED
  BY <1>13, <1>14

(* The eventfd carries the signal on.                                      *)
LEMMA NotifyKeepsInv ==
  ASSUME SHMInv, NEW t, NEW q, notify(t, q),
         \/ t = "app" /\ q = "ServerQueue"
         \/ t = "router" /\ q = "ClientQueue"
  PROVE  SHMInv'
<1>1. /\ CallsOK /\ SHMTypeOK /\ t \in SHMThreads /\ q \in Queues /\ Calls(t, "notify", <<>>)
      /\ Signal(q)
      /\ UNCHANGED <<queue, misused, alive, peer, receiver, unixSocket>>
  BY DEF SHMInv, notify, SHMThreads, Queues, client, segment
<1>2. /\ count' \in [Queues -> Nat] /\ count'[q] > 0 /\ \A r \in Queues \ {q} : count'[r] = count[r]
      /\ edge' \in [Queues -> BOOLEAN] /\ edge'[q] /\ \A r \in Queues \ {q} : edge'[r] = edge[r]
  BY <1>1 DEF SHMTypeOK, Signal
<1>3. SHMTypeOK'
  BY <1>1, <1>2 DEF SHMTypeOK
<1>4. /\ calls[t] # <<>> /\ Head(calls[t]) = "notify" /\ calls'[t] = <<>> \o Tail(calls[t])
      /\ DOMAIN calls' = SHMThreads /\ \A u \in SHMThreads \ {t} : calls'[u] = calls[u]
  BY <1>1, CallsStep, Zenon
<1>5. calls[t] = <<"notify">>
  BY <1>1, <1>4, AppAt, RouterAt DEF CallsOK
<1>6. calls'[t] = <<>>
  BY <1>4, <1>5, NextSteps, Zenon
<1>7. CallsOK'
  BY <1>1, <1>4, <1>6 DEF CallsOK, SHMThreads
<1>8. \A S : (InCall(t, S) <=> "notify" \in S) /\ ~InCall(t, S)'
  BY <1>5, <1>6, InSteps, Zenon
<1>9. \A u \in SHMThreads \ {t} : \A S : InCall(u, S)' <=> InCall(u, S)
  BY <1>4, SameCalls
<1>10. CASE t = "app" /\ q = "ServerQueue"
  <2>1. /\ count'["ClientQueue"] = count["ClientQueue"] /\ edge'["ClientQueue"] = edge["ClientQueue"]
        /\ count'["ServerQueue"] > 0 /\ edge'["ServerQueue"]
    BY <1>1, <1>2, <1>10 DEF Queues
  <2>2. \A S : InCall("router", S)' <=> InCall("router", S)
    BY <1>9, <1>10 DEF SHMThreads
  <2>3. \A S : InCall("session", S)' <=> InCall("session", S)
    BY <1>9, <1>10 DEF SHMThreads
  <2> QED
    BY <1>1, <1>3, <1>7, <2>1, <2>2, <2>3 DEF SHMInv, QueuedIsSignalled
<1>11. CASE t = "router" /\ q = "ClientQueue"
  <2>1. /\ count'["ServerQueue"] = count["ServerQueue"] /\ edge'["ServerQueue"] = edge["ServerQueue"]
        /\ count'["ClientQueue"] > 0 /\ edge'["ClientQueue"]
    BY <1>1, <1>2, <1>11 DEF Queues
  <2>2. \A S : InCall("app", S)' <=> InCall("app", S)
    BY <1>9, <1>11 DEF SHMThreads
  <2>3. /\ \A S : ~InCall("router", S)'
        /\ ~InCall("router", {"reset", "retrieve", "drop"})
    BY <1>8, <1>11
  <2> QED
    BY <1>1, <1>3, <1>7, <2>1, <2>2, <2>3 DEF SHMInv, QueuedIsSignalled
<1> QED
  BY <1>10, <1>11

(* The session's thread is woken, and the eventfd keeps its value.         *)
LEMMA ReceiveKeepsInv ==
  ASSUME SHMInv, receive PROVE SHMInv'
<1>1. /\ CallsOK /\ SHMTypeOK /\ calls' = [calls EXCEPT !["session"] = <<"retrieve">>]
      /\ edge' = [edge EXCEPT !["ClientQueue"] = FALSE]
      /\ UNCHANGED <<queue, alive, count, misused, peer, receiver, unixSocket>>
  BY DEF SHMInv, receive, client, segment
<1>2. edge' \in [Queues -> BOOLEAN] /\ edge'["ServerQueue"] = edge["ServerQueue"]
  BY <1>1 DEF SHMTypeOK, Queues
<1>3. SHMTypeOK'
  BY <1>1, <1>2 DEF SHMTypeOK
<1>4. /\ calls'["session"] = <<"retrieve">>
      /\ DOMAIN calls' = SHMThreads /\ \A u \in SHMThreads \ {"session"} : calls'[u] = calls[u]
  BY <1>1 DEF CallsOK, SHMThreads
<1>5. CallsOK'
  BY <1>1, <1>4 DEF CallsOK, SHMThreads
<1>6. InCall("session", {"retrieve"})'
  BY <1>4, InSteps
<1>7. \A S : (InCall("router", S)' <=> InCall("router", S)) /\ (InCall("app", S)' <=> InCall("app", S))
  BY <1>4, SameCalls DEF SHMThreads
<1> QED
  BY <1>1, <1>2, <1>3, <1>5, <1>6, <1>7 DEF SHMInv, QueuedIsSignalled

(* A reader takes one element, and looks again until there is none.        *)
LEMMA RetrievesStep ==
  ASSUME SHMInv, NEW t \in {"session", "router"}, NEW q \in Queues, Retrieves(t, q)
  PROVE  /\ queue' \in [Queues -> Seq({"message"})]
         /\ \A r \in Queues \ {q} : queue'[r] = queue[r]
         /\ \A S : InCall(t, S) <=> "retrieve" \in S
         /\ \/ queue'[q] = <<>> /\ \A S : ~InCall(t, S)'
            \/ \A S : InCall(t, S)' <=> "retrieve" \in S
         /\ DOMAIN calls' = SHMThreads /\ \A u \in SHMThreads \ {t} : calls'[u] = calls[u]
         /\ CallsOK'
<1>1. /\ CallsOK /\ SHMTypeOK /\ t \in SHMThreads
      /\ Calls(t, "retrieve", IF queue[q] = <<>> THEN <<>> ELSE <<"retrieve">>)
      /\ queue' = IF queue[q] = <<>> THEN queue ELSE [queue EXCEPT ![q] = Tail(@)]
  BY DEF SHMInv, Retrieves, SHMThreads
<1>2. /\ calls[t] # <<>> /\ Head(calls[t]) = "retrieve"
      /\ calls'[t] = (IF queue[q] = <<>> THEN <<>> ELSE <<"retrieve">>) \o Tail(calls[t])
      /\ DOMAIN calls' = SHMThreads /\ \A u \in SHMThreads \ {t} : calls'[u] = calls[u]
  BY <1>1, CallsStep, Zenon
<1>3. calls[t] = <<"retrieve">>
  BY <1>1, <1>2, OthersAt, RouterAt DEF CallsOK
<1>4. \A S : InCall(t, S) <=> "retrieve" \in S
  BY <1>3, InSteps, Zenon
<1>5. CASE queue[q] = <<>>
  <2>1. calls'[t] = <<>> \o Tail(calls[t]) /\ queue' = queue
    BY <1>1, <1>2, <1>5
  <2>2. calls'[t] = <<>>
    BY <1>3, <2>1, NextSteps, Zenon
  <2>3. \A S : ~InCall(t, S)'
    BY <2>2, InSteps, Zenon
  <2>4. CallsOK'
    BY <1>1, <1>2, <2>2 DEF CallsOK, SHMThreads
  <2> QED
    BY <1>1, <1>2, <1>4, <1>5, <2>1, <2>3, <2>4 DEF SHMTypeOK
<1>6. CASE queue[q] # <<>>
  <2>1. calls'[t] = <<"retrieve">> \o Tail(calls[t]) /\ queue' = [queue EXCEPT ![q] = Tail(@)]
    BY <1>1, <1>2, <1>6
  <2>2. calls'[t] = <<"retrieve">>
    BY <1>3, <2>1, NextSteps, Zenon
  <2>3. \A S : InCall(t, S)' <=> "retrieve" \in S
    BY <2>2, InSteps, Zenon
  <2>4. CallsOK'
    BY <1>1, <1>2, <2>2 DEF CallsOK, SHMThreads
  <2>5. Tail(queue[q]) \in Seq({"message"})
    BY <1>1, <1>6 DEF SHMTypeOK
  <2>6. queue' \in [Queues -> Seq({"message"})] /\ \A r \in Queues \ {q} : queue'[r] = queue[r]
    BY <1>1, <2>1, <2>5 DEF SHMTypeOK
  <2> QED
    BY <1>2, <1>4, <2>3, <2>4, <2>6
<1> QED
  BY <1>5, <1>6

(* The session's thread retrieves.                                         *)
LEMMA ReceiveRetrievesKeepsInv ==
  ASSUME SHMInv, receiveRetrieves PROVE SHMInv'
<1>1. /\ CallsOK /\ SHMTypeOK /\ Retrieves("session", "ClientQueue") /\ "ClientQueue" \in Queues
      /\ UNCHANGED <<alive, count, edge, misused, peer, receiver, unixSocket>>
  BY DEF SHMInv, receiveRetrieves, client, eventfd, Queues
<1>2. /\ queue' \in [Queues -> Seq({"message"})]
      /\ \A r \in Queues \ {"ClientQueue"} : queue'[r] = queue[r]
      /\ \A S : InCall("session", S) <=> "retrieve" \in S
      /\ \/ queue'["ClientQueue"] = <<>> /\ \A S : ~InCall("session", S)'
         \/ \A S : InCall("session", S)' <=> "retrieve" \in S
      /\ \A u \in SHMThreads \ {"session"} : calls'[u] = calls[u]
      /\ CallsOK'
  BY <1>1, RetrievesStep
<1>3. SHMTypeOK'
  BY <1>1, <1>2 DEF SHMTypeOK
<1>4. queue'["ServerQueue"] = queue["ServerQueue"]
  BY <1>2 DEF Queues
<1>5. queue'["ClientQueue"] = <<>> \/ InCall("session", {"retrieve"})'
  BY <1>2
<1>6. \A S : (InCall("router", S)' <=> InCall("router", S)) /\ (InCall("app", S)' <=> InCall("app", S))
  BY <1>2, SameCalls DEF SHMThreads
<1>7. queue["ClientQueue"] = <<>> => queue'["ClientQueue"] = <<>>
  BY <1>1 DEF Retrieves
<1> QED
  BY <1>1, <1>2, <1>3, <1>4, <1>5, <1>6, <1>7 DEF SHMInv, QueuedIsSignalled

(* The router retrieves.                                                   *)
LEMMA RouterRetrievesKeepsInv ==
  ASSUME SHMInv, routerRetrieves PROVE SHMInv'
<1>1. /\ CallsOK /\ SHMTypeOK /\ Retrieves("router", "ServerQueue") /\ "ServerQueue" \in Queues
      /\ UNCHANGED <<alive, count, edge, misused, peer, receiver, unixSocket>>
  BY DEF SHMInv, routerRetrieves, client, eventfd, Queues
<1>2. /\ queue' \in [Queues -> Seq({"message"})]
      /\ \A r \in Queues \ {"ServerQueue"} : queue'[r] = queue[r]
      /\ \A S : InCall("router", S) <=> "retrieve" \in S
      /\ \/ queue'["ServerQueue"] = <<>> /\ \A S : ~InCall("router", S)'
         \/ \A S : InCall("router", S)' <=> "retrieve" \in S
      /\ \A u \in SHMThreads \ {"router"} : calls'[u] = calls[u]
      /\ CallsOK'
  BY <1>1, RetrievesStep
<1>3. SHMTypeOK'
  BY <1>1, <1>2 DEF SHMTypeOK
<1>4. queue'["ClientQueue"] = queue["ClientQueue"]
  BY <1>2 DEF Queues
<1>5. /\ queue'["ServerQueue"] = <<>> \/ InCall("router", {"reset", "retrieve", "drop"})'
      /\ ~InCall("router", {"drop"})' /\ ~InCall("router", {"reset"})' /\ ~InCall("router", {"notify"})
  BY <1>2
<1>6. \A S : (InCall("session", S)' <=> InCall("session", S)) /\ (InCall("app", S)' <=> InCall("app", S))
  BY <1>2, SameCalls DEF SHMThreads
<1> QED
  BY <1>1, <1>2, <1>3, <1>4, <1>5, <1>6 DEF SHMInv, QueuedIsSignalled

(* A queue that goes takes its messages along.                             *)
LEMMA DestroysStep ==
  ASSUME SHMTypeOK, NEW qs \in SUBSET Queues, Destroys(qs) \/ UNCHANGED segment
  PROVE  /\ queue' \in [Queues -> Seq({"message"})] /\ alive' \in [Queues -> BOOLEAN]
         /\ misused' \in BOOLEAN /\ (misused => misused')
         /\ \A q \in Queues : queue'[q] = <<>> \/ queue'[q] = queue[q]
<1>1. CASE UNCHANGED segment
  BY <1>1 DEF SHMTypeOK, segment
<1>2. CASE Destroys(qs)
  <2>1. misused' \in BOOLEAN /\ (misused => misused')
    BY <1>2, Zenon DEF Destroys
  <2>2. alive' \in [Queues -> BOOLEAN]
    BY <1>2 DEF Destroys, SHMTypeOK
  <2>3. queue' = [q \in Queues |-> IF q \in qs THEN <<>> ELSE queue[q]]
    BY <1>2 DEF Destroys
  <2>4. \A q \in Queues : (IF q \in qs THEN <<>> ELSE queue[q]) \in Seq({"message"})
    BY DEF SHMTypeOK
  <2>5. queue' \in [Queues -> Seq({"message"})]
    BY <2>3, <2>4
  <2>6. misused' \in BOOLEAN
    BY <1>2 DEF Destroys
  <2> QED
    BY <2>1, <2>2, <2>3, <2>5, <2>6
<1> QED
  BY <1>1, <1>2

(* The application's transport goes away, with a connector at work or not. *)
LEMMA DestroyTransportKeepsInv ==
  ASSUME SHMInv, destroyTransport PROVE SHMInv'
<1>1. /\ CallsOK /\ SHMTypeOK /\ calls["app"] = <<>> /\ calls' = [calls EXCEPT !["app"] = <<"join">>]
      /\ Destroys({"ClientQueue"}) \/ UNCHANGED segment
      /\ UNCHANGED <<count, edge, peer, unixSocket>> /\ receiver' = FALSE
  BY DEF SHMInv, destroyTransport, eventfd, Waits
<1>2. /\ queue' \in [Queues -> Seq({"message"})] /\ alive' \in [Queues -> BOOLEAN]
      /\ misused' \in BOOLEAN /\ (misused => misused')
      /\ \A q \in Queues : queue'[q] = <<>> \/ queue'[q] = queue[q]
  <2>1. {"ClientQueue"} \in SUBSET Queues
    BY DEF Queues
  <2> QED
    BY <1>1, <2>1, DestroysStep, Zenon
<1>3. SHMTypeOK'
  BY <1>1, <1>2, Zenon DEF SHMTypeOK
<1>4. /\ calls'["app"] = <<"join">>
      /\ DOMAIN calls' = SHMThreads /\ \A u \in SHMThreads \ {"app"} : calls'[u] = calls[u]
  BY <1>1 DEF CallsOK, SHMThreads
<1>5. CallsOK'
  BY <1>1, <1>4 DEF CallsOK, SHMThreads
<1>6. ~InCall("app", {"notify"})
  BY <1>1, InSteps
<1>7. \A S : InCall("router", S)' <=> InCall("router", S)
  BY <1>4, SameCalls DEF SHMThreads
<1>8. \A q \in {"ClientQueue", "ServerQueue"} : queue'[q] = <<>> \/ queue'[q] = queue[q]
  BY <1>2 DEF Queues
<1> QED
  BY <1>1, <1>2, <1>3, <1>5, <1>6, <1>7, <1>8 DEF SHMInv, QueuedIsSignalled

(* The connector is over; what it made meanwhile goes as well.             *)
LEMMA JoinKeepsInv ==
  ASSUME SHMInv, join PROVE SHMInv'
<1>1. /\ CallsOK /\ SHMTypeOK /\ "app" \in SHMThreads /\ Calls("app", "join", <<"gone">>)
      /\ Destroys(Queues) \/ UNCHANGED segment
      /\ UNCHANGED <<count, edge, peer, receiver>>
      /\ unixSocket' = IF unixSocket = "connected" THEN "abandoned" ELSE "closed"
  BY DEF SHMInv, join, eventfd, SHMThreads
<1>2. /\ queue' \in [Queues -> Seq({"message"})] /\ alive' \in [Queues -> BOOLEAN]
      /\ misused' \in BOOLEAN /\ (misused => misused')
      /\ \A q \in Queues : queue'[q] = <<>> \/ queue'[q] = queue[q]
  BY <1>1, DestroysStep
<1>3. unixSocket' \in {"abandoned", "closed"} /\ (unixSocket = "closed" => unixSocket' = "closed")
  BY <1>1
<1>4. SHMTypeOK'
  BY <1>1, <1>2, <1>3 DEF SHMTypeOK
<1>5. /\ calls["app"] # <<>> /\ Head(calls["app"]) = "join"
      /\ calls'["app"] = <<"gone">> \o Tail(calls["app"])
      /\ DOMAIN calls' = SHMThreads /\ \A u \in SHMThreads \ {"app"} : calls'[u] = calls[u]
  BY <1>1, CallsStep, Zenon
<1>6. calls["app"] = <<"join">>
  BY <1>1, <1>5, AppAt DEF CallsOK
<1>7. calls'["app"] = <<"gone">>
  BY <1>5, <1>6, NextSteps, Zenon
<1>8. CallsOK'
  BY <1>1, <1>5, <1>7, Zenon DEF CallsOK, SHMThreads
<1>9. ~InCall("app", {"notify"})
  BY <1>6, InSteps
<1>10. \A S : /\ InCall("router", S)' <=> InCall("router", S)
              /\ InCall("session", S)' <=> InCall("session", S)
  BY <1>5, SameCalls DEF SHMThreads
<1>11. \A q \in {"ClientQueue", "ServerQueue"} : queue'[q] = <<>> \/ queue'[q] = queue[q]
  BY <1>2 DEF Queues
<1> QED
  BY <1>1, <1>2, <1>3, <1>4, <1>8, <1>9, <1>10, <1>11 DEF SHMInv, QueuedIsSignalled

(* The router has deleted the peer, and both queues with it.               *)
LEMMA DropKeepsInv ==
  ASSUME SHMInv, drop PROVE SHMInv'
<1>1. /\ CallsOK /\ SHMTypeOK /\ "router" \in SHMThreads /\ Calls("router", "drop", <<>>)
      /\ Destroys(Queues) /\ Queues \in SUBSET Queues
      /\ UNCHANGED <<count, edge, receiver, unixSocket>> /\ peer' = FALSE
  BY DEF SHMInv, drop, eventfd, client, SHMThreads
<1>2. /\ queue' \in [Queues -> Seq({"message"})] /\ alive' \in [Queues -> BOOLEAN]
      /\ misused' \in BOOLEAN
  BY <1>1, DestroysStep
<1>3. \A q \in {"ClientQueue", "ServerQueue"} : queue'[q] = <<>>
  BY <1>1 DEF Destroys, Queues
<1>4. SHMTypeOK'
  BY <1>1, <1>2, Zenon DEF SHMTypeOK
<1>5. /\ calls["router"] # <<>> /\ Head(calls["router"]) = "drop"
      /\ calls'["router"] = <<>> \o Tail(calls["router"])
      /\ DOMAIN calls' = SHMThreads /\ \A u \in SHMThreads \ {"router"} : calls'[u] = calls[u]
  BY <1>1, CallsStep, Zenon
<1>6. calls["router"] = <<"drop">>
  BY <1>1, <1>5, RouterAt DEF CallsOK
<1>7. calls'["router"] = <<>>
  BY <1>5, <1>6, NextSteps, Zenon
<1>8. CallsOK'
  BY <1>1, <1>5, <1>7 DEF CallsOK, SHMThreads
<1>9. \A S : ~InCall("router", S)'
  BY <1>7, InSteps
<1> QED
  BY <1>3, <1>4, <1>8, <1>9 DEF SHMInv, QueuedIsSignalled

(* epoll reports what is already there when the router adds the eventfd.   *)
LEMMA AcceptKeepsInv ==
  ASSUME SHMInv, accept PROVE SHMInv'
<1>1. /\ CallsOK /\ SHMTypeOK /\ UNCHANGED <<queue, count, misused, receiver, calls>>
      /\ calls["router"] = <<>>
      /\ unixSocket' = IF unixSocket = "connected" THEN "accepted" ELSE "closed"
      /\ peer' = TRUE /\ alive' = [q \in Queues |-> TRUE]
      /\ edge' = [edge EXCEPT !["ServerQueue"] = count["ServerQueue"] > 0]
  BY DEF SHMInv, accept, client, Waits, Found
<1>2. /\ edge' \in [Queues -> BOOLEAN] /\ edge'["ClientQueue"] = edge["ClientQueue"]
      /\ edge'["ServerQueue"] = (count["ServerQueue"] > 0)
  BY <1>1 DEF SHMTypeOK, Queues
<1>3. unixSocket' \in {"accepted", "closed"}
  BY <1>1
<1>4. SHMTypeOK'
  BY <1>1, <1>2, <1>3 DEF SHMTypeOK
<1>5. CallsOK'
  BY <1>1 DEF CallsOK
<1>6. \A t, S : InCall(t, S)' <=> InCall(t, S)
  BY <1>1 DEF InCall
<1>7. \A S : ~InCall("router", S)
  BY <1>1, InSteps
<1> QED
  BY <1>1, <1>2, <1>4, <1>5, <1>6, <1>7, Zenon DEF SHMInv, QueuedIsSignalled

(* The router, idle, takes up the next thing to do.                        *)
LEMMA RouterBegins ==
  ASSUME SHMInv, calls["router"] = <<>>, NEW next, calls' = [calls EXCEPT !["router"] = next],
         next \in {<<"reset">>, <<"drop">>, <<"push", "notify">>}
  PROVE  /\ CallsOK' /\ calls'["router"] = next
         /\ \A S : ~InCall("router", S)
         /\ \A S : /\ InCall("app", S)' <=> InCall("app", S)
                   /\ InCall("session", S)' <=> InCall("session", S)
<1>1. /\ calls'["router"] = next /\ CallsOK
      /\ DOMAIN calls' = SHMThreads /\ \A u \in SHMThreads \ {"router"} : calls'[u] = calls[u]
  BY DEF SHMInv, CallsOK, SHMThreads
<1>2. CallsOK'
  BY <1>1 DEF CallsOK, SHMThreads
<1>3. \A S : ~InCall("router", S)
  BY InSteps
<1>4. \A S : /\ InCall("app", S)' <=> InCall("app", S)
             /\ InCall("session", S)' <=> InCall("session", S)
  BY <1>1, SameCalls, Zenon DEF SHMThreads
<1> QED
  BY <1>1, <1>2, <1>3, <1>4

(* epoll reports the eventfd, which is not zero.                           *)
LEMMA WakeKeepsInv ==
  ASSUME SHMInv, wake PROVE SHMInv'
<1>1. /\ SHMTypeOK /\ calls["router"] = <<>> /\ calls' = [calls EXCEPT !["router"] = <<"reset">>]
      /\ UNCHANGED <<queue, alive, count, misused, peer, receiver, unixSocket>>
      /\ edge' = [edge EXCEPT !["ServerQueue"] = FALSE] /\ count["ServerQueue"] > 0
  BY DEF SHMInv, wake, client, segment, Waits
<1>2. /\ CallsOK' /\ calls'["router"] = <<"reset">>
      /\ \A S : ~InCall("router", S)
      /\ \A S : /\ InCall("app", S)' <=> InCall("app", S)
                /\ InCall("session", S)' <=> InCall("session", S)
  BY <1>1, RouterBegins, Zenon
<1>3. edge' \in [Queues -> BOOLEAN] /\ edge'["ClientQueue"] = edge["ClientQueue"]
  BY <1>1 DEF SHMTypeOK, Queues
<1>4. SHMTypeOK'
  BY <1>1, <1>3 DEF SHMTypeOK
<1>5. InCall("router", {"reset", "retrieve", "drop"})' /\ ~InCall("router", {"drop"})'
  BY <1>2, InSteps
<1> QED
  BY <1>1, <1>2, <1>3, <1>4, <1>5 DEF SHMInv, QueuedIsSignalled

(* The router begins to send.                                              *)
LEMMA SendBufferKeepsInv ==
  ASSUME SHMInv, sendBuffer PROVE SHMInv'
<1>1. /\ SHMTypeOK' /\ calls["router"] = <<>> /\ calls' = [calls EXCEPT !["router"] = <<"push", "notify">>]
      /\ UNCHANGED <<queue, alive, count, edge, misused, peer, receiver, unixSocket>>
  BY DEF SHMInv, sendBuffer, client, segment, eventfd, Waits, SHMTypeOK
<1>2. /\ CallsOK' /\ calls'["router"] = <<"push", "notify">>
      /\ \A S : ~InCall("router", S)
      /\ \A S : /\ InCall("app", S)' <=> InCall("app", S)
                /\ InCall("session", S)' <=> InCall("session", S)
  BY <1>1, RouterBegins, Zenon
<1>3. ~InCall("router", {"reset"})' /\ ~InCall("router", {"drop"})'
  BY <1>2, InSteps
<1> QED
  BY <1>1, <1>2, <1>3 DEF SHMInv, QueuedIsSignalled

(* The socket has ended: the client is gone.                               *)
LEMMA HangUpKeepsInv ==
  ASSUME SHMInv, hangUp PROVE SHMInv'
<1>1. /\ SHMTypeOK' /\ calls["router"] = <<>> /\ calls' = [calls EXCEPT !["router"] = <<"drop">>]
      /\ UNCHANGED <<queue, alive, count, edge, misused, peer, receiver, unixSocket>>
      /\ unixSocket = "closed"
  BY DEF SHMInv, hangUp, client, segment, eventfd, Waits, SHMTypeOK
<1>2. /\ CallsOK' /\ calls'["router"] = <<"drop">>
      /\ \A S : ~InCall("router", S)
      /\ \A S : /\ InCall("app", S)' <=> InCall("app", S)
                /\ InCall("session", S)' <=> InCall("session", S)
  BY <1>1, RouterBegins, Zenon
<1>3. ~InCall("router", {"reset"})' /\ InCall("router", {"reset", "retrieve", "drop"})'
  BY <1>2, InSteps
<1> QED
  BY <1>1, <1>2, <1>3 DEF SHMInv, QueuedIsSignalled

(* The eventfd is read while there is something to read, and the queue     *)
(* is looked at after: the client is not taken for dead.                   *)
LEMMA ResetKeepsInv ==
  ASSUME SHMInv, reset PROVE SHMInv'
<1>1. /\ CallsOK /\ SHMTypeOK /\ "router" \in SHMThreads
      /\ Calls("router", "reset", IF count["ServerQueue"] = 0 THEN <<"drop">> ELSE <<"retrieve">>)
      /\ UNCHANGED <<queue, alive, edge, misused, peer, receiver, unixSocket>>
      /\ count' = [count EXCEPT !["ServerQueue"] = 0]
  BY DEF SHMInv, reset, client, segment, SHMThreads
<1>2. /\ calls["router"] # <<>> /\ Head(calls["router"]) = "reset"
      /\ calls'["router"] = (IF count["ServerQueue"] = 0 THEN <<"drop">> ELSE <<"retrieve">>)
                            \o Tail(calls["router"])
      /\ DOMAIN calls' = SHMThreads /\ \A u \in SHMThreads \ {"router"} : calls'[u] = calls[u]
  BY <1>1, CallsStep, Zenon
<1>3. calls["router"] = <<"reset">>
  BY <1>1, <1>2, RouterAt DEF CallsOK
<1>4. InCall("router", {"reset"}) /\ ~InCall("router", {"notify"})
  BY <1>3, InSteps
<1>5. count["ServerQueue"] > 0
  BY <1>4 DEF SHMInv
<1>6. calls'["router"] = <<"retrieve">> \o Tail(calls["router"])
  BY <1>1, <1>2, <1>5
<1>7. calls'["router"] = <<"retrieve">>
  BY <1>3, <1>6, NextSteps, Zenon
<1>8. CallsOK'
  BY <1>1, <1>2, <1>7, Zenon DEF CallsOK, SHMThreads
<1>9. /\ InCall("router", {"reset", "retrieve", "drop"})'
      /\ ~InCall("router", {"reset"})' /\ ~InCall("router", {"drop"})'
  BY <1>7, InSteps
<1>10. count' \in [Queues -> Nat] /\ count'["ClientQueue"] = count["ClientQueue"]
  BY <1>1 DEF SHMTypeOK, Queues
<1>11. SHMTypeOK'
  BY <1>1, <1>10 DEF SHMTypeOK
<1>12. \A S : (InCall("session", S)' <=> InCall("session", S)) /\ (InCall("app", S)' <=> InCall("app", S))
  BY <1>2, SameCalls DEF SHMThreads
<1> QED
  BY <1>1, <1>4, <1>8, <1>9, <1>10, <1>11, <1>12 DEF SHMInv, QueuedIsSignalled

(* Every step of the client's threads and the router keeps the invariant.  *)
LEMMA SHMNextInv == SHMInv /\ [SHMNext]_shmVars => SHMInv'
<1> SUFFICES ASSUME SHMInv, [SHMNext]_shmVars PROVE SHMInv'
  OBVIOUS
<1>1. CASE UNCHANGED shmVars
  <2>1. /\ UNCHANGED <<queue, alive, count, edge, misused, peer, receiver, unixSocket, calls>>
        /\ SHMTypeOK /\ CallsOK
    BY <1>1 DEF shmVars, SHMInv
  <2>2. SHMTypeOK' /\ CallsOK'
    BY <2>1 DEF SHMTypeOK, CallsOK
  <2> QED
    BY <2>1, <2>2, SameCalls, QuietKeepsInv
<1>2. CASE ClientStep \/ send \/ destroyTransport
  BY <1>2, ConnectingKeepsInv, ConnectedKeepsInv, RegisterTransportKeepsInv, PushKeepsInv,
     NotifyKeepsInv, JoinKeepsInv, SendKeepsInv, DestroyTransportKeepsInv DEF ClientStep
<1>3. CASE ConnectorStep
  BY <1>3, ConnectingKeepsInv, ConnectedKeepsInv DEF ConnectorStep
<1>4. CASE receive \/ receiveRetrieves
  BY <1>4, ReceiveKeepsInv, ReceiveRetrievesKeepsInv
<1>5. CASE RouterStep
  BY <1>5, ResetKeepsInv, RouterRetrievesKeepsInv, DropKeepsInv, PushKeepsInv, NotifyKeepsInv
     DEF RouterStep
<1>6. CASE accept \/ wake \/ sendBuffer \/ hangUp
  BY <1>6, AcceptKeepsInv, WakeKeepsInv, SendBufferKeepsInv, HangUpKeepsInv
<1> QED
  BY <1>1, <1>2, <1>3, <1>4, <1>5, <1>6 DEF SHMNext

(* A message in a shared-memory queue is signalled until it is retrieved,  *)
(* in both directions, whatever the capacity of the queues and however     *)
(* often both sides send, connect and go; and a client that lives is never *)
(* dropped: QueuedIsSignalled of SHMTransport and shm_peer_connection.     *)
THEOREM SHMSignals == SHMSpec => []QueuedIsSignalled
<1>1. SHMInv => QueuedIsSignalled
  BY DEF SHMInv
<1> QED
  BY <1>1, SHMInitInv, SHMNextInv, PTL DEF SHMSpec
=============================================================================
