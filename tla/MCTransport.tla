---------------------------- MODULE MCTransport -----------------------------
(***************************************************************************)
(* The transports make_realm_connection chooses from by the protocol of    *)
(* the URL (fastpath/transport/realm_transport.cpp), for TLC.  A TCP       *)
(* transport is used in one of two ways: it receives a stream, or the      *)
(* application sends through it; between them they meet every action.      *)
(* The URL is parsed in a behaviour of its own, and so is the command line *)
(* of the router the transports connect to.                                *)
(***************************************************************************)
EXTENDS TCPTransport, SHMTransport, Url, CommandLine

VARIABLE use

MCParts == <<3, 2, 2>>

MCProtocols == {<<"tcp">>, <<"TCP">>, <<"shm">>}
Chars == {"h", "H", ":", "/", "?", "&", "="}
MCBodies ==
  UNION {[1 .. n -> Chars] : n \in 0 .. 3}
    \cup {<<"H", ":">> \o b : b \in [1 .. 3 -> {"h", ":", "/", "?"}]}
    \cup {<<"h", "?">> \o b : b \in [1 .. 4 -> {"h", "&", "="}]}

\* Any two arguments, any three after all that is required, and two before it.
Arguments ==
  {Long("config"), Long("service"), Long("colour"), Short("c"), Short("s"), Short("d"),
   Short("l"), Word("svc"), Word("DEBUG"), Word("1"), Dash, DashDash}
MCCommandLines ==
  UNION {[1 .. n -> Arguments] : n \in 0 .. 2}
    \cup {<<Short("c"), Long("service"), Word("svc")>> \o b : b \in [1 .. 3 -> Arguments]}
    \cup {b \o <<Word("svc"), Long("config")>> : b \in [1 .. 2 -> Arguments]}

MCInit ==
  /\ use \in {"stream", "threads", "shm", "url", "options"}
  \* of what is not used nothing matters
  /\ IF use = "url" THEN text \in Texts ELSE text = <<"tcp">>
  /\ IF use = "options" THEN argv \in CommandLines ELSE argv = <<>>
  /\ IF use = "threads" THEN manager \in {"global", "inline"} ELSE manager = "global"
  /\ IF use = "shm" THEN leave \in BOOLEAN ELSE leave = FALSE
  /\ TCPInit
  /\ SHMInit
  /\ UrlInit
  /\ OptionsInit

MCTCP ==
  /\ use \in {"stream", "threads"} /\ TCPNext
  /\ use = "threads" => sentOn' = sentOn
  /\ use = "stream" => sends' = sends
  /\ UNCHANGED <<shmVars, urlVars, optionVars, use>>

MCSHM == use = "shm" /\ SHMNext /\ UNCHANGED <<tcpVars, urlVars, optionVars, use>>

MCUrl == use = "url" /\ UrlNext /\ UNCHANGED <<tcpVars, shmVars, optionVars, use>>

MCOptions == use = "options" /\ OptionsNext /\ UNCHANGED <<tcpVars, shmVars, urlVars, use>>

mcVars == <<tcpVars, shmVars, urlVars, optionVars, use>>

Threading == use = "threads" /\ UNCHANGED <<shmVars, urlVars, optionVars, use>>

MCSpec ==
  /\ MCInit /\ [][MCTCP \/ MCSHM \/ MCUrl \/ MCOptions]_mcVars
  /\ WF_mcVars(Threading /\ AppStep) /\ WF_mcVars(Threading /\ SessionStep)
  /\ \A c \in Connectors : WF_mcVars(Threading /\ Step(c))

(* The destructor of a TCP transport the application sends through         *)
(* returns: DestructorReturns.                                             *)
TCPDestructorReturns == use = "threads" => DestructorReturns

(* Texts are taken apart as they are written: UrlIsSplit of a URL,         *)
(* OptionsAreRead of a command line.                                       *)
TextsAreRead == UrlIsSplit /\ OptionsAreRead
=============================================================================
