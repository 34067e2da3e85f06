---------------------------- MODULE CommandLine -----------------------------
(***************************************************************************)
(* tf::options (fastpath/utils/tfoptions.h) as the router's main uses it   *)
(* (fastpath/router/fprouter.cpp): the arguments are read one by one, each *)
(* word going to the option named last, and what was read is then held     *)
(* against what each option requires.                                      *)
(*                                                                         *)
(* An argument is a tag, which names an option in full or by one letter,   *)
(* whatever letters follow; "-"; "--"; or a word.                          *)
(***************************************************************************)
EXTENDS Integers, Sequences, FiniteSets

CONSTANT CommandLines  \* the argument vectors, without the program's name

VARIABLES argv, argi,   \* the arguments, and the one to be read next
          current_arg,  \* the option words go to
          m_args,       \* of the options named, their words
          main          \* where the router is, or how it ended

optionVars == <<argv, argi, current_arg, m_args, main>>

option(key, required, requiresArg, shortName) ==
  [key |-> key, required |-> required, requiresArg |-> requiresArg,
   longName |-> key, shortName |-> shortName]

RouterOptions ==
  <<option("help", FALSE, FALSE, "h"), option("config", TRUE, FALSE, "c"),
    option("loglevel", FALSE, TRUE, "l"), option("interface", FALSE, TRUE, "i"),
    option("service", TRUE, TRUE, "s"), option("nobanner", FALSE, FALSE, "x"),
    option("daemon", FALSE, FALSE, "d")>>

Long(name) == [kind |-> "long", name |-> name]
Short(name) == [kind |-> "short", name |-> name]
Word(text) == [kind |-> "word", name |-> text]
Dash == [kind |-> "-", name |-> ""]
DashDash == [kind |-> "--", name |-> ""]

Tag(a) == a.kind \in {"long", "short"}
Names(a, o) == IF a.kind = "long" THEN a.name = o.longName ELSE a.name = o.shortName
\* std::find_if: the first option of that name, or 0
FindOption(a) ==
  LET found == {i \in DOMAIN RouterOptions : Names(a, RouterOptions[i])}
  IN IF found = {} THEN 0 ELSE CHOOSE i \in found : \A j \in found : i <= j

NoOption == "none"
Keys == {RouterOptions[i].key : i \in DOMAIN RouterOptions}

OptionsInit ==
  /\ argv \in CommandLines /\ argi = 1
  /\ current_arg = NoOption /\ m_args = [k \in {} |-> <<>>]
  /\ main = "parse"

Seen(k) == k \in DOMAIN m_args
-----------------------------------------------------------------------------
(* options::parse.                                                         *)

Reading(kinds) == main = "parse" /\ argi <= Len(argv) /\ argv[argi].kind \in kinds
Throws == main' = "usage" /\ UNCHANGED <<argv, argi, current_arg, m_args>>

\* Mutant: an option that is named again begins anew.
EmplacedAnew(k) == [j \in DOMAIN m_args \cup {k} |-> IF j = k THEN <<>> ELSE m_args[j]]

\* emplace keeps what is there.
Emplaced(k) == [j \in DOMAIN m_args \cup {k} |-> IF Seen(j) THEN m_args[j] ELSE <<>>]

parseTag ==
  /\ Reading({"long", "short"})
  /\ LET i == FindOption(argv[argi])
     IN IF i = 0 THEN Throws
        ELSE /\ m_args' = Emplaced(RouterOptions[i].key)
             /\ current_arg' = RouterOptions[i].key
             /\ argi' = argi + 1
             /\ UNCHANGED <<argv, main>>

parseDash == Reading({"-"}) /\ Throws

parseWord ==
  /\ Reading({"word"})
  /\ IF current_arg = NoOption THEN Throws
     ELSE /\ m_args' = [m_args EXCEPT ![current_arg] = Append(@, argv[argi].name)]
          /\ argi' = argi + 1
          /\ UNCHANGED <<argv, current_arg, main>>

Satisfied(o) ==
  /\ o.required => Seen(o.key)
  /\ o.requiresArg /\ Seen(o.key) => m_args[o.key] # <<>>

\* At the end, or at "--", every option is looked at.
parseEnds ==
  /\ main = "parse" /\ (argi \in DOMAIN argv => argv[argi] = DashDash)
  /\ main' = IF \A i \in DOMAIN RouterOptions : Satisfied(RouterOptions[i])
               THEN "parsed" ELSE "usage"
  /\ UNCHANGED <<argv, argi, current_arg, m_args>>
-----------------------------------------------------------------------------
(* The accessors.                                                          *)

get(k, index) == Seen(k) /\ index < Len(m_args[k])
getWithDefault(k, default, index) == IF get(k, index) THEN m_args[k][index + 1] ELSE default
\* get<bool>: operator>> reads the word "1" as true, and false from letters
getBool(k, default, index) == IF get(k, index) THEN m_args[k][index + 1] = "1" ELSE default

Levels == {"DEBUG", "INFO", "WARNING", "ERROR"}

\* The level is looked at first; -d alone has no word to be read as true.
mainRuns ==
  /\ main = "parsed"
  /\ main' = IF get("loglevel", 0) /\ m_args["loglevel"][1] \notin Levels THEN "invalid level"
             ELSE IF getBool("daemon", FALSE, 0) THEN "daemon" ELSE "foreground"
  /\ UNCHANGED <<argv, argi, current_arg, m_args>>

OptionsNext == parseTag \/ parseDash \/ parseWord \/ parseEnds \/ mainRuns

OptionsSpec == OptionsInit /\ [][OptionsNext]_optionVars
-----------------------------------------------------------------------------
(* What the arguments say, by where they stand.                            *)

Stop == CHOOSE n \in 1 .. Len(argv) + 1 :
          /\ n = Len(argv) + 1 \/ argv[n] = DashDash
          /\ \A i \in 1 .. n - 1 : argv[i] # DashDash
Read == 1 .. Stop - 1
KeyAt(i) == IF FindOption(argv[i]) = 0 THEN NoOption ELSE RouterOptions[FindOption(argv[i])].key
TagOf(j) == {i \in Read : i < j /\ Tag(argv[i]) /\ \A k \in i + 1 .. j - 1 : ~Tag(argv[k])}
WordsOf(k) ==
  {j \in Read : argv[j].kind = "word" /\ \E i \in TagOf(j) : KeyAt(i) = k}
InOrder(js) ==
  [n \in 1 .. Cardinality(js) |-> CHOOSE j \in js : Cardinality({i \in js : i < j}) = n - 1]

Refused ==
  \/ \E i \in Read :
       \/ argv[i] = Dash
       \/ Tag(argv[i]) /\ KeyAt(i) = NoOption
       \/ argv[i].kind = "word" /\ TagOf(i) = {}
  \/ \E n \in DOMAIN RouterOptions :
       LET o == RouterOptions[n]
           named == \E i \in Read : Tag(argv[i]) /\ KeyAt(i) = o.key
       IN (o.required /\ ~named) \/ (o.requiresArg /\ named /\ WordsOf(o.key) = {})

(* The pass over the arguments gives each option the words that follow its *)
(* name, in order, wherever it is named again, up to "--"; and refuses a   *)
(* command line exactly when an argument makes no sense or an option lacks *)
(* what it requires (tfoptions.h:123-187), so that the router serves on    *)
(* the service the line names first.                                       *)
OptionsAreRead ==
  /\ main \in {"parsed", "invalid level", "daemon", "foreground"} =>
       /\ ~Refused
       /\ \A k \in Keys :
            LET words == InOrder(WordsOf(k))
            IN /\ Seen(k) <=> \E i \in Read : Tag(argv[i]) /\ KeyAt(i) = k
               /\ Seen(k) => m_args[k] = [n \in DOMAIN words |-> argv[words[n]].name]
       /\ getWithDefault("service", "7900", 0) = argv[InOrder(WordsOf("service"))[1]].name
  /\ main = "usage" => Refused
=============================================================================
