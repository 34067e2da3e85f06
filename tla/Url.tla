-------------------------------- MODULE Url ---------------------------------
(***************************************************************************)
(* fp::url and make_realm_connection (fastpath/transport/URL.cpp,          *)
(* realm_transport.cpp): the constructor walks the text once, each branch  *)
(* of its loop taking one component, and the protocol decides which        *)
(* transport is made.                                                      *)
(*                                                                         *)
(* A text is a sequence of characters; a run of letters between two marks  *)
(* may be one of them, in capitals or not.  A query is taken to have       *)
(* something after each "?" and "&": the search for "=" begins at the      *)
(* second character of a pair.                                             *)
(***************************************************************************)
EXTENDS Integers, Sequences

CONSTANTS Protocols,  \* what may stand before "://"
          Bodies      \* what may stand after it

VARIABLES text, pos,  \* the argument, and the iterator of the loop
          parsed,     \* m_protocol, m_host, m_port, m_path, m_query
          parser,     \* the branch the constructor is in
          realm       \* the transport make_realm_connection made

urlVars == <<text, pos, parsed, parser, realm>>

Marks == {":", "/", "?"}
prot_end == <<":", "/", "/">>
tolower(s) == [i \in DOMAIN s |-> CASE s[i] = "TCP" -> "tcp" [] s[i] = "H" -> "h" [] OTHER -> s[i]]

End == Len(text) + 1
\* std::find_if from i; the end when there is none
find(i, chars) ==
  CHOOSE j \in i .. End :
    /\ j = End \/ text[j] \in chars
    /\ \A k \in i .. j - 1 : text[k] \notin chars
Between(i, j) == SubSeq(text, i, j - 1)

NoEmptyPair(s) ==
  \A i \in DOMAIN s : s[i] \in {"?", "&"} => i < Len(s) /\ s[i + 1] # "&"

Texts ==
  {p \o e \o b : p \in Protocols, e \in {<<>>, prot_end}, b \in {b \in Bodies : NoEmptyPair(b)}}

UrlInit ==
  /\ text \in Texts
  /\ pos = 1 /\ parser = "protocol" /\ realm = "none"
  /\ parsed = [protocol |-> <<>>, host |-> <<>>, port |-> <<>>, path |-> <<>>, query |-> {}]
-----------------------------------------------------------------------------
Ends == {i \in DOMAIN text : i + 2 \in DOMAIN text /\ SubSeq(text, i, i + 2) = prot_end}

\* std::search for "://"
protocol ==
  /\ parser = "protocol"
  /\ IF Ends = {}
       THEN /\ parser' = "thrown"
            /\ parsed' = [parsed EXCEPT !.protocol = tolower(text)]
            /\ UNCHANGED pos
       ELSE LET e == CHOOSE e \in Ends : \A i \in Ends : e <= i
            IN /\ parsed' = [parsed EXCEPT !.protocol = tolower(Between(1, e))]
               /\ pos' = e + Len(prot_end)
               /\ parser' = "host"
  /\ UNCHANGED <<text, realm>>

\* Mutant: the separator list without the mark of a query.
find_separatorNoQuery(i) == find(i, {":", "/"})

find_separator(i) == find(i, Marks)

host ==
  /\ parser = "host"
  /\ LET host_end == find_separator(pos)
     IN parsed' = [parsed EXCEPT !.host = tolower(Between(pos, host_end))] /\ pos' = host_end
  /\ parser' = "components"
  /\ UNCHANGED <<text, realm>>

At(char) == parser = "components" /\ pos # End /\ text[pos] = char

port ==
  /\ At(":")
  /\ LET port_end == find_separator(pos + 1)
     IN parsed' = [parsed EXCEPT !.port = @ \o Between(pos + 1, port_end)] /\ pos' = port_end
  /\ UNCHANGED <<text, parser, realm>>

path ==
  /\ At("/")
  /\ LET path_end == find(pos + 1, {"?"})
     IN parsed' = [parsed EXCEPT !.path = @ \o Between(pos + 1, path_end)] /\ pos' = path_end
  /\ UNCHANGED <<text, parser, realm>>

Least(i, j) == IF i < j THEN i ELSE j

\* one turn of the inner loop; emplace keeps the first of two equal keys
query ==
  /\ At("?") \/ (parser = "query" /\ pos # End)
  /\ LET from == pos + 1
         new_query == find(from, {"&"})
         key_end == Least(find(from + 1, {"="}), new_query)
         key == Between(from, key_end)
     IN /\ parsed' = [parsed EXCEPT !.query =
             IF \E q \in @ : q.key = key THEN @
             ELSE @ \cup {[key |-> key, value |-> Between(key_end + 1, new_query)]}]
        /\ pos' = new_query
  /\ parser' = "query"
  /\ UNCHANGED <<text, realm>>

make_realm_connection ==
  /\ parser \in {"components", "query"} /\ pos = End
  /\ parser' = "done"
  /\ realm' = CASE parsed.protocol = <<"tcp">> -> "TCPTransport"
                [] parsed.protocol = <<"shm">> -> "SHMTransport"
                [] OTHER -> "thrown"
  /\ UNCHANGED <<text, pos, parsed>>

UrlNext == protocol \/ host \/ port \/ path \/ query \/ make_realm_connection

UrlSpec == UrlInit /\ [][UrlNext]_urlVars
-----------------------------------------------------------------------------
(* What the components are by where they stand in the text.                *)

Holds(c, i) == i \in DOMAIN text /\ text[i] = c
Body == CHOOSE i \in 4 .. End : SubSeq(text, i - 3, i - 1) = prot_end
                                /\ \A j \in 4 .. i - 1 : SubSeq(text, j - 3, j - 1) # prot_end
Query == find(Body, {"?"})
Path == Least(find(Body, {"/"}), Query)
Host == Least(find(Body, {":"}), Path)

\* the pairs of a query, by their first and last position
Pairs ==
  {<<i, j>> \in (Query + 1 .. End) \X (Query .. End - 1) :
     /\ i - 1 = Query \/ Holds("&", i - 1)
     /\ j = End - 1 \/ Holds("&", j + 1)
     /\ i <= j /\ \A k \in i .. j : ~Holds("&", k)}
KeyEnd(pair) == Least(find(pair[1] + 1, {"="}), pair[2] + 1)
Key(pair) == Between(pair[1], KeyEnd(pair))

(* The one pass over the text splits it where the marks of a URL stand: a  *)
(* query begins at the first "?", whatever it follows, a path at the first *)
(* "/" before that, a port at a ":" before both, and the host is what is   *)
(* left; of two pairs with one key the first counts.  A text without "://" *)
(* is refused, and the transport is the one of the protocol, in capitals   *)
(* or not (URL.cpp:42-89, realm_transport.cpp:35-41).                      *)
UrlIsSplit ==
  /\ parser = "done" =>
       /\ parsed.host = tolower(Between(Body, Host))
       /\ parsed.port = SelectSeq(Between(Host, Path), LAMBDA c : c # ":")
       /\ parsed.path = Between(Path + 1, Query)
       /\ parsed.query =
            {[key |-> Key(a), value |-> Between(KeyEnd(a) + 1, a[2] + 1)] :
               a \in {a \in Pairs : \A b \in Pairs : Key(b) = Key(a) => a[1] <= b[1]}}
       /\ (realm = "TCPTransport") <=> (Between(1, Body - 3) \in {<<"tcp">>, <<"TCP">>})
  /\ (parser = "thrown") => Ends = {}
=============================================================================
