-------------------------------- MODULE Uri --------------------------------
(* The request URIs of proxylab/proxy.c and tiny/tiny.c.  A URI is a         *)
(* sequence of characters; a run of them that the code never looks into,     *)
(* like a protocol or a file name, is one.                                   *)
EXTENDS Integers, Sequences

CONSTANTS
    MAX_HOSTNAME_LEN, MAX_PORT_LEN, MAX_QUERY_LEN

LOCAL INSTANCE SequencesExt

BadUri == [host |-> << >>, port |-> << >>, query |-> << >>]

Chars(uri, from, upto) == SubSeq(uri, from, upto - 1)

(* The first position from k on where P holds, the terminator's if none.     *)
FirstIn(uri, k, stops) ==
    CHOOSE i \in k .. Len(uri) + 1 :
      /\ i <= Len(uri) => uri[i] \in stops
      /\ \A j \in k .. i - 1 : uri[j] \notin stops

Ends(uri, k) == k > Len(uri)

SlashesSkipped(uri, k) ==
    CHOOSE i \in k .. Len(uri) + 1 :
      /\ i <= Len(uri) => uri[i] # "/"
      /\ \A j \in k .. i - 1 : uri[j] = "/"

Fits(string, max) == Len(string) + 1 <= max

parse_uri(uri) ==
    LET colon == FirstIn(uri, 1, {":"})
        protocol == Chars(uri, 1, colon)
        host == SlashesSkipped(uri, colon + 1)
        hostEnd == FirstIn(uri, host, {":", "/"})
        hasPort == uri[hostEnd] = ":"
        portEnd == IF hasPort THEN FirstIn(uri, hostEnd + 1, {"/"}) ELSE hostEnd
        query == SlashesSkipped(uri, portEnd + 1) - 1
        info == [host |-> Chars(uri, host, hostEnd),
                 port |-> IF hasPort THEN Chars(uri, hostEnd + 1, portEnd)
                          ELSE <<"8", "0">>,
                 query |-> Chars(uri, query, Len(uri) + 1)]
    IN  IF \/ Ends(uri, colon)
           \/ protocol \notin {<<"http">>, <<"https">>}
           \/ Ends(uri, hostEnd)
           \/ Ends(uri, portEnd)
           \/ ~Fits(info.host, MAX_HOSTNAME_LEN)
           \/ hasPort /\ ~Fits(info.port, MAX_PORT_LEN)
           \/ ~Fits(info.query, MAX_QUERY_LEN)
          THEN BadUri ELSE info

\* A faulty variant: the port is left out of the key.
KeyWithoutPort(info) == info.host \o info.query

build_cache_key(info) == (info.host \o info.port) \o info.query

(* parse_uri of tiny.c: what is asked for, and whether a program makes it.   *)
IsStatic(query) == \A k \in DOMAIN query : query[k] # "cgi-bin"

FileName(query) ==
    IF IsStatic(query)
      THEN IF query[Len(query)] = "/" THEN Append(query, "home.html") ELSE query
      ELSE Chars(query, 1, FirstIn(query, 1, {"?"}))
=============================================================================
