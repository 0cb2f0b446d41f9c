----------------------------- MODULE ProxyProofs -----------------------------
(* What the request pipeline keeps on every path, for any number of          *)
(* connections and threads, any requests, files and limits, and whichever    *)
(* clients go away, connections break and servers die on the way.            *)
EXTENDS Proxy, SequenceTheorems, TLAPS

LOCAL INSTANCE SequencesExt

Order == INSTANCE WellFoundedInduction

-----------------------------------------------------------------------------
(* Natural numbers.                                                          *)

\* Of the numbers in a set there is a least, which stands for an induction.
LEMMA LeastExists ==
    ASSUME NEW T \in SUBSET Nat, T # {}
    PROVE  \E x \in T : \A y \in T : x <= y
<1>1. Order!IsWellFoundedOn(Order!OpToRel(<, Nat), Nat)
  BY Order!NatLessThanWellFounded
<1>2. PICK x \in T : \A y \in T : ~(<<y, x>> \in Order!OpToRel(<, Nat))
  BY <1>1, Order!WFMin
<1>3. ASSUME NEW y \in T PROVE x <= y
  <2>1. ~(<<y, x>> \in Order!OpToRel(<, Nat))
    BY <1>2
  <2>2. QED
    BY <2>1 DEF Order!OpToRel
<1>4. QED
  BY <1>3
-----------------------------------------------------------------------------
(* The port that parse_uri puts in is made of strings too, which the provers  *)
(* are told here.                                                            *)
Character == STRING \cup {"8", "0"}

\* FirstIn is where the scan of a character loop stops: nothing before it is
\* one of the characters looked for.
LEMMA FirstInStops ==
    ASSUME NEW uri \in Seq(Character), NEW k \in 1 .. Len(uri) + 1, NEW stops,
           NEW i, i = FirstIn(uri, k, stops)
    PROVE  /\ i \in k .. Len(uri) + 1
           /\ i <= Len(uri) => uri[i] \in stops
           /\ \A j \in k .. i - 1 : uri[j] \notin stops
<1> DEFINE T == {x \in k .. Len(uri) + 1 : x <= Len(uri) => uri[x] \in stops}
<1>1. T \in SUBSET Nat /\ T # {}
  <2>1. Len(uri) \in Nat /\ Len(uri) + 1 \in T
    OBVIOUS
  <2>2. QED
    BY <2>1
<1>2. PICK x \in T : \A y \in T : x <= y
  BY <1>1, LeastExists
<1>3. \A j \in k .. x - 1 : uri[j] \notin stops
  <2>1. Len(uri) \in Nat
    OBVIOUS
  <2>2. ASSUME NEW j \in k .. x - 1, uri[j] \in stops PROVE FALSE
    <3>1. j \in T
      BY <2>1, <2>2
    <3>2. QED
      BY <1>2, <3>1
  <2>3. QED
    BY <2>2
<1>4. \E y \in k .. Len(uri) + 1 :
        /\ y <= Len(uri) => uri[y] \in stops
        /\ \A j \in k .. y - 1 : uri[j] \notin stops
  BY <1>2, <1>3
<1>5. QED
  BY <1>4, Zenon DEF FirstIn

\* After the slashes that are skipped comes something else, or the end.
LEMMA SlashesSkippedStops ==
    ASSUME NEW uri \in Seq(Character), NEW k \in 1 .. Len(uri) + 1,
           NEW i, i = SlashesSkipped(uri, k)
    PROVE  i \in k .. Len(uri) + 1 /\ \A j \in k .. i - 1 : uri[j] = "/"
<1> DEFINE T == {x \in k .. Len(uri) + 1 : x <= Len(uri) => uri[x] # "/"}
<1>1. T \in SUBSET Nat /\ T # {}
  <2>1. Len(uri) \in Nat /\ Len(uri) + 1 \in T
    OBVIOUS
  <2>2. QED
    BY <2>1
<1>2. PICK x \in T : \A y \in T : x <= y
  BY <1>1, LeastExists
<1>3. \A j \in k .. x - 1 : uri[j] = "/"
  <2>1. Len(uri) \in Nat
    OBVIOUS
  <2>2. ASSUME NEW j \in k .. x - 1, uri[j] # "/" PROVE FALSE
    <3>1. j \in T
      BY <2>1, <2>2
    <3>2. QED
      BY <1>2, <3>1
  <2>3. QED
    BY <2>2
<1>4. \E y \in k .. Len(uri) + 1 :
        /\ y <= Len(uri) => uri[y] # "/"
        /\ \A j \in k .. y - 1 : uri[j] = "/"
  BY <1>2, <1>3
<1>5. QED
  BY <1>4, Zenon DEF SlashesSkipped

NoSlash(string) == \A j \in 1 .. Len(string) : string[j] # "/"

\* What lies between two places of a URI.
LEMMA CharsBetween ==
    ASSUME NEW uri \in Seq(Character), NEW a \in 1 .. Len(uri) + 1,
           NEW b \in a .. Len(uri) + 1
    PROVE  /\ Chars(uri, a, b) \in Seq(Character)
           /\ Len(Chars(uri, a, b)) = b - a
           /\ \A j \in 1 .. b - a : Chars(uri, a, b)[j] = uri[a + j - 1]
<1>1. PICK n \in Nat : n = Len(uri)
  OBVIOUS
<1>2. a \in 1 .. n + 1 /\ b \in a .. n + 1 /\ b - 1 \in 0 .. n
  BY <1>1
<1>3. /\ SubSeq(uri, a, b - 1) \in Seq(Character)
      /\ Len(SubSeq(uri, a, b - 1)) =
           IF a <= b - 1 THEN (b - 1) - a + 1 ELSE 0
      /\ \A j \in 1 .. (b - 1) - a + 1 :
           SubSeq(uri, a, b - 1)[j] = uri[a + j - 1]
  BY <1>1, <1>2, SubSeqProperties
<1>4. (b - 1) - a + 1 = b - a
  BY <1>2
<1>5. QED
  BY <1>2, <1>3, <1>4 DEF Chars

\* A URI that parse_uri takes has no slash in the host or the port, and its
\* query starts with one.
LEMMA GoodUri ==
    ASSUME NEW uri \in Seq(Character), parse_uri(uri) # BadUri
    PROVE  LET info == parse_uri(uri) IN
           /\ info.host \in Seq(Character) /\ NoSlash(info.host)
           /\ info.port \in Seq(Character) /\ NoSlash(info.port)
           /\ info.query \in Seq(Character) /\ info.query # << >>
           /\ info.query[1] = "/"
<1> DEFINE colon == FirstIn(uri, 1, {":"})
           protocol == Chars(uri, 1, colon)
           host == SlashesSkipped(uri, colon + 1)
           hostEnd == FirstIn(uri, host, {":", "/"})
           hasPort == uri[hostEnd] = ":"
           portEnd == IF hasPort THEN FirstIn(uri, hostEnd + 1, {"/"})
                      ELSE hostEnd
           query == SlashesSkipped(uri, portEnd + 1) - 1
           info == [host |-> Chars(uri, host, hostEnd),
                    port |-> IF hasPort THEN Chars(uri, hostEnd + 1, portEnd)
                             ELSE <<"8", "0">>,
                    query |-> Chars(uri, query, Len(uri) + 1)]
<1>1. /\ parse_uri(uri) = info
      /\ ~Ends(uri, colon) /\ ~Ends(uri, hostEnd) /\ ~Ends(uri, portEnd)
  BY Zenon DEF parse_uri
<1>2. PICK n \in Nat : n = Len(uri)
  OBVIOUS
<1> HIDE DEF info
<1>3. colon \in 1 .. n
  <2>1. 1 \in 1 .. Len(uri) + 1
    BY <1>2
  <2>2. colon \in 1 .. Len(uri) + 1
    BY <2>1, FirstInStops
  <2>3. QED
    BY <1>1, <1>2, <2>2 DEF Ends
<1> HIDE DEF colon
<1>4. host \in colon + 1 .. n + 1
  BY <1>2, <1>3, SlashesSkippedStops
<1> HIDE DEF host
<1>5. /\ hostEnd \in host .. n
      /\ uri[hostEnd] \in {":", "/"}
      /\ \A j \in host .. hostEnd - 1 : uri[j] \notin {":", "/"}
  <2>1. host \in 1 .. Len(uri) + 1
    BY <1>2, <1>3, <1>4
  <2>2. /\ hostEnd \in host .. Len(uri) + 1
        /\ hostEnd <= Len(uri) => uri[hostEnd] \in {":", "/"}
        /\ \A j \in host .. hostEnd - 1 : uri[j] \notin {":", "/"}
    BY <2>1, FirstInStops
  <2>3. hostEnd <= Len(uri)
    BY <1>1, <1>2, <1>3, <1>4, <2>2 DEF Ends
  <2>4. QED
    BY <1>2, <1>3, <1>4, <2>2, <2>3
<1> HIDE DEF hostEnd
<1>6. /\ portEnd \in hostEnd .. n
      /\ uri[portEnd] = "/"
      /\ hasPort => /\ portEnd \in hostEnd + 1 .. n
                    /\ \A j \in hostEnd + 1 .. portEnd - 1 : uri[j] # "/"
  <2>1. CASE ~hasPort
    BY <1>3, <1>4, <1>5, <2>1
  <2>2. CASE hasPort
    <3>1. hostEnd + 1 \in 1 .. Len(uri) + 1
      BY <1>2, <1>3, <1>4, <1>5
    <3>2. /\ portEnd \in hostEnd + 1 .. Len(uri) + 1
          /\ portEnd <= Len(uri) => uri[portEnd] \in {"/"}
          /\ \A j \in hostEnd + 1 .. portEnd - 1 : uri[j] \notin {"/"}
      BY <2>2, <3>1, FirstInStops
    <3>3. hostEnd \in Int
      BY <1>3, <1>4, <1>5
    <3>4. portEnd <= Len(uri)
      BY <1>1, <1>2, <3>2, <3>3 DEF Ends
    <3>5. QED
      BY <1>2, <3>2, <3>3, <3>4
  <2>3. QED
    BY <2>1, <2>2
<1> HIDE DEF portEnd
<1>7. query \in 1 .. n /\ uri[query] = "/"
  <2>1. portEnd \in 1 .. n
    BY <1>3, <1>4, <1>5, <1>6
  <2>2. PICK i : i = SlashesSkipped(uri, portEnd + 1)
    OBVIOUS
  <2>3. /\ i \in portEnd + 1 .. n + 1
        /\ \A j \in portEnd + 1 .. i - 1 : uri[j] = "/"
    BY <1>2, <2>1, <2>2, SlashesSkippedStops
  <2>4. CASE i = portEnd + 1
    BY <1>6, <2>1, <2>2, <2>4
  <2>5. CASE i # portEnd + 1
    <3>1. i - 1 \in portEnd + 1 .. i - 1 /\ i - 1 \in 1 .. n
      BY <2>1, <2>3, <2>5
    <3>2. QED
      BY <2>2, <2>3, <3>1
  <2>6. QED
    BY <2>4, <2>5
<1> HIDE DEF query
<1>8. info.host \in Seq(Character) /\ NoSlash(info.host)
  <2>1. host \in 1 .. Len(uri) + 1 /\ hostEnd \in host .. Len(uri) + 1
    BY <1>2, <1>3, <1>4, <1>5
  <2>2. PICK h : h = Chars(uri, host, hostEnd)
    OBVIOUS
  <2>3. /\ h \in Seq(Character) /\ Len(h) = hostEnd - host
        /\ \A j \in 1 .. hostEnd - host : h[j] = uri[host + j - 1]
    BY <2>1, <2>2, CharsBetween
  <2>4. ASSUME NEW j \in 1 .. hostEnd - host PROVE h[j] # "/"
    <3>1. host + j - 1 \in host .. hostEnd - 1
      BY <1>2, <2>1
    <3>2. QED
      BY <1>5, <2>3, <3>1
  <2>5. QED
    BY <2>2, <2>3, <2>4 DEF info, NoSlash
<1>9. info.port \in Seq(Character) /\ NoSlash(info.port)
  <2>1. CASE ~hasPort
    <3>1. PICK p : p = <<"8", "0">>
      OBVIOUS
    <3>2. p \in Seq(Character) /\ Len(p) = 2 /\ p[1] = "8" /\ p[2] = "0"
      <4>1. "8" \in Character /\ "0" \in Character
        BY DEF Character
      <4>2. ASSUME NEW a \in Character, NEW b \in Character
            PROVE  /\ <<a, b>> \in Seq(Character) /\ Len(<<a, b>>) = 2
                   /\ <<a, b>>[1] = a /\ <<a, b>>[2] = b
        OBVIOUS
      <4>3. QED
        BY <3>1, <4>1, <4>2
    <3>3. NoSlash(p)
      <4>1. "8" # "/" /\ "0" # "/"
        OBVIOUS
      <4>2. ASSUME NEW j \in 1 .. 2 PROVE p[j] # "/"
        <5>1. j = 1 \/ j = 2
          OBVIOUS
        <5>2. QED
          BY <3>2, <4>1, <5>1
      <4>3. QED
        BY <3>2, <4>2 DEF NoSlash
    <3>4. QED
      BY <2>1, <3>1, <3>2, <3>3 DEF info
  <2>2. CASE hasPort
    <3>1. /\ hostEnd + 1 \in 1 .. Len(uri) + 1
          /\ portEnd \in hostEnd + 1 .. Len(uri) + 1
      BY <1>2, <1>3, <1>4, <1>5, <1>6, <2>2
    <3>2. PICK p : p = Chars(uri, hostEnd + 1, portEnd)
      OBVIOUS
    <3>3. PICK from \in Int : from = hostEnd + 1
      BY <3>1
    <3>4. /\ p \in Seq(Character) /\ Len(p) = portEnd - from
          /\ \A j \in 1 .. portEnd - from : p[j] = uri[from + j - 1]
      BY <3>1, <3>2, <3>3, CharsBetween
    <3>5. ASSUME NEW j \in 1 .. portEnd - from PROVE p[j] # "/"
      <4>1. from + j - 1 \in hostEnd + 1 .. portEnd - 1
        BY <1>2, <3>1, <3>3
      <4>2. QED
        BY <1>6, <2>2, <3>4, <4>1
    <3>6. QED
      BY <2>2, <3>2, <3>4, <3>5 DEF info, NoSlash
  <2>3. QED
    BY <2>1, <2>2
<1>10. /\ info.query \in Seq(Character) /\ info.query # << >>
       /\ info.query[1] = "/"
  <2>1. PICK q : q = Chars(uri, query, Len(uri) + 1)
    OBVIOUS
  <2>2. PICK end : end = Len(uri) + 1
    OBVIOUS
  <2>3. /\ query \in 1 .. Len(uri) + 1 /\ end \in query .. Len(uri) + 1
        /\ 1 \in 1 .. end - query /\ query + 1 - 1 = query
    BY <1>2, <1>7, <2>2
  <2>4. /\ q \in Seq(Character) /\ Len(q) = end - query
        /\ \A j \in 1 .. end - query : q[j] = uri[query + j - 1]
    BY <2>1, <2>2, <2>3, CharsBetween
  <2>5. q[1] = uri[query] /\ q # << >>
    BY <2>3, <2>4
  <2>6. QED
    BY <1>7, <2>1, <2>2, <2>4, <2>5 DEF info
<1>11. QED
  BY <1>1, <1>8, <1>9, <1>10

\* Two strings with a slash after them are told apart from what follows.
LEMMA CutAtSlash ==
    ASSUME NEW a \in Seq(Character), NEW b \in Seq(Character),
           NEW p \in Seq(Character), NEW q \in Seq(Character),
           NoSlash(a), p # << >>, p[1] = "/",
           NoSlash(b), q # << >>, q[1] = "/", a \o p = b \o q
    PROVE  a = b /\ p = q
<1> DEFINE s == a \o p
<1>1. PICK la, lb, lp, lq \in Nat :
        la = Len(a) /\ lb = Len(b) /\ lp = Len(p) /\ lq = Len(q)
  OBVIOUS
<1>2. /\ Len(s) = la + lp /\ lp >= 1 /\ lq >= 1
      /\ \A j \in 1 .. la : s[j] = a[j]
      /\ \A j \in 1 .. lp : s[la + j] = p[j]
  <2>1. lp # 0 /\ lq # 0
    BY <1>1, EmptySeq
  <2>2. PICK z : z = a \o p
    OBVIOUS
  <2>3. /\ Len(z) = la + lp
        /\ \A j \in 1 .. la + lp : z[j] = IF j <= la THEN a[j] ELSE p[j - la]
    BY <1>1, <2>2, ConcatProperties
  <2>4. \A j \in 1 .. lp : z[la + j] = p[j]
    BY <2>3
  <2>5. QED
    BY <1>1, <2>1, <2>2, <2>3, <2>4
<1>3. /\ Len(s) = lb + lq
      /\ \A j \in 1 .. lb : s[j] = b[j]
      /\ \A j \in 1 .. lq : s[lb + j] = q[j]
  <2>1. PICK z : z = b \o q
    OBVIOUS
  <2>2. /\ Len(z) = lb + lq /\ \A j \in 1 .. lb : z[j] = b[j]
        /\ \A j \in 1 .. lq : z[lb + j] = q[j]
    BY <1>1, <2>1
  <2>3. QED
    BY <2>1, <2>2
<1> HIDE DEF s
<1>4. s[la + 1] = "/" /\ s[lb + 1] = "/"
  <2>1. 1 \in 1 .. lp /\ 1 \in 1 .. lq
    BY <1>2
  <2>2. QED
    BY <1>2, <1>3, <2>1
<1>5. ~(la < lb)
  <2>1. SUFFICES ASSUME la < lb PROVE FALSE
    OBVIOUS
  <2>2. la + 1 \in 1 .. lb
    BY <2>1
  <2>3. QED
    BY <1>1, <1>3, <1>4, <2>2 DEF NoSlash
<1>6. ~(lb < la)
  <2>1. SUFFICES ASSUME lb < la PROVE FALSE
    OBVIOUS
  <2>2. lb + 1 \in 1 .. la
    BY <2>1
  <2>3. QED
    BY <1>1, <1>2, <1>4, <2>2 DEF NoSlash
<1>7. la = lb /\ lp = lq
  BY <1>2, <1>3, <1>5, <1>6
<1>8. \A j \in 1 .. lp : p[j] = q[j]
  BY <1>2, <1>3, <1>7
<1>9. \A j \in 1 .. la : a[j] = b[j]
  BY <1>2, <1>3, <1>7
<1>10. a = b
  BY <1>1, <1>7, <1>9, SeqEqual
<1>11. QED
  BY <1>1, <1>7, <1>8, <1>10, SeqEqual

\* Requests whose cache keys are equal ask for the same, and their hosts and
\* ports read the same: the key has no mark between its parts, but the query
\* starts at its first slash (build_cache_key).
THEOREM KeyTellsQuery ==
    ASSUME NEW u \in Seq(STRING), NEW v \in Seq(STRING),
           parse_uri(u) # BadUri, parse_uri(v) # BadUri,
           build_cache_key(parse_uri(u)) = build_cache_key(parse_uri(v))
    PROVE  /\ parse_uri(u).query = parse_uri(v).query
           /\ parse_uri(u).host \o parse_uri(u).port
                = parse_uri(v).host \o parse_uri(v).port
<1>0. u \in Seq(Character) /\ v \in Seq(Character)
  <2>1. \A x \in Seq(STRING) : x \in Seq(Character)
    BY DEF Character
  <2>2. QED
    BY <2>1
<1>1. PICK i, j : i = parse_uri(u) /\ j = parse_uri(v)
  OBVIOUS
<1>2. /\ i.host \in Seq(Character) /\ NoSlash(i.host)
      /\ i.port \in Seq(Character) /\ NoSlash(i.port)
      /\ i.query \in Seq(Character) /\ i.query # << >> /\ i.query[1] = "/"
  BY <1>0, <1>1, GoodUri
<1>3. /\ j.host \in Seq(Character) /\ NoSlash(j.host)
      /\ j.port \in Seq(Character) /\ NoSlash(j.port)
      /\ j.query \in Seq(Character) /\ j.query # << >> /\ j.query[1] = "/"
  BY <1>0, <1>1, GoodUri
<1>4. ASSUME NEW a \in Seq(Character), NEW b \in Seq(Character),
             NoSlash(a), NoSlash(b)
      PROVE  a \o b \in Seq(Character) /\ NoSlash(a \o b)
  <2>1. PICK la, lb \in Nat : la = Len(a) /\ lb = Len(b)
    OBVIOUS
  <2>2. PICK s : s = a \o b
    OBVIOUS
  <2>3. /\ s \in Seq(Character) /\ Len(s) = la + lb
        /\ \A k \in 1 .. la : s[k] = a[k]
        /\ \A k \in 1 .. lb : s[la + k] = b[k]
    BY <2>1, <2>2
  <2>4. ASSUME NEW k \in 1 .. la + lb PROVE s[k] # "/"
    <3>1. CASE k \in 1 .. la
      BY <1>4, <2>1, <2>3, <3>1 DEF NoSlash
    <3>2. CASE k \notin 1 .. la
      <4>1. k - la \in 1 .. lb /\ la + (k - la) = k
        BY <3>2
      <4>2. s[k] = b[k - la]
        BY <2>3, <4>1
      <4>3. QED
        BY <1>4, <2>1, <4>1, <4>2 DEF NoSlash
    <3>3. QED
      BY <3>1, <3>2
  <2>5. QED
    BY <2>1, <2>2, <2>3, <2>4 DEF NoSlash
<1>5. /\ i.host \o i.port \in Seq(Character) /\ NoSlash(i.host \o i.port)
      /\ j.host \o j.port \in Seq(Character) /\ NoSlash(j.host \o j.port)
  BY <1>2, <1>3, <1>4
<1>6. PICK a, b : a = i.host \o i.port /\ b = j.host \o j.port
  OBVIOUS
<1>7. a \o i.query = b \o j.query
  BY <1>1, <1>6 DEF build_cache_key
<1>8. PICK p, q : p = i.query /\ q = j.query
  OBVIOUS
<1>9. a = b /\ p = q
  <2>1. /\ a \in Seq(Character) /\ NoSlash(a)
        /\ b \in Seq(Character) /\ NoSlash(b)
    BY <1>5, <1>6
  <2>2. /\ p \in Seq(Character) /\ p # << >> /\ p[1] = "/"
        /\ q \in Seq(Character) /\ q # << >> /\ q[1] = "/"
    BY <1>2, <1>3, <1>8
  <2>3. a \o p = b \o q
    BY <1>7, <1>8
  <2>4. QED
    BY <2>1, <2>2, <2>3, CutAtSlash
<1>10. QED
  BY <1>1, <1>6, <1>8, <1>9

-----------------------------------------------------------------------------
Queries == {UriInfos[uri].query : uri \in DOMAIN UriInfos}

Places == Servers \cup {Address(UriInfos[uri]) : uri \in DOMAIN UriInfos}

Asks == {[query |-> UriInfos[r.uri].query, headers |-> Forwarded(r.headers)] :
           r \in Requests}

Piece == [from : Places, status : Nat, query : Queries, block : Nat,
          last : BOOLEAN]

Copied == [data : Seq(Piece), cacheable : BOOLEAN]

Link == [peer : {"none", "open", "closed"}, request : Asks \cup {NoRequest},
         blocks : Seq(Piece), end : {"open", "eof", "reset"}]

TinyState == [pc : {"accept", "read", "write", "hung", "dead"},
              id : Ids \cup {0}, todo : Seq(Piece), child : BOOLEAN]

(* What the cache may hold.                                                  *)
Entry == {[key |-> Keys[uri], value |-> Answers[uri]] : uri \in DOMAIN Answers}

(* The thread has not asked for a connection to the server.                  *)
Early == {"waiting", "request", "headers", "lookup", "connect"}
Linked == {"send", "response"}
Parsed == {"headers", "lookup", "connect", "send", "response", "store"}
Storing == {"lookup", "connect", "send", "response", "store", "clear"}
Labels == Early \cup Linked \cup {"store", "clear", "close", "closed"}

PipelineType ==
    /\ pc \in [Ids -> Labels]
    /\ req \in [Ids -> Requests]
    /\ stored = [n \in Ids |-> stored[n]]
    /\ cached = [n \in Ids |-> cached[n]]
    /\ copied \in [Ids -> Copied]
    /\ link \in [Ids -> Link]
    /\ backlog \in [Servers -> Seq(Ids)]
    /\ tiny \in [Servers -> TinyState]
    /\ cache \in Seq(Entry)

(* The server that a request is meant for, if there is one.                  *)
Mine(n) == tiny[Server(n)]

QueuedAt(s, n) == \E k \in 1 .. Len(backlog[s]) : backlog[s][k] = n
Queued(n) == Server(n) \in Servers /\ QueuedAt(Server(n), n)

Serves(n) == Mine(n).pc \in {"read", "write"} /\ Mine(n).id = n
Serving(n) == Server(n) \in Servers /\ Serves(n)
Asked(n) == Queued(n) \/ (Serving(n) /\ Mine(n).pc = "read")

(* Where the thread is says what there is of its connection to the server.   *)
LinkFits(n) ==
    /\ pc[n] \in Early => link[n] = NoLink /\ ~Queued(n) /\ ~Serving(n)
    /\ link[n].peer = "open" <=> pc[n] \in Linked
    /\ pc[n] = "send" =>
         /\ link[n].request = NoRequest
         /\ link[n].blocks = << >> /\ link[n].end # "eof"
         /\ Serving(n) => Mine(n).pc = "read"
    /\ link[n].request \in {NoRequest, RequestTo(n)}
    /\ Queued(n) => ~Serving(n)
    /\ Asked(n) => link[n].blocks = << >> /\ link[n].end # "eof"

Whole(n) == Response(Server(n), Info(n).query)

(* What the thread has got, what is on the way and what the server has yet to *)
(* write are, one after the other, the response.                             *)
Agrees(blocks, n, from) ==
    /\ from + Len(blocks) <= Len(Whole(n))
    /\ \A k \in 1 .. Len(blocks) : blocks[k] = Whole(n)[from + k]

Coming(n, got) == Len(got) + Len(link[n].blocks)

FollowsOn(n, got) ==
    /\ Agrees(got, n, 0)
    /\ Agrees(link[n].blocks, n, Len(got))
    /\ link[n].end = "eof" => Coming(n, got) = Len(Whole(n))
    /\ Asked(n) => got = << >>
    /\ Serving(n) /\ Mine(n).pc = "write" /\ link[n].end = "open" =>
         /\ Agrees(Mine(n).todo, n, Coming(n, got))
         /\ Coming(n, got) + Len(Mine(n).todo) = Len(Whole(n))

CopyFits(n) ==
    /\ pc[n] \in Early \cup {"send"} =>
         copied[n] = [data |-> << >>, cacheable |-> TRUE]
    /\ pc[n] = "response" /\ copied[n].cacheable =>
         FollowsOn(n, copied[n].data)
    /\ pc[n] = "store" /\ copied[n].cacheable => copied[n].data = Whole(n)

ConnInv(n) ==
    /\ pc[n] \in Parsed => Info(n) # BadUri
    /\ pc[n] \in Linked \cup {"store"} => Server(n) \in Servers
    /\ cached[n] => pc[n] \in {"clear", "closed"} /\ link[n].peer = "none"
    /\ stored[n] # 0 => pc[n] \in Storing
    /\ LinkFits(n)
    /\ CopyFits(n)

QueuedOnce ==
    \A s \in Servers : \A j, k \in 1 .. Len(backlog[s]) :
      backlog[s][j] = backlog[s][k] => j = k

(* The servers have to do with none but their own connections.               *)
AtHome ==
    \A s \in Servers :
      /\ \A k \in 1 .. Len(backlog[s]) : Server(backlog[s][k]) = s
      /\ tiny[s].pc \in {"read", "write"} =>
           tiny[s].id \in Ids /\ Server(tiny[s].id) = s

PipelineInv ==
    /\ PipelineType
    /\ QueuedOnce
    /\ AtHome
    /\ \A n \in Ids : ConnInv(n)

-----------------------------------------------------------------------------
\* What the server answers is a sequence of blocks.
LEMMA ResponseType ==
    ASSUME NEW s \in Places, NEW q \in Queries
    PROVE  Response(s, q) \in Seq(Piece)
<1>1. ASSUME NEW status \in Nat, NEW count \in Nat
      PROVE  Blocks(s, status, q, count) \in Seq(Piece)
  BY <1>1 DEF Blocks, Piece
<1> DEFINE name == FileName(q)
<1>2. CASE name \notin DOMAIN Files
  BY <1>1, <1>2 DEF Response
<1>3. CASE name \in DOMAIN Files
  <2>1. Files[name].blocks \in Nat
    BY <1>3, FilesAssumption
  <2>2. Response(s, q) \in
          {Blocks(s, 403, q, 1), Blocks(s, 200, q, Files[name].blocks)}
    BY <1>3, Zenon DEF Response
  <2>3. Blocks(s, 403, q, 1) \in Seq(Piece)
    BY <1>1
  <2>4. Blocks(s, 200, q, Files[name].blocks) \in Seq(Piece)
    BY <1>1, <2>1
  <2>5. QED
    BY <2>2, <2>3, <2>4
<1>4. QED
  BY <1>2, <1>3

\* Every request asks for one of the queries, at one of the places.
LEMMA RequestType ==
    ASSUME PipelineType, NEW n \in Ids
    PROVE  /\ req[n].uri \in DOMAIN UriInfos
           /\ Info(n).query \in Queries
           /\ RequestTo(n) \in Asks
           /\ Whole(n) \in Seq(Piece)
<1>1. req[n] \in Requests /\ req[n].uri \in DOMAIN UriInfos
  BY DEF PipelineType, UriInfos
<1>2. Info(n).query \in Queries /\ Server(n) \in Places
  BY <1>1 DEF Info, Queries, Server, Places
<1>3. RequestTo(n) \in Asks
  BY <1>1, Zenon DEF RequestTo, Asks, Info
<1>4. QED
  BY <1>1, <1>2, <1>3, ResponseType DEF Whole

\* As long as the requests are the same, so is what they ask for and of whom.
LEMMA SameRequests ==
    ASSUME UNCHANGED req, NEW n
    PROVE  /\ Info(n)' = Info(n) /\ Server(n)' = Server(n)
           /\ Whole(n)' = Whole(n) /\ RequestTo(n)' = RequestTo(n)
BY DEF Info, Server, Whole, RequestTo

\* And when the servers do nothing, they wait for and serve the same.
LEMMA SameServers ==
    ASSUME UNCHANGED <<req, tiny, backlog>>, NEW n
    PROVE  /\ Mine(n)' = Mine(n)
           /\ Queued(n)' = Queued(n) /\ Serving(n)' = Serving(n)
           /\ Asked(n)' = Asked(n)
BY SameRequests DEF Mine, Queued, QueuedAt, Serving, Serves, Asked

LEMMA PipelineStarts == Init => PipelineInv
<1> SUFFICES ASSUME Init PROVE PipelineInv
  OBVIOUS
<1> USE DEF Init, TinyInit, NoLink
<1>1. PipelineType
  BY BatchesAssumption
     DEF PipelineType, Labels, Early, Copied, Link, TinyState
<1>2. QueuedOnce /\ AtHome
  BY DEF QueuedOnce, AtHome
<1>3. ASSUME NEW n \in Ids PROVE ConnInv(n)
  BY <1>3 DEF ConnInv, LinkFits, CopyFits, Queued, QueuedAt, Serving, Serves,
     Mine, Asked, Early, Linked, Parsed, Storing
<1>4. QED
  BY <1>1, <1>2, <1>3 DEF PipelineInv

\* What was read is followed by what comes, when the server goes on with the
\* connection as before or no longer knows of it, even if it is reset.
LEMMA FollowsStill ==
    ASSUME NEW m, NEW got, FollowsOn(m, got), UNCHANGED req,
           \/ link[m]' = link[m]
           \/ /\ link[m] \in Link
              /\ link[m]' = [link[m] EXCEPT !.end = "reset"],
           Queued(m)' => Queued(m),
           Serving(m)' => Serving(m) /\ Mine(m)' = Mine(m)
    PROVE  FollowsOn(m, got)'
<1>1. Asked(m)' => Asked(m)
  BY DEF Serving, Asked
<1>2. /\ link[m]'.blocks = link[m].blocks
      /\ link[m]'.end \in {link[m].end, "reset"}
  BY DEF Link
<1>3. Whole(m)' = Whole(m) /\ Coming(m, got)' = Coming(m, got)
  BY <1>2, SameRequests DEF Coming
<1>4. QED
  BY <1>1, <1>2, <1>3 DEF FollowsOn, Agrees

\* A connection stays in order when its thread does nothing and the server goes
\* on with it as before or no longer knows of it, even if it is reset.
LEMMA Untouched ==
    ASSUME NEW m, ConnInv(m), UNCHANGED req,
           pc[m]' = pc[m], stored[m]' = stored[m], cached[m]' = cached[m],
           copied[m]' = copied[m],
           \/ link[m]' = link[m]
           \/ /\ link[m] \in Link /\ pc[m] \notin Early
              /\ link[m]' = [link[m] EXCEPT !.end = "reset"],
           Queued(m)' => Queued(m),
           Serving(m)' => Serving(m) /\ Mine(m)' = Mine(m)
    PROVE  ConnInv(m)'
<1>1. Asked(m)' => Asked(m)
  BY DEF Serving, Asked
<1>2. /\ Whole(m)' = Whole(m) /\ Info(m)' = Info(m)
      /\ Server(m)' = Server(m) /\ RequestTo(m)' = RequestTo(m)
  BY SameRequests
<1>3. /\ link[m]'.peer = link[m].peer /\ link[m]'.request = link[m].request
      /\ link[m]'.blocks = link[m].blocks
      /\ link[m]'.end \in {link[m].end, "reset"}
      /\ pc[m] \in Early => link[m]' = link[m]
  BY DEF Link
<1>4. LinkFits(m)'
  <2>1. LinkFits(m)
    BY DEF ConnInv
  <2>2. QED
    BY <1>1, <1>2, <1>3, <2>1 DEF LinkFits
<1>5. CopyFits(m)'
  <2>1. CopyFits(m)
    BY DEF ConnInv
  <2>2. PICK got : got = copied[m].data
    OBVIOUS
  <2>3. FollowsOn(m, got) => FollowsOn(m, got)'
    BY FollowsStill
  <2>4. QED
    BY <1>2, <2>1, <2>2, <2>3 DEF CopyFits, FollowsOn
<1>6. QED
  BY <1>2, <1>3, <1>4, <1>5 DEF ConnInv

\* A step of one thread, which the server does not take part in.
LEMMA OneConnection ==
    ASSUME PipelineInv, NEW n \in Ids, PipelineType', ConnInv(n)',
           UNCHANGED <<req, tiny, backlog>>,
           \A m \in Ids \ {n} :
             /\ pc[m]' = pc[m] /\ stored[m]' = stored[m]
             /\ cached[m]' = cached[m]
             /\ copied[m]' = copied[m] /\ link[m]' = link[m]
    PROVE  PipelineInv'
<1>1. QueuedOnce'
  BY DEF PipelineInv, QueuedOnce
<1>2. AtHome'
  BY SameRequests DEF PipelineInv, AtHome
<1>3. ASSUME NEW m \in Ids \ {n} PROVE ConnInv(m)'
  BY Untouched, SameServers DEF PipelineInv
<1>4. QED
  BY <1>1, <1>2, <1>3 DEF PipelineInv


-----------------------------------------------------------------------------
\* A thread goes on without a word to the server: it has not asked for a
\* connection yet, or it has none any more.
LEMMA GoesOn ==
    ASSUME PipelineInv, NEW n \in Ids, NEW to \in Labels, Goto(n, to),
           UNCHANGED <<req, tiny, backlog, link, copied>>,
           cache' \in Seq(Entry),
           stored' = [stored EXCEPT ![n] = stored'[n]],
           cached' = [cached EXCEPT ![n] = cached'[n]],
           cached'[n] => to \in {"clear", "closed"} /\ link[n].peer = "none",
           pc[n] \notin Linked, to \notin Linked \cup {"store"},
           to \in Early => pc[n] \in Early,
           to \in Parsed => Info(n) # BadUri,
           stored'[n] # 0 => to \in Storing
    PROVE  PipelineInv'
<1>1. PipelineType'
  BY DEF PipelineInv, PipelineType, Goto
<1>2. pc'[n] = to /\ \A m \in Ids \ {n} : pc'[m] = pc[m]
  BY DEF PipelineInv, PipelineType, Goto
<1>3. LinkFits(n)'
  BY <1>2, SameRequests, SameServers
     DEF PipelineInv, ConnInv, LinkFits, Linked, Early
<1>4. CopyFits(n)'
  BY <1>2 DEF PipelineInv, ConnInv, CopyFits, Linked, Early
<1>5. ConnInv(n)'
  BY <1>2, <1>3, <1>4, SameRequests DEF ConnInv
<1>6. ASSUME NEW m \in Ids \ {n}
      PROVE  stored'[m] = stored[m] /\ cached'[m] = cached[m]
  BY DEF PipelineInv, PipelineType
<1>7. QED
  BY <1>1, <1>2, <1>5, <1>6, OneConnection

LEMMA TakeKeeps ==
    ASSUME PipelineInv, NEW n \in Ids, Take(n) PROVE PipelineInv'
BY GoesOn DEF Take, PipelineInv, PipelineType, ConnInv, tinyVars, Labels,
   Early, Linked, Parsed, Storing

LEMMA RequestLineKeeps ==
    ASSUME PipelineInv, NEW n \in Ids, RequestLine(n) PROVE PipelineInv'
<1>1. PICK to \in {"close", "headers"} :
        Goto(n, to) /\ (to = "headers" => Info(n) # BadUri)
  BY Zenon DEF RequestLine, MethodError, Refused
<1>2. /\ pc[n] = "request"
      /\ UNCHANGED <<req, tiny, backlog, link, stored, cached, copied, cache>>
  BY Zenon DEF RequestLine, tinyVars
<1>3. ~cached[n] /\ stored[n] = 0
  BY <1>2 DEF PipelineInv, ConnInv, Storing
<1>4. QED
  BY <1>1, <1>2, <1>3, GoesOn
     DEF PipelineInv, PipelineType, Labels, Early, Linked, Parsed, Storing

LEMMA ParseHeadersKeeps ==
    ASSUME PipelineInv, NEW n \in Ids, ParseHeaders(n) PROVE PipelineInv'
<1>1. PICK to \in {"clear", "lookup"} : Goto(n, to)
  BY DEF ParseHeaders
<1>2. /\ stored' = [stored EXCEPT ![n] = stored'[n]]
      /\ cached' = [cached EXCEPT ![n] = cached'[n]]
  BY DEF ParseHeaders, PipelineInv, PipelineType
<1>3. pc[n] = "headers" /\ Info(n) # BadUri /\ ~cached'[n]
  BY DEF ParseHeaders, PipelineInv, ConnInv, Parsed
<1>4. QED
  BY <1>1, <1>2, <1>3, GoesOn
     DEF ParseHeaders, PipelineInv, PipelineType, tinyVars, Labels, Early,
         Linked, Parsed, Storing

\* An answer from the cache moves to the end, whatever the entries are.
LEMMA LookupCache ==
    ASSUME NEW T, cache \in Seq(T), NEW n, Lookup(n) PROVE cache' \in Seq(T)
<1>1. ASSUME NEW k \in DOMAIN cache
      PROVE  Append(RemoveAt(cache, k), cache[k]) \in Seq(T)
  <2>1. k \in 1 .. Len(cache)
    OBVIOUS
  <2>2. SubSeq(cache, 1, k - 1) \in Seq(T)
    BY <2>1, SubSeqProperties
  <2>3. SubSeq(cache, k + 1, Len(cache)) \in Seq(T)
    BY <2>1, SubSeqProperties
  <2>4. RemoveAt(cache, k) \in Seq(T)
    BY <2>2, <2>3, ConcatProperties DEF RemoveAt
  <2>5. QED
    BY <2>1, <2>4
<1>2. QED
  BY <1>1 DEF Lookup

LEMMA LookupKeeps ==
    ASSUME PipelineInv, NEW n \in Ids, Lookup(n) PROVE PipelineInv'
<1>1. PICK to \in {"clear", "connect"} : Goto(n, to)
  BY DEF Lookup
<1>2. cache' \in Seq(Entry)
  BY LookupCache DEF PipelineInv, PipelineType
<1>3. /\ pc[n] = "lookup" /\ Info(n) # BadUri /\ link[n].peer = "none"
      /\ cached'[n] => pc'[n] = "clear"
  <2>1. pc[n] = "lookup" /\ Info(n) # BadUri /\ ~cached[n] /\ link[n] = NoLink
    BY DEF Lookup, PipelineInv, ConnInv, LinkFits, Parsed, Early
  <2>2. UNCHANGED cached \/ Goto(n, "clear")
    BY DEF Lookup
  <2>3. QED
    BY <2>1, <2>2 DEF NoLink, PipelineInv, PipelineType, Goto
<1>4. /\ stored' = [stored EXCEPT ![n] = stored'[n]]
      /\ cached' = [cached EXCEPT ![n] = cached'[n]]
  BY DEF Lookup, PipelineInv, PipelineType
<1>5. pc'[n] = to
  BY <1>1 DEF PipelineInv, PipelineType, Goto
<1>6. QED
  BY <1>1, <1>2, <1>3, <1>4, <1>5, GoesOn
     DEF Lookup, tinyVars, Labels, Early, Linked, Parsed, Storing

LEMMA ClearKeeps ==
    ASSUME PipelineInv, NEW n \in Ids, Clear(n) PROVE PipelineInv'
<1>1. pc[n] \in {"clear", "close"}
  BY DEF Clear
<1>2. /\ stored'[n] = 0
      /\ cached'[n] => link[n].peer = "none"
  BY <1>1 DEF Clear, PipelineInv, PipelineType, ConnInv, Storing
<1>3. /\ stored' = [stored EXCEPT ![n] = stored'[n]]
      /\ cached' = [cached EXCEPT ![n] = cached'[n]]
  BY DEF Clear, PipelineInv, PipelineType
<1>4. QED
  BY <1>1, <1>2, <1>3, GoesOn
     DEF Clear, PipelineInv, PipelineType, tinyVars, Labels, Early, Linked,
         Parsed

\* Once there is room for it, the new entry comes after those that stay.
LEMMA StoreCache ==
    ASSUME NEW T, cache \in Seq(T), NEW n, Store(n),
           copied[n].cacheable =>
             [key |-> Key(n), value |-> copied[n].data] \in T
    PROVE  cache' \in Seq(T)
<1>1. CASE ~copied[n].cacheable
  BY <1>1 DEF Store
<1>2. CASE copied[n].cacheable
  <2>1. PICK k \in 0 .. Len(cache) :
          cache' = Append(Without(cache, k),
                          [key |-> Key(n), value |-> copied[n].data])
    BY <1>2 DEF Store, Added
  <2>2. Without(cache, k) \in Seq(T)
    BY SubSeqProperties DEF Without
  <2>3. QED
    BY <1>2, <2>1, <2>2
<1>3. QED
  BY <1>1, <1>2

\* What is stored is what the server of the request answers to it.
LEMMA StoredAnswer ==
    ASSUME PipelineInv, NEW n \in Ids, pc[n] = "store", copied[n].cacheable
    PROVE  AnswerTo(n, copied[n].data)
<1>1. /\ copied[n].data = Response(Server(n), Info(n).query)
      /\ Server(n) \in Servers
  BY DEF PipelineInv, ConnInv, CopyFits, Whole
<1>2. req[n].uri \in DOMAIN UriInfos
  BY RequestType DEF PipelineInv
<1>3. req[n].uri \in DOMAIN Answers
  BY <1>1, <1>2, Zenon DEF Answers, Info, Server
<1>4. Answers[req[n].uri] = copied[n].data
  BY <1>1, <1>3, Zenon DEF Answers, Info, Server
<1>5. QED
  BY <1>3, <1>4 DEF AnswerTo

LEMMA StoreKeeps ==
    ASSUME PipelineInv, NEW n \in Ids, Store(n) PROVE PipelineInv'
<1>1. pc[n] = "store" /\ Goto(n, "clear") /\ cache \in Seq(Entry)
  BY DEF Store, PipelineInv, PipelineType
<1>2. cache' \in Seq(Entry)
  <2>1. copied[n].cacheable =>
          [key |-> Key(n), value |-> copied[n].data] \in Entry
    BY <1>1, StoredAnswer DEF AnswerTo, Entry, Key
  <2>2. QED
    BY <1>1, <2>1, StoreCache
<1>3. /\ stored' = [stored EXCEPT ![n] = stored'[n]]
      /\ cached' = [cached EXCEPT ![n] = cached'[n]] /\ ~cached'[n]
  BY <1>1 DEF Store, PipelineInv, PipelineType, ConnInv
<1>4. QED
  BY <1>1, <1>2, <1>3, GoesOn
     DEF Store, tinyVars, Labels, Early, Linked, Parsed, Storing

-----------------------------------------------------------------------------
\* The thread lets go of the server: what it has copied is stored only if it is
\* the whole response.
LEMMA LetsGo ==
    ASSUME PipelineInv, NEW n \in Ids, NEW to \in {"store", "clear"},
           HangUp(n), Goto(n, to), pc[n] \in Linked,
           UNCHANGED <<req, tiny, backlog, stored, cached, cache>>,
           copied' = [copied EXCEPT ![n] = copied'[n]], copied'[n] \in Copied,
           to = "store" /\ copied'[n].cacheable => copied'[n].data = Whole(n)
    PROVE  PipelineInv'
<1>1. pc'[n] = to /\ \A m \in Ids \ {n} : pc'[m] = pc[m]
  BY DEF PipelineInv, PipelineType, Goto
<1>2. /\ link'[n] = [link[n] EXCEPT !.peer = "closed"]
      /\ \A m \in Ids \ {n} : link'[m] = link[m]
  BY DEF PipelineInv, PipelineType, HangUp
<1>3. PipelineType'
  <2>1. link' \in [Ids -> Link]
    <3>1. link \in [Ids -> Link]
      BY DEF PipelineInv, PipelineType
    <3>2. [link[n] EXCEPT !.peer = "closed"] \in Link
      BY <3>1 DEF Link
    <3>3. link' = [link EXCEPT ![n] = [link[n] EXCEPT !.peer = "closed"]]
      BY DEF HangUp
    <3>4. QED
      BY <3>1, <3>2, <3>3
  <2>2. pc' \in [Ids -> Labels]
    BY DEF PipelineInv, PipelineType, Goto, Labels
  <2>3. copied' \in [Ids -> Copied]
    BY DEF PipelineInv, PipelineType
  <2>4. QED
    BY <2>1, <2>2, <2>3 DEF PipelineInv, PipelineType
<1>4. LinkFits(n)'
  <2>1. LinkFits(n) /\ link[n] \in Link
    BY DEF PipelineInv, PipelineType, ConnInv
  <2>2. QED
    BY <1>1, <1>2, <2>1, SameRequests, SameServers
       DEF LinkFits, Link, Linked, Early
<1>5. CopyFits(n)'
  BY <1>1, SameRequests DEF CopyFits, Early
<1>6. ConnInv(n)'
  BY <1>1, <1>4, <1>5, SameRequests
     DEF PipelineInv, ConnInv, Linked, Parsed, Storing
<1>7. ASSUME NEW m \in Ids \ {n} PROVE copied'[m] = copied[m]
  BY DEF PipelineInv, PipelineType
<1>8. QED
  BY <1>1, <1>2, <1>3, <1>6, <1>7, OneConnection

\* When nothing is to come any more the whole response was read.
LEMMA FollowsToTheEnd ==
    ASSUME PipelineInv, NEW n \in Ids, NEW got \in Seq(Piece),
           FollowsOn(n, got), link[n].blocks = << >>, link[n].end = "eof"
    PROVE  got = Whole(n)
<1>1. Whole(n) \in Seq(Piece)
  BY RequestType DEF PipelineInv
<1>2. Len(got) = Len(Whole(n)) /\ Agrees(got, n, 0)
  BY <1>1 DEF FollowsOn, Coming
<1>3. \A k \in 1 .. Len(got) : got[k] = Whole(n)[k]
  BY <1>2 DEF Agrees
<1>4. QED
  BY <1>1, <1>2, <1>3, SeqEqual

LEMMA EndOfResponseKeeps ==
    ASSUME PipelineInv, NEW n \in Ids, EndOfResponse(n) PROVE PipelineInv'
<1>1. pc[n] = "response" /\ link[n].blocks = << >> /\ link[n].end = "eof"
  BY DEF EndOfResponse
<1>2. copied \in [Ids -> Copied]
  BY DEF PipelineInv, PipelineType
<1>3. ASSUME copied[n].cacheable PROVE copied[n].data = Whole(n)
  <2>1. copied[n].data \in Seq(Piece) /\ FollowsOn(n, copied[n].data)
    BY <1>1, <1>2, <1>3 DEF PipelineInv, ConnInv, CopyFits, Copied
  <2>2. QED
    BY <1>1, <2>1, FollowsToTheEnd
<1>4. QED
  BY <1>1, <1>2, <1>3, LetsGo DEF EndOfResponse, Linked

LEMMA ReadErrorKeeps ==
    ASSUME PipelineInv, NEW n \in Ids, ReadError(n) PROVE PipelineInv'
<1>1. copied \in [Ids -> Copied]
  BY DEF PipelineInv, PipelineType
<1>2. CASE UNCHANGED <<pc, copied, link>>
  <2>1. PipelineType'
    BY <1>2 DEF ReadError, PipelineInv, PipelineType
  <2>2. ConnInv(n)'
    BY <1>2, Untouched, SameServers DEF ReadError, PipelineInv
  <2>3. QED
    BY <1>2, <2>1, <2>2, OneConnection DEF ReadError
<1>3. CASE /\ HangUp(n) /\ Goto(n, "store")
           /\ copied' = [copied EXCEPT ![n].cacheable = FALSE]
  <2>1. copied'[n] \in Copied /\ ~copied'[n].cacheable
    BY <1>1, <1>3 DEF Copied
  <2>2. copied' = [copied EXCEPT ![n] = copied'[n]]
    BY <1>1, <1>3
  <2>3. QED
    BY <1>3, <2>1, <2>2, LetsGo DEF ReadError, Linked
<1>4. QED
  BY <1>2, <1>3 DEF ReadError, ReadErrorIsALength

-----------------------------------------------------------------------------
\* A new value for one connection to the server.
LEMMA LinkChanged ==
    ASSUME PipelineInv, NEW n \in Ids, NEW l \in Link,
           link' = [link EXCEPT ![n] = l]
    PROVE  /\ link' \in [Ids -> Link] /\ link'[n] = l
           /\ \A m \in Ids \ {n} : link'[m] = link[m]
BY DEF PipelineInv, PipelineType

\* The connection is queued at the server, which has not seen it before.
LEMMA ConnectCases ==
    ASSUME NEW n, Connect(n)
    PROVE  \/ \E number \in {400, 500} :
                /\ Answered(n, <<number>>) /\ Goto(n, "clear")
                /\ UNCHANGED <<backlog, link>>
           \/ /\ Server(n) \in Servers
              /\ backlog' = [backlog EXCEPT ![Server(n)] = Append(@, n)]
              /\ link' = [link EXCEPT ![n].peer = "open"]
              /\ Goto(n, "send") /\ UNCHANGED out
BY Zenon DEF Connect, Listens

\* One more waits at the server, at the end; nobody else does.
LEMMA QueuedLast ==
    ASSUME PipelineInv, NEW n \in Ids, NEW s \in Servers, s = Server(n),
           UNCHANGED req,
           backlog' = [backlog EXCEPT ![s] = Append(@, n)]
    PROVE  /\ backlog' \in [Servers -> Seq(Ids)]
           /\ Len(backlog'[s]) = Len(backlog[s]) + 1
           /\ \A k \in 1 .. Len(backlog[s]) : backlog'[s][k] = backlog[s][k]
           /\ backlog'[s][Len(backlog[s]) + 1] = n
           /\ \A r \in Servers \ {s} : backlog'[r] = backlog[r]
           /\ \A m \in Ids \ {n} : Queued(m)' => Queued(m)
<1>1. backlog \in [Servers -> Seq(Ids)] /\ backlog[s] \in Seq(Ids)
  BY DEF PipelineInv, PipelineType
<1>2. PICK old, new : old = backlog[s] /\ new = Append(old, n)
  OBVIOUS
<1>3. /\ old \in Seq(Ids) /\ new \in Seq(Ids) /\ Len(new) = Len(old) + 1
      /\ \A k \in 1 .. Len(old) : new[k] = old[k]
      /\ new[Len(old) + 1] = n
  BY <1>1, <1>2
<1>4. /\ backlog' \in [Servers -> Seq(Ids)] /\ backlog'[s] = new
      /\ \A r \in Servers \ {s} : backlog'[r] = backlog[r]
  BY <1>1, <1>2, <1>3
<1>5. ASSUME NEW m \in Ids \ {n}, Queued(m)' PROVE Queued(m)
  <2>1. PICK r : r = Server(m) /\ r = Server(m)'
    BY SameRequests
  <2>2. r \in Servers /\ QueuedAt(r, m)'
    BY <1>5, <2>1 DEF Queued
  <2>3. CASE r # s
    BY <1>4, <2>1, <2>2, <2>3 DEF Queued, QueuedAt
  <2>4. CASE r = s
    <3>1. PICK len \in Nat : len = Len(old)
      BY <1>3
    <3>2. PICK k \in 1 .. len + 1 : new[k] = m
      BY <1>3, <1>4, <2>2, <2>4, <3>1 DEF QueuedAt
    <3>3. k \in 1 .. len /\ old[k] = m
      BY <1>3, <1>5, <3>1, <3>2
    <3>4. QED
      BY <1>2, <2>1, <2>2, <2>4, <3>1, <3>3 DEF Queued, QueuedAt
  <2>5. QED
    BY <2>3, <2>4
<1>6. QED
  BY <1>2, <1>3, <1>4, <1>5

\* The connection is queued at the server, which has not seen it before.
LEMMA ConnectKeeps ==
    ASSUME PipelineInv, NEW n \in Ids, Connect(n) PROVE PipelineInv'
<1>1. \/ Goto(n, "clear") /\ UNCHANGED <<backlog, link>>
      \/ /\ Server(n) \in Servers
         /\ backlog' = [backlog EXCEPT ![Server(n)] = Append(@, n)]
         /\ link' = [link EXCEPT ![n].peer = "open"]
         /\ Goto(n, "send")
  BY ConnectCases
<1>2. /\ pc[n] = "connect" /\ link \in [Ids -> Link] /\ ~cached[n]
      /\ UNCHANGED <<tiny, req, stored, cached, copied, cache>>
  BY DEF Connect, PipelineInv, PipelineType, ConnInv
<1>3. /\ stored' = [stored EXCEPT ![n] = stored'[n]] /\ cache' \in Seq(Entry)
      /\ cached' = [cached EXCEPT ![n] = cached'[n]]
  BY <1>2 DEF PipelineInv, PipelineType
<1>4. CASE Goto(n, "clear") /\ UNCHANGED <<backlog, link>>
  BY <1>2, <1>3, <1>4, GoesOn
     DEF PipelineInv, ConnInv, Labels, Early, Linked, Parsed, Storing
<1>5. ASSUME NEW s \in Servers, s = Server(n),
             backlog' = [backlog EXCEPT ![s] = Append(@, n)],
             link' = [link EXCEPT ![n].peer = "open"], Goto(n, "send")
      PROVE  PipelineInv'
  <2>1. /\ link[n] = NoLink /\ ~Queued(n) /\ ~Serving(n) /\ Info(n) # BadUri
        /\ copied[n] = [data |-> << >>, cacheable |-> TRUE]
    BY <1>2 DEF PipelineInv, ConnInv, LinkFits, CopyFits, Early, Parsed
  <2> DEFINE l == [peer |-> "open", request |-> NoRequest, blocks |-> << >>,
                   end |-> "open"]
  <2>2. l \in Link
    BY DEF Link
  <2>3. link' = [link EXCEPT ![n] = l]
    <3>1. link' = [link EXCEPT ![n] = [link[n] EXCEPT !.peer = "open"]]
      BY <1>5
    <3>2. [NoLink EXCEPT !.peer = "open"] = l
      BY DEF NoLink
    <3>3. QED
      BY <2>1, <3>1, <3>2
  <2> HIDE DEF l
  <2>4. /\ link' \in [Ids -> Link] /\ link'[n] = l
        /\ \A m \in Ids \ {n} : link'[m] = link[m]
    BY <2>2, <2>3, LinkChanged
  <2>5. pc'[n] = "send" /\ \A m \in Ids \ {n} : pc'[m] = pc[m]
    BY <1>5 DEF PipelineInv, PipelineType, Goto
  <2>6. /\ backlog' \in [Servers -> Seq(Ids)]
        /\ Len(backlog'[s]) = Len(backlog[s]) + 1
        /\ \A k \in 1 .. Len(backlog[s]) : backlog'[s][k] = backlog[s][k]
        /\ backlog'[s][Len(backlog[s]) + 1] = n
        /\ \A r \in Servers \ {s} : backlog'[r] = backlog[r]
        /\ \A m \in Ids \ {n} : Queued(m)' => Queued(m)
    <3>1. UNCHANGED req
      BY <1>2
    <3>2. QED
      BY <1>5, <3>1, QueuedLast, Zenon
  <2>7. PipelineType'
    BY <1>2, <1>5, <2>4, <2>6
       DEF PipelineInv, PipelineType, Goto, Labels, Linked
  <2>8. PICK len \in Nat : len = Len(backlog[s])
    <3>1. backlog[s] \in Seq(Ids)
      BY <1>5 DEF PipelineInv, PipelineType
    <3>2. QED
      BY <3>1
  <2>9. QueuedOnce'
    <3>1. ASSUME NEW r \in Servers,
                 NEW j \in 1 .. Len(backlog'[r]),
                 NEW k \in 1 .. Len(backlog'[r]),
                 backlog'[r][j] = backlog'[r][k]
          PROVE  j = k
      <4>1. CASE r # s
        BY <2>6, <3>1, <4>1 DEF PipelineInv, QueuedOnce
      <4>2. CASE r = s
        <5>1. ~\E i \in 1 .. len : backlog[s][i] = n
          BY <1>5, <2>1, <2>8 DEF Queued, QueuedAt
        <5>2. ASSUME NEW i \in 1 .. len
              PROVE  backlog'[s][i] = backlog[s][i] /\ backlog'[s][i] # n
          BY <2>6, <2>8, <5>1
        <5>3. j \in 1 .. len + 1 /\ k \in 1 .. len + 1
          BY <2>6, <2>8, <3>1, <4>2
        <5>4. backlog'[s][len + 1] = n
          BY <2>6, <2>8
        <5>5. CASE j = len + 1 \/ k = len + 1
          BY <3>1, <4>2, <5>2, <5>3, <5>4, <5>5
        <5>6. CASE j # len + 1 /\ k # len + 1
          <6>1. j \in 1 .. len /\ k \in 1 .. len
            BY <5>3, <5>6
          <6>2. backlog[s][j] = backlog[s][k]
            BY <3>1, <4>2, <5>2, <6>1
          <6>3. QED
            BY <2>8, <6>1, <6>2 DEF PipelineInv, QueuedOnce
        <5>7. QED
          BY <5>5, <5>6
      <4>3. QED
        BY <4>1, <4>2
    <3>2. QED
      BY <3>1 DEF QueuedOnce
  <2>10. AtHome'
    <3>1. ASSUME NEW r \in Servers, NEW k \in 1 .. Len(backlog'[r])
          PROVE  Server(backlog'[r][k]) = r
      <4>1. CASE r # s
        BY <1>2, <2>6, <3>1, <4>1, SameRequests DEF PipelineInv, AtHome
      <4>2. CASE r = s /\ k = len + 1
        BY <1>2, <1>5, <2>6, <2>8, <4>2, SameRequests
      <4>3. CASE r = s /\ k # len + 1
        <5>1. k \in 1 .. len
          BY <2>6, <2>8, <3>1, <4>3
        <5>2. backlog'[r][k] = backlog[s][k] /\ Server(backlog[s][k]) = s
          BY <2>6, <2>8, <4>3, <5>1 DEF PipelineInv, AtHome
        <5>3. QED
          BY <1>2, <4>3, <5>2, SameRequests
      <4>4. QED
        BY <4>1, <4>2, <4>3
    <3>2. QED
      BY <1>2, <3>1, SameRequests DEF PipelineInv, AtHome
  <2>11. ConnInv(n)'
    <3>1. /\ Server(n)' = Server(n) /\ Info(n)' = Info(n)
          /\ Mine(n)' = Mine(n) /\ Serving(n)' = Serving(n)
      BY <1>2, SameRequests DEF Mine, Serving, Serves
    <3>2. LinkFits(n)'
      BY <1>2, <2>1, <2>4, <2>5, <3>1
         DEF LinkFits, Asked, l, NoLink, Early, Linked
    <3>3. CopyFits(n)'
      BY <1>2, <2>1, <2>5 DEF CopyFits
    <3>4. QED
      BY <1>2, <1>5, <2>1, <2>5, <3>1, <3>2, <3>3 DEF ConnInv, Storing, Parsed
  <2>12. ASSUME NEW m \in Ids \ {n} PROVE ConnInv(m)'
    <3>1. Mine(m)' = Mine(m) /\ Serving(m)' = Serving(m)
      BY <1>2, SameRequests DEF Mine, Serving, Serves
    <3>2. QED
      BY <1>2, <2>4, <2>5, <2>6, <3>1, Untouched DEF PipelineInv
  <2>13. QED
    BY <2>7, <2>9, <2>10, <2>11, <2>12 DEF PipelineInv
<1>6. QED
  BY <1>1, <1>4, <1>5

LEMMA NothingReadYet ==
    ASSUME PipelineInv, NEW n \in Ids, UNCHANGED <<req, tiny, backlog>>,
           Serving(n) => Mine(n).pc = "read",
           link'[n].blocks = << >>, link'[n].end = "open"
    PROVE  FollowsOn(n, << >>)'
<1>1. Whole(n) \in Seq(Piece) /\ Whole(n)' = Whole(n)
  BY RequestType, SameRequests DEF PipelineInv
<1>2. Agrees(<< >>, n, 0)'
  BY <1>1 DEF Agrees
<1>3. Serving(n)' => Mine(n)'.pc = "read"
  BY SameServers
<1>4. QED
  BY <1>2, <1>3 DEF FollowsOn

LEMMA SendRequestKeeps ==
    ASSUME PipelineInv, NEW n \in Ids, SendRequest(n) PROVE PipelineInv'
<1>1. /\ pc[n] = "send" /\ link \in [Ids -> Link] /\ copied \in [Ids -> Copied]
      /\ UNCHANGED <<tiny, backlog, req, stored, cached, copied, cache>>
  BY DEF SendRequest, PipelineInv, PipelineType
<1>2. CASE HangUp(n) /\ Goto(n, "clear")
  <2>1. copied' = [copied EXCEPT ![n] = copied'[n]] /\ copied'[n] \in Copied
    BY <1>1
  <2>2. QED
    BY <1>1, <1>2, <2>1, LetsGo DEF Linked
<1>3. CASE /\ link[n].end = "open" /\ RequestEnded(n) /\ Goto(n, "response")
  <2>1. /\ LinkFits(n) /\ CopyFits(n) /\ Info(n) # BadUri /\ link[n] \in Link
        /\ link[n].peer = "open" /\ link[n].blocks = << >>
        /\ Serving(n) => Mine(n).pc = "read"
        /\ copied[n] = [data |-> << >>, cacheable |-> TRUE]
        /\ ~cached[n] /\ Server(n) \in Servers
    BY <1>1 DEF PipelineInv, ConnInv, LinkFits, CopyFits, Parsed, Linked
  <2>2. PICK request : request = RequestTo(n)
    OBVIOUS
  <2> DEFINE l == [link[n] EXCEPT !.request = request]
  <2>3. l \in Link
    BY <2>1, <2>2, RequestType DEF PipelineInv, Link
  <2>4. link' = [link EXCEPT ![n] = l]
    BY <1>3, <2>2 DEF RequestEnded
  <2>5. /\ l.peer = "open" /\ l.blocks = << >> /\ l.end = "open"
        /\ l.request = request
    BY <1>3, <2>1 DEF Link
  <2> HIDE DEF l
  <2>6. /\ link' \in [Ids -> Link] /\ link'[n] = l
        /\ \A m \in Ids \ {n} : link'[m] = link[m]
    BY <2>3, <2>4, LinkChanged
  <2>7. pc'[n] = "response" /\ \A m \in Ids \ {n} : pc'[m] = pc[m]
    BY <1>3 DEF PipelineInv, PipelineType, Goto
  <2>8. PipelineType'
    BY <1>1, <1>3, <2>6 DEF PipelineInv, PipelineType, Goto, Labels, Linked
  <2>9. LinkFits(n)'
    BY <1>1, <2>1, <2>2, <2>5, <2>6, <2>7, SameRequests, SameServers
       DEF LinkFits, Early, Linked
  <2>10. CopyFits(n)'
    <3>1. FollowsOn(n, << >>)'
      BY <1>1, <2>1, <2>5, <2>6, NothingReadYet
    <3>2. QED
      BY <1>1, <2>1, <2>7, <3>1 DEF CopyFits, FollowsOn, Early
  <2>11. ConnInv(n)'
    BY <1>1, <2>1, <2>7, <2>9, <2>10, SameRequests
       DEF PipelineInv, ConnInv, Storing
  <2>12. QED
    BY <1>1, <2>6, <2>7, <2>8, <2>11, OneConnection
<1>4. QED
  BY <1>2, <1>3 DEF SendRequest

\* What is still cacheable has the block that was read at its end.
LEMMA WithBlockType ==
    ASSUME NEW copy \in Copied, NEW block \in Piece
    PROVE  /\ WithBlock(copy, block) \in Copied
           /\ WithBlock(copy, block).cacheable =>
                /\ copy.cacheable
                /\ WithBlock(copy, block).data = Append(copy.data, block)
<1>1. CASE copy.cacheable /\ Len(copy.data) + 1 <= MAX_OBJECT_SIZE
  <2>1. WithBlock(copy, block) = [copy EXCEPT !.data = Append(@, block)]
    BY <1>1 DEF WithBlock
  <2>2. Append(copy.data, block) \in Seq(Piece)
    BY DEF Copied
  <2>3. QED
    BY <1>1, <2>1, <2>2 DEF Copied
<1>2. CASE ~(copy.cacheable /\ Len(copy.data) + 1 <= MAX_OBJECT_SIZE)
  BY <1>2 DEF WithBlock, Copied
<1>3. QED
  BY <1>1, <1>2

\* The block that is read goes from what is on the way to what was read.
LEMMA FollowsRead ==
    ASSUME PipelineInv, NEW n \in Ids, NEW got \in Seq(Piece),
           NEW block, block = Head(link[n].blocks), FollowsOn(n, got),
           ~Asked(n), link[n].blocks # << >>,
           link'[n].blocks = Tail(link[n].blocks), link'[n].end = link[n].end,
           UNCHANGED <<req, tiny, backlog>>
    PROVE  FollowsOn(n, Append(got, block))'
<1> DEFINE blocks == link[n].blocks
           d == Len(got)
           b == Len(blocks)
           R == Whole(n)
<1>1. blocks \in Seq(Piece) /\ R \in Seq(Piece) /\ block \in Piece
  BY RequestType DEF PipelineInv, PipelineType, Link
<1>2. PICK t : t = Tail(blocks)
  OBVIOUS
<1>3. PICK h : h = Append(got, block)
  OBVIOUS
<1>4. /\ d \in Nat /\ b \in Nat /\ b >= 1 /\ Len(R) \in Nat
      /\ Len(h) = d + 1 /\ Len(t) = b - 1
      /\ \A k \in 1 .. d : h[k] = got[k]
      /\ h[d + 1] = blocks[1]
      /\ \A k \in 1 .. b - 1 : t[k] = blocks[k + 1]
  BY <1>1, <1>2, <1>3
<1> HIDE DEF d, b, R
<1>5. /\ d + b <= Len(R) /\ \A k \in 1 .. d : got[k] = R[k]
      /\ \A k \in 1 .. b : blocks[k] = R[d + k]
  <2>1. Agrees(got, n, 0) /\ Agrees(blocks, n, d)
    BY DEF FollowsOn, d
  <2>2. 0 + d <= Len(R) /\ \A k \in 1 .. d : got[k] = R[0 + k]
    BY <2>1 DEF Agrees, d, R
  <2>3. d + b <= Len(R) /\ \A k \in 1 .. b : blocks[k] = R[d + k]
    BY <2>1 DEF Agrees, b, R
  <2>4. ASSUME NEW k \in 1 .. d PROVE got[k] = R[k]
    <3>1. 0 + k = k
      BY <1>4
    <3>2. QED
      BY <2>2, <3>1
  <2>5. QED
    BY <2>3, <2>4
<1>6. Whole(n)' = R /\ link'[n].blocks = t
  BY <1>2, SameRequests DEF R
<1>7. Coming(n, h)' = d + b /\ Coming(n, got) = d + b
  <2>1. Coming(n, h)' = Len(h) + Len(t)
    BY <1>6 DEF Coming
  <2>2. Coming(n, got) = d + b
    BY DEF Coming, d, b
  <2>3. QED
    BY <1>4, <2>1, <2>2
<1>8. Agrees(h, n, 0)'
  BY <1>4, <1>5, <1>6 DEF Agrees
<1>9. Agrees(link[n].blocks, n, Len(h))'
  <2>1. (d + 1) + (b - 1) <= Len(R)
    BY <1>4, <1>5
  <2>2. ASSUME NEW k \in 1 .. b - 1 PROVE t[k] = R[(d + 1) + k]
    <3>1. k + 1 \in 1 .. b /\ (d + 1) + k = d + (k + 1)
      BY <1>4
    <3>2. QED
      BY <1>4, <1>5, <3>1
  <2>3. QED
    BY <1>4, <1>6, <2>1, <2>2 DEF Agrees
<1>10. link'[n].end = "eof" => Coming(n, h)' = Len(Whole(n)')
  BY <1>6, <1>7 DEF FollowsOn, R
<1>11. Serving(n)' /\ Mine(n)'.pc = "write" /\ link'[n].end = "open" =>
         /\ Agrees(Mine(n).todo, n, Coming(n, h))'
         /\ Coming(n, h)' + Len(Mine(n)'.todo) = Len(Whole(n)')
  BY <1>6, <1>7, SameServers DEF FollowsOn, Agrees, R
<1>12. ~Asked(n)'
  BY SameServers
<1>13. FollowsOn(n, h)'
  BY <1>8, <1>9, <1>10, <1>11, <1>12 DEF FollowsOn
<1>14. QED
  BY <1>3, <1>13 DEF FollowsOn

\* The block that is read moves from the connection to the copy.
LEMMA CopyAndPassKeeps ==
    ASSUME PipelineInv, NEW n \in Ids, CopyAndPass(n) PROVE PipelineInv'
<1> DEFINE data == copied[n].data
           blocks == link[n].blocks
           block == Head(blocks)
<1>1. /\ pc[n] = "response" /\ link \in [Ids -> Link]
      /\ copied \in [Ids -> Copied] /\ blocks # << >>
      /\ UNCHANGED <<tiny, backlog, req, stored, cached, cache>>
  BY DEF CopyAndPass, CanRead, PipelineInv, PipelineType
<1>2. /\ data \in Seq(Piece) /\ blocks \in Seq(Piece) /\ block \in Piece
      /\ Whole(n) \in Seq(Piece) /\ link[n] \in Link
  BY <1>1, RequestType DEF Copied, Link, PipelineInv
<1>3. /\ copied' = [copied EXCEPT ![n] = copied'[n]] /\ copied'[n] \in Copied
      /\ copied'[n].cacheable =>
           copied[n].cacheable /\ copied'[n].data = Append(data, block)
  <2>1. copied' = [copied EXCEPT ![n] = WithBlock(copied[n], block)]
    BY DEF CopyAndPass
  <2>2. copied[n] \in Copied
    BY <1>1
  <2>3. QED
    BY <1>1, <1>2, <2>1, <2>2, WithBlockType
<1>4. CASE HangUp(n) /\ Goto(n, "clear")
  BY <1>1, <1>3, <1>4, LetsGo DEF Linked
<1>5. CASE link' = [link EXCEPT ![n].blocks = Tail(@)] /\ UNCHANGED pc
  <2> DEFINE l == [link[n] EXCEPT !.blocks = Tail(blocks)]
  <2>1. /\ LinkFits(n) /\ CopyFits(n) /\ link[n].peer = "open" /\ ~Asked(n)
    BY <1>1 DEF PipelineInv, ConnInv, LinkFits, Linked
  <2>2. l \in Link
    <3>1. Tail(blocks) \in Seq(Piece)
      BY <1>1, <1>2
    <3>2. ASSUME NEW x \in Seq(Piece)
          PROVE  [link[n] EXCEPT !.blocks = x] \in Link
      BY <1>2 DEF Link
    <3>3. QED
      BY <3>1, <3>2
  <2>3. link' = [link EXCEPT ![n] = l]
    BY <1>5
  <2>4. /\ l.peer = "open" /\ l.blocks = Tail(blocks) /\ l.end = link[n].end
        /\ l.request = link[n].request
    BY <1>2, <2>1 DEF Link
  <2> HIDE DEF l
  <2>5. /\ link' \in [Ids -> Link] /\ link'[n] = l
        /\ \A m \in Ids \ {n} : link'[m] = link[m]
    BY <2>2, <2>3, LinkChanged
  <2>6. PipelineType'
    BY <1>1, <1>3, <1>5, <2>5 DEF PipelineInv, PipelineType
  <2>7. ~Asked(n)' /\ Serving(n)' = Serving(n)
    BY <1>1, <2>1, SameServers
  <2>8. LinkFits(n)'
    BY <1>1, <1>5, <2>1, <2>4, <2>5, <2>7, SameRequests, SameServers
       DEF LinkFits, Early, Linked
  <2>9. CopyFits(n)'
    <3>1. SUFFICES ASSUME copied'[n].cacheable
                   PROVE  FollowsOn(n, copied[n].data)'
      BY <1>1, <1>5 DEF CopyFits, Early
    <3>2. FollowsOn(n, data) /\ copied'[n].data = Append(data, block)
      BY <1>1, <1>3, <2>1, <3>1 DEF CopyFits
    <3>3. PICK got \in Seq(Piece) : got = data
      BY <1>2
    <3>4. PICK x : x = block
      OBVIOUS
    <3>5. FollowsOn(n, Append(got, x))'
      BY <1>1, <2>1, <2>4, <2>5, <3>2, <3>3, <3>4, FollowsRead
    <3>6. QED
      BY <3>2, <3>3, <3>4, <3>5 DEF FollowsOn
  <2>10. ConnInv(n)'
    BY <1>1, <1>5, <2>5, <2>4, <2>8, <2>9, SameRequests
       DEF PipelineInv, ConnInv
  <2>11. ASSUME NEW m \in Ids \ {n} PROVE copied'[m] = copied[m]
    BY <1>1, <1>3
  <2>12. QED
    BY <1>1, <1>5, <2>5, <2>6, <2>10, <2>11, OneConnection
<1>6. QED
  BY <1>4, <1>5 DEF CopyAndPass

-----------------------------------------------------------------------------
\* A step of the server on the connection it serves.
LEMMA ServerGoesOn ==
    ASSUME PipelineInv, NEW s \in Servers, NEW n \in Ids, s = Server(n),
           Serving(n), ConnInv(n)',
           UNCHANGED <<backlog, proxyVars>>,
           NEW t \in TinyState, tiny' = [tiny EXCEPT ![s] = t],
           t.id = n \/ t.pc \notin {"read", "write"},
           link' \in [Ids -> Link], \A m \in Ids \ {n} : link'[m] = link[m]
    PROVE  PipelineInv'
<1>1. /\ tiny' \in [Servers -> TinyState] /\ tiny'[s] = t
      /\ \A r \in Servers \ {s} : tiny'[r] = tiny[r]
  BY DEF PipelineInv, PipelineType
<1>2. PipelineType'
  BY <1>1 DEF PipelineInv, PipelineType, proxyVars
<1>3. QueuedOnce' /\ AtHome'
  BY <1>1, SameRequests DEF PipelineInv, QueuedOnce, AtHome, proxyVars
<1>4. ASSUME NEW m \in Ids \ {n} PROVE ConnInv(m)'
  <2>1. PICK r : r = Server(m) /\ r = Server(m)'
    BY SameRequests DEF proxyVars
  <2>2. Queued(m)' = Queued(m)
    BY <2>1 DEF Queued, QueuedAt
  <2>3. Serving(m)' => Serving(m) /\ Mine(m)' = Mine(m)
    BY <1>1, <2>1 DEF Serving, Serves, Mine
  <2>4. QED
    BY <2>2, <2>3, Untouched DEF PipelineInv, proxyVars
<1>5. QED
  BY <1>2, <1>3, <1>4 DEF PipelineInv

\* A server that stops serving, hung or dead, leaves every connection in order.
LEMMA ServerStops ==
    ASSUME PipelineInv, NEW s \in Servers, NEW to \in {"hung", "dead"},
           tiny' = [tiny EXCEPT ![s].pc = to], UNCHANGED proxyVars,
           backlog' \in {backlog, [backlog EXCEPT ![s] = << >>]},
           link' \in [Ids -> Link],
           \A n \in Ids :
             \/ link'[n] = link[n]
             \/ /\ Serving(n) \/ Queued(n)
                /\ link'[n] = [link[n] EXCEPT !.end = "reset"]
    PROVE  PipelineInv'
<1>1. /\ tiny' \in [Servers -> TinyState] /\ tiny'[s].pc = to
      /\ \A r \in Servers \ {s} : tiny'[r] = tiny[r]
  <2>1. tiny \in [Servers -> TinyState] /\ tiny[s] \in TinyState
    BY DEF PipelineInv, PipelineType
  <2>2. PICK t : t = [tiny[s] EXCEPT !.pc = to]
    OBVIOUS
  <2>3. t \in TinyState /\ t.pc = to
    BY <2>1, <2>2 DEF TinyState
  <2>4. tiny' = [tiny EXCEPT ![s] = t]
    BY <2>2
  <2>5. QED
    BY <2>1, <2>3, <2>4
<1>2. /\ backlog' \in [Servers -> Seq(Ids)]
      /\ \A r \in Servers : backlog'[r] = backlog[r] \/ backlog'[r] = << >>
  <2>1. backlog \in [Servers -> Seq(Ids)] /\ << >> \in Seq(Ids)
    BY DEF PipelineInv, PipelineType
  <2>2. CASE backlog' = backlog
    BY <2>1, <2>2
  <2>3. CASE backlog' = [backlog EXCEPT ![s] = << >>]
    BY <2>1, <2>3
  <2>4. QED
    BY <2>2, <2>3
<1>3. PipelineType'
  BY <1>1, <1>2 DEF PipelineInv, PipelineType, proxyVars
<1>4. QueuedOnce'
  BY <1>2 DEF PipelineInv, QueuedOnce
<1>5. AtHome'
  BY <1>1, <1>2, SameRequests DEF PipelineInv, AtHome, proxyVars
<1>6. ASSUME NEW n \in Ids PROVE ConnInv(n)'
  <2>1. PICK r : r = Server(n) /\ r = Server(n)'
    BY SameRequests DEF proxyVars
  <2>2. Queued(n)' => Queued(n)
    BY <1>2, <2>1 DEF Queued, QueuedAt
  <2>3. Serving(n)' => Serving(n) /\ Mine(n)' = Mine(n)
    BY <1>1, <2>1 DEF Serving, Serves, Mine
  <2>4. link[n] \in Link /\ ConnInv(n)
    BY DEF PipelineInv, PipelineType
  <2>5. Serving(n) \/ Queued(n) => pc[n] \notin Early
    BY <2>4 DEF ConnInv, LinkFits
  <2>6. QED
    BY <2>2, <2>3, <2>4, <2>5, Untouched DEF proxyVars
<1>7. QED
  BY <1>3, <1>4, <1>5, <1>6 DEF PipelineInv

LEMMA DiesKeeps ==
    ASSUME PipelineInv, NEW s \in Servers, tiny[s].pc \in {"read", "write"},
           Dies(s, link), UNCHANGED proxyVars
    PROVE  PipelineInv'
<1>1. link \in [Ids -> Link] /\ backlog[s] \in Seq(Ids)
  BY DEF PipelineInv, PipelineType
<1>2. ASSUME NEW n \in Ids
      PROVE  \/ link'[n] = link[n]
             \/ /\ Serving(n) \/ Queued(n)
                /\ link'[n] = [link[n] EXCEPT !.end = "reset"]
  <2>1. link'[n] = IF \/ n = tiny[s].id
                      \/ \E k \in DOMAIN backlog[s] : backlog[s][k] = n
                     THEN [link[n] EXCEPT !.end = "reset"] ELSE link[n]
    BY DEF Dies
  <2>2. DOMAIN backlog[s] = 1 .. Len(backlog[s])
    BY <1>1
  <2>3. CASE n = tiny[s].id
    <3>1. Server(n) = s
      BY <2>3 DEF PipelineInv, AtHome
    <3>2. Serving(n)
      BY <2>3, <3>1 DEF Serving, Serves, Mine
    <3>3. QED
      BY <2>1, <3>2
  <2>4. ASSUME NEW k \in 1 .. Len(backlog[s]), backlog[s][k] = n
        PROVE  Queued(n)
    BY <2>4 DEF PipelineInv, AtHome, Queued, QueuedAt
  <2>5. QED
    BY <2>1, <2>2, <2>3, <2>4
<1>3. link' \in [Ids -> Link]
  <2>1. ASSUME NEW n \in Ids PROVE link'[n] \in Link
    BY <1>1, <1>2 DEF Link
  <2>2. link' = [n \in Ids |-> link'[n]]
    BY DEF Dies
  <2>3. QED
    BY <2>1, <2>2
<1>4. /\ backlog' = [backlog EXCEPT ![s] = << >>]
      /\ tiny' = [tiny EXCEPT ![s].pc = "dead"]
  BY DEF Dies
<1>5. QED
  BY <1>2, <1>3, <1>4, ServerStops

\* The first of those that wait is served, and does not wait any longer.
LEMMA Accepted ==
    ASSUME PipelineInv, NEW s \in Servers, Accept(s), UNCHANGED proxyVars
    PROVE  \E n \in Ids :
             /\ s = Server(n) /\ Queued(n) /\ ~Queued(n)'
             /\ tiny'[s].pc = "read" /\ tiny'[s].id = n /\ Serving(n)'
             /\ tiny' \in [Servers -> TinyState]
             /\ \A r \in Servers \ {s} : tiny'[r] = tiny[r]
             /\ backlog' \in [Servers -> Seq(Ids)]
             /\ QueuedOnce' /\ AtHome'
             /\ \A m \in Ids \ {n} :
                  /\ Queued(m)' => Queued(m)
                  /\ Serving(m)' => Serving(m) /\ Mine(m)' = Mine(m)
<1>1. /\ backlog \in [Servers -> Seq(Ids)] /\ tiny \in [Servers -> TinyState]
      /\ backlog[s] # << >> /\ backlog[s] \in Seq(Ids)
  BY DEF Accept, PipelineInv, PipelineType
<1>2. PICK old, new : old = backlog[s] /\ new = Tail(old)
  OBVIOUS
<1>3. PICK len \in Nat : len = Len(old)
  BY <1>1, <1>2
<1>4. /\ old \in Seq(Ids) /\ new \in Seq(Ids) /\ len >= 1
      /\ Len(new) = len - 1 /\ Head(old) = old[1] /\ old[1] \in Ids
      /\ \A k \in 1 .. len - 1 : new[k] = old[k + 1]
  BY <1>1, <1>2, <1>3
<1>5. PICK n \in Ids : n = old[1]
  BY <1>4
<1>6. /\ tiny' \in [Servers -> TinyState]
      /\ tiny'[s].pc = "read" /\ tiny'[s].id = n
      /\ \A r \in Servers \ {s} : tiny'[r] = tiny[r]
  <2>1. tiny' = [tiny EXCEPT ![s].pc = "read", ![s].id = n]
    BY <1>2, <1>4, <1>5 DEF Accept
  <2>2. tiny[s] \in TinyState
    BY <1>1
  <2>3. [tiny[s] EXCEPT !.pc = "read", !.id = n] \in TinyState
    BY <2>2 DEF TinyState
  <2>4. QED
    BY <1>1, <2>1, <2>2, <2>3 DEF TinyState
<1>7. /\ backlog' \in [Servers -> Seq(Ids)] /\ backlog'[s] = new
      /\ \A r \in Servers \ {s} : backlog'[r] = backlog[r]
  BY <1>1, <1>2, <1>4 DEF Accept
<1>8. Server(n) = s /\ Queued(n) /\ ~Serving(n)
  <2>1. Server(n) = s
    BY <1>2, <1>3, <1>4, <1>5 DEF PipelineInv, AtHome
  <2>2. Queued(n)
    BY <1>2, <1>3, <1>4, <1>5, <2>1 DEF Queued, QueuedAt
  <2>3. QED
    BY <2>1, <2>2 DEF PipelineInv, ConnInv, LinkFits
<1>9. ASSUME NEW m \in Ids
      PROVE  /\ Queued(m)' => Queued(m) /\ m # n
             /\ m # n /\ Serving(m)' => Serving(m) /\ Mine(m)' = Mine(m)
  <2>1. PICK r : r = Server(m) /\ r = Server(m)'
    BY SameRequests DEF proxyVars
  <2>2. CASE r # s
    <3>1. m # n
      BY <1>8, <2>1, <2>2
    <3>2. Queued(m)' => Queued(m)
      <4>1. r \in Servers => backlog'[r] = backlog[r]
        BY <1>7, <2>2
      <4>2. QED
        BY <2>1, <4>1, Zenon DEF Queued, QueuedAt
    <3>3. Serving(m)' => Serving(m) /\ Mine(m)' = Mine(m)
      <4>1. r \in Servers => tiny'[r] = tiny[r]
        BY <1>6, <2>2
      <4>2. QED
        BY <2>1, <4>1, Zenon DEF Serving, Serves, Mine
    <3>4. QED
      BY <3>1, <3>2, <3>3
  <2>3. CASE r = s
    <3>1. m # n => ~Serving(m)'
      BY <1>6, <2>1, <2>3 DEF Serving, Serves, Mine
    <3>2. ASSUME Queued(m)' PROVE Queued(m) /\ m # n
      <4>1. PICK k \in 1 .. len - 1 : new[k] = m
        BY <1>3, <1>4, <1>7, <2>1, <2>3, <3>2 DEF Queued, QueuedAt
      <4>2. k + 1 \in 1 .. len /\ old[k + 1] = m /\ 1 \in 1 .. len /\ k + 1 # 1
        BY <1>3, <1>4, <4>1
      <4>3. Queued(m)
        BY <1>2, <1>3, <2>1, <2>3, <4>2 DEF Queued, QueuedAt
      <4>4. m # n
        BY <1>2, <1>3, <1>5, <4>2 DEF PipelineInv, QueuedOnce
      <4>5. QED
        BY <4>3, <4>4
    <3>3. QED
      BY <3>1, <3>2
  <2>4. QED
    BY <2>2, <2>3
<1>10. QueuedOnce'
  <2>1. ASSUME NEW r \in Servers,
               NEW j \in 1 .. Len(backlog'[r]), NEW k \in 1 .. Len(backlog'[r]),
               backlog'[r][j] = backlog'[r][k]
        PROVE  j = k
    <3>1. CASE r # s
      BY <1>7, <2>1, <3>1 DEF PipelineInv, QueuedOnce
    <3>2. CASE r = s
      <4>1. j \in 1 .. len - 1 /\ k \in 1 .. len - 1
        BY <1>3, <1>4, <1>7, <2>1, <3>2
      <4>2. j + 1 \in 1 .. len /\ k + 1 \in 1 .. len
        BY <4>1
      <4>3. old[j + 1] = old[k + 1]
        BY <1>4, <1>7, <2>1, <3>2, <4>1
      <4>4. j + 1 = k + 1
        BY <1>2, <1>3, <4>2, <4>3 DEF PipelineInv, QueuedOnce
      <4>5. QED
        BY <4>1, <4>4
    <3>3. QED
      BY <3>1, <3>2
  <2>2. QED
    BY <2>1 DEF QueuedOnce
<1>11. AtHome'
  <2>1. ASSUME NEW r \in Servers, NEW k \in 1 .. Len(backlog'[r])
        PROVE  Server(backlog'[r][k]) = r
    <3>1. CASE r # s
      BY <1>7, <2>1, <3>1 DEF PipelineInv, AtHome
    <3>2. CASE r = s
      <4>1. k \in 1 .. len - 1 /\ k + 1 \in 1 .. len
        BY <1>3, <1>4, <1>7, <2>1, <3>2
      <4>2. backlog'[r][k] = old[k + 1]
        BY <1>4, <1>7, <3>2, <4>1
      <4>3. QED
        BY <1>2, <1>3, <3>2, <4>1, <4>2 DEF PipelineInv, AtHome
    <3>3. QED
      BY <3>1, <3>2
  <2>2. ASSUME NEW r \in Servers, tiny'[r].pc \in {"read", "write"}
        PROVE  tiny'[r].id \in Ids /\ Server(tiny'[r].id) = r
    BY <1>6, <1>8, <2>2 DEF PipelineInv, AtHome
  <2>3. QED
    BY <2>1, <2>2, SameRequests DEF AtHome, proxyVars
<1>12. Serving(n)' /\ ~Queued(n)'
  BY <1>6, <1>8, <1>9, SameRequests DEF Serving, Serves, Mine, proxyVars
<1>13. QED
  BY <1>6, <1>7, <1>8, <1>9, <1>10, <1>11, <1>12

LEMMA FollowsAccept ==
    ASSUME PipelineInv, NEW s \in Servers, Accept(s), UNCHANGED proxyVars,
           NEW n \in Ids, NEW got, FollowsOn(n, got)
    PROVE  FollowsOn(n, got)'
<1>1. PICK m \in Ids :
        /\ s = Server(m) /\ Queued(m) /\ ~Queued(m)'
        /\ tiny'[s].pc = "read" /\ tiny'[s].id = m
        /\ \A x \in Ids \ {m} :
             /\ Queued(x)' => Queued(x)
             /\ Serving(x)' => Serving(x) /\ Mine(x)' = Mine(x)
  BY Accepted
<1>2. UNCHANGED <<req, link>>
  BY DEF Accept, proxyVars
<1>3. CASE n # m
  BY <1>1, <1>2, <1>3, FollowsStill
<1>4. CASE n = m
  <2>1. Mine(n)'.pc = "read"
    BY <1>1, <1>2, <1>4, SameRequests DEF Mine
  <2>2. Asked(n)
    BY <1>1, <1>4 DEF Asked
  <2>3. QED
    BY <1>2, <2>1, <2>2, SameRequests DEF FollowsOn, Agrees, Coming
<1>5. QED
  BY <1>3, <1>4

LEMMA AcceptKeeps ==
    ASSUME PipelineInv, NEW s \in Servers, Accept(s), UNCHANGED proxyVars
    PROVE  PipelineInv'
<1>1. PICK n \in Ids :
        /\ s = Server(n) /\ Queued(n) /\ ~Queued(n)'
        /\ tiny'[s].pc = "read" /\ tiny'[s].id = n /\ Serving(n)'
        /\ tiny' \in [Servers -> TinyState]
        /\ backlog' \in [Servers -> Seq(Ids)]
        /\ QueuedOnce' /\ AtHome'
        /\ \A m \in Ids \ {n} :
             /\ Queued(m)' => Queued(m)
             /\ Serving(m)' => Serving(m) /\ Mine(m)' = Mine(m)
  BY Accepted
<1>2. UNCHANGED <<req, link>>
  BY DEF Accept, proxyVars
<1>3. PipelineType'
  BY <1>1, <1>2 DEF PipelineInv, PipelineType, proxyVars
<1>4. ConnInv(n)'
  <2>1. ConnInv(n) /\ Asked(n) /\ Mine(n)'.pc = "read"
    BY <1>1, <1>2, SameRequests DEF PipelineInv, Asked, Mine
  <2>2. LinkFits(n)'
    BY <1>1, <1>2, <2>1, SameRequests DEF ConnInv, LinkFits, proxyVars
  <2>3. PICK got : got = copied[n].data
    OBVIOUS
  <2>4. CopyFits(n)'
    <3>1. FollowsOn(n, got) => FollowsOn(n, got)'
      BY FollowsAccept
    <3>2. QED
      BY <1>2, <2>1, <2>3, <3>1, SameRequests
         DEF ConnInv, CopyFits, FollowsOn, proxyVars
  <2>5. QED
    BY <1>2, <2>1, <2>2, <2>4, SameRequests DEF ConnInv, proxyVars
<1>5. ASSUME NEW m \in Ids \ {n} PROVE ConnInv(m)'
  BY <1>1, <1>2, Untouched DEF PipelineInv, proxyVars
<1>6. QED
  BY <1>1, <1>3, <1>4, <1>5 DEF PipelineInv

LEMMA FollowsAnswer ==
    ASSUME PipelineInv, NEW n \in Ids, NEW got, FollowsOn(n, got),
           Serving(n), Mine(n).pc = "read",
           Mine(n)'.pc = "write", Mine(n)'.id = n, Mine(n)'.todo = Whole(n),
           UNCHANGED <<req, backlog, link>>
    PROVE  FollowsOn(n, got)'
<1>1. /\ got = << >> /\ link[n].blocks = << >> /\ link[n].end # "eof"
      /\ ~Queued(n) /\ Whole(n) \in Seq(Piece)
  BY RequestType DEF PipelineInv, ConnInv, LinkFits, FollowsOn, Asked
<1>2. ~Asked(n)'
  BY <1>1, SameRequests DEF Asked, Queued, QueuedAt
<1>3. Coming(n, got)' = 0 /\ Whole(n)' = Whole(n)
  BY <1>1, SameRequests DEF Coming
<1>4. /\ Agrees(Mine(n).todo, n, Coming(n, got))'
      /\ Coming(n, got)' + Len(Mine(n)'.todo) = Len(Whole(n)')
  BY <1>1, <1>3 DEF Agrees
<1>5. Agrees(got, n, 0)' /\ Agrees(link[n].blocks, n, Len(got))'
  BY <1>1, <1>3 DEF Agrees
<1>6. QED
  BY <1>1, <1>2, <1>4, <1>5 DEF FollowsOn

\* A server that serves knows whom, and it is one of those that ask it.
LEMMA ServedOne ==
    ASSUME PipelineInv, NEW s \in Servers, tiny[s].pc \in {"read", "write"}
    PROVE  \E n \in Ids :
             /\ n = tiny[s].id /\ s = Server(n) /\ Mine(n) = tiny[s]
             /\ Serving(n) /\ ~Queued(n) /\ ConnInv(n) /\ Conn(s) = link[n]
             /\ link \in [Ids -> Link] /\ link[n] \in Link
             /\ tiny \in [Servers -> TinyState] /\ tiny[s] \in TinyState
             /\ Whole(n) \in Seq(Piece) /\ copied[n] \in Copied
<1>1. PICK n \in Ids : n = tiny[s].id /\ Server(n) = s
  BY DEF PipelineInv, AtHome
<1>2. Mine(n) = tiny[s] /\ Serving(n) /\ ConnInv(n) /\ Conn(s) = link[n]
  BY <1>1 DEF Mine, Serving, Serves, PipelineInv, Conn
<1>3. ~Queued(n)
  BY <1>2 DEF ConnInv, LinkFits
<1>4. QED
  BY <1>1, <1>2, <1>3, RequestType DEF PipelineInv, PipelineType

\* The server starts with the whole response to what the connection asks.
LEMMA ReadRequestKeeps ==
    ASSUME PipelineInv, NEW s \in Servers, ReadRequest(s), UNCHANGED proxyVars
    PROVE  PipelineInv'
<1>0. tiny[s].pc = "read"
  BY DEF ReadRequest
<1>1. PICK n \in Ids :
        /\ n = tiny[s].id /\ s = Server(n) /\ Mine(n) = tiny[s]
        /\ Serving(n) /\ ~Queued(n) /\ ConnInv(n) /\ Conn(s) = link[n]
        /\ link \in [Ids -> Link] /\ link[n] \in Link
        /\ tiny \in [Servers -> TinyState] /\ tiny[s] \in TinyState
        /\ Whole(n) \in Seq(Piece)
  BY <1>0, ServedOne
<1>2. Asked(n)
  BY <1>0, <1>1 DEF Asked
<1>3. CASE Dies(s, link)
  BY <1>0, <1>3, DiesKeeps
<1>4. CASE tiny' = [tiny EXCEPT ![s].pc = "hung"] /\ UNCHANGED <<backlog, link>>
  <2>1. link' \in [Ids -> Link]
    BY <1>1, <1>4
  <2>2. QED
    BY <1>4, <2>1, ServerStops
<1>5. ASSUME NEW t \in TinyState, tiny' = [tiny EXCEPT ![s] = t],
             t.pc = "write", t.id = n,
             UNCHANGED <<backlog, link>>, pc[n] # "send",
             pc[n] = "response" => t.todo = Whole(n)
      PROVE  PipelineInv'
  <2>1. /\ Mine(n)' = t /\ ~Queued(n)' /\ Serving(n)' /\ ~Asked(n)'
        /\ Server(n)' = s
    <3>1. Server(n)' = s /\ tiny'[s] = t
      BY <1>1, <1>5, SameRequests DEF proxyVars
    <3>2. Mine(n)' = t /\ ~Queued(n)'
      BY <1>1, <1>5, <3>1 DEF Mine, Queued, QueuedAt
    <3>3. Serving(n)'
      BY <1>5, <3>1, <3>2 DEF Serving, Serves
    <3>4. QED
      BY <1>5, <3>1, <3>2, <3>3 DEF Asked
  <2>2. LinkFits(n)'
    BY <1>1, <1>5, <2>1, SameRequests DEF ConnInv, LinkFits, proxyVars
  <2>3. CopyFits(n)'
    <3>1. PICK got : got = copied[n].data
      OBVIOUS
    <3>2. pc[n] = "response" /\ FollowsOn(n, got) => FollowsOn(n, got)'
      BY <1>0, <1>1, <1>5, <2>1, FollowsAnswer DEF proxyVars
    <3>3. QED
      BY <1>1, <3>1, <3>2, SameRequests
         DEF ConnInv, CopyFits, FollowsOn, proxyVars
  <2>4. ConnInv(n)'
    BY <1>1, <1>5, <2>1, <2>2, <2>3, SameRequests DEF ConnInv, proxyVars
  <2>5. QED
    BY <1>1, <1>5, <2>4, ServerGoesOn
<1>6. CASE /\ link[n].request # NoRequest
           /\ tiny' = [tiny EXCEPT ![s].pc = "write",
                         ![s].todo = Response(s, link[n].request.query),
                         ![s].child = ~IsStatic(link[n].request.query)]
           /\ UNCHANGED <<backlog, link>>
  <2>1. PICK child \in BOOLEAN : child = ~IsStatic(link[n].request.query)
    OBVIOUS
  <2>2. pc[n] # "send" /\ Response(s, link[n].request.query) = Whole(n)
    <3>1. /\ pc[n] # "send" /\ link[n].request = RequestTo(n)
      BY <1>1, <1>6 DEF ConnInv, LinkFits
    <3>2. link[n].request.query = Info(n).query
      BY <3>1 DEF RequestTo
    <3>3. QED
      BY <1>1, <3>1, <3>2, Zenon DEF Whole
  <2> DEFINE t == [tiny[s] EXCEPT !.pc = "write", !.todo = Whole(n),
                     !.child = child]
  <2>3. t \in TinyState /\ t.pc = "write" /\ t.id = n /\ t.todo = Whole(n)
    BY <1>1 DEF TinyState
  <2>4. tiny' = [tiny EXCEPT ![s] = t]
    BY <1>1, <1>6, <2>1, <2>2
  <2> HIDE DEF t
  <2>5. QED
    BY <1>5, <1>6, <2>2, <2>3, <2>4
<1>7. CASE /\ link[n].peer = "closed"
           /\ tiny' = [tiny EXCEPT ![s].pc = "write", ![s].todo = << >>]
           /\ UNCHANGED <<backlog, link>>
  <2>1. pc[n] \notin Linked
    BY <1>1, <1>7 DEF ConnInv, LinkFits
  <2> DEFINE t == [tiny[s] EXCEPT !.pc = "write", !.todo = << >>]
  <2>2. t \in TinyState /\ t.pc = "write" /\ t.id = n
    <3>1. << >> \in Seq(Piece)
      OBVIOUS
    <3>2. QED
      BY <1>1, <3>1 DEF TinyState
  <2>3. tiny' = [tiny EXCEPT ![s] = t]
    BY <1>1, <1>7
  <2> HIDE DEF t
  <2>4. QED
    BY <1>5, <1>7, <2>1, <2>2, <2>3 DEF Linked
<1>8. QED
  BY <1>1, <1>3, <1>4, <1>6, <1>7 DEF ReadRequest

\* A block that is written goes from what is to be written to what is on the
\* way.
LEMMA FollowsWrite ==
    ASSUME PipelineInv, NEW n \in Ids, NEW got \in Seq(Piece),
           FollowsOn(n, got), Serving(n), ~Queued(n), Mine(n) \in TinyState,
           Mine(n).pc = "write", Mine(n).todo # << >>,
           link[n].end = "open", link'[n].end = "open",
           link'[n].blocks = Append(link[n].blocks, Head(Mine(n).todo)),
           Mine(n)' = [Mine(n) EXCEPT !.todo = Tail(@)],
           UNCHANGED <<req, backlog>>
    PROVE  FollowsOn(n, got)'
<1> DEFINE todo == Mine(n).todo
           blocks == link[n].blocks
           d == Len(got)
           b == Len(blocks)
           t == Len(todo)
           R == Whole(n)
<1>1. /\ Mine(n) \in TinyState /\ todo \in Seq(Piece) /\ blocks \in Seq(Piece)
      /\ Head(todo) \in Piece /\ R \in Seq(Piece)
  BY RequestType DEF PipelineInv, PipelineType, TinyState, Link
<1>2. Mine(n)'.todo = Tail(todo) /\ Mine(n)'.pc = "write" /\ Mine(n)'.id = n
  BY <1>1 DEF TinyState, Serving, Serves
<1>3. PICK l, rest : l = link'[n].blocks /\ rest = Mine(n)'.todo
  OBVIOUS
<1>4. Agrees(blocks, n, d) /\ Agrees(todo, n, d + b) /\ d + b + t = Len(R)
  BY DEF FollowsOn, Coming
<1>5. /\ d \in Nat /\ b \in Nat /\ t \in Nat /\ t >= 1 /\ Len(R) \in Nat
      /\ Len(l) = b + 1 /\ Len(rest) = t - 1
      /\ \A k \in 1 .. b : l[k] = blocks[k]
      /\ l[b + 1] = todo[1]
      /\ \A k \in 1 .. t - 1 : rest[k] = todo[k + 1]
  BY <1>1, <1>2, <1>3
<1> DEFINE from == d + b
<1>6. /\ d \in Nat /\ b \in Nat /\ t \in Nat /\ from \in Nat /\ t >= 1
      /\ Len(l) = b + 1 /\ Len(rest) = t - 1 /\ Len(R) \in Nat
  BY <1>5
<1>7. Whole(n)' = R /\ Coming(n, got)' = d + Len(l)
  BY <1>3, SameRequests DEF Coming
<1> HIDE DEF d, b, t, R
<1>8. /\ \A k \in 1 .. b : blocks[k] = R[d + k]
      /\ \A k \in 1 .. t : todo[k] = R[from + k]
  BY <1>4 DEF Agrees, b, t, R
<1>9. Agrees(link[n].blocks, n, Len(got))'
  <2>1. \A k \in 1 .. b : l[k] = R[d + k]
    BY <1>5, <1>8
  <2>2. l[b + 1] = R[from + 1]
    <3>1. 1 \in 1 .. t
      BY <1>6
    <3>2. QED
      BY <1>5, <1>8, <3>1
  <2>3. ASSUME NEW k \in 1 .. Len(l) PROVE l[k] = R[d + k]
    <3>1. CASE k \in 1 .. b
      BY <2>1, <3>1
    <3>2. CASE k = b + 1
      <4>1. d + k = from + 1
        BY <1>6, <3>2
      <4>2. QED
        BY <2>2, <3>2, <4>1
    <3>3. QED
      BY <1>6, <3>1, <3>2
  <2>4. d + Len(l) <= Len(R)
    BY <1>4, <1>6
  <2>5. QED
    BY <1>3, <1>7, <2>3, <2>4 DEF Agrees, d
<1>10. Coming(n, got)' = from + 1
  BY <1>6, <1>7
<1>11. ASSUME NEW k \in 1 .. Len(rest) PROVE rest[k] = R[(from + 1) + k]
  <2>1. k \in 1 .. t - 1 /\ k \in Nat
    BY <1>6
  <2>2. k + 1 \in 1 .. t
    BY <1>6, <2>1
  <2>3. (from + 1) + k = from + (k + 1)
    BY <1>6, <2>1
  <2>4. QED
    BY <1>5, <1>8, <2>1, <2>2, <2>3
<1>12. Agrees(Mine(n).todo, n, Coming(n, got))'
  <2>1. (from + 1) + Len(rest) <= Len(R)
    BY <1>4, <1>6
  <2>2. QED
    BY <1>3, <1>7, <1>10, <1>11, <2>1 DEF Agrees
<1>13. Coming(n, got)' + Len(Mine(n)'.todo) = Len(Whole(n)')
  <2>1. (from + 1) + Len(rest) = Len(R)
    BY <1>4, <1>6
  <2>2. QED
    BY <1>3, <1>7, <1>10, <2>1
<1>14. Agrees(got, n, 0)'
  BY <1>7 DEF FollowsOn, Agrees, R
<1>15. ~Asked(n)'
  BY <1>2, SameRequests DEF Asked, Queued, QueuedAt
<1>16. QED
  BY <1>9, <1>12, <1>13, <1>14, <1>15 DEF FollowsOn

\* What can no longer be written matters to nobody.
LEMMA FollowsLost ==
    ASSUME NEW n, NEW got, FollowsOn(n, got), link[n].end # "open",
           UNCHANGED <<req, link>>, Asked(n)' => Asked(n)
    PROVE  FollowsOn(n, got)'
BY SameRequests DEF FollowsOn, Agrees, Coming

\* A server whose connection is as it was, and that writes.
LEMMA StillServing ==
    ASSUME NEW s \in Servers, NEW n, s = Server(n), NEW t,
           tiny'[s] = t, UNCHANGED <<req, backlog>>, ~Queued(n)
    PROVE  /\ Mine(n)' = t /\ ~Queued(n)'
           /\ t.pc = "write" /\ t.id = n => Serving(n)' /\ ~Asked(n)'
           /\ t.pc = "accept" => ~Serving(n)' /\ ~Asked(n)'
<1>1. Server(n)' = s
  BY SameRequests
<1>2. Mine(n)' = t /\ ~Queued(n)'
  BY <1>1 DEF Mine, Queued, QueuedAt
<1>3. QED
  BY <1>1, <1>2 DEF Serving, Serves, Asked

\* The next block goes to the connection, or it is lost with it.
LEMMA WriteBlockKeeps ==
    ASSUME PipelineInv, NEW s \in Servers, WriteBlock(s), UNCHANGED proxyVars
    PROVE  PipelineInv'
<1>0. tiny[s].pc = "write" /\ tiny[s].todo # << >>
  BY DEF WriteBlock
<1>1. PICK n \in Ids :
        /\ n = tiny[s].id /\ s = Server(n) /\ Mine(n) = tiny[s]
        /\ Serving(n) /\ ~Queued(n) /\ ConnInv(n) /\ Conn(s) = link[n]
        /\ link \in [Ids -> Link] /\ link[n] \in Link
        /\ tiny \in [Servers -> TinyState] /\ tiny[s] \in TinyState
        /\ Whole(n) \in Seq(Piece) /\ copied[n] \in Copied
  BY <1>0, ServedOne
<1>2. ~Asked(n)
  BY <1>0, <1>1 DEF Asked
<1> DEFINE todo == tiny[s].todo
           blocks == link[n].blocks
<1>3. /\ todo \in Seq(Piece) /\ blocks \in Seq(Piece) /\ Head(todo) \in Piece
      /\ copied[n].data \in Seq(Piece) /\ Tail(todo) \in Seq(Piece)
  BY <1>0, <1>1 DEF TinyState, Link, Copied
<1>4. CASE Dies(s, link)
  BY <1>0, <1>4, DiesKeeps
<1>5. ASSUME NEW rest \in Seq(Piece), tiny' = [tiny EXCEPT ![s].todo = rest],
             UNCHANGED <<backlog, link>>,
             link[n].peer # "open" \/ link[n].end # "open"
      PROVE  PipelineInv'
  <2> DEFINE t == [tiny[s] EXCEPT !.todo = rest]
  <2>1. t \in TinyState /\ t.pc = "write" /\ t.id = n
    BY <1>0, <1>1, <1>5 DEF TinyState
  <2>2. tiny' = [tiny EXCEPT ![s] = t] /\ tiny'[s] = t
    BY <1>1, <1>5
  <2> HIDE DEF t
  <2>3. Mine(n)' = t /\ ~Queued(n)' /\ Serving(n)' /\ ~Asked(n)'
    BY <1>1, <1>5, <2>1, <2>2, StillServing DEF proxyVars
  <2>4. LinkFits(n)'
    <3>1. LinkFits(n) /\ RequestTo(n)' = RequestTo(n)
      <4>1. LinkFits(n)
        BY <1>1 DEF ConnInv
      <4>2. UNCHANGED req
        BY <1>5, Zenon DEF proxyVars
      <4>3. QED
        BY <4>1, <4>2, SameRequests, Zenon
    <3>2. Serving(n) /\ Mine(n).pc # "read"
      BY <1>0, <1>1
    <3>3. pc[n] \notin Early \cup {"send"}
      BY <3>1, <3>2 DEF LinkFits, Early
    <3>4. UNCHANGED <<pc, link>>
      BY <1>5 DEF proxyVars
    <3>5. QED
      BY <2>3, <3>1, <3>3, <3>4 DEF LinkFits
  <2>5. pc[n] = "response" => link[n].end # "open"
    BY <1>1, <1>5 DEF ConnInv, LinkFits, Linked
  <2>6. PICK got : got = copied[n].data
    OBVIOUS
  <2>7. CopyFits(n)'
    <3>1. pc[n] = "response" /\ FollowsOn(n, got) => FollowsOn(n, got)'
      BY <1>5, <2>3, <2>5, FollowsLost DEF proxyVars
    <3>2. QED
      BY <1>1, <2>6, <3>1, SameRequests
         DEF ConnInv, CopyFits, FollowsOn, proxyVars
  <2>8. ConnInv(n)'
    BY <1>1, <1>5, <2>4, <2>7, SameRequests DEF ConnInv, proxyVars
  <2>9. QED
    BY <1>1, <1>5, <2>1, <2>2, <2>8, ServerGoesOn
<1>6. CASE /\ link[n].peer = "open" /\ link[n].end = "open"
           /\ link' = [link EXCEPT ![n].blocks = Append(@, Head(todo))]
           /\ tiny' = [tiny EXCEPT ![s].todo = Tail(@)]
           /\ UNCHANGED backlog
  <2> DEFINE l == [link[n] EXCEPT !.blocks = Append(blocks, Head(todo))]
             t == [tiny[s] EXCEPT !.todo = Tail(todo)]
  <2>1. l \in Link
    <3>1. Append(blocks, Head(todo)) \in Seq(Piece)
      BY <1>3
    <3>2. ASSUME NEW x \in Seq(Piece)
          PROVE  [link[n] EXCEPT !.blocks = x] \in Link
      BY <1>1 DEF Link
    <3>3. QED
      BY <3>1, <3>2
  <2>2. link' = [link EXCEPT ![n] = l]
    BY <1>6
  <2>3. /\ l.peer = "open" /\ l.blocks = Append(blocks, Head(todo))
        /\ l.end = "open" /\ l.request = link[n].request
    BY <1>1, <1>6 DEF Link
  <2>4. t \in TinyState /\ t.pc = "write" /\ t.id = n /\ t.todo = Tail(todo)
    BY <1>0, <1>1, <1>3 DEF TinyState
  <2>5. tiny' = [tiny EXCEPT ![s] = t] /\ tiny'[s] = t
    BY <1>1, <1>6
  <2>6. t = [tiny[s] EXCEPT !.todo = Tail(@)]
    OBVIOUS
  <2> HIDE DEF l, t
  <2>7. /\ link' \in [Ids -> Link] /\ link'[n] = l
        /\ \A m \in Ids \ {n} : link'[m] = link[m]
    BY <2>1, <2>2, LinkChanged
  <2>8. Mine(n)' = t /\ ~Queued(n)' /\ Serving(n)' /\ ~Asked(n)'
    BY <1>1, <1>6, <2>4, <2>5, StillServing DEF proxyVars
  <2>9. pc[n] = "response"
    BY <1>0, <1>1, <1>6 DEF ConnInv, LinkFits, Linked
  <2>10. LinkFits(n)'
    BY <1>1, <1>6, <2>3, <2>4, <2>7, <2>8, <2>9, SameRequests
       DEF ConnInv, LinkFits, Early, Linked, proxyVars
  <2>11. PICK got \in Seq(Piece) : got = copied[n].data
    BY <1>3
  <2>12. CopyFits(n)'
    <3>1. /\ link'[n].end = "open"
          /\ link'[n].blocks = Append(link[n].blocks, Head(Mine(n).todo))
          /\ Mine(n)' = [Mine(n) EXCEPT !.todo = Tail(@)]
      BY <1>1, <2>3, <2>6, <2>7, <2>8
    <3>2. FollowsOn(n, got) => FollowsOn(n, got)'
      BY <1>0, <1>1, <1>6, <3>1, FollowsWrite DEF proxyVars
    <3>3. QED
      BY <1>1, <2>9, <2>11, <3>2
         DEF ConnInv, CopyFits, FollowsOn, Early, proxyVars
  <2>13. ConnInv(n)'
    BY <1>1, <2>3, <2>7, <2>9, <2>10, <2>12, SameRequests
       DEF ConnInv, proxyVars
  <2>14. QED
    BY <1>1, <1>6, <2>4, <2>5, <2>7, <2>13, ServerGoesOn
<1>7. \/ Dies(s, link)
      \/ /\ link[n].peer = "open" /\ link[n].end = "open"
         /\ link' = [link EXCEPT ![n].blocks = Append(@, Head(todo))]
         /\ tiny' = [tiny EXCEPT ![s].todo = Tail(@)]
         /\ UNCHANGED backlog
      \/ /\ link[n].peer # "open" \/ link[n].end # "open"
         /\ \E rest \in {Tail(todo), << >>} :
              tiny' = [tiny EXCEPT ![s].todo = rest]
         /\ UNCHANGED <<backlog, link>>
  <2>1. tiny' = [tiny EXCEPT ![s].todo = Tail(@)]
          <=> tiny' = [tiny EXCEPT ![s].todo = Tail(todo)]
    OBVIOUS
  <2>2. QED
    BY <1>1, <2>1 DEF WriteBlock
<1>8. << >> \in Seq(Piece)
  OBVIOUS
<1>9. QED
  BY <1>3, <1>4, <1>5, <1>6, <1>7, <1>8

\* When the server closes the connection all it had to write is on the way.
LEMMA FollowsClose ==
    ASSUME PipelineInv, NEW n \in Ids, NEW got \in Seq(Piece),
           FollowsOn(n, got), Serving(n), ~Queued(n),
           Mine(n).pc = "write", Mine(n).todo = << >>,
           ~Asked(n)', ~Serving(n)', link'[n].blocks = link[n].blocks,
           link'[n].end = IF link[n].end = "open" THEN "eof" ELSE link[n].end,
           UNCHANGED <<req, backlog>>
    PROVE  FollowsOn(n, got)'
<1>1. Coming(n, got) \in Nat
  <2>1. PICK d \in Nat : d = Len(got)
    OBVIOUS
  <2>2. link[n].blocks \in Seq(Piece)
    BY DEF PipelineInv, PipelineType, Link
  <2>3. PICK b \in Nat : b = Len(link[n].blocks)
    BY <2>2
  <2>4. Coming(n, got) = d + b
    BY <2>1, <2>3 DEF Coming
  <2>5. d + b \in Nat
    OBVIOUS
  <2>6. QED
    BY <2>4, <2>5
<1>2. link'[n].end = "eof" => Coming(n, got) = Len(Whole(n))
  BY <1>1 DEF FollowsOn
<1>3. Coming(n, got)' = Coming(n, got) /\ Whole(n)' = Whole(n)
  BY SameRequests DEF Coming
<1>4. QED
  BY <1>2, <1>3 DEF FollowsOn, Agrees

\* When the connection is closed everything has been written to it, unless it
\* has gone before.
LEMMA CloseConnectionKeeps ==
    ASSUME PipelineInv, NEW s \in Servers, CloseConnection(s),
           UNCHANGED proxyVars
    PROVE  PipelineInv'
<1>0. tiny[s].pc = "write" /\ tiny[s].todo = << >> /\ UNCHANGED backlog
  BY DEF CloseConnection
<1>1. PICK n \in Ids :
        /\ n = tiny[s].id /\ s = Server(n) /\ Mine(n) = tiny[s]
        /\ Serving(n) /\ ~Queued(n) /\ ConnInv(n) /\ Conn(s) = link[n]
        /\ link \in [Ids -> Link] /\ link[n] \in Link
        /\ tiny \in [Servers -> TinyState] /\ tiny[s] \in TinyState
        /\ Whole(n) \in Seq(Piece) /\ copied[n] \in Copied
  BY <1>0, ServedOne
<1>2. ~Asked(n)
  BY <1>0, <1>1 DEF Asked
<1> DEFINE ending == IF link[n].end = "open" THEN "eof" ELSE link[n].end
           l == [link[n] EXCEPT !.end = ending]
           t == [tiny[s] EXCEPT !.pc = "accept", !.child = FALSE, !.id = 0]
<1>3. ending \in {"open", "eof", "reset"}
  BY <1>1 DEF Link
<1>4. l \in Link /\ l.peer = link[n].peer /\ l.request = link[n].request
      /\ l.blocks = link[n].blocks /\ l.end = ending
  BY <1>1, <1>3 DEF Link
<1>5. link' = [link EXCEPT ![n] = l]
  BY <1>1 DEF CloseConnection
<1>6. t \in TinyState /\ t.pc = "accept"
  BY <1>1 DEF TinyState
<1>7. tiny' = [tiny EXCEPT ![s] = t] /\ tiny'[s] = t
  BY <1>1 DEF CloseConnection
<1> HIDE DEF l, t
<1>8. /\ link' \in [Ids -> Link] /\ link'[n] = l
      /\ \A m \in Ids \ {n} : link'[m] = link[m]
  BY <1>4, <1>5, LinkChanged
<1>9. ~Queued(n)' /\ ~Serving(n)' /\ ~Asked(n)'
  BY <1>0, <1>1, <1>6, <1>7, StillServing DEF proxyVars
<1>10. LinkFits(n)'
  <2>1. LinkFits(n) /\ RequestTo(n)' = RequestTo(n)
    <3>1. LinkFits(n)
      BY <1>1 DEF ConnInv
    <3>2. UNCHANGED req
      BY Zenon DEF proxyVars
    <3>3. QED
      BY <3>1, <3>2, SameRequests, Zenon
  <2>2. pc' = pc
    BY DEF proxyVars
  <2>3. pc[n] \notin Early \cup {"send"}
    BY <1>0, <1>1, <2>1 DEF LinkFits, Early
  <2>4. QED
    BY <1>4, <1>8, <1>9, <2>1, <2>2, <2>3 DEF LinkFits
<1>11. PICK got \in Seq(Piece) : got = copied[n].data
  BY <1>1 DEF Copied
<1>12. CopyFits(n)'
  <2>1. FollowsOn(n, got) => FollowsOn(n, got)'
    BY <1>0, <1>1, <1>4, <1>8, <1>9, FollowsClose DEF ending, proxyVars
  <2>2. QED
    BY <1>1, <1>11, <2>1, SameRequests
       DEF ConnInv, CopyFits, FollowsOn, proxyVars
<1>13. ConnInv(n)'
  BY <1>1, <1>4, <1>8, <1>10, <1>12, SameRequests DEF ConnInv, proxyVars
<1>14. QED
  BY <1>0, <1>1, <1>6, <1>7, <1>8, <1>13, ServerGoesOn

-----------------------------------------------------------------------------
LEMMA ResetKeeps ==
    ASSUME PipelineInv, NEW n \in Ids, Reset(n) PROVE PipelineInv'
<1> DEFINE l == [link[n] EXCEPT !.end = "reset"]
<1>1. /\ link[n] \in Link /\ ConnInv(n) /\ link[n].peer = "open"
      /\ link' = [link EXCEPT ![n] = l]
      /\ UNCHANGED <<tiny, backlog, proxyVars>>
  BY DEF Reset, PipelineInv, PipelineType
<1>2. l \in Link
  BY <1>1 DEF Link
<1>3. pc[n] \notin Early
  BY <1>1 DEF ConnInv, LinkFits, Early, Linked
<1> HIDE DEF l
<1>4. /\ link' \in [Ids -> Link] /\ link'[n] = l
      /\ \A m \in Ids \ {n} : link'[m] = link[m]
  BY <1>1, <1>2, LinkChanged
<1>5. PipelineType'
  BY <1>1, <1>4 DEF PipelineInv, PipelineType, proxyVars
<1>6. ConnInv(n)'
  BY <1>1, <1>3, <1>4, SameServers, Untouched DEF l, proxyVars
<1>7. QED
  BY <1>1, <1>4, <1>5, <1>6, OneConnection DEF proxyVars

\* The clients have no part in it.
LEMMA NothingChanged ==
    ASSUME PipelineInv,
           UNCHANGED <<tinyVars, pc, req, stored, cached, copied, cache>>
    PROVE  PipelineInv'
<1>1. PipelineType'
  BY DEF PipelineInv, PipelineType, tinyVars
<1>2. QueuedOnce' /\ AtHome'
  BY SameRequests DEF PipelineInv, QueuedOnce, AtHome, tinyVars
<1>3. ASSUME NEW n \in Ids PROVE ConnInv(n)'
  BY SameServers, Untouched DEF PipelineInv, tinyVars
<1>4. QED
  BY <1>1, <1>2, <1>3 DEF PipelineInv

LEMMA PipelineKeeps == PipelineInv /\ [Next]_vars => PipelineInv'
<1> SUFFICES ASSUME PipelineInv, [Next]_vars PROVE PipelineInv'
  OBVIOUS
<1>1. ASSUME NEW n \in Ids, Handle(n) PROVE PipelineInv'
  BY <1>1, TakeKeeps, RequestLineKeeps, ParseHeadersKeeps, LookupKeeps,
     ConnectKeeps, SendRequestKeeps, CopyAndPassKeeps, EndOfResponseKeeps,
     ReadErrorKeeps, StoreKeeps, ClearKeeps
     DEF Handle
<1>2. CASE Tinys
  BY <1>2, AcceptKeeps, ReadRequestKeeps, WriteBlockKeeps, CloseConnectionKeeps
     DEF Tinys, TinyStep
<1>3. ASSUME NEW n \in Ids, ClientGoes(n) PROVE PipelineInv'
  BY <1>3, NothingChanged DEF ClientGoes
<1>4. ASSUME NEW n \in Ids, Reset(n) PROVE PipelineInv'
  BY <1>4, ResetKeeps
<1>5. CASE UNCHANGED vars
  BY <1>5, NothingChanged DEF vars, tinyVars, proxyVars
<1>6. QED
  BY <1>1, <1>2, <1>3, <1>4, <1>5 DEF Next, Steps

\* At every call that may block, where a thread is says what there is of its
\* connection to the server and of its headers, and what is copied, on the way
\* and to be written is the response of that server to its request (proxy,
\* forward, doit).
THEOREM PipelineInvariant == Spec => []PipelineInv
BY PipelineStarts, PipelineKeeps, PTL DEF Spec

\* However many threads, servers and connections there are, whichever of them
\* break and whatever they ask for, only whole responses get into the cache.
THEOREM OnlyWholeResponses == Spec => []WholeResponsesCached
<1>1. PipelineInv => WholeResponsesCached
  <2> SUFFICES ASSUME PipelineInv, NEW k \in DOMAIN cache
               PROVE  \E uri \in DOMAIN Answers :
                        /\ Keys[uri] = cache[k].key
                        /\ Answers[uri] = cache[k].value
    BY DEF WholeResponsesCached
  <2>1. cache[k] \in Entry
    BY DEF PipelineInv, PipelineType
  <2>2. QED
    BY <2>1 DEF Entry
<1>2. QED
  BY <1>1, PipelineInvariant, PTL

\* On every path through proxy and forward the headers are freed and the
\* connection to the server is closed before the client's connection is; what
\* is never freed is the copy that cache_get makes, and that is made only for a
\* client for which no connection to a server was opened.
THEOREM NothingIsLeaked == Spec => []NothingLeaks
<1>1. PipelineInv => NothingLeaks
  BY DEF PipelineInv, ConnInv, LinkFits, NothingLeaks, Linked, Storing
<1>2. QED
  BY <1>1, PipelineInvariant, PTL

-----------------------------------------------------------------------------
(* What the client has been sent, if it got through so far: nothing until    *)
(* the thread has an answer, and then the response as far as it was read.    *)
Errors == {Error(number) : number \in {400, 413, 500, 501}}

Final(n) ==
    \/ out[n] \in Errors
    \/ AnswerTo(n, out[n])
    \/ /\ link[n].peer = "none"
       /\ \E m \in Ids : Alike(m, n) /\ AnswerTo(m, out[n])

GetsThrough(n) == Supported(n) /\ ~gone[n] /\ link[n].end # "reset"

AnswerFits(n) ==
    /\ pc[n] \in Early \cup {"send"} => out[n] = << >>
    /\ pc[n] = "response" => out[n] \in Seq(Piece) /\ FollowsOn(n, out[n])
    /\ pc[n] = "store" => out[n] = Whole(n)
    /\ pc[n] \in {"clear", "close", "closed"} => Final(n)

(* The entries stem from the requests of the connections.                    *)
Origins == {[key |-> Key(m), value |-> Answers[req[m].uri]] :
              m \in {l \in Ids : req[l].uri \in DOMAIN Answers}}

AnswersInv ==
    /\ PipelineInv
    /\ gone \in [Ids -> BOOLEAN]
    /\ out = [n \in Ids |-> out[n]]
    /\ cache \in Seq(Origins)
    /\ \A n \in Ids : GetsThrough(n) => AnswerFits(n)

LEMMA AnswersStart == Init => AnswersInv
BY PipelineStarts DEF Init, AnswersInv, AnswerFits

LEMMA SameAnswers ==
    ASSUME UNCHANGED req, NEW n
    PROVE  /\ Origins' = Origins
           /\ \A blocks : AnswerTo(n, blocks)' <=> AnswerTo(n, blocks)
           /\ \A m : Alike(m, n)' <=> Alike(m, n)
BY SameRequests DEF Origins, Key, AnswerTo, Alike

\* The answer of the server to a request is its response to it.
LEMMA WholeAnswers ==
    ASSUME PipelineInv, NEW n \in Ids, Server(n) \in Servers
    PROVE  AnswerTo(n, Whole(n))
<1>1. req[n].uri \in DOMAIN UriInfos
  BY RequestType DEF PipelineInv
<1>2. req[n].uri \in DOMAIN Answers
  BY <1>1, Zenon DEF Answers, Info, Server
<1>3. Answers[req[n].uri] = Whole(n)
  BY <1>2, Zenon DEF Answers, Info, Server, Whole
<1>4. QED
  BY <1>2, <1>3 DEF AnswerTo

\* What was final stays so as long as no connection is opened.
LEMMA FinalStays ==
    ASSUME NEW n, Final(n), UNCHANGED req, out[n]' = out[n],
           link[n]'.peer = link[n].peer
    PROVE  Final(n)'
<1>1. AnswerTo(n, out[n])' <=> AnswerTo(n, out[n])
  BY SameAnswers DEF AnswerTo
<1>2. ASSUME NEW m \in Ids, Alike(m, n), AnswerTo(m, out[n])
      PROVE  Alike(m, n)' /\ AnswerTo(m, out[n])'
  BY <1>2, SameAnswers DEF AnswerTo
<1>3. QED
  BY <1>1, <1>2 DEF Final

\* Nothing is sent to the client, and its thread does nothing.
LEMMA AnswerStays ==
    ASSUME NEW m, GetsThrough(m) => AnswerFits(m), UNCHANGED req,
           pc[m]' = pc[m], out[m]' = out[m], gone[m] => gone[m]',
           \/ link[m]' = link[m]
           \/ /\ link[m] \in Link
              /\ link[m]' = [link[m] EXCEPT !.end = "reset"],
           Queued(m)' => Queued(m),
           Serving(m)' => Serving(m) /\ Mine(m)' = Mine(m)
    PROVE  GetsThrough(m)' => AnswerFits(m)'
<1> SUFFICES ASSUME GetsThrough(m)' PROVE AnswerFits(m)'
  OBVIOUS
<1>1. link[m]' = link[m]
  BY DEF GetsThrough, Link
<1>2. AnswerFits(m)
  BY <1>1 DEF GetsThrough, Supported
<1>3. PICK got : got = out[m]
  OBVIOUS
<1>4. FollowsOn(m, got) => FollowsOn(m, got)'
  BY <1>1, FollowsStill
<1>5. Final(m) => Final(m)'
  BY <1>1, FinalStays
<1>6. QED
  BY <1>2, <1>3, <1>4, <1>5, SameRequests DEF AnswerFits, FollowsOn

\* The request line is answered, or accepted with what was found wrong so far.
LEMMA RequestLineAnswers ==
    ASSUME NEW n, RequestLine(n)
    PROVE  \E numbers, to : Answered(n, numbers) /\ Goto(n, to)
BY Zenon DEF RequestLine, MethodError, Refused

LEMMA ConnectTouches ==
    ASSUME AnswersInv, NEW n \in Ids, Connect(n), NEW m \in Ids \ {n}
    PROVE  /\ UNCHANGED <<req, tiny, gone>>
           /\ pc'[m] = pc[m] /\ out'[m] = out[m] /\ link'[m] = link[m]
           /\ UNCHANGED backlog
                \/ /\ Server(n) \in Servers
                   /\ backlog' = [backlog EXCEPT ![Server(n)] = Append(@, n)]
<1>1. UNCHANGED <<req, tiny, gone>>
  BY Zenon DEF Connect
<1>2. pc \in [Ids -> Labels] /\ link \in [Ids -> Link] /\ DOMAIN out = Ids
  BY DEF AnswersInv, PipelineInv, PipelineType
<1>3. ASSUME NEW to, Goto(n, to) PROVE pc'[m] = pc[m]
  BY <1>2, <1>3 DEF Goto
<1>4. ASSUME NEW numbers, Answered(n, numbers) PROVE out'[m] = out[m]
  BY <1>2, <1>4 DEF Answered
<1>5. ASSUME link' = [link EXCEPT ![n].peer = "open"] PROVE link'[m] = link[m]
  BY <1>2, <1>5
<1>6. pc'[m] = pc[m] /\ out'[m] = out[m] /\ link'[m] = link[m]
  BY <1>3, <1>4, <1>5, ConnectCases, Zenon
<1>7. QED
  BY <1>1, <1>6, ConnectCases, Zenon

\* A thread has to do with its own connection only.
LEMMA OtherConnections ==
    ASSUME AnswersInv, NEW n \in Ids, Handle(n), NEW m \in Ids \ {n}
    PROVE  GetsThrough(m)' => AnswerFits(m)'
<1>1. /\ UNCHANGED <<req, tiny, gone>> /\ pc'[m] = pc[m] /\ out'[m] = out[m]
      /\ link'[m] = link[m]
      /\ UNCHANGED backlog
           \/ /\ Server(n) \in Servers
              /\ backlog' = [backlog EXCEPT ![Server(n)] = Append(@, n)]
  <2> USE DEF AnswersInv, PipelineInv, PipelineType, Goto, Answered, HangUp,
          tinyVars
  <2>1. CASE Take(n) \/ RequestLine(n) \/ Clear(n) \/ Store(n)
    <3>1. CASE RequestLine(n)
      <4>1. PICK numbers, to : Answered(n, numbers) /\ Goto(n, to)
        BY <3>1, RequestLineAnswers
      <4>2. UNCHANGED <<tinyVars, req, gone>>
        BY <3>1, Zenon DEF RequestLine
      <4>3. QED
        BY <4>1, <4>2
    <3>2. QED
      BY <2>1, <3>1 DEF Take, Clear, Store
  <2>2. CASE ParseHeaders(n)
    BY <2>2 DEF ParseHeaders
  <2>3. CASE Lookup(n)
    BY <2>3 DEF Lookup
  <2>4. CASE Connect(n)
    BY <2>4, ConnectTouches, Zenon
  <2>5. CASE SendRequest(n)
    BY <2>5 DEF SendRequest, RequestEnded
  <2>6. CASE CopyAndPass(n)
    BY <2>6 DEF CopyAndPass
  <2>7. CASE EndOfResponse(n) \/ ReadError(n)
    BY <2>7 DEF EndOfResponse, ReadError, ReadErrorIsALength
  <2>8. QED
    BY <2>1, <2>2, <2>3, <2>4, <2>5, <2>6, <2>7 DEF Handle
<1>2. Queued(m)' => Queued(m)
  <2>1. CASE UNCHANGED backlog
    BY <1>1, <2>1, SameServers
  <2>2. CASE /\ Server(n) \in Servers
             /\ backlog' = [backlog EXCEPT ![Server(n)] = Append(@, n)]
    BY <1>1, <2>2, QueuedLast DEF AnswersInv
  <2>3. QED
    BY <1>1, <2>1, <2>2
<1>3. Serving(m)' => Serving(m) /\ Mine(m)' = Mine(m)
  BY <1>1, SameRequests DEF Serving, Serves, Mine
<1>4. QED
  BY <1>1, <1>2, <1>3, AnswerStays DEF AnswersInv

-----------------------------------------------------------------------------
\* clienterror sends one block.
LEMMA AnsweredOnce ==
    ASSUME AnswersInv, NEW n \in Ids, NEW number, Answered(n, <<number>>),
           out[n] = << >>, ~gone[n]
    PROVE  out'[n] = Error(number)
<1> DEFINE blocks == [k \in DOMAIN <<number>> |-> Error(<<number>>[k])[1]]
<1>1. out'[n] = << >> \o blocks
  BY DEF Answered, AnswersInv
<1>2. PICK b : b = Error(number)
  OBVIOUS
<1>3. blocks = b
  BY <1>2 DEF Error, Blocks
<1>4. b \in Seq({b[1]})
  BY <1>2 DEF Error, Blocks
<1>5. << >> \o b = b
  BY <1>4
<1>6. QED
  BY <1>1, <1>2, <1>3, <1>5

LEMMA NotAnswered ==
    ASSUME AnswersInv, NEW n \in Ids, Answered(n, << >>), out[n] = << >>,
           ~gone[n]
    PROVE  out'[n] = << >>
BY DEF Answered, AnswersInv

\* Where a thread that goes on leaves the answer.
LEMMA Went ==
    ASSUME AnswersInv, NEW n \in Ids, NEW to, Goto(n, to)
    PROVE  pc'[n] = to
BY DEF AnswersInv, PipelineInv, PipelineType, Goto

LEMMA TakeAnswer ==
    ASSUME AnswersInv, NEW n \in Ids, Take(n), GetsThrough(n)'
    PROVE  AnswerFits(n)'
BY Went DEF Take, AnswersInv, GetsThrough, Supported, AnswerFits, Early,
   tinyVars

LEMMA RequestLineAnswer ==
    ASSUME AnswersInv, NEW n \in Ids, RequestLine(n), GetsThrough(n)'
    PROVE  AnswerFits(n)'
<1>1. pc[n] = "request" /\ UNCHANGED <<tinyVars, req, gone>>
  BY Zenon DEF RequestLine
<1>2. /\ Supported(n) /\ ~gone[n] /\ out[n] = << >>
      /\ VersionErrors(req[n].version) = << >>
  BY <1>1 DEF AnswersInv, GetsThrough, Supported, AnswerFits, Early,
     VersionErrors, tinyVars
<1>3. Append(<< >>, 400) = <<400>>
  OBVIOUS
<1>4. \/ \E number \in {400, 500, 501} :
           Answered(n, <<number>>) /\ Goto(n, "close")
      \/ Answered(n, << >>) /\ Goto(n, "headers")
  <2>1. ASSUME NEW number \in {400, 500, 501}, Refused(n, <<number>>)
        PROVE  Answered(n, <<number>>) /\ Goto(n, "close")
    BY <2>1, Zenon DEF Refused
  <2>2. \/ Refused(n, <<500>>) \/ Refused(n, <<400>>) \/ Refused(n, <<501>>)
        \/ Answered(n, << >>) /\ Goto(n, "headers")
    <3>1. Append(VersionErrors(req[n].version), 400) = <<400>>
      BY <1>2, <1>3
    <3>2. QED
      BY <1>2, <3>1, Zenon DEF RequestLine, MethodError
  <2>3. QED
    BY <2>1, <2>2
<1>5. QED
  BY <1>1, <1>2, <1>4, Went, AnsweredOnce, NotAnswered
     DEF AnswerFits, Final, Errors, Early

LEMMA ParseHeadersAnswer ==
    ASSUME AnswersInv, NEW n \in Ids, ParseHeaders(n), GetsThrough(n)'
    PROVE  AnswerFits(n)'
<1>1. ~gone[n] /\ out[n] = << >>
  BY DEF ParseHeaders, AnswersInv, GetsThrough, Supported, AnswerFits, Early,
     tinyVars
<1>2. \/ \E number \in {413, 500} :
           Answered(n, <<number>>) /\ Goto(n, "clear")
      \/ UNCHANGED out /\ Goto(n, "lookup")
  BY Zenon DEF ParseHeaders
<1>3. QED
  BY <1>1, <1>2, Went, AnsweredOnce DEF AnswerFits, Final, Errors, Early

\* What the cache has for the key is what the server would answer, or what
\* another one answered that asked for the same and whose host and port read
\* the same.
LEMMA CachedIsWhole ==
    ASSUME AnswersInv, NEW n \in Ids, Info(n) # BadUri,
           NEW k \in DOMAIN cache, cache[k].key = Key(n)
    PROVE  /\ cache[k].value \in Seq(Piece)
           /\ \/ AnswerTo(n, cache[k].value)
              \/ \E m \in Ids : Alike(m, n) /\ AnswerTo(m, cache[k].value)
<1>1. PipelineInv /\ cache[k] \in Origins
  BY DEF AnswersInv
<1>2. PICK m \in Ids :
        /\ req[m].uri \in DOMAIN Answers
        /\ cache[k].key = Key(m) /\ cache[k].value = Answers[req[m].uri]
  BY <1>1 DEF Origins
<1>3. req[m].uri \in DOMAIN UriInfos /\ req[n].uri \in DOMAIN UriInfos
  BY <1>1, RequestType DEF PipelineInv
<1>4. Server(m) \in Servers /\ Answers[req[m].uri] = Whole(m)
  BY <1>2, Zenon DEF Answers, Server, Info, Whole
<1>5. Info(m) # BadUri
  BY <1>4, ServersAssumption DEF Server, NoServer
<1>6. PICK u, v : u = req[m].uri /\ v = req[n].uri
  OBVIOUS
<1>7. ASSUME NEW w \in DOMAIN UriInfos
      PROVE  /\ w \in Seq(STRING) /\ UriInfos[w] = parse_uri(w)
             /\ Keys[w] = build_cache_key(parse_uri(w))
  BY RequestsAssumption DEF UriInfos, Keys
<1>8. /\ u \in Seq(STRING) /\ v \in Seq(STRING)
      /\ Info(m) = parse_uri(u) /\ Info(n) = parse_uri(v)
      /\ build_cache_key(parse_uri(u)) = build_cache_key(parse_uri(v))
  <2>1. Keys[u] = Keys[v]
    BY <1>2, <1>6 DEF Key
  <2>2. QED
    BY <1>3, <1>6, <1>7, <2>1 DEF Info
<1>9. /\ Info(m).query = Info(n).query
      /\ Info(m).host \o Info(m).port = Info(n).host \o Info(n).port
  BY <1>5, <1>8, KeyTellsQuery
<1>10. AnswerTo(m, cache[k].value)
  BY <1>2 DEF AnswerTo
<1>11. cache[k].value \in Seq(Piece)
  BY <1>1, <1>2, <1>4, RequestType DEF PipelineInv
<1>12. CASE Server(m) = Server(n)
  <2>1. Whole(m) = Whole(n) /\ AnswerTo(n, Whole(n))
    BY <1>1, <1>4, <1>9, <1>12, WholeAnswers DEF Whole
  <2>2. QED
    BY <1>2, <1>4, <1>11, <2>1
<1>13. CASE Server(m) # Server(n)
  <2>1. Server(m).host = Info(m).host /\ Server(m).port = Info(m).port
        /\ Server(n).host = Info(n).host /\ Server(n).port = Info(n).port
    BY DEF Server, Address
  <2>2. Alike(m, n)
    BY <1>9, <1>13, <2>1 DEF Alike
  <2>3. QED
    BY <1>10, <1>11, <2>2
<1>14. QED
  BY <1>12, <1>13

LEMMA LookupAnswer ==
    ASSUME AnswersInv, NEW n \in Ids, Lookup(n), GetsThrough(n)'
    PROVE  AnswerFits(n)'
<1>1. pc[n] = "lookup" /\ UNCHANGED <<tinyVars, req, gone>>
  BY DEF Lookup
<1>2. /\ ~gone[n] /\ out[n] = << >> /\ Info(n) # BadUri
      /\ link[n].peer = "none" /\ link[n]' = link[n]
  BY <1>1 DEF AnswersInv, GetsThrough, Supported, AnswerFits, Early,
     tinyVars, PipelineInv, ConnInv, LinkFits, NoLink, Parsed
<1>3. CASE Goto(n, "connect") /\ UNCHANGED out
  BY <1>2, <1>3, Went DEF AnswerFits, Early
<1>4. ASSUME NEW k \in DOMAIN cache, cache[k].key = Key(n), Goto(n, "clear"),
             out' = [out EXCEPT ![n] =
                       IF gone[n] THEN @ ELSE @ \o cache[k].value]
      PROVE  AnswerFits(n)'
  <2>1. PICK value : value = cache[k].value
    OBVIOUS
  <2>2. /\ value \in Seq(Piece)
        /\ \/ AnswerTo(n, value)
           \/ \E m \in Ids : Alike(m, n) /\ AnswerTo(m, value)
    BY <1>2, <1>4, <2>1, CachedIsWhole
  <2>3. out'[n] = << >> \o value
    BY <1>2, <1>4, <2>1 DEF AnswersInv
  <2>4. out'[n] = value
    BY <2>2, <2>3
  <2>5. Final(n)'
    <3>1. ASSUME NEW m, AnswerTo(m, value) PROVE AnswerTo(m, out[n])'
      BY <1>1, <2>4, <3>1 DEF AnswerTo
    <3>2. ASSUME NEW m, Alike(m, n) PROVE Alike(m, n)'
      BY <1>1, <3>2, SameAnswers
    <3>3. QED
      BY <1>2, <2>2, <3>1, <3>2 DEF Final
  <2>6. QED
    BY <1>4, <2>5, Went DEF AnswerFits, Early
<1>5. QED
  BY <1>3, <1>4 DEF Lookup

LEMMA ConnectAnswer ==
    ASSUME AnswersInv, NEW n \in Ids, Connect(n), GetsThrough(n)'
    PROVE  AnswerFits(n)'
<1>1. link[n] = NoLink /\ pc[n] = "connect" /\ UNCHANGED <<req, gone>>
  BY Zenon DEF Connect, AnswersInv, PipelineInv, ConnInv, LinkFits, Early
<1>2. ~gone[n] /\ out[n] = << >>
  BY <1>1 DEF AnswersInv, GetsThrough, Supported, AnswerFits, Early, NoLink
<1>3. \/ \E number \in {400, 500} :
           Answered(n, <<number>>) /\ Goto(n, "clear")
      \/ UNCHANGED out /\ Goto(n, "send")
  BY ConnectCases
<1>4. QED
  BY <1>2, <1>3, Went, AnsweredOnce DEF AnswerFits, Final, Errors, Early

LEMMA SendRequestAnswer ==
    ASSUME AnswersInv, NEW n \in Ids, SendRequest(n), GetsThrough(n)'
    PROVE  AnswerFits(n)'
<1>1. /\ pc[n] = "send" /\ link[n] \in Link /\ link \in [Ids -> Link]
      /\ LinkFits(n) /\ UNCHANGED <<req, tiny, backlog, gone>>
  BY DEF SendRequest, AnswersInv, PipelineInv, PipelineType, ConnInv
<1>2. CASE link[n].end # "open" /\ HangUp(n)
  <2>1. link[n].end = "reset"
    BY <1>1, <1>2 DEF LinkFits, Link
  <2>2. link'[n].end = "reset"
    BY <1>1, <1>2, <2>1 DEF HangUp, Link
  <2>3. QED
    BY <2>2 DEF GetsThrough
<1>3. CASE link[n].end = "open" /\ RequestEnded(n) /\ Goto(n, "response")
           /\ UNCHANGED out
  <2>1. out[n] = << >>
    BY <1>1, <1>3 DEF AnswersInv, GetsThrough, Supported, AnswerFits
  <2>2. /\ link'[n].blocks = << >> /\ link'[n].end = "open"
        /\ Serving(n) => Mine(n).pc = "read"
    BY <1>1, <1>3 DEF LinkFits, RequestEnded, Link
  <2>3. FollowsOn(n, << >>)'
    BY <1>1, <2>2, NothingReadYet DEF AnswersInv
  <2>4. << >> \in Seq(Piece)
    OBVIOUS
  <2>5. QED
    BY <1>3, <2>1, <2>3, <2>4, Went DEF AnswerFits, FollowsOn, Early
<1>4. QED
  BY <1>2, <1>3 DEF SendRequest

LEMMA CopyAndPassAnswer ==
    ASSUME AnswersInv, NEW n \in Ids, CopyAndPass(n), GetsThrough(n)'
    PROVE  AnswerFits(n)'
<1>1. /\ pc[n] = "response" /\ link[n] \in Link /\ link \in [Ids -> Link]
      /\ LinkFits(n) /\ UNCHANGED <<req, tiny, backlog, gone>>
      /\ ~gone[n] /\ link[n].blocks # << >>
  BY DEF CopyAndPass, CanRead, AnswersInv, PipelineInv, PipelineType, ConnInv,
     GetsThrough
<1>2. PICK block : block = Head(link[n].blocks)
  OBVIOUS
<1>3. /\ out' = [out EXCEPT ![n] = Append(@, block)]
      /\ link' = [link EXCEPT ![n].blocks = Tail(@)] /\ UNCHANGED pc
  BY <1>1, <1>2 DEF CopyAndPass
<1>4. /\ link'[n].blocks = Tail(link[n].blocks)
      /\ link'[n].end = link[n].end
  BY <1>1, <1>3 DEF Link
<1>5. out[n] \in Seq(Piece) /\ FollowsOn(n, out[n])
  BY <1>1, <1>4 DEF AnswersInv, GetsThrough, Supported, AnswerFits
<1>6. PICK got \in Seq(Piece) : got = out[n]
  BY <1>5
<1>7. ~Asked(n)
  BY <1>1 DEF LinkFits
<1>8. FollowsOn(n, Append(got, block))'
  BY <1>1, <1>2, <1>4, <1>5, <1>6, <1>7, FollowsRead DEF AnswersInv
<1>9. out'[n] = Append(got, block)
  BY <1>3, <1>6 DEF AnswersInv
<1>10. Append(got, block) \in Seq(Piece)
  <2>1. block \in Piece
    BY <1>1, <1>2 DEF Link
  <2>2. QED
    BY <2>1
<1>11. QED
  BY <1>1, <1>3, <1>8, <1>9, <1>10 DEF AnswerFits, FollowsOn, Early

LEMMA EndOfResponseAnswer ==
    ASSUME AnswersInv, NEW n \in Ids, EndOfResponse(n), GetsThrough(n)'
    PROVE  AnswerFits(n)'
<1>1. /\ pc[n] = "response" /\ link \in [Ids -> Link] /\ link[n] \in Link
      /\ UNCHANGED <<req, out, gone>> /\ HangUp(n) /\ Goto(n, "store")
      /\ link[n].blocks = << >> /\ link[n].end = "eof"
  BY DEF EndOfResponse, AnswersInv, PipelineInv, PipelineType
<1>2. GetsThrough(n)
  BY <1>1 DEF GetsThrough, Supported
<1>3. out[n] \in Seq(Piece) /\ FollowsOn(n, out[n])
  BY <1>1, <1>2 DEF AnswersInv, AnswerFits
<1>4. out[n] = Whole(n)
  BY <1>1, <1>3, FollowsToTheEnd DEF AnswersInv
<1>5. QED
  BY <1>1, <1>4, Went, SameRequests DEF AnswerFits, Early

LEMMA ReadErrorAnswer ==
    ASSUME AnswersInv, NEW n \in Ids, ReadError(n), GetsThrough(n)'
    PROVE  AnswerFits(n)'
<1>1. link[n] \in Link /\ link \in [Ids -> Link] /\ link[n].end = "reset"
  BY DEF ReadError, AnswersInv, PipelineInv, PipelineType
<1>2. link'[n].end = "reset"
  BY <1>1 DEF ReadError, ReadErrorIsALength, HangUp, Link
<1>3. QED
  BY <1>2 DEF GetsThrough

LEMMA StoreAnswer ==
    ASSUME AnswersInv, NEW n \in Ids, Store(n), GetsThrough(n)'
    PROVE  AnswerFits(n)'
<1>1. /\ pc[n] = "store" /\ UNCHANGED <<req, out, gone, link>>
      /\ Goto(n, "clear") /\ Server(n) \in Servers
  BY DEF Store, tinyVars, AnswersInv, PipelineInv, ConnInv
<1>2. AnswerFits(n)
  BY <1>1 DEF AnswersInv, GetsThrough, Supported
<1>3. Final(n)
  BY <1>1, <1>2, WholeAnswers DEF AnswersInv, AnswerFits, Final
<1>4. QED
  BY <1>1, <1>3, Went, FinalStays DEF AnswerFits, Early

LEMMA ClearAnswer ==
    ASSUME AnswersInv, NEW n \in Ids, Clear(n), GetsThrough(n)'
    PROVE  AnswerFits(n)'
<1>1. /\ pc[n] \in {"clear", "close"} /\ UNCHANGED <<req, out, gone, link>>
      /\ Goto(n, "closed")
  BY DEF Clear, tinyVars
<1>2. AnswerFits(n)
  BY <1>1 DEF AnswersInv, GetsThrough, Supported
<1>3. QED
  BY <1>1, <1>2, Went, FinalStays DEF AnswerFits, Early

-----------------------------------------------------------------------------
\* What a step of a server that serves leaves as it is.
LEMMA OneServer ==
    ASSUME PipelineInv, NEW s \in Servers, TinyStep(s), ~Accept(s)
    PROVE  /\ tiny[s].pc \in {"read", "write"}
           /\ \A r \in Servers \ {s} :
                tiny'[r] = tiny[r] /\ backlog'[r] = backlog[r]
           /\ backlog'[s] \in {backlog[s], << >>}
           /\ tiny'[s].id = tiny[s].id \/ tiny'[s].pc = "accept"
<1>1. /\ tiny \in [Servers -> TinyState] /\ tiny[s] \in TinyState
      /\ backlog \in [Servers -> Seq(Ids)]
  BY DEF PipelineInv, PipelineType
<1>2. \/ ReadRequest(s) \/ WriteBlock(s) \/ CloseConnection(s)
  BY DEF TinyStep
<1>3. CASE Dies(s, link)
  BY <1>1, <1>2, <1>3
     DEF Dies, TinyState, ReadRequest, WriteBlock, CloseConnection
<1>4. CASE ~Dies(s, link)
  <2>1. UNCHANGED backlog
    BY <1>2, <1>4 DEF ReadRequest, WriteBlock, CloseConnection
  <2>2. CASE ReadRequest(s)
    BY <1>1, <1>4, <2>1, <2>2 DEF ReadRequest, TinyState
  <2>3. CASE WriteBlock(s)
    BY <1>1, <1>4, <2>1, <2>3 DEF WriteBlock, TinyState
  <2>4. CASE CloseConnection(s)
    BY <1>1, <2>1, <2>4 DEF CloseConnection, TinyState
  <2>5. QED
    BY <1>2, <2>2, <2>3, <2>4
<1>5. QED
  BY <1>3, <1>4

LEMMA FollowsReadRequest ==
    ASSUME PipelineInv, NEW s \in Servers, ReadRequest(s), ~Dies(s, link),
           UNCHANGED proxyVars, NEW n \in Ids, n = tiny[s].id,
           pc[n] = "response", NEW got, FollowsOn(n, got)
    PROVE  FollowsOn(n, got)'
<1>1. tiny[s].pc = "read" /\ UNCHANGED <<req, backlog, link>>
  BY DEF ReadRequest, proxyVars
<1>2. /\ s = Server(n) /\ Mine(n) = tiny[s]
      /\ Serving(n) /\ ~Queued(n) /\ ConnInv(n) /\ Conn(s) = link[n]
      /\ tiny \in [Servers -> TinyState] /\ tiny[s] \in TinyState
  BY <1>1, ServedOne
<1>3. /\ link[n].peer = "open" /\ link[n].request \in {NoRequest, RequestTo(n)}
      /\ Server(n)' = s /\ ~Queued(n)'
  BY <1>1, <1>2, SameRequests
     DEF ConnInv, LinkFits, Linked, Queued, QueuedAt
<1>4. CASE tiny' = [tiny EXCEPT ![s].pc = "hung"]
  <2>1. Mine(n)'.pc = "hung"
    BY <1>2, <1>3, <1>4 DEF Mine, TinyState
  <2>2. ~Serving(n)'
    BY <2>1 DEF Serving, Serves
  <2>3. QED
    BY <1>1, <1>3, <2>2, FollowsStill
<1>5. CASE /\ link[n].request # NoRequest
           /\ tiny' = [tiny EXCEPT ![s].pc = "write",
                         ![s].todo = Response(s, link[n].request.query),
                         ![s].child = ~IsStatic(link[n].request.query)]
  <2>1. Response(s, link[n].request.query) = Whole(n)
    <3>1. link[n].request = RequestTo(n) /\ s = Server(n)
      BY <1>2, <1>3, <1>5
    <3>2. link[n].request.query = Info(n).query
      BY <3>1 DEF RequestTo
    <3>3. QED
      BY <3>1, <3>2, Zenon DEF Whole
  <2>2. PICK child : child = ~IsStatic(link[n].request.query)
    OBVIOUS
  <2>3. tiny' = [tiny EXCEPT ![s].pc = "write", ![s].todo = Whole(n),
                             ![s].child = child]
    BY <1>5, <2>1, <2>2
  <2>4. /\ tiny'[s].pc = "write" /\ tiny'[s].id = n
        /\ tiny'[s].todo = Whole(n)
    BY <1>2, <2>3 DEF TinyState
  <2>5. /\ Mine(n)'.pc = "write" /\ Mine(n)'.id = n
        /\ Mine(n)'.todo = Whole(n)
    BY <1>3, <2>4 DEF Mine
  <2>6. QED
    BY <1>1, <1>2, <2>5, FollowsAnswer
<1>6. QED
  BY <1>1, <1>2, <1>3, <1>4, <1>5 DEF ReadRequest

LEMMA FollowsWriteBlock ==
    ASSUME PipelineInv, NEW s \in Servers, WriteBlock(s), ~Dies(s, link),
           UNCHANGED proxyVars, NEW n \in Ids, n = tiny[s].id,
           pc[n] = "response", NEW got \in Seq(Piece), FollowsOn(n, got)
    PROVE  FollowsOn(n, got)'
<1>1. /\ tiny[s].pc = "write" /\ tiny[s].todo # << >>
      /\ UNCHANGED <<req, backlog>>
  BY DEF WriteBlock, proxyVars
<1>2. /\ s = Server(n) /\ Mine(n) = tiny[s]
      /\ Serving(n) /\ ~Queued(n) /\ ConnInv(n) /\ Conn(s) = link[n]
      /\ link \in [Ids -> Link] /\ link[n] \in Link
      /\ tiny \in [Servers -> TinyState] /\ tiny[s] \in TinyState
  BY <1>1, ServedOne
<1>3. link[n].peer = "open"
  BY <1>2 DEF ConnInv, LinkFits, Linked
<1>4. Server(n)' = s /\ ~Queued(n)'
  BY <1>1, <1>2, SameRequests DEF Queued, QueuedAt
<1>5. CASE link[n].end # "open"
  <2>1. UNCHANGED link
    BY <1>2, <1>5 DEF WriteBlock
  <2>2. tiny'[s].pc = "write"
    BY <1>1, <1>2, <1>5 DEF WriteBlock, TinyState
  <2>3. ~Asked(n)'
    BY <1>4, <2>2 DEF Asked, Mine
  <2>4. QED
    BY <1>1, <1>5, <2>1, <2>3, FollowsLost
<1>6. CASE link[n].end = "open"
  <2>1. /\ link' = [link EXCEPT ![n].blocks = Append(@, Head(tiny[s].todo))]
        /\ tiny' = [tiny EXCEPT ![s].todo = Tail(@)]
    BY <1>2, <1>3, <1>6 DEF WriteBlock
  <2>2. /\ link'[n].blocks = Append(link[n].blocks, Head(Mine(n).todo))
        /\ link'[n].end = "open"
    BY <1>2, <1>6, <2>1 DEF Link
  <2>3. tiny'[s] = [tiny[s] EXCEPT !.todo = Tail(@)]
    BY <1>2, <2>1
  <2>4. Mine(n)' = [Mine(n) EXCEPT !.todo = Tail(@)]
    BY <1>2, <1>4, <2>3 DEF Mine
  <2>5. QED
    BY <1>1, <1>2, <1>6, <2>2, <2>4, FollowsWrite
<1>7. QED
  BY <1>5, <1>6

LEMMA FollowsCloseConnection ==
    ASSUME PipelineInv, NEW s \in Servers, CloseConnection(s),
           UNCHANGED proxyVars, NEW n \in Ids, n = tiny[s].id,
           NEW got \in Seq(Piece), FollowsOn(n, got)
    PROVE  FollowsOn(n, got)'
<1>1. /\ tiny[s].pc = "write" /\ tiny[s].todo = << >>
      /\ UNCHANGED <<req, backlog>>
      /\ link' = [link EXCEPT ![n].end = IF @ = "open" THEN "eof" ELSE @]
  BY DEF CloseConnection, proxyVars
<1>2. /\ s = Server(n) /\ Mine(n) = tiny[s] /\ Serving(n) /\ ~Queued(n)
      /\ link \in [Ids -> Link] /\ link[n] \in Link
      /\ tiny \in [Servers -> TinyState] /\ tiny[s] \in TinyState
  BY <1>1, ServedOne
<1>3. tiny'[s].pc = "accept"
  BY <1>2 DEF CloseConnection, TinyState
<1>4. ~Asked(n)' /\ ~Serving(n)'
  BY <1>1, <1>2, <1>3, StillServing
<1>5. /\ link'[n].blocks = link[n].blocks
      /\ link'[n].end = IF link[n].end = "open" THEN "eof" ELSE link[n].end
  BY <1>1, <1>2 DEF Link
<1>6. QED
  BY <1>1, <1>2, <1>4, <1>5, FollowsClose

\* A server's steps, seen from a thread that waits for the response.
LEMMA FollowsServer ==
    ASSUME PipelineInv, NEW s \in Servers, TinyStep(s), UNCHANGED proxyVars,
           NEW n \in Ids,
           pc[n] = "response", NEW got \in Seq(Piece), FollowsOn(n, got),
           link'[n].end # "reset"
    PROVE  FollowsOn(n, got)'
<1>1. CASE Accept(s)
  BY <1>1, FollowsAccept
<1>2. ASSUME ~Accept(s) PROVE FollowsOn(n, got)'
  <2>1. /\ tiny[s].pc \in {"read", "write"} /\ UNCHANGED req
        /\ \A r \in Servers \ {s} :
             tiny'[r] = tiny[r] /\ backlog'[r] = backlog[r]
        /\ backlog'[s] \in {backlog[s], << >>}
        /\ tiny'[s].id = tiny[s].id \/ tiny'[s].pc = "accept"
    BY <1>2, OneServer DEF proxyVars
  <2>2. PICK m \in Ids :
          /\ m = tiny[s].id /\ s = Server(m) /\ Mine(m) = tiny[s]
          /\ Serving(m) /\ ~Queued(m) /\ ConnInv(m) /\ Conn(s) = link[m]
          /\ link \in [Ids -> Link]
          /\ tiny \in [Servers -> TinyState] /\ tiny[s] \in TinyState
    BY <2>1, ServedOne
  <2>3. PICK r : r = Server(n) /\ r = Server(n)'
    BY <2>1, SameRequests
  <2>4. Queued(n)' => Queued(n)
    BY <2>1, <2>3 DEF Queued, QueuedAt
  <2>5. CASE n # m
    <3>1. Serving(n)' => Serving(n) /\ Mine(n)' = Mine(n)
      BY <2>1, <2>2, <2>3, <2>5 DEF Serving, Serves, Mine
    <3>2. link[n]' = link[n] \/ link[n]' = [link[n] EXCEPT !.end = "reset"]
      BY <1>2, <2>2, <2>5
         DEF TinyStep, ReadRequest, WriteBlock, CloseConnection, Dies
    <3>3. link[n] \in Link
      BY <2>2
    <3>4. QED
      BY <2>1, <2>4, <3>1, <3>2, <3>3, FollowsStill
  <2>6. CASE n = m
    <3>1. CASE Dies(s, link)
      <4>1. link'[n].end = "reset"
        BY <2>2, <2>6, <3>1 DEF Dies, Link
      <4>2. QED
        BY <4>1
    <3>2. CASE ReadRequest(s)
      BY <2>1, <2>2, <2>4, <2>6, <3>1, <3>2, FollowsReadRequest
    <3>3. CASE WriteBlock(s)
      BY <2>1, <2>2, <2>6, <3>1, <3>3, FollowsWriteBlock
    <3>4. CASE CloseConnection(s)
      BY <2>1, <2>2, <2>6, <3>4, FollowsCloseConnection
    <3>5. QED
      BY <1>2, <3>2, <3>3, <3>4 DEF TinyStep
  <2>7. QED
    BY <2>5, <2>6
<1>3. QED
  BY <1>1, <1>2

\* A connection that was reset stays so, and a server does not hang up for the
\* proxy.
LEMMA ResetStays ==
    ASSUME PipelineInv, NEW s \in Servers, TinyStep(s), NEW n \in Ids
    PROVE  /\ link[n].end = "reset" => link'[n].end = "reset"
           /\ link[n]'.peer = link[n].peer
<1>1. link \in [Ids -> Link] /\ link[n] \in Link
  BY DEF PipelineInv, PipelineType
<1>2. CASE UNCHANGED link
  BY <1>2
<1>3. CASE Dies(s, link)
  <2>1. link[n]' \in {link[n], [link[n] EXCEPT !.end = "reset"]}
    BY <1>1, <1>3 DEF Dies
  <2>2. QED
    BY <1>1, <2>1 DEF Link
<1>4. CASE WriteBlock(s)
  <2>1. CASE \E m : link' = [link EXCEPT ![m].blocks =
                                Append(@, Head(tiny[s].todo))]
    BY <1>1, <2>1 DEF Link
  <2>2. QED
    BY <1>2, <1>3, <1>4, <2>1, Zenon DEF WriteBlock
<1>5. CASE CloseConnection(s)
  <2>1. PICK m : link' = [link EXCEPT ![m].end =
                            IF @ = "open" THEN "eof" ELSE @]
    BY <1>5, Zenon DEF CloseConnection, Conn
  <2>2. QED
    BY <1>1, <2>1 DEF Link
<1>6. QED
  BY <1>2, <1>3, <1>4, <1>5 DEF TinyStep, Accept, ReadRequest

LEMMA ServerAnswers ==
    ASSUME AnswersInv, Tinys, NEW n \in Ids, GetsThrough(n)'
    PROVE  AnswerFits(n)'
<1>1. PICK s \in Servers : TinyStep(s) /\ UNCHANGED proxyVars
  BY DEF Tinys
<1>2. PipelineInv /\ UNCHANGED <<pc, req, out, gone>>
  BY <1>1 DEF AnswersInv, proxyVars
<1>3. AnswerFits(n)
  BY <1>1, <1>2, ResetStays DEF AnswersInv, GetsThrough, Supported
<1>4. ASSUME pc[n] = "response" PROVE FollowsOn(n, out[n])'
  <2>1. PICK got \in Seq(Piece) : got = out[n]
    BY <1>3, <1>4 DEF AnswerFits
  <2>2. FollowsOn(n, got)'
    BY <1>1, <1>2, <1>3, <1>4, <2>1, FollowsServer DEF AnswerFits, GetsThrough
  <2>3. QED
    BY <1>2, <2>1, <2>2 DEF FollowsOn
<1>5. Final(n) => Final(n)'
  BY <1>1, <1>2, ResetStays, FinalStays
<1>6. QED
  BY <1>2, <1>3, <1>4, <1>5, SameRequests DEF AnswerFits

-----------------------------------------------------------------------------
LEMMA AnswersKeep == AnswersInv /\ [Next]_vars => AnswersInv'
<1> SUFFICES ASSUME AnswersInv, [Next]_vars PROVE AnswersInv'
  OBVIOUS
<1>1. PipelineInv'
  BY PipelineKeeps DEF AnswersInv
<1>2. ASSUME NEW n \in Ids, Handle(n) PROVE AnswersInv'
  <2>1. GetsThrough(n)' => AnswerFits(n)'
    BY <1>2, TakeAnswer, RequestLineAnswer, ParseHeadersAnswer, LookupAnswer,
       ConnectAnswer, SendRequestAnswer, CopyAndPassAnswer,
       EndOfResponseAnswer, ReadErrorAnswer, StoreAnswer, ClearAnswer
       DEF Handle
  <2>2. UNCHANGED <<req, gone>>
    BY <1>2, Zenon
       DEF Handle, Take, RequestLine, ParseHeaders, Lookup, Connect,
           SendRequest, CopyAndPass, EndOfResponse, ReadError, Store, Clear
  <2>3. out' = [m \in Ids |-> out'[m]]
    <3>1. ASSUME NEW x, out' = [out EXCEPT ![n] = x]
          PROVE  out' = [m \in Ids |-> out'[m]]
      BY <3>1 DEF AnswersInv
    <3>2. UNCHANGED out \/ \E x : out' = [out EXCEPT ![n] = x]
      <4>1. CASE ParseHeaders(n)
        BY <4>1, Zenon DEF ParseHeaders, Answered
      <4>2. CASE Connect(n)
        BY <4>2, Zenon DEF Connect, Answered
      <4>3. CASE RequestLine(n)
        BY <4>3, Zenon DEF RequestLine, MethodError, Refused, Answered
      <4>4. QED
        BY <1>2, <4>1, <4>2, <4>3, Zenon
           DEF Handle, Take, Lookup, SendRequest, CopyAndPass, EndOfResponse,
               ReadError, Store, Clear, Answered
    <3>3. QED
      BY <3>1, <3>2 DEF AnswersInv
  <2>4. cache' \in Seq(Origins)
    <3>1. cache \in Seq(Origins)
      BY DEF AnswersInv
    <3>2. CASE Lookup(n)
      BY <3>1, <3>2, LookupCache
    <3>3. CASE Store(n)
      <4>1. copied[n].cacheable =>
              [key |-> Key(n), value |-> copied[n].data] \in Origins
        BY <3>3, StoredAnswer DEF Store, AnswersInv, AnswerTo, Origins
      <4>2. QED
        BY <3>1, <3>3, <4>1, StoreCache
    <3>4. CASE ~Lookup(n) /\ ~Store(n)
      <4>1. UNCHANGED cache
        BY <1>2, <3>4, Zenon
           DEF Handle, Take, RequestLine, ParseHeaders, Connect, SendRequest,
               CopyAndPass, EndOfResponse, ReadError, Clear
      <4>2. QED
        BY <3>1, <4>1
    <3>5. QED
      BY <3>2, <3>3, <3>4
  <2>5. (cache \in Seq(Origins))'
    BY <2>2, <2>4, SameAnswers
  <2>6. QED
    BY <1>1, <1>2, <2>1, <2>2, <2>3, <2>5, OtherConnections DEF AnswersInv
<1>3. ASSUME UNCHANGED <<req, cache>> PROVE (cache \in Seq(Origins))'
  BY <1>3, SameAnswers DEF AnswersInv
<1>4. CASE Tinys
  BY <1>1, <1>3, <1>4, ServerAnswers DEF AnswersInv, Tinys, proxyVars
<1>5. ASSUME NEW n \in Ids, ClientGoes(n) PROVE AnswersInv'
  <2>1. ASSUME NEW m \in Ids PROVE GetsThrough(m)' => AnswerFits(m)'
    BY <1>5, SameServers, AnswerStays DEF AnswersInv, ClientGoes, tinyVars
  <2>2. QED
    BY <1>1, <1>3, <1>5, <2>1 DEF AnswersInv, ClientGoes
<1>6. ASSUME NEW n \in Ids, Reset(n) PROVE AnswersInv'
  <2>1. ASSUME NEW m \in Ids PROVE GetsThrough(m)' => AnswerFits(m)'
    <3>1. link \in [Ids -> Link]
      BY DEF AnswersInv, PipelineInv, PipelineType
    <3>2. link'[m] = link[m] \/ link'[m] = [link[m] EXCEPT !.end = "reset"]
      BY <1>6, <3>1 DEF Reset
    <3>3. QED
      BY <1>6, <3>1, <3>2, SameServers, AnswerStays
         DEF AnswersInv, Reset, proxyVars
  <2>2. QED
    BY <1>1, <1>3, <1>6, <2>1 DEF AnswersInv, Reset, proxyVars
<1>7. CASE UNCHANGED vars
  <2>1. ASSUME NEW m \in Ids PROVE GetsThrough(m)' => AnswerFits(m)'
    BY <1>7, SameServers, AnswerStays
       DEF AnswersInv, vars, tinyVars, proxyVars
  <2>2. QED
    BY <1>1, <1>3, <1>7, <2>1 DEF AnswersInv, vars, proxyVars
<1>8. QED
  BY <1>2, <1>4, <1>5, <1>6, <1>7 DEF Next, Steps

\* Whatever is asked in whichever order, of however many servers, and whatever
\* happens to the other connections: a client that stays, of a supported
\* version, whose connection to the server was not reset, gets one error or the
\* whole response of the server it named to its own request, from the server or
\* from the cache; but for an answer from the cache that is the one of another
\* server, to the same request, whose host and port read the same when they are
\* put together (proxy, forward, build_cache_key).
THEOREM EveryoneGetsOneAnswer == Spec => []OneAnswer
<1>1. AnswersInv => OneAnswer
  BY DEF AnswersInv, AnswerFits, Final, Errors, OneAnswer, GetsThrough
<1>2. QED
  BY <1>1, AnswersStart, AnswersKeep, PTL DEF Spec

-----------------------------------------------------------------------------
(* f is what FlattenSeq runs through: the concatenations of the parts of s   *)
(* up to the n-th.                                                           *)
Concats(f, s, n) ==
    f = [i \in 1 .. n |-> IF i = 1 THEN s[i] ELSE f[i - 1] \o s[i]]

\* There is such a function: no number of parts is the least without one.
LEMMA ConcatsExist ==
    ASSUME NEW s, NEW n \in Nat PROVE \E f : Concats(f, s, n)
<1> DEFINE T == {m \in Nat : ~\E f : Concats(f, s, m)}
<1> SUFFICES ASSUME T # {} PROVE FALSE
  OBVIOUS
<1>1. PICK x \in T : \A y \in T : x <= y
  BY LeastExists
<1>2. x # 0
  <2>1. Concats([i \in {} |-> i], s, 0)
    BY 1 .. 0 = {} DEF Concats
  <2>2. QED
    BY <1>1, <2>1
<1>3. PICK m \in Nat : x = m + 1
  <2>1. x - 1 \in Nat /\ x = (x - 1) + 1
    BY <1>1, <1>2
  <2>2. QED
    BY <2>1
<1>4. PICK f : Concats(f, s, m)
  <2>1. m \notin T
    BY <1>1, <1>3
  <2>2. QED
    BY <2>1
<1>5. PICK last : last = IF m + 1 = 1 THEN s[m + 1] ELSE f[m] \o s[m + 1]
  OBVIOUS
<1>6. PICK g : g = [i \in 1 .. m + 1 |-> IF i = m + 1 THEN last ELSE f[i]]
  OBVIOUS
<1>7. ASSUME NEW i \in 1 .. m + 1
      PROVE  g[i] = IF i = 1 THEN s[i] ELSE g[i - 1] \o s[i]
  <2>1. CASE i = m + 1
    <3>1. g[i] = last
      BY <1>6, <2>1
    <3>2. CASE m = 0
      BY <1>5, <2>1, <3>1, <3>2
    <3>3. CASE m # 0
      <4>1. m \in 1 .. m + 1 /\ m # m + 1 /\ i - 1 = m /\ i # 1
        BY <2>1, <3>3
      <4>2. g[m] = f[m]
        BY <1>6, <4>1
      <4>3. QED
        BY <1>5, <2>1, <3>1, <4>1, <4>2
    <3>4. QED
      BY <3>2, <3>3
  <2>2. CASE i # m + 1
    <3>1. i \in 1 .. m /\ g[i] = f[i]
      BY <1>6, <2>2
    <3>2. f[i] = IF i = 1 THEN s[i] ELSE f[i - 1] \o s[i]
      BY <1>4, <3>1 DEF Concats
    <3>3. CASE i = 1
      BY <3>1, <3>2, <3>3
    <3>4. CASE i # 1
      <4>1. i - 1 \in 1 .. m + 1 /\ i - 1 # m + 1
        BY <3>1, <3>4
      <4>2. g[i - 1] = f[i - 1]
        BY <1>6, <4>1
      <4>3. QED
        BY <3>1, <3>2, <3>4, <4>2
    <3>5. QED
      BY <3>3, <3>4
  <2>3. QED
    BY <2>1, <2>2
<1>8. Concats(g, s, m + 1)
  BY <1>6, <1>7, Zenon DEF Concats
<1>9. QED
  BY <1>1, <1>3, <1>8

\* FlattenSeq takes the last of them.
LEMMA FlattenIsConcats ==
    ASSUME NEW s, NEW n \in Nat, n = Len(s), n # 0
    PROVE  \E f : Concats(f, s, n) /\ FlattenSeq(s) = f[n]
<1>1. FlattenSeq(s) = (CHOOSE f : Concats(f, s, n))[n]
  BY Zenon DEF FlattenSeq, Concats
<1>2. Concats(CHOOSE f : Concats(f, s, n), s, n)
  BY ConcatsExist, Zenon
<1>3. QED
  BY <1>1, <1>2

Elements(s) == {s[k] : k \in 1 .. Len(s)}

\* In a concatenation is what is in either of the two.
LEMMA ConcatElements ==
    ASSUME NEW S, NEW a \in Seq(S), NEW b \in Seq(S)
    PROVE  /\ a \o b \in Seq(S)
           /\ Elements(a \o b) = Elements(a) \cup Elements(b)
<1>1. PICK la, lb \in Nat : la = Len(a) /\ lb = Len(b)
  OBVIOUS
<1>2. PICK c : c = a \o b
  OBVIOUS
<1>3. /\ c \in Seq(S) /\ Len(c) = la + lb
      /\ \A k \in 1 .. la : c[k] = a[k]
      /\ \A k \in 1 .. lb : c[la + k] = b[k]
  BY <1>1, <1>2
<1>4. ASSUME NEW k \in 1 .. la + lb PROVE c[k] \in Elements(a) \cup Elements(b)
  <2>1. CASE k \in 1 .. la
    BY <1>1, <1>3, <2>1 DEF Elements
  <2>2. CASE k \notin 1 .. la
    <3>1. k - la \in 1 .. lb /\ la + (k - la) = k
      BY <2>2
    <3>2. c[k] = b[k - la]
      BY <1>3, <3>1
    <3>3. QED
      BY <1>1, <3>1, <3>2 DEF Elements
  <2>3. QED
    BY <2>1, <2>2
<1>5. ASSUME NEW k \in 1 .. la PROVE a[k] \in Elements(c)
  <2>1. k \in 1 .. la + lb
    OBVIOUS
  <2>2. QED
    BY <1>3, <2>1 DEF Elements
<1>6. ASSUME NEW k \in 1 .. lb PROVE b[k] \in Elements(c)
  <2>1. la + k \in 1 .. la + lb
    OBVIOUS
  <2>2. QED
    BY <1>3, <2>1 DEF Elements
<1>7. ASSUME NEW x \in Elements(c) PROVE x \in Elements(a) \cup Elements(b)
  BY <1>3, <1>4 DEF Elements
<1>8. ASSUME NEW x \in Elements(a) \cup Elements(b) PROVE x \in Elements(c)
  BY <1>1, <1>5, <1>6 DEF Elements
<1>9. QED
  BY <1>2, <1>3, <1>7, <1>8

AllElements(s, n) == UNION {Elements(s[k]) : k \in 1 .. n}

\* What is in a concatenation is what is in its parts.
LEMMA ConcatsElements ==
    ASSUME NEW S, NEW n \in Nat, NEW s, \A k \in 1 .. n : s[k] \in Seq(S),
           NEW f, Concats(f, s, n), NEW i \in 1 .. n
    PROVE  /\ f[i] \in Seq(S)
           /\ Elements(f[i]) = AllElements(s, i)
<1> USE DEF AllElements
<1> DEFINE Upto(j) == AllElements(s, j)
           Holds(j) == f[j] \in Seq(S) /\ Elements(f[j]) = Upto(j)
           T == {j \in 1 .. n : ~Holds(j)}
<1> SUFFICES ASSUME T # {} PROVE FALSE
  OBVIOUS
<1>1. T \in SUBSET Nat
  OBVIOUS
<1>2. PICK x \in T : \A y \in T : x <= y
  BY <1>1, LeastExists
<1>3. x \in 1 .. n /\ f[x] = IF x = 1 THEN s[x] ELSE f[x - 1] \o s[x]
  BY <1>2 DEF Concats
<1>4. x # 1
  <2> SUFFICES ASSUME x = 1 PROVE FALSE
    OBVIOUS
  <2>1. f[1] = s[1] /\ s[1] \in Seq(S)
    BY <1>3
  <2>2. Upto(1) = Elements(s[1])
    <3>1. 1 .. 1 = {1}
      OBVIOUS
    <3>2. {Elements(s[k]) : k \in 1 .. 1} = {Elements(s[1])}
      BY <3>1
    <3>3. QED
      BY <3>2
  <2>3. QED
    BY <1>2, <2>1, <2>2
<1>5. PICK j \in 1 .. n : x = j + 1
  <2>1. x - 1 \in 1 .. n /\ x = (x - 1) + 1
    BY <1>3, <1>4
  <2>2. QED
    BY <2>1
<1>6. Holds(j)
  <2>1. ~(x <= j)
    BY <1>3, <1>5
  <2>2. j \notin T
    BY <1>2, <2>1
  <2>3. QED
    BY <1>5, <2>2
<1>7. f[x] = f[j] \o s[x] /\ s[x] \in Seq(S)
  <2>1. x - 1 = j
    BY <1>5
  <2>2. QED
    BY <1>3, <1>4, <2>1
<1>8. f[x] \in Seq(S) /\ Elements(f[x]) = Elements(f[j]) \cup Elements(s[x])
  BY <1>6, <1>7, ConcatElements
<1>9. Upto(x) = Upto(j) \cup Elements(s[x])
  <2>1. 1 .. x = (1 .. j) \cup {x}
    BY <1>3, <1>5
  <2>2. {Elements(s[k]) : k \in 1 .. x}
          = {Elements(s[k]) : k \in 1 .. j} \cup {Elements(s[x])}
    <3>1. ASSUME NEW A, NEW B, A = B \cup {x}
          PROVE  {Elements(s[k]) : k \in A}
                   = {Elements(s[k]) : k \in B} \cup {Elements(s[x])}
      BY <3>1
    <3>2. QED
      BY <2>1, <3>1, Zenon
  <2>3. QED
    BY <2>2
<1>10. Holds(x)
  <2>1. Elements(f[x]) = Upto(x)
    BY <1>6, <1>8, <1>9, Zenon
  <2>2. QED
    BY <1>8, <2>1, Zenon
<1>11. QED
  BY <1>2, <1>10

-----------------------------------------------------------------------------
Name == STRING \cup {"Host"} \cup Replaced

(* A line is the set of the names in it.                                     *)
Lines == SUBSET Name

(* What the array of headers becomes, one part for each, and what the proxy  *)
(* adds.                                                                     *)
PartOf(headers, k) ==
    IF IsFirstHost(headers, k) \/ PassedOn(headers[k])
      THEN <<headers[k]>> ELSE << >>

Ending(headers) == IF HostInHeaders(headers) THEN Own ELSE OwnOnHostLine

\* Of the headers that name a host there is a first, and it is passed on.
LEMMA FirstHostExists ==
    ASSUME NEW headers \in Seq(Lines), HostInHeaders(headers)
    PROVE  \E k \in 1 .. Len(headers) : IsFirstHost(headers, k)
<1>1. PICK m \in Nat : m = Len(headers)
  OBVIOUS
<1> DEFINE T == {k \in 1 .. m : "Host" \in headers[k]}
<1>2. T \in SUBSET Nat /\ T # {}
  BY <1>1 DEF HostInHeaders
<1>3. PICK k \in T : \A j \in T : k <= j
  BY <1>2, LeastExists
<1>4. PICK before : before = SubSeq(headers, 1, k - 1)
  OBVIOUS
<1>5. /\ Len(before) = k - 1 /\ before \in Seq(Lines)
      /\ \A j \in 1 .. k - 1 : before[j] = headers[j]
  <2>1. k \in 1 .. m
    BY <1>3
  <2>2. QED
    BY <1>1, <1>4, <2>1
<1>6. ~HostInHeaders(before)
  <2> SUFFICES ASSUME NEW j \in 1 .. k - 1, "Host" \in before[j] PROVE FALSE
    BY <1>5 DEF HostInHeaders
  <2>1. headers[j] = before[j] /\ j \in 1 .. m /\ ~(k <= j)
    BY <1>3, <1>5
  <2>2. j \in T
    BY <2>1
  <2>3. QED
    BY <1>3, <2>1, <2>2
<1>7. QED
  BY <1>1, <1>3, <1>4, <1>6 DEF IsFirstHost

\* The proxy adds three lines, the first of them with the host if need be.
LEMMA EndingType ==
    ASSUME NEW headers
    PROVE  /\ Ending(headers) \in Seq(Lines) /\ Len(Ending(headers)) = 3
           /\ Ending(headers)[1] = IF HostInHeaders(headers) THEN Own[1]
                                   ELSE {"Host"} \cup Own[1]
           /\ Ending(headers)[2] = Own[2] /\ Ending(headers)[3] = Own[3]
<1>1. /\ {"User-Agent"} \in Lines /\ {"Connection"} \in Lines
      /\ {"Proxy-Connection", "Connection"} \in Lines
      /\ {"Host", "User-Agent"} \in Lines
  BY DEF Lines, Name, Replaced
<1>2. ASSUME NEW a \in Lines, NEW b \in Lines, NEW c \in Lines, NEW s,
             s = <<a, b, c>>
      PROVE  /\ s \in Seq(Lines) /\ Len(s) = 3
             /\ s[1] = a /\ s[2] = b /\ s[3] = c
             /\ Tail(s) = <<b, c>>
  BY <1>2
<1>3. PICK own : own = Own
  OBVIOUS
<1>4. /\ own \in Seq(Lines) /\ Len(own) = 3
      /\ own[1] = {"User-Agent"} /\ own[2] = {"Connection"}
      /\ own[3] = {"Proxy-Connection", "Connection"}
      /\ Tail(own) = <<own[2], own[3]>>
  BY <1>1, <1>2, <1>3 DEF Own
<1>5. PICK merged : merged = OwnOnHostLine
  OBVIOUS
<1>6. merged = <<{"Host", "User-Agent"}, own[2], own[3]>>
  <2>1. {"Host"} \cup own[1] = {"Host", "User-Agent"}
    BY <1>4
  <2>2. merged = <<{"Host"} \cup own[1], own[2], own[3]>>
    BY <1>3, <1>5, Zenon DEF OwnOnHostLine
  <2>3. QED
    BY <2>1, <2>2
<1>7. /\ merged \in Seq(Lines) /\ Len(merged) = 3
      /\ merged[1] = {"Host", "User-Agent"}
      /\ merged[2] = own[2] /\ merged[3] = own[3]
  BY <1>1, <1>2, <1>4, <1>6
<1>8. merged[1] = {"Host"} \cup own[1]
  BY <1>4, <1>7
<1>9. CASE HostInHeaders(headers)
  BY <1>3, <1>4, <1>9 DEF Ending
<1>10. CASE ~HostInHeaders(headers)
  BY <1>3, <1>5, <1>7, <1>8, <1>10 DEF Ending
<1>11. QED
  BY <1>9, <1>10

\* The lines are those of the array's headers, then those that the proxy adds.
LEMMA ForwardedLines ==
    ASSUME NEW headers \in Seq(Lines)
    PROVE  \E first \in Seq(Lines) :
             /\ Forwarded(headers) = first \o Ending(headers)
             /\ Elements(first) = UNION {Elements(PartOf(headers, k)) :
                                           k \in 1 .. Len(headers)}
<1>1. PICK m \in Nat : m = Len(headers)
  OBVIOUS
<1>2. PICK parts : parts = [k \in DOMAIN headers |-> PartOf(headers, k)]
  OBVIOUS
<1>3. << >> \in Seq(Lines)
  OBVIOUS
<1>4. parts \in Seq(Seq(Lines)) /\ Len(parts) = m
  <2>1. ASSUME NEW k \in 1 .. m PROVE PartOf(headers, k) \in Seq(Lines)
    <3>1. headers[k] \in Lines
      BY <1>1
    <3>2. ASSUME NEW line \in Lines PROVE <<line>> \in Seq(Lines)
      OBVIOUS
    <3>3. PartOf(headers, k) \in {<<headers[k]>>, << >>}
      BY DEF PartOf
    <3>4. QED
      BY <1>3, <3>1, <3>2, <3>3
  <2>2. parts = [k \in 1 .. m |-> PartOf(headers, k)]
    BY <1>1, <1>2
  <2>3. parts \in [1 .. m -> Seq(Lines)]
    BY <2>1, <2>2
  <2>4. QED
    BY <2>3, SeqDef
<1>5. PICK ending \in Seq(Lines) : ending = Ending(headers)
  BY EndingType
<1>6. PICK s : s = parts \o <<ending>>
  OBVIOUS
<1>7. /\ s \in [1 .. m + 1 -> Seq(Lines)] /\ Len(s) = m + 1
      /\ \A k \in 1 .. m : s[k] = PartOf(headers, k)
      /\ s[m + 1] = ending
  <2>1. PICK rest : rest = <<ending>>
    OBVIOUS
  <2>2. rest \in Seq(Seq(Lines)) /\ Len(rest) = 1 /\ rest[1] = ending
    BY <1>5, <2>1
  <2>3. /\ s \in Seq(Seq(Lines)) /\ Len(s) = m + 1
        /\ \A k \in 1 .. m + 1 :
             s[k] = IF k <= m THEN parts[k] ELSE rest[k - m]
    BY <1>4, <1>6, <2>1, <2>2, ConcatProperties
  <2>4. s[m + 1] = ending
    <3>1. m + 1 \in 1 .. m + 1 /\ ~(m + 1 <= m) /\ (m + 1) - m = 1
      OBVIOUS
    <3>2. QED
      BY <2>2, <2>3, <3>1
  <2>5. ASSUME NEW k \in 1 .. m PROVE s[k] = PartOf(headers, k)
    <3>1. s[k] = parts[k]
      BY <2>3
    <3>2. QED
      BY <1>1, <1>2, <3>1
  <2>6. s \in [1 .. m + 1 -> Seq(Lines)]
    BY <2>3
  <2>7. QED
    BY <2>3, <2>4, <2>5, <2>6
<1>8. Forwarded(headers) = FlattenSeq(s)
  <2>1. parts = [k \in DOMAIN headers |->
                   IF IsFirstHost(headers, k) \/ PassedOn(headers[k])
                     THEN <<headers[k]>> ELSE << >>]
    BY <1>2, Zenon DEF PartOf
  <2>2. ending = IF HostInHeaders(headers) THEN Own ELSE OwnOnHostLine
    BY <1>5, Zenon DEF Ending
  <2>3. QED
    BY <1>6, <2>1, <2>2, Zenon DEF Forwarded
<1>9. PICK last \in Nat : last = m + 1
  OBVIOUS
<1>10. PICK f : Concats(f, s, last) /\ FlattenSeq(s) = f[last]
  BY <1>7, <1>9, FlattenIsConcats
<1>11. /\ last \in 1 .. last
       /\ f[last] = IF last = 1 THEN s[last] ELSE f[last - 1] \o s[last]
  <2>1. f = [i \in 1 .. last |-> IF i = 1 THEN s[i] ELSE f[i - 1] \o s[i]]
    BY <1>10, Zenon DEF Concats
  <2>2. last \in 1 .. last
    BY <1>9
  <2>3. QED
    BY <2>1, <2>2
<1>12. CASE m = 0
  <2>1. f[last] = ending
    BY <1>7, <1>9, <1>11, <1>12
  <2>2. << >> \o ending = ending
    BY <1>5
  <2>3. Elements(<< >>) = {}
    BY DEF Elements
  <2>4. UNION {Elements(PartOf(headers, k)) : k \in 1 .. Len(headers)} = {}
    BY <1>1, <1>12
  <2>5. QED
    BY <1>3, <1>5, <1>8, <1>10, <2>1, <2>2, <2>3, <2>4
<1>13. CASE m # 0
  <2>1. f[last] = f[m] \o ending /\ m \in 1 .. last
    BY <1>7, <1>9, <1>11, <1>13
  <2>2. \A k \in 1 .. last : s[k] \in Seq(Lines)
    BY <1>7, <1>9
  <2>3. f[m] \in Seq(Lines) /\ Elements(f[m]) = AllElements(s, m)
    <3>1. Concats(f, s, last)
      BY <1>10
    <3>2. m \in 1 .. last
      BY <2>1
    <3>3. QED
      BY <2>2, <3>1, <3>2, ConcatsElements
  <2>4. {Elements(s[k]) : k \in 1 .. m}
          = {Elements(PartOf(headers, k)) : k \in 1 .. m}
    BY <1>7
  <2>5. QED
    BY <1>1, <1>5, <1>8, <1>10, <2>1, <2>3, <2>4 DEF AllElements
<1>14. QED
  BY <1>12, <1>13

\* What the property asks of the lines that the server reads.
WellForwarded(headers, lines) ==
    LET before == Len(lines) - Len(Own)
        hostSent == \E k \in DOMAIN headers : "Host" \in headers[k]
    IN  /\ \E k \in DOMAIN lines : "Host" \in lines[k]
        /\ \A k \in 1 .. before :
             "Host" \in lines[k] \/ lines[k] \cap Replaced = {}
        /\ lines[before + 1] =
             IF hostSent THEN Own[1] ELSE {"Host"} \cup Own[1]
        /\ lines[before + 2] = Own[2] /\ lines[before + 3] = Own[3]

\* Whatever headers the client sends, the lines that go out are well.
LEMMA LinesAreWell ==
    ASSUME NEW headers \in Seq(Lines)
    PROVE  WellForwarded(headers, Forwarded(headers))
<1>1. PICK first \in Seq(Lines) :
        /\ Forwarded(headers) = first \o Ending(headers)
        /\ Elements(first) = UNION {Elements(PartOf(headers, k)) :
                                      k \in 1 .. Len(headers)}
  BY ForwardedLines
<1>2. PICK n \in Nat : n = Len(first)
  BY <1>1
<1>3. ASSUME NEW x PROVE Elements(<<x>>) = {x}
  <2>1. Len(<<x>>) = 1 /\ <<x>>[1] = x /\ 1 .. 1 = {1}
    OBVIOUS
  <2>2. QED
    BY <2>1 DEF Elements
<1>4. Elements(<< >>) = {}
  BY DEF Elements
<1>5. ASSUME NEW line \in Elements(first)
      PROVE  "Host" \in line \/ line \cap Replaced = {}
  <2>1. PICK k \in 1 .. Len(headers) : line \in Elements(PartOf(headers, k))
    BY <1>1, <1>5
  <2>2. /\ IsFirstHost(headers, k) \/ PassedOn(headers[k])
        /\ PartOf(headers, k) = <<headers[k]>>
    BY <1>4, <2>1 DEF PartOf
  <2>3. line = headers[k]
    BY <1>3, <2>1, <2>2
  <2>4. QED
    BY <2>2, <2>3 DEF IsFirstHost, PassedOn
<1>6. ASSUME HostInHeaders(headers)
      PROVE  \E line \in Elements(first) : "Host" \in line
  <2>1. PICK k \in 1 .. Len(headers) : IsFirstHost(headers, k)
    BY <1>6, FirstHostExists
  <2>2. headers[k] \in Elements(PartOf(headers, k))
    BY <1>3, <2>1 DEF PartOf
  <2>3. QED
    BY <1>1, <2>1, <2>2 DEF IsFirstHost
<1>7. PICK lines, ending : lines = Forwarded(headers)
                           /\ ending = Ending(headers)
  OBVIOUS
<1>8. /\ ending \in Seq(Lines) /\ Len(ending) = 3
      /\ ending[1] = IF HostInHeaders(headers) THEN Own[1]
                     ELSE {"Host"} \cup Own[1]
      /\ ending[2] = Own[2] /\ ending[3] = Own[3]
  BY <1>7, EndingType
<1>9. /\ lines \in Seq(Lines) /\ Len(lines) = n + 3
      /\ \A k \in 1 .. n + 3 :
           lines[k] = IF k <= n THEN first[k] ELSE ending[k - n]
  <2>1. ending \in Seq(Lines) /\ Len(ending) = 3
    BY <1>8
  <2>2. lines = first \o ending
    BY <1>1, <1>7
  <2>3. /\ first \o ending \in Seq(Lines)
        /\ Len(first \o ending) = Len(first) + Len(ending)
        /\ \A k \in 1 .. Len(first) + Len(ending) : (first \o ending)[k] =
             IF k <= Len(first) THEN first[k] ELSE ending[k - Len(first)]
    BY <2>1, ConcatProperties
  <2>4. QED
    BY <1>2, <2>1, <2>2, <2>3
<1>10. \A k \in 1 .. n : lines[k] = first[k]
  BY <1>9
<1>11. ASSUME NEW k \in 1 .. 3 PROVE lines[n + k] = ending[k]
  <2>1. n + k \in 1 .. n + 3 /\ ~(n + k <= n) /\ (n + k) - n = k
    OBVIOUS
  <2>2. QED
    BY <1>9, <2>1
<1>12. \A k \in 1 .. n :
         "Host" \in lines[k] \/ lines[k] \cap Replaced = {}
  BY <1>2, <1>5, <1>10 DEF Elements
<1>13. \E k \in 1 .. n + 3 : "Host" \in lines[k]
  <2>1. CASE HostInHeaders(headers)
    <3>1. PICK line \in Elements(first) : "Host" \in line
      BY <1>6, <2>1
    <3>2. PICK k \in 1 .. n : line = first[k]
      BY <1>2, <3>1 DEF Elements
    <3>3. k \in 1 .. n + 3 /\ lines[k] = first[k]
      BY <1>10, <3>2
    <3>4. QED
      BY <3>1, <3>2, <3>3
  <2>2. CASE ~HostInHeaders(headers)
    <3>1. n + 1 \in 1 .. n + 3 /\ 1 \in 1 .. 3
      OBVIOUS
    <3>2. lines[n + 1] = {"Host"} \cup Own[1]
      BY <1>8, <1>11, <2>2, <3>1
    <3>3. QED
      BY <3>1, <3>2
  <2>3. QED
    BY <2>1, <2>2
<1>14. Len(lines) - Len(Own) = n
  <2>1. ASSUME NEW a, NEW b, NEW c PROVE Len(<<a, b, c>>) = 3
    OBVIOUS
  <2>2. Len(Own) = 3
    BY <2>1 DEF Own
  <2>3. QED
    BY <1>9, <2>2
<1>15. /\ lines[n + 1] = IF HostInHeaders(headers) THEN Own[1]
                         ELSE {"Host"} \cup Own[1]
       /\ lines[n + 2] = Own[2] /\ lines[n + 3] = Own[3]
  <2>1. 1 \in 1 .. 3 /\ 2 \in 1 .. 3 /\ 3 \in 1 .. 3
    OBVIOUS
  <2>2. QED
    BY <1>8, <1>11, <2>1, Zenon
<1>16. DOMAIN lines = 1 .. n + 3
  BY <1>9
<1>17. QED
  BY <1>7, <1>12, <1>13, <1>14, <1>15, <1>16, Zenon
     DEF WellForwarded, HostInHeaders

\* Whatever the client sends and however the connection goes on, what a server
\* reads names a host, and of the client's headers that the proxy replaces
\* nothing but what is on the line of the host; last come the three lines of
\* the proxy, the first of them on the line of the host if the client named
\* none (forward).
THEOREM HeadersArrive == Spec => []HeadersForwarded
<1>1. PipelineInv => HeadersForwarded
  <2> SUFFICES ASSUME PipelineInv, NEW n \in Ids,
                      link[n].request # NoRequest
               PROVE  WellForwarded(req[n].headers, link[n].request.headers)
    BY Zenon DEF HeadersForwarded, WellForwarded
  <2>1. /\ req[n] \in Requests
        /\ link[n].request \in {NoRequest, RequestTo(n)}
    BY DEF PipelineInv, PipelineType, ConnInv, LinkFits
  <2>2. PICK headers : headers = req[n].headers
    OBVIOUS
  <2>3. headers \in Seq(Lines)
    <3>1. headers \in Seq(SUBSET STRING)
      BY <2>1, <2>2, RequestsAssumption
    <3>2. SUBSET STRING \subseteq Lines
      BY DEF Lines, Name
    <3>3. PICK m \in Nat : m = Len(headers)
      BY <3>1
    <3>4. headers \in [1 .. m -> SUBSET STRING]
      BY <3>1, <3>3
    <3>5. headers \in [1 .. m -> Lines]
      BY <3>2, <3>4
    <3>6. QED
      BY <3>3, <3>5, SeqDef
  <2>4. link[n].request.headers = Forwarded(headers)
    BY <2>1, <2>2 DEF RequestTo
  <2>5. QED
    BY <2>2, <2>3, <2>4, LinesAreWell
<1>2. QED
  BY <1>1, PipelineInvariant, PTL
=============================================================================
