-------------------------------- MODULE Proxy --------------------------------
(* The request pipeline of proxylab/proxy.c: worker threads take connections, *)
(* parse the request, answer from the cache or forward it to the server and   *)
(* pass the response on, block by block.  The servers are Tinys; clients may  *)
(* go away and connections to a server may be reset.                          *)
EXTENDS Tiny

CONSTANTS
    NTHREADS, MAX_HEADERS_NUMBER, MAX_OBJECT_SIZE, MAX_CACHE_SIZE,
    KnownHosts,   \* the names getaddrinfo resolves
    Requests,     \* [line, version, method, uri, headers, ends]
    Batches,      \* the requests of the connections: id -> request
    MaxFaults     \* bound: clients that go away, connections that are reset

ASSUME LimitAssumption ==
    /\ NTHREADS \in Nat \ {0} /\ MAX_OBJECT_SIZE \in Nat
    /\ MAX_CACHE_SIZE \in Nat /\ MAX_CACHE_SIZE >= MAX_OBJECT_SIZE

ASSUME RequestsAssumption == \A r \in Requests :
    r.uri \in Seq(STRING) /\ r.headers \in Seq(SUBSET STRING)

ASSUME BatchesAssumption == \A batch \in Batches : batch \in [Ids -> Requests]

LOCAL INSTANCE SequencesExt
LOCAL INSTANCE FiniteSets

VARIABLES
    pc,           \* where the thread of a connection is
    req,          \* what the client sends
    gone,         \* has the client closed the connection?
    out,          \* what the client is sent: error numbers and blocks
    stored,       \* headers of the connection that are allocated
    cached,       \* is a copy allocated that cache_get has made?
    copied,       \* cache_buffer, and cacheable
    cache,        \* entries, the least recently used first
    alive         \* does the process still run?

proxyVars == <<pc, req, gone, out, stored, cached, copied, cache, alive>>
vars == <<tinyVars, proxyVars>>

Init ==
    /\ TinyInit
    /\ pc = [n \in Ids |-> "waiting"]
    /\ req \in Batches
    /\ gone = [n \in Ids |-> FALSE]
    /\ out = [n \in Ids |-> << >>]
    /\ stored = [n \in Ids |-> 0]
    /\ cached = [n \in Ids |-> FALSE]
    /\ copied = [n \in Ids |-> [data |-> << >>, cacheable |-> TRUE]]
    /\ cache = << >> /\ alive = TRUE

Served == {n \in Ids : pc[n] \notin {"waiting", "closed"}}
Goto(n, label) == pc' = [pc EXCEPT ![n] = label]

(* What parse_uri makes of each request, evaluated once.                     *)
UriInfos == [uri \in {r.uri : r \in Requests} |-> parse_uri(uri)]

Info(n) == UriInfos[req[n].uri]

(* What Open_clientfd is called with: the address of the server.             *)
Address(info) == [host |-> info.host, port |-> info.port]
Server(n) == Address(Info(n))

(* The answers that the proxy writes itself come from no server.             *)
NoServer == Address(BadUri)

(* A server has a name.                                                      *)
ASSUME ServersAssumption == NoServer \notin Servers

Error(number) == Blocks(NoServer, number, << >>, 1)

(* clienterror, with the numbers it is called with: nothing arrives once the *)
(* client is gone.                                                           *)
Answered(n, numbers) ==
    out' = [out EXCEPT ![n] = IF gone[n] THEN @ ELSE
              @ \o [k \in DOMAIN numbers |-> Error(numbers[k])[1]]]

(* sbuf_remove: the connections are taken in the order they came.            *)
Take(n) ==
    /\ pc[n] = "waiting"
    /\ \A m \in Ids : m < n => pc[m] # "waiting"
    /\ Cardinality(Served) < NTHREADS
    /\ Goto(n, "request")
    /\ UNCHANGED <<tinyVars, req, gone, out, stored, cached, copied, cache,
                   alive>>

(* proxy returns after the error.                                            *)
Refused(n, numbers) == Answered(n, numbers) /\ Goto(n, "close")

MethodError(n) == Refused(n, <<501>>)

(* An unsupported version is answered as an error, and then served.          *)
VersionErrors(version) ==
    IF version \in {"HTTP/1.0", "HTTP/1.1"} THEN << >> ELSE <<501>>

(* The line may not come, or have nothing but blanks in it.                  *)
RequestLine(n) ==
    LET errors == VersionErrors(req[n].version) IN
    /\ pc[n] = "request"
    /\ \/ req[n].line = "error" /\ Refused(n, <<500>>)
       \/ req[n].line = "empty" /\ Refused(n, <<400>>)
       \/ /\ req[n].line \notin {"error", "empty"}
          /\ \/ req[n].method # "GET" /\ MethodError(n)
             \/ /\ req[n].method = "GET" /\ Info(n) = BadUri
                /\ Refused(n, Append(errors, 400))
             \/ /\ req[n].method = "GET" /\ Info(n) # BadUri
                /\ Answered(n, errors) /\ Goto(n, "headers")
    /\ UNCHANGED <<tinyVars, req, gone, stored, cached, copied, cache, alive>>

(* parse_headers.  At EOF the line read last is still in the buffer and is   *)
(* stored again and again, until there are too many; the count is compared   *)
(* before a header is stored, so there is one more then.  What the pointer   *)
(* past the array overwrites may be harmless or end the process.             *)
parse_headers(r) ==
    IF r.ends = "eof" \/ Len(r.headers) > MAX_HEADERS_NUMBER + 1
      THEN [status |-> -1, count |-> MAX_HEADERS_NUMBER + 1]
      ELSE [status |-> CASE r.ends = "long line" -> -1
                         [] r.ends = "error" -> -2
                         [] OTHER -> 0,
            count |-> Len(r.headers)]

ParseHeaders(n) ==
    LET parsed == parse_headers(req[n]) IN
    /\ pc[n] = "headers"
    /\ stored' = [stored EXCEPT ![n] = parsed.count]
    /\ alive' \in IF parsed.count > MAX_HEADERS_NUMBER
                  THEN BOOLEAN ELSE {TRUE}
    /\ CASE parsed.status = -1 -> Answered(n, <<413>>) /\ Goto(n, "clear")
         [] parsed.status = -2 -> Answered(n, <<500>>) /\ Goto(n, "clear")
         [] OTHER -> UNCHANGED out /\ Goto(n, "lookup")
    /\ UNCHANGED <<tinyVars, req, gone, cached, copied, cache>>

-----------------------------------------------------------------------------
Keys == [uri \in DOMAIN UriInfos |-> build_cache_key(UriInfos[uri])]

Key(n) == Keys[req[n].uri]

(* cache_get, which copies the value, then the copy in one write; nothing    *)
(* frees it.                                                                 *)
Lookup(n) ==
    /\ pc[n] = "lookup"
    /\ IF \A k \in DOMAIN cache : cache[k].key # Key(n)
         THEN Goto(n, "connect") /\ UNCHANGED <<out, cached, cache>>
         ELSE \E k \in DOMAIN cache :
                /\ cache[k].key = Key(n)
                /\ cache' = Append(RemoveAt(cache, k), cache[k])
                /\ cached' = [cached EXCEPT ![n] = TRUE]
                /\ out' = [out EXCEPT ![n] =
                             IF gone[n] THEN @ ELSE @ \o cache[k].value]
                /\ Goto(n, "clear")
    /\ UNCHANGED <<tinyVars, req, gone, stored, copied, alive>>

(* Open_clientfd: -2 for a name that is not known, -1 if nobody listens at   *)
(* the address.                                                              *)
Listens(s) == s \in Servers /\ tiny[s].pc # "dead"

Connect(n) ==
    /\ pc[n] = "connect"
    /\ \/ /\ Server(n).host \notin KnownHosts
          /\ Answered(n, <<400>>) /\ Goto(n, "clear")
          /\ UNCHANGED <<backlog, link>>
       \/ /\ Server(n).host \in KnownHosts /\ ~Listens(Server(n))
          /\ Answered(n, <<500>>) /\ Goto(n, "clear")
          /\ UNCHANGED <<backlog, link>>
       \/ /\ Server(n).host \in KnownHosts /\ Listens(Server(n))
          /\ backlog' = [backlog EXCEPT ![Server(n)] = Append(@, n)]
          /\ link' = [link EXCEPT ![n].peer = "open"]
          /\ Goto(n, "send") /\ UNCHANGED out
    /\ UNCHANGED <<tiny, req, gone, stored, cached, copied, cache, alive>>

\* A faulty variant: a path that returns leaves the connection open.
HangUpForgotten(n) == UNCHANGED link

(* Close(clientfd)                                                           *)
HangUp(n) == link' = [link EXCEPT ![n].peer = "closed"]

(* The headers of a request to the server: a line is the set of the names    *)
(* that strstr finds in it.                                                  *)
Replaced == {"User-Agent", "Connection", "Proxy-Connection"}
HostInHeaders(headers) == \E k \in DOMAIN headers : "Host" \in headers[k]

IsFirstHost(headers, k) ==
    "Host" \in headers[k] /\ ~HostInHeaders(SubSeq(headers, 1, k - 1))

\* A faulty variant: only the proxy's own header is replaced.
PassedOnBesideHost(header) == "Proxy-Connection" \notin header

PassedOn(header) == header \cap Replaced = {}

(* The lines the proxy writes itself.  Without a Host header it writes one   *)
(* before them, but not the end of its line.                                 *)
Own == <<{"User-Agent"}, {"Connection"}, {"Proxy-Connection", "Connection"}>>
OwnOnHostLine == <<{"Host"} \cup Own[1], Own[2], Own[3]>>

Forwarded(headers) == FlattenSeq(
    [k \in DOMAIN headers |->
       IF IsFirstHost(headers, k) \/ PassedOn(headers[k])
         THEN <<headers[k]>> ELSE << >>]
      \o <<IF HostInHeaders(headers) THEN Own ELSE OwnOnHostLine>>)

RequestTo(n) ==
    [query |-> Info(n).query, headers |-> Forwarded(req[n].headers)]

\* A faulty variant: the last line is missing, and the server waits for it.
RequestNotEnded(n) == UNCHANGED link

RequestEnded(n) == link' = [link EXCEPT ![n].request = RequestTo(n)]

(* The request goes out; client_close_conn when the server has hung up.      *)
SendRequest(n) ==
    /\ pc[n] = "send"
    /\ \/ /\ link[n].end = "open"
          /\ RequestEnded(n)
          /\ Goto(n, "response") /\ UNCHANGED out
       \/ /\ link[n].end # "open"
          /\ HangUp(n)
          /\ Answered(n, <<500>>) /\ Goto(n, "clear")
    /\ UNCHANGED <<tiny, backlog, req, gone, stored, cached, copied, cache,
                   alive>>

(* What Rio_readnb returns: a block that is full, or the last one once the   *)
(* server has closed the connection.                                         *)
CanRead(n) ==
    /\ link[n].blocks # << >>
    /\ Head(link[n].blocks).last => link[n].end = "eof"

(* A block is copied while all that came fits; after that nothing is.        *)
WithBlock(copy, block) ==
    IF copy.cacheable /\ Len(copy.data) + 1 <= MAX_OBJECT_SIZE
      THEN [copy EXCEPT !.data = Append(@, block)]
      ELSE [copy EXCEPT !.cacheable = FALSE]

CopyAndPass(n) ==
    LET block == Head(link[n].blocks) IN
    /\ pc[n] = "response" /\ CanRead(n)
    /\ copied' = [copied EXCEPT ![n] = WithBlock(@, block)]
    /\ \/ /\ out' = [out EXCEPT ![n] = IF gone[n] THEN @ ELSE Append(@, block)]
          /\ link' = [link EXCEPT ![n].blocks = Tail(@)]
          /\ UNCHANGED pc
       \/ /\ gone[n]                 \* EPIPE: fd_closed_and_client_opened
          /\ HangUp(n) /\ Goto(n, "clear")
          /\ UNCHANGED out
    /\ UNCHANGED <<tiny, backlog, req, gone, stored, cached, cache, alive>>

(* EOF: the loop ends, clientfd is closed and the response is stored.        *)
EndOfResponse(n) ==
    /\ pc[n] = "response"
    /\ link[n].blocks = << >> /\ link[n].end = "eof"
    /\ HangUp(n)
    /\ Goto(n, "store")
    /\ UNCHANGED <<tiny, backlog, req, gone, out, stored, cached, copied,
                   cache, alive>>

\* A faulty variant: -1 ends the loop and what came before it is stored.
ReadErrorEndsLoop(n) ==
    /\ HangUp(n) /\ Goto(n, "store")
    /\ UNCHANGED <<copied, alive>>

(* A failed read returns -1, which as a size_t is the largest number there   *)
(* is.  With something copied before, the sum of the lengths wraps around    *)
(* and the copy runs out of the buffer: the process dies.  Otherwise nothing *)
(* can be written, the response is not cacheable, and the next read is EOF.  *)
ReadErrorIsALength(n) ==
    IF copied[n].cacheable /\ copied[n].data # << >>
      THEN alive' = FALSE /\ UNCHANGED <<pc, copied, link>>
      ELSE /\ HangUp(n) /\ Goto(n, "store")
           /\ copied' = [copied EXCEPT ![n].cacheable = FALSE]
           /\ UNCHANGED alive

ReadError(n) ==
    /\ pc[n] = "response" /\ link[n].end = "reset" /\ ~CanRead(n)
    /\ ReadErrorIsALength(n)
    /\ UNCHANGED <<tiny, backlog, req, gone, out, stored, cached, cache>>

SizeOf(entries) ==
    FoldLeft(LAMBDA sum, entry : sum + Len(entry.value), 0, entries)

(* cache_add takes entries from the tail of the LRU list until there is room. *)
HasRoom(entries, length) == SizeOf(entries) + length <= MAX_CACHE_SIZE
Without(entries, k) == SubSeq(entries, k + 1, Len(entries))

Added(entries, entry, added) ==
    \E k \in 0 .. Len(entries) :
      /\ HasRoom(Without(entries, k), Len(entry.value))
      /\ \A j \in 0 .. k - 1 : ~HasRoom(Without(entries, j), Len(entry.value))
      /\ added = Append(Without(entries, k), entry)

Store(n) ==
    /\ pc[n] = "store"
    /\ IF copied[n].cacheable
         THEN Added(cache, [key |-> Key(n), value |-> copied[n].data], cache')
         ELSE UNCHANGED cache
    /\ Goto(n, "clear")
    /\ UNCHANGED <<tinyVars, req, gone, out, stored, cached, copied, alive>>

(* clear_headers, and Close(connfd) of the thread.                           *)
Clear(n) ==
    /\ pc[n] \in {"clear", "close"}
    /\ stored' = [stored EXCEPT ![n] = IF pc[n] = "clear" THEN 0 ELSE @]
    /\ Goto(n, "closed")
    /\ UNCHANGED <<tinyVars, req, gone, out, cached, copied, cache, alive>>

-----------------------------------------------------------------------------
Handle(n) ==
    /\ alive
    /\ \/ Take(n) \/ RequestLine(n) \/ ParseHeaders(n)
       \/ Lookup(n) \/ Connect(n) \/ SendRequest(n)
       \/ CopyAndPass(n) \/ EndOfResponse(n) \/ ReadError(n)
       \/ Store(n) \/ Clear(n)

Tinys == \E s \in Servers : TinyStep(s) /\ UNCHANGED proxyVars

Faults ==
    Cardinality({n \in Ids : gone[n]})
      + Cardinality({n \in Ids : link[n].end = "reset"})

ClientGoes(n) ==
    /\ alive /\ n \in Served /\ ~gone[n]
    /\ Faults < MaxFaults
    /\ gone' = [gone EXCEPT ![n] = TRUE]
    /\ UNCHANGED <<tinyVars, pc, req, out, stored, cached, copied, cache,
                   alive>>

(* The network, or a server other than Tiny, resets a connection.            *)
Reset(n) ==
    /\ alive /\ link[n].peer = "open" /\ link[n].end = "open"
    /\ Faults < MaxFaults
    /\ link' = [link EXCEPT ![n].end = "reset"]
    /\ UNCHANGED <<tiny, backlog, proxyVars>>

Steps == (\E n \in Ids : Handle(n)) \/ Tinys

Next == Steps \/ \E n \in Ids : ClientGoes(n) \/ Reset(n)

Spec == Init /\ [][Next]_vars

(* Of the threads and the server that can run one does.                      *)
FairSpec == Spec /\ WF_vars(Steps)

-----------------------------------------------------------------------------
(* What the server answers to each request, evaluated once.                  *)
Answers ==
    [uri \in {u \in DOMAIN UriInfos : Address(UriInfos[u]) \in Servers} |->
      Response(Address(UriInfos[uri]), UriInfos[uri].query)]

AnswerTo(n, blocks) ==
    req[n].uri \in DOMAIN Answers /\ blocks = Answers[req[n].uri]

Supported(n) == req[n].version \in {"HTTP/1.0", "HTTP/1.1"}

(* Two requests that ask two servers for the same, and whose hosts and ports *)
(* read the same once the end of the one and the start of the other are gone. *)
Alike(m, n) ==
    /\ Server(m) # Server(n)
    /\ Server(m).host \o Server(m).port = Server(n).host \o Server(n).port
    /\ Info(m).query = Info(n).query

\* Unless a connection breaks, the client of a supported version gets one
\* answer: an error, or the response of the server it named to its own request
\* from the first block to the last, be it from the cache or from the server
\* (proxy, forward).  There is one exception: an answer from the cache, for
\* which no connection was opened, may be the one that another server gave to
\* another request, when host and port put together read the same, as for a:880
\* and a8:80 (build_cache_key writes nothing between them).
OneAnswer ==
    \A n \in Ids :
      /\ pc[n] = "closed" /\ Supported(n) /\ ~gone[n] /\ link[n].end # "reset"
      => \/ \E number \in {400, 413, 500, 501} : out[n] = Error(number)
         \/ AnswerTo(n, out[n])
         \/ /\ link[n].peer = "none"
            /\ \E m \in Ids : Alike(m, n) /\ AnswerTo(m, out[n])

\* The cache holds whole responses of a server the key stands for, whatever
\* the sizes and whichever connections broke on the way (forward).
WholeResponsesCached ==
    \A k \in DOMAIN cache :
      \E uri \in DOMAIN Answers :
        Keys[uri] = cache[k].key /\ Answers[uri] = cache[k].value

\* Every request that reaches a server names a host; the headers that the proxy
\* replaces reach it once each: what is passed on has none of them, but for a
\* line that also names the host, and the last three lines are the proxy's own.
\* They are so in its words if the client named the host in a header; if not,
\* User-Agent comes on the line of the host, which the proxy does not end
\* (forward).
HeadersForwarded ==
    \A n \in Ids : link[n].request # NoRequest =>
      LET lines == link[n].request.headers
          before == Len(lines) - Len(Own)
          hostSent == \E k \in DOMAIN req[n].headers :
                        "Host" \in req[n].headers[k]
      IN  /\ \E k \in DOMAIN lines : "Host" \in lines[k]
          /\ \A k \in 1 .. before :
               "Host" \in lines[k] \/ lines[k] \cap Replaced = {}
          /\ lines[before + 1] =
               IF hostSent THEN Own[1] ELSE {"Host"} \cup Own[1]
          /\ lines[before + 2] = Own[2] /\ lines[before + 3] = Own[3]

\* On every path a connection that is closed leaves no header allocated and no
\* connection to the server open, and one that was served by a server, or not
\* at all, nothing else either.  What an answer from the cache leaves behind is
\* named: the copy that cache_get has made of it, which no path frees (proxy,
\* forward).
NothingLeaks ==
    \A n \in Ids : pc[n] = "closed" =>
      /\ stored[n] = 0 /\ link[n].peer # "open"
      /\ cached[n] => link[n].peer = "none"

\* A connection that a thread has taken is closed in the end, unless its server
\* hangs or the process is gone (thread).
RequestsFinish ==
    \A n \in Ids :
      n \in Served ~> \/ pc[n] = "closed" \/ ~alive
                      \/ Server(n) \in Servers /\ tiny[Server(n)].pc = "hung"
=============================================================================
