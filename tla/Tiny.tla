-------------------------------- MODULE Tiny --------------------------------
(* The web server of proxylab/tiny/tiny.c, one process for each address that  *)
(* a proxy can reach: it serves one connection after the other.  Its library  *)
(* ends the process when a write fails (tiny/csapp.c unix_error), and SIGPIPE *)
(* is not blocked.                                                            *)
EXTENDS Uri

CONSTANTS
    Ids,          \* the connections
    Servers,      \* the addresses, [host, port], where a server listens
    Files,        \* file name -> [blocks, regular, allowed]
    NoRequest

ASSUME FilesAssumption ==
    \A name \in DOMAIN Files : Files[name].blocks \in Nat

VARIABLES
    tiny,         \* address -> [pc, id, todo, child]
    backlog,      \* address -> connections that are not accepted yet
    link          \* id -> [peer, request, blocks, end]

tinyVars == <<tiny, backlog, link>>

NoLink == [peer |-> "none", request |-> NoRequest, blocks |-> << >>,
           end |-> "open"]

TinyInit ==
    /\ tiny = [s \in Servers |->
                [pc |-> "accept", id |-> 0, todo |-> << >>, child |-> FALSE]]
    /\ backlog = [s \in Servers |-> << >>]
    /\ link = [n \in Ids |-> NoLink]

(* The blocks of a response; one block is what the reader takes in a call.   *)
Blocks(from, status, query, count) ==
    [k \in 1 .. count |-> [from |-> from, status |-> status, query |-> query,
                           block |-> k, last |-> k = count]]

(* The files have the same names and sizes at every server, but every server *)
(* has its own.                                                              *)
Response(s, query) ==
    LET name == FileName(query) IN
    IF name \notin DOMAIN Files THEN Blocks(s, 404, query, 1)
    ELSE IF ~Files[name].regular \/ ~Files[name].allowed
      THEN Blocks(s, 403, query, 1)
    ELSE Blocks(s, 200, query, Files[name].blocks)

(* A server that is no more takes no connections, and resets those it had.   *)
Dies(s, links) ==
    /\ tiny' = [tiny EXCEPT ![s].pc = "dead"]
    /\ link' = [n \in Ids |->
                 IF \/ n = tiny[s].id
                    \/ \E k \in DOMAIN backlog[s] : backlog[s][k] = n
                   THEN [links[n] EXCEPT !.end = "reset"] ELSE links[n]]
    /\ backlog' = [backlog EXCEPT ![s] = << >>]

Accept(s) ==
    /\ tiny[s].pc = "accept" /\ backlog[s] # << >>
    /\ tiny' = [tiny EXCEPT ![s].pc = "read", ![s].id = Head(backlog[s])]
    /\ backlog' = [backlog EXCEPT ![s] = Tail(@)]
    /\ UNCHANGED link

Conn(s) == link[tiny[s].id]

(* doit: the request line and the headers.  After a failed read the buffer   *)
(* still holds what it held before, and reading the headers never ends, or   *)
(* an answer is written to a connection that is gone.                        *)
ReadRequest(s) ==
    LET request == Conn(s).request IN
    /\ tiny[s].pc = "read"
    /\ \/ /\ Conn(s).end = "open" /\ request # NoRequest
          /\ tiny' = [tiny EXCEPT ![s].pc = "write",
                        ![s].todo = Response(s, request.query),
                        ![s].child = ~IsStatic(request.query)]
          /\ UNCHANGED <<backlog, link>>
       \/ /\ Conn(s).end = "open" /\ request = NoRequest
          /\ Conn(s).peer = "closed"
          /\ tiny' = [tiny EXCEPT ![s].pc = "write", ![s].todo = << >>]
          /\ UNCHANGED <<backlog, link>>
       \/ /\ Conn(s).end = "reset"
          /\ \/ Dies(s, link)
             \/ /\ tiny' = [tiny EXCEPT ![s].pc = "hung"]
                /\ UNCHANGED <<backlog, link>>

(* serve_static, serve_dynamic, clienterror: the next block.                 *)
WrittenByChild(s) == tiny[s].child /\ Head(tiny[s].todo).block > 1

WriteBlock(s) ==
    /\ tiny[s].pc = "write" /\ tiny[s].todo # << >>
    /\ IF Conn(s).peer = "open" /\ Conn(s).end = "open"
         THEN /\ link' = [link EXCEPT ![tiny[s].id].blocks =
                                         Append(@, Head(tiny[s].todo))]
              /\ tiny' = [tiny EXCEPT ![s].todo = Tail(@)]
              /\ UNCHANGED backlog
         ELSE \/ /\ Conn(s).end = "open"
                 /\ tiny' = [tiny EXCEPT ![s].todo = Tail(@)]
                 /\ UNCHANGED <<backlog, link>>
              \/ IF WrittenByChild(s)
                   THEN /\ tiny' = [tiny EXCEPT ![s].todo = << >>]
                        /\ UNCHANGED <<backlog, link>>
                   ELSE Dies(s, link)

(* Close, after Wait for the child if there is one.                          *)
CloseConnection(s) ==
    /\ tiny[s].pc = "write" /\ tiny[s].todo = << >>
    /\ link' = [link EXCEPT ![tiny[s].id].end =
                  IF @ = "open" THEN "eof" ELSE @]
    /\ tiny' = [tiny EXCEPT ![s].pc = "accept", ![s].child = FALSE,
                            ![s].id = 0]
    /\ UNCHANGED backlog

TinyStep(s) ==
    Accept(s) \/ ReadRequest(s) \/ WriteBlock(s) \/ CloseConnection(s)
=============================================================================
