------------------------------ MODULE MCProxy ------------------------------
(* Three connections, two threads and three servers, with one request of each *)
(* kind, among them two to different servers that have the same key.         *)
EXTENDS Proxy, TLC

Small == <<"http", ":", "/", "/", "a", "/", "small">>
Colon == <<"http", ":", "/", "/", "a", ":", "8", "0", "/", "/", "small">>
Big == <<"https", ":", "/", "a", "/", "big">>
Cgi == <<"http", ":", "/", "/", "a", "/", "cgi-bin", "/", "adder", "?", "1">>
NoFile == <<"http", ":", "a", "/">>
NoHost == <<"http", ":", "/", "/", "b", "/", "small">>
Port880 == <<"http", ":", "/", "/", "a", ":", "8", "8", "0", "/", "small">>
HostA8 == <<"http", ":", "/", "/", "a", "8", "/", "small">>
Nobody == <<"http", ":", "/", "/", "a", ":", "8", "/", "small">>
NoSlash == <<"http", ":", "/", "/", "a">>

File(blocks, allowed) ==
    [blocks |-> blocks, regular |-> TRUE, allowed |-> allowed]

MCKnownHosts == {<<"a">>, <<"a", "8">>}

MCServers ==
    {[host |-> <<"a">>, port |-> <<"8", "0">>],
     [host |-> <<"a">>, port |-> <<"8", "8", "0">>],
     [host |-> <<"a", "8">>, port |-> <<"8", "0">>]}

MCFiles ==
    (<<"/", "small">> :> File(2, TRUE))
      @@ (<<"/", "big">> :> File(3, TRUE))
      @@ (<<"/", "cgi-bin", "/", "adder">> :> File(2, TRUE))
      @@ (<<"/", "home.html">> :> File(1, FALSE))

Headers(uri) ==
    CASE uri = Small -> <<{"Host"}>>
      [] uri = Colon -> <<{"Connection"}, {"Host"}>>
      [] uri = Big -> <<{"User-Agent"}, {"Proxy-Connection", "Connection"}>>
      [] OTHER -> <<{}, {"Host"}, {"User-Agent"}>>

Get(uri) == [line |-> "whole", method |-> "GET", version |-> "HTTP/1.0",
             uri |-> uri, headers |-> Headers(uri), ends |-> "blank line"]

Well == {Get(uri) : uri \in {Small, Colon, Big, Cgi}}
Twins == {Get(Port880), Get(HostA8)}
Ill == {Get(NoFile), Get(NoHost), Get(NoSlash), Get(Nobody),
        [Get(Small) EXCEPT !.line = "error"],
        [Get(Small) EXCEPT !.line = "empty"],
        [Get(Small) EXCEPT !.method = "POST"],
        [Get(Small) EXCEPT !.version = "HTTP/2.0"],
        [Get(Small) EXCEPT !.ends = "eof"],
        [Get(Small) EXCEPT !.ends = "error"],
        [Get(Small) EXCEPT !.ends = "long line"],
        [Get(Small) EXCEPT !.headers = <<{"Host"}, {}, {}, {}>>],
        [Get(Small) EXCEPT !.headers = <<{"Host"}, {}, {}, {}, {}>>]}
MCRequests == Well \cup Twins \cup Ill

(* Three good requests, two of them to the servers with one key if need be,  *)
(* or a bad one and one that is refused at once.                             *)
MCBatches ==
    {<<Get(Small), r, Get(Cgi)>> : r \in Well}
      \cup {<<Get(Cgi), Get(Small), r>> : r \in {Get(Small), Get(Big)}}
      \cup {<<t[1], t[2], r>> : t \in {<<Get(Port880), Get(HostA8)>>,
                                      <<Get(HostA8), Get(Port880)>>},
                                r \in {Get(Small), Get(HostA8)}}
      \cup {<<Get(Small), r, Get(NoSlash)>> : r \in Ill}
=============================================================================
