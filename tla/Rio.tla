--------------------------------- MODULE Rio ---------------------------------
(* The robust I/O package of proxylab/csapp.c on one connection: a peer has   *)
(* sent Stream and then closed or reset the connection; the program reads it  *)
(* with rio_readlineb and rio_readnb, or unbuffered with rio_readn, and the   *)
(* kernel hands out as little as it likes at a time.  On the other side       *)
(* rio_writen sends, and the kernel takes as little as it likes.              *)
EXTENDS Integers, Sequences

CONSTANTS
    Streams,      \* what the peer may send: sequences of characters
    Newline,      \* the character that ends a line
    RIO_BUFSIZE,  \* 8192 in the code
    MaxLine,      \* maxlen of rio_readlineb, n of the others
    MaxEintr      \* bound: system calls interrupted by a signal

ASSUME SizeAssumption ==
    RIO_BUFSIZE \in Nat \ {0} /\ MaxLine \in Nat \ {0, 1} /\ MaxEintr \in Nat

Characters == UNION {{s[i] : i \in DOMAIN s} : s \in Streams}

ASSUME StreamsAssumption == Streams \subseteq Seq(Characters)

VARIABLES
    Stream,       \* what the peer sends in this behaviour
    reset,        \* does it end with an error instead of EOF?
    incoming,     \* sent and not yet read by the program
    rio_buf,      \* rio_bufptr .. rio_bufptr + rio_cnt
    call,         \* the call in progress: its name, or "none"
    usrbuf,       \* what it has moved so far
    returned,     \* the results of the calls so far: [call, rc, data]
    eintr         \* interrupts so far

vars == <<Stream, reset, incoming, rio_buf, call, usrbuf, returned, eintr>>

Readers == {"rio_readlineb", "rio_readnb", "rio_readn"}

Init ==
    /\ Stream \in Streams /\ reset \in BOOLEAN
    /\ incoming = Stream /\ rio_buf = << >>
    /\ call = "none" /\ usrbuf = << >>
    /\ returned = << >> /\ eintr = 0

First(seq, k) == SubSeq(seq, 1, k)
Rest(seq, k) == SubSeq(seq, k + 1, Len(seq))
Least(x, y) == IF x < y THEN x ELSE y

(* A descriptor is read with a buffer or without, never both.                *)
Unbuffered == \E k \in DOMAIN returned : returned[k].call = "rio_readn"
Buffered == \E k \in DOMAIN returned :
              returned[k].call \in {"rio_readlineb", "rio_readnb"}
Over == \E k \in DOMAIN returned : returned[k].rc <= 0

Call(f) ==
    /\ call = "none" /\ ~Over
    /\ IF f = "rio_readn" THEN ~Buffered ELSE ~Unbuffered
    /\ call' = f /\ usrbuf' = << >>
    /\ UNCHANGED <<Stream, reset, incoming, rio_buf, returned, eintr>>

Return(rc, data) ==
    /\ returned' = Append(returned, [call |-> call, rc |-> rc, data |-> data])
    /\ call' = "none" /\ usrbuf' = << >>

\* A faulty variant: what read returns at the end is taken for a short count.
EofNeverSeen == FALSE

Eof == incoming = << >> /\ ~reset
Failing == incoming = << >> /\ reset

-----------------------------------------------------------------------------
(* rio_read finds its buffer empty and calls read.                           *)
Waiting == call \in {"rio_readlineb", "rio_readnb"} /\ rio_buf = << >>

Refill ==
    /\ Waiting
    /\ \E k \in 1 .. Least(RIO_BUFSIZE, Len(incoming)) :
         /\ rio_buf' = First(incoming, k)
         /\ incoming' = Rest(incoming, k)
    /\ UNCHANGED <<Stream, reset, call, usrbuf, returned, eintr>>

(* EINTR: rio_cnt is negative and the loop goes round once more.             *)
Interrupted ==
    /\ eintr < MaxEintr
    /\ Waiting \/ call \in {"rio_readn", "rio_writen"}
    /\ eintr' = eintr + 1
    /\ UNCHANGED <<Stream, reset, incoming, rio_buf, call, usrbuf, returned>>

(* At EOF both return what they have: 0 when that is nothing.                *)
ReadEof ==
    /\ Waiting /\ Eof
    /\ Return(Len(usrbuf), usrbuf)
    /\ UNCHANGED <<Stream, reset, incoming, rio_buf, eintr>>

ReadError ==
    /\ Waiting /\ Failing
    /\ Return(-1, << >>)
    /\ UNCHANGED <<Stream, reset, incoming, rio_buf, eintr>>

(* n - 1 of rio_readlineb                                                    *)
LineLength(line) == Len(line)

(* rio_readlineb takes one character.                                        *)
TakeCharacter ==
    /\ call = "rio_readlineb" /\ rio_buf # << >>
    /\ LET line == Append(usrbuf, rio_buf[1]) IN
       IF rio_buf[1] = Newline \/ Len(line) = MaxLine - 1
         THEN Return(LineLength(line), line)
         ELSE usrbuf' = line /\ UNCHANGED <<call, returned>>
    /\ rio_buf' = Rest(rio_buf, 1)
    /\ UNCHANGED <<Stream, reset, incoming, eintr>>

\* A faulty variant: the whole buffer is gone once something is taken from it.
LeftInBufferNothing(taken) == << >>

(* rio_bufptr += cnt, rio_cnt -= cnt                                         *)
LeftInBuffer(taken) == Rest(rio_buf, taken)

(* rio_readnb takes what the buffer has of what is still wanted.             *)
TakeBytes ==
    /\ call = "rio_readnb" /\ rio_buf # << >>
    /\ LET taken == Least(MaxLine - Len(usrbuf), Len(rio_buf))
           got == usrbuf \o First(rio_buf, taken)
       IN  /\ rio_buf' = LeftInBuffer(taken)
           /\ IF Len(got) = MaxLine
                THEN Return(Len(got), got)
                ELSE usrbuf' = got /\ UNCHANGED <<call, returned>>
    /\ UNCHANGED <<Stream, reset, incoming, eintr>>

-----------------------------------------------------------------------------
(* rio_readn: read straight into the buffer of the caller.                   *)
ReadDirect ==
    /\ call = "rio_readn"
    /\ \E k \in 1 .. Least(MaxLine - Len(usrbuf), Len(incoming)) :
         LET got == usrbuf \o First(incoming, k) IN
         /\ incoming' = Rest(incoming, k)
         /\ IF Len(got) = MaxLine
              THEN Return(Len(got), got)
              ELSE usrbuf' = got /\ UNCHANGED <<call, returned>>
    /\ UNCHANGED <<Stream, reset, rio_buf, eintr>>

ReadDirectEnd ==
    /\ call = "rio_readn" /\ incoming = << >>
    /\ IF reset THEN Return(-1, << >>) ELSE Return(Len(usrbuf), usrbuf)
    /\ UNCHANGED <<Stream, reset, incoming, rio_buf, eintr>>

(* rio_writen of what the peer calls Stream: here incoming is what is left   *)
(* to write and usrbuf what the kernel has taken.                            *)
CallWrite ==
    /\ call = "none" /\ returned = << >>
    /\ call' = "rio_writen"
    /\ UNCHANGED <<Stream, reset, incoming, rio_buf, usrbuf, returned, eintr>>

Write ==
    /\ call = "rio_writen"
    /\ \E k \in 1 .. Len(incoming) :
         /\ incoming' = Rest(incoming, k)
         /\ usrbuf' = usrbuf \o First(incoming, k)
    /\ UNCHANGED <<Stream, reset, rio_buf, call, returned, eintr>>

WriteReturns ==
    /\ call = "rio_writen" /\ incoming = << >>
    /\ Return(Len(Stream), usrbuf)
    /\ UNCHANGED <<Stream, reset, incoming, rio_buf, eintr>>

(* EPIPE: the peer is gone, and what is left is not sent.                    *)
WriteFails ==
    /\ call = "rio_writen" /\ incoming # << >> /\ reset
    /\ Return(-1, usrbuf)
    /\ UNCHANGED <<Stream, reset, incoming, rio_buf, eintr>>

-----------------------------------------------------------------------------
Step ==
    \/ Refill \/ ReadEof \/ ReadError \/ TakeCharacter \/ TakeBytes
    \/ ReadDirect \/ ReadDirectEnd
    \/ Write \/ WriteReturns \/ WriteFails

Next == (\E f \in Readers : Call(f)) \/ CallWrite \/ Interrupted \/ Step

Spec == Init /\ [][Next]_vars

(* The peer's data arrive and system calls return.                           *)
FairSpec == Spec /\ WF_vars(Step)

-----------------------------------------------------------------------------
\* What the calls that succeeded have delivered.
DeliveredBy(results) ==
    LET first[n \in 0 .. Len(results)] ==
            IF n = 0 THEN << >>
            ELSE first[n - 1]
                   \o (IF results[n].rc < 0 THEN << >> ELSE results[n].data)
    IN  first[Len(results)]

Delivered == DeliveredBy(returned)
Failed == \E k \in DOMAIN returned : returned[k].rc < 0

\* However the kernel cuts the stream, the calls deliver it in order, nothing
\* twice and nothing left out; only a call that fails may lose what it had
\* already taken (rio_read, rio_readlineb, rio_readnb, rio_readn, rio_writen).
\* A result of rio_readlineb is one line: no newline but at its end, the length
\* that is returned, and only shorter than a line when the buffer of the caller
\* is full or the stream at its end.
NothingLostOrRepeated ==
    /\ ~Failed => ((Delivered \o usrbuf) \o rio_buf) \o incoming = Stream
    /\ Delivered = First(Stream, Len(Delivered))
    /\ \A k \in DOMAIN returned :
        LET r == returned[k] IN
        r.call = "rio_readlineb" /\ r.rc > 0 =>
            /\ r.rc = Len(r.data)
            /\ \A i \in 1 .. r.rc - 1 : r.data[i] # Newline
            /\ \/ r.data[r.rc] = Newline
               \/ r.rc = MaxLine - 1
               \/ Eof /\ rio_buf = << >>

\* Every call returns, however often it is cut short (the loops of the rio
\* functions).
CallsReturn == call # "none" ~> call = "none"
=============================================================================
