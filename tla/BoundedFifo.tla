---------------------------- MODULE BoundedFifo ----------------------------
(***************************************************************************)
(* What the connection buffer of the proxy promises to the threads that    *)
(* share it: a first-in first-out queue of at most N items, where every    *)
(* item that is put in is handed to exactly one consumer.  Sbuf implements *)
(* it.                                                                     *)
(***************************************************************************)
EXTENDS Naturals, Sequences

CONSTANTS Items, Consumers, N, NoItem

VARIABLES
    queue,  \* the items accepted and not handed out yet, oldest first
    got     \* the last item handed to each consumer

fifoVars == <<queue, got>>

FifoInit ==
    /\ queue = <<>>
    /\ got = [c \in Consumers |-> NoItem]

Put(v) ==
    /\ Len(queue) < N
    /\ queue' = Append(queue, v)
    /\ UNCHANGED got

Take(c) ==
    /\ queue # <<>>
    /\ got' = [got EXCEPT ![c] = Head(queue)]
    /\ queue' = Tail(queue)

FifoNext ==
    \/ \E v \in Items : Put(v)
    \/ \E c \in Consumers : Take(c)

FifoSpec == FifoInit /\ [][FifoNext]_fifoVars
=============================================================================
