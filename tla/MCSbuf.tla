------------------------------- MODULE MCSbuf -------------------------------
(***************************************************************************)
(* The instance of Sbuf: two producers, although the proxy has one, so that*)
(* insertions race with insertions as removals do with removals; fewer     *)
(* slots than insertions, so that the ring wraps, fills and empties.       *)
(***************************************************************************)
EXTENDS Sbuf
=============================================================================
