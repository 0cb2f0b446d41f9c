-------------------------------- MODULE MCRio --------------------------------
(* Streams of up to MaxLength characters of two kinds.                       *)
EXTENDS Rio
CONSTANTS Letter, MaxLength
MCStreams == UNION {[1 .. n -> {Letter, Newline}] : n \in 0 .. MaxLength}
=============================================================================
