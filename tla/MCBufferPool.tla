---------------------------- MODULE MCBufferPool ----------------------------
(* BufferPool for TLC: a decoding thread with two frames, one who reads them. *)
EXTENDS BufferPool

CONSTANTS decoder, reader, picture1, picture2, display

\* An address is reused as soon as it can be.
MCFresh(S) == {x \in S : x = CHOOSE y \in S : TRUE}

MCOwner == [s \in Slot |-> IF s = display THEN reader ELSE decoder]
=============================================================================
