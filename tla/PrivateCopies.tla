--------------------------- MODULE PrivateCopies ----------------------------
(***************************************************************************)
(* What reference counting promises (src/ffmpeg/libavutil/buffer.h:53):    *)
(* whoever holds a reference sees a value that only its holder changes, as *)
(* if each reference were a copy of its own.  Sharing, pooling, moving and *)
(* copying on write are invisible.                                         *)
(***************************************************************************)
CONSTANTS Slot, Value, Nothing

VARIABLE val          \* what each slot sees; Nothing: it holds no reference

Init == val = [s \in Slot |-> Nothing]

\* A fresh buffer, or a share of another slot's.
Obtain(s) == /\ val[s] = Nothing
             /\ \E v \in Value : val' = [val EXCEPT ![s] = v]

Write(s) == /\ val[s] # Nothing
            /\ \E v \in Value : val' = [val EXCEPT ![s] = v]

Drop(s) == val' = [val EXCEPT ![s] = Nothing]

Next == \E s \in Slot : Obtain(s) \/ Write(s) \/ Drop(s)

Spec == Init /\ [][Next]_val
=============================================================================
