---------------------------- MODULE FifoChannel -----------------------------
(***************************************************************************)
(* What a codec promises the bridge, whatever its buffering: items go in,  *)
(* come out in the order they went in, each at most once, and are missing  *)
(* from the output only if the channel dropped them, youngest first.       *)
(***************************************************************************)
EXTENDS Naturals, Sequences

VARIABLES pending,     \* items taken in and not yet handed out, oldest first
          out          \* items handed out, oldest first

vars == <<pending, out>>

Init == pending = <<>> /\ out = <<>>

\* New items join at the end; none of them has been taken in before.
Accept ==
    /\ Len(pending') > Len(pending)
    /\ SubSeq(pending', 1, Len(pending)) = pending
    /\ \A i \in Len(pending) + 1 .. Len(pending') :
          /\ \A j \in 1 .. i - 1 : pending'[j] # pending'[i]
          /\ \A j \in 1 .. Len(out) : out[j] # pending'[i]
    /\ UNCHANGED out

Deliver ==
    /\ pending # <<>>
    /\ out' = Append(out, Head(pending))
    /\ pending' = Tail(pending)

Drop ==
    /\ \E n \in 0 .. Len(pending) : pending' = SubSeq(pending, 1, n)
    /\ UNCHANGED out

\* A new handle starts the channel afresh.
Reset == pending' = <<>> /\ out' = <<>>

Next == Accept \/ Deliver \/ Drop \/ Reset

Spec == Init /\ [][Next]_vars
=============================================================================
