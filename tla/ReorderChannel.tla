--------------------------- MODULE ReorderChannel ---------------------------
(***************************************************************************)
(* What an encoder promises the bridge for one medium, whatever it holds   *)
(* back: numbered items go in and come out, each at most once; an item may *)
(* come out before one that went in earlier, but no item is overtaken by   *)
(* more than Window of them.  With Window = 0 this is a queue.  Items may  *)
(* be lost, but no more than one with each that goes in.                   *)
(***************************************************************************)
EXTENDS Naturals, Sequences, FiniteSets

CONSTANTS Name,        \* the medium, which its items carry
          Window

VARIABLES pending,     \* the set of items taken in and not yet handed out
          out          \* items handed out, in the order they came

vars == <<pending, out>>

Items == {Name} \X Nat
Given == {out[i] : i \in 1 .. Len(out)}

\* The items that were handed out before x although they went in after it.
Overtook(x) == {y \in Given : x[2] < y[2]}

Init == pending = {} /\ out = <<>>

\* A new item has the highest number so far; one of those pending may be lost.
Accept ==
    /\ \E x \in pending' \ pending :
          /\ x \in Items
          /\ \A y \in pending \cup Given : y[2] < x[2]
          /\ \/ pending' = pending \cup {x}
             \/ \E lost \in pending : pending' = (pending \cup {x}) \ {lost}
    /\ UNCHANGED out

Deliver ==
    \E x \in pending :
        /\ \A y \in pending : y[2] < x[2] => Cardinality(Overtook(y)) < Window
        /\ pending' = pending \ {x}
        /\ out' = Append(out, x)

\* The handle is released with what it holds; a new one starts afresh.
Close == pending' = {} /\ UNCHANGED out
Reset == pending' = {} /\ out' = <<>>

Next == Accept \/ Deliver \/ Close \/ Reset

Spec == Init /\ [][Next]_vars
=============================================================================
