--------------------------- MODULE MCSliceThreads ---------------------------
(* Three slices on three workers. *)
EXTENDS SliceThreads

CONSTANTS w1, w2, w3
MCWorkers == {w1, w2, w3}
=============================================================================
