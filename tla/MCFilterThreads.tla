-------------------------- MODULE MCFilterThreads ---------------------------
(* FilterThreads for TLC: three workers, and batches smaller and            *)
(* larger than the pool.                                                     *)
EXTENDS FilterThreads

CONSTANTS w1, w2, w3

ThreeWorkers == {w1, w2, w3}
=============================================================================
