---------------------------- MODULE MCJniBridge -----------------------------
(* JniBridge for TLC. *)
EXTENDS JniBridge
=============================================================================
