---------------------------- MODULE MCCodecLock -----------------------------
(***************************************************************************)
(* Instances of CodecLock for TLC.                                         *)
(***************************************************************************)
EXTENDS CodecLock
=============================================================================
