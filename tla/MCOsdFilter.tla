---------------------------- MODULE MCOsdFilter -----------------------------
(* OsdFilter for TLC; its constants are given in the configurations. *)
EXTENDS OsdFilter
=============================================================================
