----------------------------- MODULE MCEncoder ------------------------------
(* Encoder for TLC: a video codec that holds up to two pictures back and     *)
(* codes with one B-frame, as the bridge asks for; an audio codec without    *)
(* delay and one that holds a block back, as AAC does.                       *)
EXTENDS Encoder

MCDelays == [m \in MediaTypes |-> IF m = "video" THEN {0, 1, 2} ELSE {0, 1}]
MCBFrames == [m \in MediaTypes |-> IF m = "video" THEN 1 ELSE 0]
=============================================================================
