--------------------------- MODULE MCConversions ----------------------------
(* Conversions for TLC: small pictures of every even width up to three lines of *)
(* alignment, short and full blocks of samples, lengths around each byte of the *)
(* header, all texts of up to four characters.                                  *)
EXTENDS Conversions

Pictures == [kind : {"encodeYuv", "decodeYuv"}, w : {2 * n : n \in 1 .. 48}, h : {4, 6}]

Blocks == [kind : {"pcm"}, samples : 1 .. 4, channels : 1 .. 3, size : 1 .. 26,
           perPcmSize : {2}]

Headers == [kind : {"adts"}, size : (1 .. 64) \cup (2032 .. 2060) \cup (8170 .. 8190),
            rate : {SamplingFrequencies[i] : i \in 1 .. 13}, channels : {1, 2, 6, 8}]

Texts == UNION {[1 .. n -> Characters] : n \in 1 .. 4}

MCRequests == Pictures \cup Blocks \cup Headers \cup [kind : {"caption"}, text : Texts]
=============================================================================
