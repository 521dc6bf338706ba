----------------------------- MODULE MCDecoder ------------------------------
(* Decoder for TLC: a few packet shapes per medium, two picture sizes. *)
EXTENDS Decoder

U(kind) == [kind |-> kind, dim |-> 4]
Large == [kind |-> "frame", dim |-> 16]

\* One frame, a frame after a size change, a packet holding two frames of which
\* a video decoder takes one, an error, data that is neither consumed nor a frame.
VideoShapes == {<<U("frame")>>, <<Large>>, <<U("frame"), U("frame")>>,
                <<U("bad")>>, <<U("stuck")>>}

\* Audio packets are also left half-way: by a second frame, by data that yields
\* none, by an error behind it, by a codec that answers EAGAIN, and by data the
\* codec cannot get past.
AudioShapes == {<<>>, <<U("frame")>>, <<U("frame"), U("frame")>>,
                <<U("silent"), U("frame")>>, <<U("silent"), U("bad")>>,
                <<U("again"), U("frame")>>, <<U("silent"), U("stuck")>>}

MCShapes == [m \in MediaTypes |-> IF m = "video" THEN VideoShapes ELSE AudioShapes]

\* Single-media alphabets for runs about one medium.
VideoOnly == [m \in MediaTypes |-> IF m = "video" THEN VideoShapes ELSE {<<>>}]
AudioOnly == [m \in MediaTypes |-> IF m = "audio" THEN AudioShapes ELSE {<<>>}]
=============================================================================
