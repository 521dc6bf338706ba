------------------------------ MODULE AvDecode ------------------------------
(***************************************************************************)
(* The decoding half of libavcodec's send/receive API as the bridge drives *)
(* it: avcodec_send_packet, avcodec_receive_frame and the do_decode they   *)
(* share (src/ffmpeg/libavcodec/utils.c), for a codec without native       *)
(* send/receive callbacks.  Only operators on a context are defined here;  *)
(* Decoder owns the contexts.                                              *)
(*                                                                         *)
(* A packet is a sequence of units, one per step the codec takes through   *)
(* it, whatever number of bytes the step consumes.  A unit of kind "frame" *)
(* is decoded to a frame, "silent" gives none, "again" makes the codec     *)
(* answer EAGAIN, "bad" is an error, and "stuck" is data of which the      *)
(* codec consumes no byte and makes no frame, however often it is asked.   *)
(* A decoded frame is identified with the unit it came from; pictures are  *)
(* coded in the order in which they are shown.  Draining is left out: no   *)
(* caller ever sends the NULL or empty packet that starts it.              *)
(***************************************************************************)
EXTENDS Naturals, Sequences

CONSTANT NoFrame       \* an AVFrame that refers to no buffer (buf[0] = NULL)

UnitKinds == {"frame", "silent", "again", "bad", "stuck"}
MediaTypes == {"video", "audio"}

Units(Ids, Dims) == [id : Ids, kind : UnitKinds, dim : Dims]

\* The fields of an AVCodecContext (and of its AVCodecInternal) that the
\* API reads and writes; `held' is the codec's reorder buffer and `delay' its
\* length, both private to the codec.
Contexts(Ids, Dims, Delays) ==
    [type  : MediaTypes,
     pkt   : Seq(Units(Ids, Dims)),              \* internal->buffer_pkt
     frame : Units(Ids, Dims) \cup {NoFrame},    \* internal->buffer_frame
     held  : Seq(Units(Ids, Dims)),
     delay : Delays,
     dim   : Dims]                               \* width, height

OpenContext(type, delay, dim) ==
    [type |-> type, pkt |-> <<>>, frame |-> NoFrame, held |-> <<>>,
     delay |-> delay, dim |-> dim]

-----------------------------------------------------------------------------
\* What the codec's decode callback does with the units `rest', through
\* avcodec_decode_video2 or avcodec_decode_audio4: at most one frame comes
\* out, the oldest once more than `delay' are held.
CodecHeld(c, u) == IF u.kind = "frame" THEN Append(c.held, u) ELSE c.held

GotFrame(c, u) == u.kind = "frame" /\ Len(c.held) >= c.delay

CodecDim(c, u) == IF u.kind = "frame" THEN u.dim ELSE c.dim

\* What the step leaves of the data.
Unread(rest) == IF Head(rest).kind = "stuck" THEN rest ELSE Tail(rest)

\* (Faulty variant: no rule for video.)
MutRemainder(c, rest) == IF Head(rest).kind = "again" THEN <<>> ELSE Unread(rest)

\* What is left of the packet after the call: a video packet counts as
\* consumed whole (ret = pkt->size), so does a packet answered with EAGAIN.
Remainder(c, rest) ==
    IF c.type = "video" \/ Head(rest).kind = "again" THEN <<>> ELSE Unread(rest)

\* (Faulty variant: the newest frame comes out.)
MutCodecStep(c, rest) ==
    LET u    == Head(rest)
        held == CodecHeld(c, u)
    IN  [c EXCEPT !.pkt   = Remainder(c, rest),
                  !.frame = IF GotFrame(c, u) THEN held[Len(held)] ELSE NoFrame,
                  !.held  = IF GotFrame(c, u) THEN SubSeq(held, 1, Len(held) - 1)
                                              ELSE held,
                  !.dim   = CodecDim(c, u)]

CodecStep(c, rest) ==
    LET u    == Head(rest)
        held == CodecHeld(c, u)
    IN  [c EXCEPT !.pkt   = Remainder(c, rest),
                  !.frame = IF GotFrame(c, u) THEN Head(held) ELSE NoFrame,
                  !.held  = IF GotFrame(c, u) THEN Tail(held) ELSE held,
                  !.dim   = CodecDim(c, u)]

Result(ret, c) == [ret |-> ret, cx |-> c]

\* do_decode: the set of its outcomes on the units `rest'.  `own' says that
\* they already sit in buffer_pkt; if they do not, what is left over has to be
\* copied there, which can run out of memory after the frame was produced.
DoDecode(c, rest, own) ==
    IF Head(rest).kind = "bad"
    THEN {Result("INVALIDDATA", c)}
    ELSE LET d == CodecStep(c, rest)
         IN  {Result("OK", d)} \cup
             (IF own \/ d.pkt = <<>>
              THEN {}
              ELSE {Result("ENOMEM", [d EXCEPT !.pkt = <<>>])})

\* avcodec_send_packet refuses input while output or input is still buffered.
Refuses(c) == c.pkt # <<>> \/ c.frame # NoFrame

\* (Faulty variant: never refuses.)
MutSendPacket(c, packet) == DoDecode(c, packet, FALSE)
SendPacket(c, packet) ==
    IF Refuses(c) THEN {Result("EAGAIN", c)} ELSE DoDecode(c, packet, FALSE)

-----------------------------------------------------------------------------
\* avcodec_receive_frame, cut into the iterations of its decoding loop.
HasOutput(c) == c.frame # NoFrame

MustDecodeMore(c) == c.frame = NoFrame /\ c.pkt # <<>>

\* One iteration: a failing do_decode drops the rest of the packet.
ReceiveIteration(c) ==
    {IF r.ret = "OK" THEN r ELSE Result(r.ret, [r.cx EXCEPT !.pkt = <<>>])
        : r \in DoDecode(c, c.pkt, TRUE)}

\* av_frame_move_ref out of buffer_frame.
MoveOut(c) == [c EXCEPT !.frame = NoFrame]

-----------------------------------------------------------------------------
\* The frames that are inside a context and not yet handed out, oldest first; of
\* the units still in a packet, those that will be one.
FrameIn(u) == IF u.kind = "frame" THEN <<u>> ELSE <<>>

LastFrames(units) ==
    LET last[k \in 0 .. Len(units)] ==
            IF k = 0 THEN <<>> ELSE FrameIn(units[Len(units) + 1 - k]) \o last[k - 1]
    IN  last
FramesOf(units) == LastFrames(units)[Len(units)]

Inside(c) ==
    (IF HasOutput(c) THEN <<c.frame>> ELSE <<>>) \o c.held \o FramesOf(c.pkt)
=============================================================================
