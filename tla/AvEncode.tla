------------------------------ MODULE AvEncode ------------------------------
(***************************************************************************)
(* The encoding half of libavcodec's send/receive API as the bridge drives *)
(* it: avcodec_send_frame, avcodec_receive_packet and the do_encode behind *)
(* them (src/ffmpeg/libavcodec/utils.c), with the two things that codecs   *)
(* do to the order of their packets: they hold inputs back, and they may   *)
(* code a picture before the ones shown ahead of it.  Only operators on a  *)
(* context are defined here; the module that owns contexts is Encoder.     *)
(*                                                                         *)
(* An input, a picture or a block of samples, is a medium and the number   *)
(* of the call that offered it; a packet is identified with the input it   *)
(* codes.  Draining is left out: no caller ever sends the NULL frame that  *)
(* starts it.                                                              *)
(***************************************************************************)
EXTENDS Naturals, Sequences

CONSTANT NoInput       \* no picture or samples, no packet

MediaTypes == {"video", "audio"}
Inputs == MediaTypes \X Nat

\* The fields of an AVCodecContext's internals that the API reads and writes,
\* and the codec's own state.
Contexts ==
    [pkt     : Inputs \cup {NoInput},      \* internal->buffer_pkt
     valid   : BOOLEAN,                    \* internal->buffer_pkt_valid
     held    : Seq(Inputs),                \* inputs not coded yet, as they came
     behind  : Nat,     \* so many of them were overtaken by the last picture coded
     delay   : Nat,     \* how many inputs the codec holds back
     bframes : Nat]     \* max_b_frames: how many a picture may overtake

OpenContext(delay, bframes) ==
    [pkt |-> NoInput, valid |-> FALSE, held |-> <<>>, behind |-> 0,
     delay |-> delay, bframes |-> bframes]

Result(ret, c) == [ret |-> ret, cx |-> c]

-----------------------------------------------------------------------------
(* What the codec codes next. *)

\* (Faulty variant: pictures that were overtaken are overtaken again.)
MutCodable(c, queue) == {k \in 1 .. Len(queue) : k <= c.bframes + 1}

\* A picture that the following ones refer to is coded first, then those between it
\* and the one before, which refer to both; until they are done nothing else is.
Codable(c, queue) ==
    {k \in 1 .. Len(queue) : k <= (IF c.behind > 0 THEN c.behind ELSE c.bframes + 1)}

\* How many then still wait behind a picture coded before them.
Behind(c, k) == IF c.behind > 0 THEN c.behind - 1 ELSE k - 1

Without(queue, k) ==
    [i \in 1 .. Len(queue) - 1 |-> queue[IF i < k THEN i ELSE i + 1]]

\* Coding the k-th input gives its packet, or fails when the packet is written, is
\* given memory of its own (av_buffer_realloc), or the picture's workers are waited
\* for: the input is gone then, and the call reports an error.
Coded(c, queue, k) ==
    [c EXCEPT !.pkt = queue[k], !.valid = TRUE, !.held = Without(queue, k),
              !.behind = Behind(c, k)]

Lost(c, queue, k) ==
    [c EXCEPT !.pkt = NoInput, !.valid = FALSE, !.held = Without(queue, k),
              !.behind = Behind(c, k)]

-----------------------------------------------------------------------------
(* do_encode: the set of its outcomes. *)

\* It empties buffer_pkt first.  The input may be turned down before the codec has it.
Rejected(c) == Result("ERROR", [c EXCEPT !.pkt = NoInput, !.valid = FALSE])

\* The codec takes it, and gives no packet as long as it holds too few.
Queued(c, queue) ==
    Result("OK", [c EXCEPT !.pkt = NoInput, !.valid = FALSE, !.held = queue])

Due(c) == Len(c.held) >= c.delay

\* (Faulty variant: a packet that cannot be given its memory is dropped, and the
\* call succeeds without one.)
MutOutcomes(c, queue, k) ==
    {Result("OK", Coded(c, queue, k)), Result("OK", Lost(c, queue, k))}

Outcomes(c, queue, k) ==
    {Result("OK", Coded(c, queue, k)), Result("ERROR", Lost(c, queue, k))}

DoEncode(c, input) ==
    LET queue == Append(c.held, input) IN
    {Rejected(c)} \cup
    (IF Due(c) THEN UNION {Outcomes(c, queue, k) : k \in Codable(c, queue)}
               ELSE {Queued(c, queue)})

SendFrame(c, input) ==
    IF c.valid THEN {Result("EAGAIN", c)} ELSE DoEncode(c, input)

\* (Faulty variant: the packet moved out is still marked valid.)
MutReceivePacket(c) ==
    IF c.valid THEN Result("OK", [c EXCEPT !.pkt = NoInput]) ELSE Result("EAGAIN", c)

\* The packet received is c.pkt: av_packet_move_ref empties buffer_pkt.
ReceivePacket(c) ==
    IF c.valid
    THEN Result("OK", [c EXCEPT !.pkt = NoInput, !.valid = FALSE])
    ELSE Result("EAGAIN", c)

-----------------------------------------------------------------------------
\* What is inside a context and not yet handed out, and how many they are.
Elements(s) == {s[i] : i \in 1 .. Len(s)}
Inside(c) == {x \in {c.pkt} : c.valid} \cup Elements(c.held)
Holds(c) == (IF c.valid THEN 1 ELSE 0) + Len(c.held)
=============================================================================
