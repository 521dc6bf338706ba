------------------------------ MODULE Decoder -------------------------------
(***************************************************************************)
(* The bridge's decoder handle (CarEyeDecoderAPI.cpp): creation with its   *)
(* failure paths, release, and the two decoding calls, which the header    *)
(* allows two threads to make at once, one per medium.  A call is cut at   *)
(* the points where the two threads can interleave: avcodec_send_packet,   *)
(* each iteration of avcodec_receive_frame, and the copy to the caller.    *)
(***************************************************************************)
EXTENDS AvDecode, FiniteSets

CONSTANTS
    Shapes,        \* [medium -> set of packets, each a sequence of [kind, dim]]
    Delays,        \* reorder delays a video codec may have
    Dims,          \* picture sizes, in pixels
    MaxPackets,    \* bound: calls per medium and handle
    MaxHandles     \* bound: creations

ASSUME DecoderAssumption ==
    /\ Delays \subseteq Nat /\ 0 \in Delays
    /\ Dims \subseteq Nat /\ Dims # {}
    /\ MaxPackets \in Nat /\ MaxHandles \in Nat
    /\ Shapes \in [MediaTypes ->
                      SUBSET Seq([kind : UnitKinds, dim : Dims])]
    /\ NoFrame \notin Units(MediaTypes \X Nat \X Nat, Dims)

FrameObjects == {"VFrame", "AFrame"}
Errors == {"EAGAIN", "INVALIDDATA", "ENOMEM"}
Ids == MediaTypes \X Nat \X Nat
Frames == Units(Ids, Dims) \cup {NoFrame}

VARIABLES
    handle,     \* "none" or "open": what the caller holds
    live,       \* what the handle's creation acquired and has not released
    leaked,     \* AVCodecContexts nothing points to any more
    created,    \* handles asked for so far
    pixelSize,  \* CarEyeDecoder.PixelSize
    cx,         \* VDecoder and ADecoder, by medium
    frame,      \* VFrame and AFrame
    pc,         \* where the thread of each medium is in its call
    arg,        \* the packet of that call
    ret,        \* what the last call of each medium returned
    written,    \* bytes the last video call wrote to the caller's buffer
    sent,       \* packets offered so far: numbers them
    out         \* frames copied to the caller, by medium

vars == <<handle, live, leaked, created, pixelSize, cx, frame, pc, arg, ret,
          written, sent, out>>
handleVars == <<handle, live, leaked, created, pixelSize>>

-----------------------------------------------------------------------------
Resources == {"VDecoder", "VOpen", "VFrame", "ADecoder", "AOpen", "AFrame", "handle"}

\* Creation acquires these in order; any of them can fail.
Acquisitions(media) ==
    (IF "video" \in media THEN <<"VDecoder", "VOpen", "VFrame">> ELSE <<>>)
 \o (IF "audio" \in media THEN <<"ADecoder", "AOpen", "AFrame">> ELSE <<>>)

Acquired(media, n) == {Acquisitions(media)[i] : i \in 1 .. n} \cup {"handle"}

\* CarEye_DecoderRelease closes the codecs and frees the frames and the handle;
\* the contexts are not freed.
Released == {"VOpen", "AOpen", "VFrame", "AFrame", "handle"}
\* (Faulty variant: a frame is left behind as well.)
MutReleaseResources(acquired) == acquired \ (Released \ {"AFrame"})
ReleaseResources(acquired) == acquired \ Released
NotFreed(acquired) == Cardinality(ReleaseResources(acquired))

\* (Faulty variant: one frame object for both media.)
MutFrameOf(m) == "VFrame"
FrameOf(m) == IF m = "video" THEN "VFrame" ELSE "AFrame"

Has(m) == handle = "open" /\ (IF m = "video" THEN "VDecoder" ELSE "ADecoder") \in live

Number(m, n, shape) ==
    [j \in 1 .. Len(shape) |->
        [id |-> <<m, n, j>>, kind |-> shape[j].kind, dim |-> shape[j].dim]]

AnyDim == CHOOSE d \in Dims : TRUE
Closed == [m \in MediaTypes |-> OpenContext(m, 0, AnyDim)]
NoFrames == [f \in FrameObjects |-> NoFrame]
Empty == [m \in MediaTypes |-> <<>>]

Init ==
    /\ handle = "none" /\ live = {} /\ leaked = 0 /\ created = 0
    /\ pixelSize = 0
    /\ cx = Closed
    /\ frame = NoFrames
    /\ pc = [m \in MediaTypes |-> "idle"]
    /\ arg = Empty
    /\ ret = [m \in MediaTypes |-> "none"]
    /\ written = 0
    /\ sent = [m \in MediaTypes |-> 0]
    /\ out = Empty

\* CarEye_DecoderCreate: the caller gives the media wanted and the picture
\* size; the stream the handle will decode decides the codec's delay.
Create ==
    /\ handle = "none" /\ created < MaxHandles
    /\ created' = created + 1
    /\ \E media \in SUBSET MediaTypes \ {{}}, d \in Dims, delay \in Delays :
          /\ cx' = [m \in MediaTypes |->
                       OpenContext(m, IF m = "video" THEN delay ELSE 0, d)]
          /\ pixelSize' = IF "video" \in media THEN d ELSE 0
          /\ \/ /\ handle' = "open"
                /\ live' = Acquired(media, Len(Acquisitions(media)))
                /\ UNCHANGED leaked
             \/ \E n \in 0 .. Len(Acquisitions(media)) - 1 :
                   /\ leaked' = leaked + NotFreed(Acquired(media, n))
                   /\ UNCHANGED <<handle, live>>
    /\ frame' = NoFrames
    /\ ret' = [m \in MediaTypes |-> "none"] /\ written' = 0
    /\ sent' = [m \in MediaTypes |-> 0] /\ out' = Empty
    /\ UNCHANGED <<pc, arg>>

\* CarEye_DecoderRelease, which the caller makes only between its calls.
Release ==
    /\ handle = "open" /\ \A m \in MediaTypes : pc[m] = "idle"
    /\ handle' = "none" /\ live' = {}
    /\ leaked' = leaked + NotFreed(live)
    /\ cx' = Closed /\ frame' = NoFrames
    /\ UNCHANGED <<created, pixelSize, pc, arg, ret, written, sent, out>>

-----------------------------------------------------------------------------
Return(m, r) ==
    /\ pc' = [pc EXCEPT ![m] = "idle"]
    /\ ret' = [ret EXCEPT ![m] = r]

\* CarEye_DecoderYUV420 and CarEye_DecoderPCM: the checks on the parameters.
CallInvalid(m) ==
    /\ pc[m] = "idle"
    /\ ~Has(m) \/ <<>> \in Shapes[m]
    /\ Return(m, "zero")
    /\ UNCHANGED <<handleVars, cx, frame, arg, written, sent, out>>

Call(m) ==
    /\ pc[m] = "idle" /\ Has(m) /\ sent[m] < MaxPackets
    /\ sent' = [sent EXCEPT ![m] = @ + 1]
    /\ \E shape \in Shapes[m] :
          /\ shape # <<>>
          /\ arg' = [arg EXCEPT ![m] = Number(m, sent[m] + 1, shape)]
    /\ pc' = [pc EXCEPT ![m] = "send"]
    /\ UNCHANGED <<handleVars, cx, frame, ret, written, out>>

\* Decode, first half: a packet that is refused or fails ends the call.
Send(m) ==
    /\ pc[m] = "send"
    /\ \E r \in SendPacket(cx[m], arg[m]) :
          /\ cx' = [cx EXCEPT ![m] = r.cx]
          /\ IF r.ret = "OK"
             THEN pc' = [pc EXCEPT ![m] = "receive"] /\ UNCHANGED ret
             ELSE Return(m, r.ret)
    /\ UNCHANGED <<handleVars, frame, arg, written, sent, out>>

\* Decode, second half: one iteration of avcodec_receive_frame's loop, or its
\* end with a frame or without one.  The frame object is emptied on entry.
ReceiveMore(m) ==
    /\ pc[m] = "receive" /\ MustDecodeMore(cx[m])
    /\ frame' = [frame EXCEPT ![FrameOf(m)] = NoFrame]
    /\ \E r \in ReceiveIteration(cx[m]) :
          /\ cx' = [cx EXCEPT ![m] = r.cx]
          /\ IF r.ret = "OK" THEN UNCHANGED <<pc, ret>> ELSE Return(m, r.ret)
    /\ UNCHANGED <<handleVars, arg, written, sent, out>>

ReceiveFrame(m) ==
    /\ pc[m] = "receive" /\ HasOutput(cx[m])
    /\ frame' = [frame EXCEPT ![FrameOf(m)] = cx[m].frame]
    /\ cx' = [cx EXCEPT ![m] = MoveOut(cx[m])]
    /\ pc' = [pc EXCEPT ![m] = "copy"]
    /\ UNCHANGED <<handleVars, arg, ret, written, sent, out>>

ReceiveNothing(m) ==
    /\ pc[m] = "receive" /\ ~HasOutput(cx[m]) /\ ~MustDecodeMore(cx[m])
    /\ frame' = [frame EXCEPT ![FrameOf(m)] = NoFrame]
    /\ Return(m, "EAGAIN")
    /\ UNCHANGED <<handleVars, cx, arg, written, sent, out>>

\* The copy to the caller: a YUV picture is measured by the context's width and
\* height, whatever the size of the frame.
YuvBytes(pixels) == pixels + 2 * (pixels \div 4)

CopyOut(m) ==
    /\ pc[m] = "copy"
    /\ out' = [out EXCEPT ![m] = Append(@, frame[FrameOf(m)])]
    /\ written' = IF m = "video" THEN YuvBytes(cx[m].dim) ELSE written
    /\ Return(m, "positive")
    /\ UNCHANGED <<handleVars, cx, frame, arg, sent>>

Step(m) ==
    Send(m) \/ ReceiveMore(m) \/ ReceiveFrame(m) \/ ReceiveNothing(m) \/ CopyOut(m)

Next ==
    \/ Create \/ Release
    \/ \E m \in MediaTypes : CallInvalid(m) \/ Call(m) \/ Step(m)

Spec == Init /\ [][Next]_vars

\* The thread inside a call keeps running: it holds no lock and waits for nothing.
FairSpec == Spec /\ \A m \in MediaTypes : WF_vars(Step(m))
-----------------------------------------------------------------------------
\* What each variable holds.
TypeOK ==
    /\ handle \in {"none", "open"} /\ leaked \in Nat
    /\ live \subseteq Resources
    /\ created \in Nat /\ pixelSize \in Nat
    /\ cx \in [MediaTypes -> Contexts(Ids, Dims, Delays)]
    /\ frame \in [FrameObjects -> Frames]
    /\ pc \in [MediaTypes -> {"idle", "send", "receive", "copy"}]
    /\ arg \in [MediaTypes -> Seq(Units(Ids, Dims))]
    /\ ret \in [MediaTypes -> Errors \cup {"none", "zero", "positive"}]
    /\ written \in Nat
    /\ sent \in [MediaTypes -> Nat]
    /\ out \in [MediaTypes -> Seq(Frames)]

\* A video packet is never refused: whatever the earlier packets did, nothing is
\* buffered when CarEye_DecoderYUV420 reaches avcodec_send_packet (line 60).
VideoNeverRefused == pc["video"] = "send" => ~Refuses(cx["video"])

\* The frame a thread copies out is one of its own medium, although the other
\* medium's thread may run any of its steps between receiving and copying.
CopyReadsOwnFrame ==
    \A m \in MediaTypes :
        pc[m] = "copy" => /\ frame[FrameOf(m)] # NoFrame
                          /\ frame[FrameOf(m)].id[1] = m

\* Once an audio packet has left something unread, no later packet of the
\* handle is ever taken: Decode gives up on the refusal without receiving.
RefusalIsPermanent ==
    [][\A m \in MediaTypes :
          (pc[m] \in {"idle", "send"} /\ Refuses(cx[m]) /\ handle' = handle)
             => (cx'[m] = cx[m] /\ out'[m] = out[m]) ]_vars

\* The decoding loop of avcodec_receive_frame has come to data that the codec
\* neither consumes nor makes a frame of.
Stuck(m) ==
    /\ pc[m] = "receive" /\ MustDecodeMore(cx[m])
    /\ Head(cx[m].pkt).kind = "stuck"

\* A video call returns, whatever its codec does with the data; an audio call
\* returns too, unless that loop comes to data it cannot get past.
CallsReturn ==
    /\ pc["video"] # "idle" ~> pc["video"] = "idle"
    /\ pc["audio"] # "idle" ~> (pc["audio"] = "idle" \/ Stuck("audio"))

\* The frames of medium m taken in and not yet copied out, oldest first.
Pending(m) ==
    (IF pc[m] = "copy" THEN <<frame[FrameOf(m)]>> ELSE <<>>) \o Inside(cx[m])

Video == INSTANCE FifoChannel WITH pending <- Pending("video"), out <- out["video"]
Audio == INSTANCE FifoChannel WITH pending <- Pending("audio"), out <- out["audio"]

\* Each medium's calls hand out frames in decoding order, each at most once and
\* none of the other medium's.
MediaInOrder == Video!Spec /\ Audio!Spec

\* Whichever step of a creation fails, and however often handles come and go,
\* what no release frees is a handle's own contexts (CarEye_DecoderRelease
\* closes them without av_free), never a frame or an open codec.
LosesContextsOnly == leaked + NotFreed(live) <= 2 * created

-----------------------------------------------------------------------------
(* Claims of documentation that the code does not keep. *)

\* avcodec.h:104: "Repeat this call until it returns AVERROR(EAGAIN) or an
\* error": nothing is left to receive when a decoding call has returned.
OutputFullyRead ==
    \A m \in MediaTypes : pc[m] = "idle" => ~Refuses(cx[m])

\* CarEyeDecoderAPI.cpp:223: CarEye_GetYUVSize is "the byte size of the YUV
\* output buffer": a call writes no more.
GetYUVSize == pixelSize + pixelSize \div 2
OutputFitsGetYUVSize == written <= GetYUVSize
=============================================================================
