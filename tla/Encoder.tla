------------------------------ MODULE Encoder -------------------------------
(***************************************************************************)
(* The bridge's encoder handle (CarEyeEncoderAPI.cpp): creation with its   *)
(* failure paths, release, and the two encoding calls, which two threads   *)
(* may make at once, one per medium.  A call is cut where the threads can  *)
(* interleave: the copy of the caller's picture or samples into the        *)
(* handle's frame, avcodec_send_frame, avcodec_receive_packet, and the     *)
(* copy of the packet to the caller.                                       *)
(***************************************************************************)
EXTENDS AvEncode, FiniteSets

CONSTANTS
    Delays,        \* [medium -> numbers of inputs its codec may hold back]
    BFrames,       \* [medium -> how many inputs a packet may overtake]
    MaxInputs,     \* bound: calls per medium and handle
    MaxHandles     \* bound: creations

ASSUME EncoderAssumption ==
    /\ Delays \in [MediaTypes -> SUBSET Nat]
    /\ \A m \in MediaTypes : Delays[m] # {}
    /\ BFrames \in [MediaTypes -> Nat]
    /\ MaxInputs \in Nat /\ MaxHandles \in Nat
    /\ NoInput \notin Inputs

FrameObjects == {"VFrame", "AFrame"}
Slot == Inputs \cup {NoInput}
Errors == {"EAGAIN", "ERROR"}

VARIABLES
    handle,     \* "none" or "open": what the caller holds
    live,       \* what the handle's creation acquired and has not released
    leaked,     \* objects nothing points to any more
    created,    \* handles asked for so far
    cx,         \* VEncoder and AEncoder, by medium
    frame,      \* VFrame and AFrame
    packet,     \* the AVPacket on the stack of each medium's call
    pc,         \* where the thread of each medium is in its call
    arg,        \* what the last call offered; NoInput if its parameters were invalid
    ret,        \* what the last call of each medium returned
    sent,       \* inputs offered so far: numbers them
    failed,     \* calls of the handle that returned an error, by medium
    out         \* packets copied to the caller, by medium

vars == <<handle, live, leaked, created, cx, frame, packet, pc, arg, ret, sent,
          failed, out>>
handleVars == <<handle, live, leaked, created>>

-----------------------------------------------------------------------------
Resources == {"VEncoder", "VOpen", "VFrame", "VImage", "AEncoder", "AOpen",
              "AFrame", "ABuffer", "handle"}

\* Creation acquires these in order; any of them can fail.
Acquisitions(media) ==
    (IF "video" \in media THEN <<"VEncoder", "VOpen", "VFrame", "VImage">> ELSE <<>>)
 \o (IF "audio" \in media THEN <<"AEncoder", "AOpen", "AFrame", "ABuffer">> ELSE <<>>)

Acquired(media, n) == {Acquisitions(media)[i] : i \in 1 .. n} \cup {"handle"}

\* (Faulty variant: the samples of AFrame are not freed with it.)
MutReleased == {"VEncoder", "VOpen", "VFrame", "AEncoder", "AOpen", "AFrame", "handle"}

\* CarEye_EncoderRelease closes and frees the contexts and frees the frames.
\* The samples belong to AFrame and go with it; the picture that av_image_alloc
\* put into VFrame does not.
Released == {"VEncoder", "VOpen", "VFrame", "AEncoder", "AOpen", "AFrame",
             "ABuffer", "handle"}

NotFreed(acquired) == Cardinality(acquired \ Released)

\* (Faulty variant: one frame object for both media.)
MutFrameOf(m) == "VFrame"
FrameOf(m) == IF m = "video" THEN "VFrame" ELSE "AFrame"

Has(m) == handle = "open" /\ (IF m = "video" THEN "VEncoder" ELSE "AEncoder") \in live

Some(S) == CHOOSE x \in S : TRUE
Closed == [m \in MediaTypes |-> OpenContext(Some(Delays[m]), BFrames[m])]
NoFrames == [f \in FrameObjects |-> NoInput]
Zero == [m \in MediaTypes |-> 0]
Empty == [m \in MediaTypes |-> <<>>]

Init ==
    /\ handle = "none" /\ live = {} /\ leaked = 0 /\ created = 0
    /\ cx = Closed
    /\ frame = NoFrames
    /\ packet = [m \in MediaTypes |-> NoInput]
    /\ pc = [m \in MediaTypes |-> "idle"]
    /\ arg = [m \in MediaTypes |-> NoInput]
    /\ ret = [m \in MediaTypes |-> "none"]
    /\ sent = Zero /\ failed = Zero
    /\ out = Empty

\* CarEye_EncoderCreate.
Create ==
    /\ handle = "none" /\ created < MaxHandles
    /\ created' = created + 1
    /\ \E media \in SUBSET MediaTypes \ {{}},
          v \in Delays["video"], a \in Delays["audio"] :
          /\ cx' = [m \in MediaTypes |->
                       OpenContext(IF m = "video" THEN v ELSE a, BFrames[m])]
          /\ \/ /\ handle' = "open"
                /\ live' = Acquired(media, Len(Acquisitions(media)))
                /\ UNCHANGED leaked
             \/ \E n \in 0 .. Len(Acquisitions(media)) - 1 :
                   /\ leaked' = leaked + NotFreed(Acquired(media, n))
                   /\ UNCHANGED <<handle, live>>
    /\ frame' = NoFrames
    /\ ret' = [m \in MediaTypes |-> "none"]
    /\ arg' = [m \in MediaTypes |-> NoInput]
    /\ sent' = Zero /\ failed' = Zero /\ out' = Empty
    /\ UNCHANGED <<packet, pc>>

\* CarEye_EncoderRelease, which the caller makes only between its calls.
Release ==
    /\ handle = "open" /\ \A m \in MediaTypes : pc[m] = "idle"
    /\ handle' = "none" /\ live' = {}
    /\ leaked' = leaked + NotFreed(live)
    /\ cx' = Closed /\ frame' = NoFrames
    /\ UNCHANGED <<created, packet, pc, arg, ret, sent, failed, out>>

-----------------------------------------------------------------------------
Return(m, r) ==
    /\ pc' = [pc EXCEPT ![m] = "idle"]
    /\ ret' = [ret EXCEPT ![m] = r]

\* CarEye_EncoderYUV and CarEye_EncoderPCM: the checks on the parameters.
CallInvalid(m) ==
    /\ pc[m] = "idle"
    /\ Return(m, "zero")
    /\ arg' = [arg EXCEPT ![m] = NoInput]
    /\ UNCHANGED <<handleVars, cx, frame, packet, sent, failed, out>>

\* The copy of the caller's data into the handle's frame.
Call(m) ==
    /\ pc[m] = "idle" /\ Has(m) /\ sent[m] < MaxInputs
    /\ sent' = [sent EXCEPT ![m] = @ + 1]
    /\ arg' = [arg EXCEPT ![m] = <<m, sent[m] + 1>>]
    /\ frame' = [frame EXCEPT ![FrameOf(m)] = <<m, sent[m] + 1>>]
    /\ packet' = [packet EXCEPT ![m] = NoInput]
    /\ pc' = [pc EXCEPT ![m] = "send"]
    /\ UNCHANGED <<handleVars, cx, ret, failed, out>>

\* Encode, first half.
Send(m) ==
    /\ pc[m] = "send"
    /\ \E r \in SendFrame(cx[m], frame[FrameOf(m)]) :
          /\ cx' = [cx EXCEPT ![m] = r.cx]
          /\ IF r.ret = "OK"
             THEN pc' = [pc EXCEPT ![m] = "receive"] /\ UNCHANGED <<ret, failed>>
             ELSE Return(m, r.ret) /\ failed' = [failed EXCEPT ![m] = @ + 1]
    /\ UNCHANGED <<handleVars, frame, packet, arg, sent, out>>

\* Encode, second half: with no packet yet it reports success all the same.
Receive(m) ==
    /\ pc[m] = "receive"
    /\ LET r == ReceivePacket(cx[m]) IN
          /\ cx' = [cx EXCEPT ![m] = r.cx]
          /\ IF r.ret = "OK" THEN packet' = [packet EXCEPT ![m] = cx[m].pkt]
                             ELSE UNCHANGED packet
    /\ pc' = [pc EXCEPT ![m] = "copy"]
    /\ UNCHANGED <<handleVars, frame, arg, ret, sent, failed, out>>

\* The copy to the caller, unless the packet is empty; its size is returned.
CopyOut(m) ==
    /\ pc[m] = "copy"
    /\ IF packet[m] = NoInput
       THEN Return(m, "zero") /\ UNCHANGED out
       ELSE Return(m, "positive") /\ out' = [out EXCEPT ![m] = Append(@, packet[m])]
    /\ packet' = [packet EXCEPT ![m] = NoInput]
    /\ UNCHANGED <<handleVars, cx, frame, arg, sent, failed>>

Step(m) == Send(m) \/ Receive(m) \/ CopyOut(m)

Next ==
    \/ Create \/ Release
    \/ \E m \in MediaTypes : CallInvalid(m) \/ Call(m) \/ Step(m)

Spec == Init /\ [][Next]_vars
-----------------------------------------------------------------------------
\* What each variable holds.
TypeOK ==
    /\ handle \in {"none", "open"} /\ leaked \in Nat
    /\ live \subseteq Resources /\ created \in Nat
    /\ cx \in [MediaTypes -> Contexts]
    /\ \A m \in MediaTypes :
          /\ cx[m].delay \in Delays[m]
          /\ cx[m].bframes = BFrames[m] /\ cx[m].behind <= BFrames[m]
    /\ frame \in [FrameObjects -> Slot] /\ packet \in [MediaTypes -> Slot]
    /\ pc \in [MediaTypes -> {"idle", "send", "receive", "copy"}]
    /\ arg \in [MediaTypes -> Slot]
    /\ ret \in [MediaTypes -> Errors \cup {"none", "zero", "positive"}]
    /\ sent \in [MediaTypes -> Nat] /\ failed \in [MediaTypes -> Nat]
    /\ out \in [MediaTypes -> Seq(Inputs)]

\* Encode's send is never refused: its own receive always empties what the send
\* before it produced, on success, on delay and on error.
SendNeverRefused == \A m \in MediaTypes : pc[m] = "send" => ~cx[m].valid

\* How many inputs of medium m a call has copied in and not sent yet, and how many
\* the codec or the call's packet holds.
Unsent(m) == IF pc[m] = "send" THEN 1 ELSE 0
Carried(m) == (IF packet[m] = NoInput THEN 0 ELSE 1) + Holds(cx[m])

\* No input disappears in silence: with a call that fails, the input it offered or
\* the one whose packet was due is lost, never more, and every other input of the
\* handle is with its codec, on its way, or with the caller.
LossesAreReported ==
    handle = "open" =>
        \A m \in MediaTypes :
            sent[m] = Unsent(m) + failed[m] + Carried(m) + Len(out[m])

\* What a call is about to encode is what it copied in, although the other
\* medium's thread may copy its own input in between.
SendsOwnInput == \A m \in MediaTypes : pc[m] = "send" => frame[FrameOf(m)] = arg[m]

\* The inputs of medium m that are inside the codec or on their way out.
Pending(m) == {x \in {packet[m]} : x # NoInput} \cup Inside(cx[m])

Video == INSTANCE ReorderChannel
             WITH Name <- "video", Window <- BFrames["video"],
                  pending <- Pending("video"), out <- out["video"]
Audio == INSTANCE ReorderChannel
             WITH Name <- "audio", Window <- BFrames["audio"],
                  pending <- Pending("audio"), out <- out["audio"]

\* Each medium's packets are of its own inputs, each comes out at most once, and
\* none is overtaken by more than the B-frames the encoder was opened with, which
\* for audio, and for video without B-frames, is the order of the inputs.
MediaInOrder == Video!Spec /\ Audio!Spec

\* Whichever step of a creation fails, and however often handles come and go,
\* what no release frees is the one picture that av_image_alloc put into VFrame.
LosesPictureOnly == leaked + NotFreed(live) <= created
=============================================================================
