--------------------------- MODULE DecoderProofs ----------------------------
(***************************************************************************)
(* Proofs about Decoder, for every alphabet of packets, every reorder      *)
(* delay and every number of packets and handles.                          *)
(***************************************************************************)
EXTENDS Decoder, SequenceTheorems, FiniteSetTheorems, WellFoundedInduction, TLAPS

\* Everything inside a medium's context, call and frame object comes from that
\* medium's packets; a video context never keeps input, and keeps output only
\* while a call is about to collect it; without a handle nothing is buffered.
IdsOf(m) == {m} \X Nat \X Nat
UnitsOf(m) == Units(IdsOf(m), Dims)
ContextOf(m) == Contexts(IdsOf(m), Dims, Delays)

ContextsOwned ==
    /\ cx \in [MediaTypes -> Contexts(Ids, Dims, Delays)]
    /\ \A m \in MediaTypes : cx[m] \in ContextOf(m) /\ cx[m].type = m

CallsOwned ==
    /\ pc \in [MediaTypes -> {"idle", "send", "receive", "copy"}]
    /\ arg \in [MediaTypes -> Seq(Units(Ids, Dims))]
    /\ \A m \in MediaTypes : arg[m] \in Seq(UnitsOf(m))
    /\ \A m \in MediaTypes : pc[m] = "send" => arg[m] # <<>>
    /\ handle = "none" => \A m \in MediaTypes : pc[m] = "idle"
    /\ sent \in [MediaTypes -> Nat]

FramesOwned ==
    /\ frame \in [FrameObjects -> Frames]
    /\ \A m \in MediaTypes : frame[FrameOf(m)] \in UnitsOf(m) \cup {NoFrame}
    /\ \A m \in MediaTypes : pc[m] = "copy" => frame[FrameOf(m)] # NoFrame

VideoEmpty ==
    /\ cx["video"].pkt = <<>>
    /\ pc["video"] # "receive" => cx["video"].frame = NoFrame

ClosedEmpty == handle = "none" => \A m \in MediaTypes : ~Refuses(cx[m])

IInv == ContextsOwned /\ CallsOwned /\ FramesOwned /\ VideoEmpty /\ ClosedEmpty
-----------------------------------------------------------------------------
\* Units of one medium are units.
LEMMA OwnUnits ==
    ASSUME NEW m \in MediaTypes
    PROVE  /\ UnitsOf(m) \subseteq Units(Ids, Dims)
           /\ NoFrame \notin UnitsOf(m)
           /\ \A u \in UnitsOf(m) : u.id[1] = m
           /\ Seq(UnitsOf(m)) \subseteq Seq(Units(Ids, Dims))
<1>1. UnitsOf(m) \subseteq Units(Ids, Dims)
  BY DEF UnitsOf, Units, IdsOf, Ids
<1>2. NoFrame \notin UnitsOf(m)
  BY <1>1, DecoderAssumption DEF Ids
<1>3. \A u \in UnitsOf(m) : u.id[1] = m
  BY DEF UnitsOf, Units, IdsOf
<1> QED
  BY <1>1, <1>2, <1>3

\* What do_decode leaves in a context: the type of codec, the owner of every
\* unit, and, for video, no input.
LEMMA DoDecodeOwned ==
    ASSUME NEW m \in MediaTypes, NEW c \in ContextOf(m), c.type = m,
           NEW rest \in Seq(UnitsOf(m)), rest # <<>>,
           NEW own \in BOOLEAN, NEW r \in DoDecode(c, rest, own)
    PROVE  /\ r.cx \in ContextOf(m) /\ r.cx.type = m
           /\ r.ret \in {"OK", "INVALIDDATA", "ENOMEM"}
           /\ r.ret = "INVALIDDATA" => r.cx = c
           /\ m = "video" => r.ret # "ENOMEM" /\ (r.ret = "OK" => r.cx.pkt = <<>>)
<1> DEFINE u == Head(rest)
           d == CodecStep(c, rest)
<1>1. u \in UnitsOf(m) /\ Tail(rest) \in Seq(UnitsOf(m))
  BY HeadTailProperties
<1>2. c = [type |-> c.type, pkt |-> c.pkt, frame |-> c.frame,
           held |-> c.held, delay |-> c.delay, dim |-> c.dim]
      /\ c.held \in Seq(UnitsOf(m)) /\ c.delay \in Delays /\ c.dim \in Dims
      /\ c.pkt \in Seq(UnitsOf(m)) /\ c.frame \in UnitsOf(m) \cup {NoFrame}
  BY DEF ContextOf, Contexts, UnitsOf
<1>3. u.dim \in Dims
  BY <1>1 DEF UnitsOf, Units
<1>4. CodecHeld(c, u) \in Seq(UnitsOf(m))
  BY <1>1, <1>2, AppendProperties DEF CodecHeld
<1>5. GotFrame(c, u) => CodecHeld(c, u) # <<>>
  BY <1>1, <1>2, AppendProperties DEF GotFrame, CodecHeld
<1>6. GotFrame(c, u) => /\ Head(CodecHeld(c, u)) \in UnitsOf(m)
                        /\ Tail(CodecHeld(c, u)) \in Seq(UnitsOf(m))
  BY <1>4, <1>5, HeadTailProperties
<1>7. Remainder(c, rest) \in Seq(UnitsOf(m)) /\ (m = "video" => Remainder(c, rest) = <<>>)
  BY <1>1, EmptySeq DEF Remainder, Unread
<1>8. d \in ContextOf(m) /\ d.type = m /\ (m = "video" => d.pkt = <<>>)
  BY <1>2, <1>3, <1>4, <1>6, <1>7
     DEF CodecStep, ContextOf, Contexts, UnitsOf, CodecDim
<1>9. [d EXCEPT !.pkt = <<>>] \in ContextOf(m) /\ [d EXCEPT !.pkt = <<>>].type = m
  BY <1>8, EmptySeq DEF ContextOf, Contexts, UnitsOf
<1>10. \/ r = Result("INVALIDDATA", c)
       \/ r = Result("OK", d)
       \/ r = Result("ENOMEM", [d EXCEPT !.pkt = <<>>]) /\ d.pkt # <<>>
  <2> HIDE DEF d
  <2>1. CASE Head(rest).kind = "bad"
    BY <2>1 DEF DoDecode
  <2>2. CASE Head(rest).kind # "bad"
    BY <2>2 DEF DoDecode, d
  <2> QED
    BY <2>1, <2>2
<1> DEFINE e == [d EXCEPT !.pkt = <<>>]
<1>11. e \in ContextOf(m) /\ e.type = m
  BY <1>9
<1>12. r = Result("INVALIDDATA", c) \/ r = Result("OK", d)
       \/ (r = Result("ENOMEM", e) /\ d.pkt # <<>>)
  BY <1>10
<1> HIDE DEF d, e
<1>13. CASE r = Result("INVALIDDATA", c)
  BY <1>13 DEF Result
<1>14. CASE r = Result("OK", d)
  BY <1>8, <1>14 DEF Result
<1>15. CASE r = Result("ENOMEM", e) /\ d.pkt # <<>>
  BY <1>8, <1>11, <1>15 DEF Result
<1> QED
  BY <1>12, <1>13, <1>14, <1>15

\* A packet's units carry its medium and its number.
LEMMA NumberOwned ==
    ASSUME NEW m \in MediaTypes, NEW n \in Nat, NEW shape \in Shapes[m], shape # <<>>
    PROVE  Number(m, n, shape) \in Seq(UnitsOf(m)) /\ Number(m, n, shape) # <<>>
<1>1. shape \in Seq([kind : UnitKinds, dim : Dims])
  BY DecoderAssumption
<1>2. Len(shape) \in Nat /\ Len(shape) # 0
  BY <1>1, EmptySeq
<1>3. \A j \in 1 .. Len(shape) : shape[j] \in [kind : UnitKinds, dim : Dims]
  BY <1>1, ElementOfSeq
<1>4. \A j \in 1 .. Len(shape) : <<m, n, j>> \in IdsOf(m)
  BY <1>2 DEF IdsOf
<1>5. \A j \in 1 .. Len(shape) :
          [id |-> <<m, n, j>>, kind |-> shape[j].kind, dim |-> shape[j].dim] \in UnitsOf(m)
  BY <1>3, <1>4 DEF UnitsOf, Units
<1>6. Number(m, n, shape) \in [1 .. Len(shape) -> UnitsOf(m)]
  BY <1>5 DEF Number
<1>7. Number(m, n, shape) \in Seq(UnitsOf(m)) /\ Len(Number(m, n, shape)) = Len(shape)
  BY <1>2, <1>6, SeqDef
<1> QED
  BY <1>2, <1>7

\* A context just opened holds nothing.
LEMMA OpenOwned ==
    ASSUME NEW m \in MediaTypes, NEW delay \in Delays, NEW d \in Dims
    PROVE  /\ OpenContext(m, delay, d) \in ContextOf(m)
           /\ OpenContext(m, delay, d).type = m
           /\ OpenContext(m, delay, d).pkt = <<>>
           /\ OpenContext(m, delay, d).frame = NoFrame
  BY EmptySeq DEF OpenContext, ContextOf, Contexts, UnitsOf

\* Owned contexts are contexts.
LEMMA ContextsWellTyped ==
    ASSUME NEW m \in MediaTypes, NEW c \in ContextOf(m)
    PROVE  c \in Contexts(Ids, Dims, Delays)
  BY OwnUnits DEF ContextOf, Contexts, UnitsOf
-----------------------------------------------------------------------------
LEMMA InitOwned == Init => IInv
<1> SUFFICES ASSUME Init PROVE IInv
  OBVIOUS
<1>1. AnyDim \in Dims /\ 0 \in Delays
  BY DecoderAssumption DEF AnyDim
<1>2. ContextsOwned /\ VideoEmpty
  BY <1>1, OpenOwned, ContextsWellTyped
     DEF Init, Closed, ContextsOwned, VideoEmpty, MediaTypes
<1>3. CallsOwned
  BY EmptySeq DEF Init, Empty, CallsOwned
<1>4. FramesOwned
  BY DEF Init, NoFrames, FramesOwned, Frames, FrameOf, FrameObjects
<1>5. ClosedEmpty
  BY OpenOwned, <1>1 DEF Init, Closed, ClosedEmpty, Refuses
<1> QED
  BY <1>2, <1>3, <1>4, <1>5 DEF IInv

\* Replacing one medium's context by one it owns.
LEMMA ContextReplaced ==
    ASSUME ContextsOwned, NEW m \in MediaTypes, NEW c \in ContextOf(m), c.type = m,
           cx' = [cx EXCEPT ![m] = c]
    PROVE  ContextsOwned' /\ cx'[m] = c /\ (m # "video" => cx'["video"] = cx["video"])
  BY ContextsWellTyped DEF ContextsOwned, MediaTypes

LEMMA CreateOwned == ASSUME IInv, Create PROVE IInv'
<1> USE DEF IInv
<1>1. PICK d \in Dims, delay \in Delays :
          cx' = [m \in MediaTypes |-> OpenContext(m, IF m = "video" THEN delay ELSE 0, d)]
  BY DEF Create
<1>2. ContextsOwned' /\ VideoEmpty'
  BY <1>1, DecoderAssumption, OpenOwned, ContextsWellTyped
     DEF ContextsOwned, VideoEmpty, MediaTypes
<1>3. CallsOwned'
  BY DEF Create, CallsOwned
<1>4. \A m \in MediaTypes : pc[m] # "copy"
  BY DEF Create, CallsOwned
<1>5. FramesOwned'
  BY <1>4 DEF Create, NoFrames, FramesOwned, Frames, FrameOf, FrameObjects
<1>6. ClosedEmpty'
  BY <1>1, OpenOwned, DecoderAssumption DEF ClosedEmpty, Refuses
<1> QED
  BY <1>2, <1>3, <1>5, <1>6

LEMMA ReleaseOwned == ASSUME IInv, Release PROVE IInv'
<1> USE DEF IInv
<1>1. AnyDim \in Dims /\ 0 \in Delays
  BY DecoderAssumption DEF AnyDim
<1>2. ContextsOwned' /\ VideoEmpty'
  BY <1>1, OpenOwned, ContextsWellTyped
     DEF Release, Closed, ContextsOwned, VideoEmpty, MediaTypes
<1>3. CallsOwned'
  BY DEF Release, CallsOwned
<1>4. FramesOwned'
  BY DEF Release, NoFrames, FramesOwned, Frames, FrameOf, FrameObjects
<1>5. ClosedEmpty'
  BY <1>1, OpenOwned DEF Release, Closed, ClosedEmpty, Refuses
<1> QED
  BY <1>2, <1>3, <1>4, <1>5

\* One thread's step, for the steps that replace its own context.
LEMMA CallInvalidOwned ==
    ASSUME IInv, NEW m \in MediaTypes, CallInvalid(m) PROVE IInv'
<1>1. ContextsOwned' /\ VideoEmpty'
  BY DEF IInv, CallInvalid, Return, ContextsOwned, VideoEmpty, CallsOwned
<1>2. CallsOwned' /\ FramesOwned'
  BY DEF IInv, CallInvalid, Return, CallsOwned, FramesOwned, handleVars
<1>20. ClosedEmpty'
  BY DEF IInv, ClosedEmpty, CallsOwned, handleVars, CallInvalid, Return
<1> QED
  BY <1>1, <1>2, <1>20 DEF IInv

LEMMA CallOwned ==
    ASSUME IInv, NEW m \in MediaTypes, Call(m) PROVE IInv'
<1>1. ContextsOwned' /\ VideoEmpty'
  BY DEF IInv, Call, ContextsOwned, VideoEmpty, CallsOwned
<1>2. PICK shape \in Shapes[m] :
          shape # <<>> /\ arg' = [arg EXCEPT ![m] = Number(m, sent[m] + 1, shape)]
  BY DEF Call
<1>3. Number(m, sent[m] + 1, shape) \in Seq(UnitsOf(m)) /\ Number(m, sent[m] + 1, shape) # <<>>
  <2> DEFINE n == sent[m] + 1
  <2>1. n \in Nat
    BY DEF IInv, CallsOwned
  <2> HIDE DEF n
  <2>2. Number(m, n, shape) \in Seq(UnitsOf(m)) /\ Number(m, n, shape) # <<>>
    BY <1>2, <2>1, NumberOwned
  <2> QED
    BY <2>2 DEF n
<1>4. arg' \in [MediaTypes -> Seq(Units(Ids, Dims))]
  BY <1>2, <1>3, OwnUnits DEF IInv, CallsOwned
<1>5. CallsOwned'
  BY <1>2, <1>3, <1>4 DEF IInv, CallsOwned, Call, handleVars, Has
<1>6. FramesOwned'
  BY DEF IInv, FramesOwned, CallsOwned, Call
<1>20. ClosedEmpty'
  BY DEF IInv, ClosedEmpty, CallsOwned, handleVars, Call, Has
<1> QED
  BY <1>1, <1>5, <1>6, <1>20 DEF IInv

LEMMA SendOwned ==
    ASSUME IInv, NEW m \in MediaTypes, Send(m) PROVE IInv'
<1>1. PICK r \in SendPacket(cx[m], arg[m]) :
          /\ cx' = [cx EXCEPT ![m] = r.cx]
          /\ IF r.ret = "OK"
             THEN pc' = [pc EXCEPT ![m] = "receive"] /\ UNCHANGED ret
             ELSE Return(m, r.ret)
  BY DEF Send
<1>2. /\ arg[m] \in Seq(UnitsOf(m)) /\ arg[m] # <<>>
      /\ cx[m] \in ContextOf(m) /\ cx[m].type = m
  BY DEF IInv, CallsOwned, ContextsOwned, Send
<1>3. /\ r.cx \in ContextOf(m) /\ r.cx.type = m
      /\ m = "video" => r.cx.pkt = <<>> /\ (r.ret # "OK" => r.cx.frame = NoFrame)
  <2>1. CASE Refuses(cx[m])
    <3>1. r = Result("EAGAIN", cx[m])
      BY <1>1, <2>1 DEF SendPacket
    <3>2. m # "video"
      BY <2>1 DEF Refuses, IInv, VideoEmpty, Send
    <3> QED
      BY <1>2, <3>1, <3>2 DEF Result
  <2>2. CASE ~Refuses(cx[m])
    <3>1. r \in DoDecode(cx[m], arg[m], FALSE)
      BY <1>1, <2>2 DEF SendPacket
    <3>2. /\ r.cx \in ContextOf(m) /\ r.cx.type = m
          /\ r.ret \in {"OK", "INVALIDDATA", "ENOMEM"}
          /\ r.ret = "INVALIDDATA" => r.cx = cx[m]
          /\ m = "video" => r.ret # "ENOMEM" /\ (r.ret = "OK" => r.cx.pkt = <<>>)
      <4> DEFINE c == cx[m]
                 rest == arg[m]
                 own == FALSE
      <4>1. /\ c \in ContextOf(m) /\ c.type = m /\ own \in BOOLEAN
            /\ rest \in Seq(UnitsOf(m)) /\ rest # <<>> /\ r \in DoDecode(c, rest, own)
        BY <1>2, <3>1
      <4> HIDE DEF c, rest, own
      <4>2. /\ r.cx \in ContextOf(m) /\ r.cx.type = m
            /\ r.ret \in {"OK", "INVALIDDATA", "ENOMEM"}
            /\ r.ret = "INVALIDDATA" => r.cx = c
            /\ m = "video" => r.ret # "ENOMEM" /\ (r.ret = "OK" => r.cx.pkt = <<>>)
        BY <4>1, DoDecodeOwned
      <4> QED
        BY <4>2 DEF c
    <3> QED
      BY <2>2, <3>2 DEF Refuses
  <2> QED
    BY <2>1, <2>2
<1>4. ContextsOwned' /\ cx'[m] = r.cx /\ (m # "video" => cx'["video"] = cx["video"])
  BY <1>1, <1>3, ContextReplaced DEF IInv
<1>5. VideoEmpty'
  BY <1>1, <1>3, <1>4 DEF IInv, VideoEmpty, CallsOwned, Return, MediaTypes
<1>6. CallsOwned'
  BY <1>1 DEF IInv, CallsOwned, Return, Send, handleVars
<1>7. FramesOwned'
  BY <1>1 DEF IInv, FramesOwned, CallsOwned, Send, Return
<1>20. ClosedEmpty'
  BY DEF IInv, ClosedEmpty, CallsOwned, handleVars, Send, Return
<1> QED
  BY <1>4, <1>5, <1>6, <1>7, <1>20 DEF IInv

LEMMA ReceiveMoreOwned ==
    ASSUME IInv, NEW m \in MediaTypes, ReceiveMore(m) PROVE IInv'
<1>1. PICK r \in ReceiveIteration(cx[m]) :
          /\ cx' = [cx EXCEPT ![m] = r.cx]
          /\ IF r.ret = "OK" THEN UNCHANGED <<pc, ret>> ELSE Return(m, r.ret)
  BY DEF ReceiveMore
<1>2. m # "video"
  BY DEF IInv, VideoEmpty, ReceiveMore, MustDecodeMore
<1>3. r.cx \in ContextOf(m) /\ r.cx.type = m
  <2> DEFINE c == cx[m]
  <2>1. c \in ContextOf(m) /\ c.type = m /\ c.pkt \in Seq(UnitsOf(m)) /\ c.pkt # <<>>
    BY DEF IInv, ContextsOwned, ContextOf, Contexts, UnitsOf, ReceiveMore, MustDecodeMore
  <2>2. PICK q \in DoDecode(c, c.pkt, TRUE) :
            r = IF q.ret = "OK" THEN q ELSE Result(q.ret, [q.cx EXCEPT !.pkt = <<>>])
    BY <1>1 DEF ReceiveIteration
  <2> DEFINE rest == c.pkt
             own == TRUE
  <2>5. rest \in Seq(UnitsOf(m)) /\ rest # <<>> /\ own \in BOOLEAN
        /\ q \in DoDecode(c, rest, own)
    BY <2>1, <2>2
  <2> HIDE DEF c, rest, own
  <2>3. q.cx \in ContextOf(m) /\ q.cx.type = m
    BY <2>1, <2>5, DoDecodeOwned
  <2>4. /\ [q.cx EXCEPT !.pkt = <<>>] \in ContextOf(m)
        /\ [q.cx EXCEPT !.pkt = <<>>].type = m
    BY <2>3, EmptySeq DEF ContextOf, Contexts, UnitsOf
  <2> QED
    BY <2>2, <2>3, <2>4 DEF Result
<1>4. ContextsOwned' /\ cx'["video"] = cx["video"]
  BY <1>1, <1>2, <1>3, ContextReplaced DEF IInv
<1>5. VideoEmpty'
  BY <1>1, <1>2, <1>4 DEF IInv, VideoEmpty, CallsOwned, Return, MediaTypes
<1>6. CallsOwned'
  BY <1>1 DEF IInv, CallsOwned, Return, ReceiveMore, handleVars
<1>7. FramesOwned'
  BY <1>1 DEF IInv, FramesOwned, CallsOwned, ReceiveMore, Return,
              Frames, FrameOf, FrameObjects, MediaTypes
<1>20. ClosedEmpty'
  BY DEF IInv, ClosedEmpty, CallsOwned, handleVars, ReceiveMore, Return
<1> QED
  BY <1>4, <1>5, <1>6, <1>7, <1>20 DEF IInv

LEMMA ReceiveFrameOwned ==
    ASSUME IInv, NEW m \in MediaTypes, ReceiveFrame(m) PROVE IInv'
<1> DEFINE c == MoveOut(cx[m])
<1>1. /\ cx[m] \in ContextOf(m) /\ cx[m].type = m
      /\ cx[m].frame \in UnitsOf(m) /\ cx[m].frame # NoFrame
  BY DEF IInv, ContextsOwned, ContextOf, Contexts, UnitsOf, ReceiveFrame, HasOutput
<1>2. c \in ContextOf(m) /\ c.type = m /\ c.frame = NoFrame /\ c.pkt = cx[m].pkt
  BY <1>1 DEF ContextOf, Contexts, UnitsOf, MoveOut
<1>3. cx' = [cx EXCEPT ![m] = c]
  BY DEF ReceiveFrame
<1> HIDE DEF c
<1>4. ContextsOwned' /\ cx'[m] = c /\ (m # "video" => cx'["video"] = cx["video"])
  BY <1>2, <1>3, ContextReplaced DEF IInv
<1>5. VideoEmpty'
  BY <1>2, <1>4 DEF IInv, VideoEmpty, CallsOwned, ReceiveFrame, MediaTypes
<1>6. CallsOwned'
  BY DEF IInv, CallsOwned, ReceiveFrame, handleVars
<1>7. FramesOwned'
  BY <1>1, OwnUnits DEF IInv, FramesOwned, CallsOwned, ReceiveFrame,
              Frames, FrameOf, FrameObjects, MediaTypes
<1>20. ClosedEmpty'
  BY DEF IInv, ClosedEmpty, CallsOwned, handleVars, ReceiveFrame, Return
<1> QED
  BY <1>4, <1>5, <1>6, <1>7, <1>20 DEF IInv

LEMMA ReceiveNothingOwned ==
    ASSUME IInv, NEW m \in MediaTypes, ReceiveNothing(m) PROVE IInv'
<1>1. ContextsOwned' /\ VideoEmpty'
  BY DEF IInv, ContextsOwned, VideoEmpty, CallsOwned, ReceiveNothing, Return,
         HasOutput, MediaTypes
<1>2. CallsOwned'
  BY DEF IInv, CallsOwned, ReceiveNothing, Return, handleVars
<1>3. FramesOwned'
  BY DEF IInv, FramesOwned, CallsOwned, ReceiveNothing, Return,
         Frames, FrameOf, FrameObjects, MediaTypes
<1>20. ClosedEmpty'
  BY DEF IInv, ClosedEmpty, CallsOwned, handleVars, ReceiveNothing, Return
<1> QED
  BY <1>1, <1>2, <1>3, <1>20 DEF IInv

LEMMA CopyOutOwned ==
    ASSUME IInv, NEW m \in MediaTypes, CopyOut(m) PROVE IInv'
<1>1. ContextsOwned' /\ VideoEmpty'
  BY DEF IInv, ContextsOwned, VideoEmpty, CallsOwned, CopyOut, Return, MediaTypes
<1>2. CallsOwned' /\ FramesOwned'
  BY DEF IInv, CallsOwned, FramesOwned, CopyOut, Return, handleVars
<1>20. ClosedEmpty'
  BY DEF IInv, ClosedEmpty, CallsOwned, handleVars, CopyOut, Return
<1> QED
  BY <1>1, <1>2, <1>20 DEF IInv

LEMMA NextOwned == IInv /\ [Next]_vars => IInv'
<1> SUFFICES ASSUME IInv, [Next]_vars PROVE IInv'
  OBVIOUS
<1>1. CASE Create
  BY <1>1, CreateOwned
<1>2. CASE Release
  BY <1>2, ReleaseOwned
<1>3. ASSUME NEW m \in MediaTypes, CallInvalid(m) PROVE IInv'
  BY <1>3, CallInvalidOwned
<1>4. ASSUME NEW m \in MediaTypes, Call(m) PROVE IInv'
  BY <1>4, CallOwned
<1>5. ASSUME NEW m \in MediaTypes, Send(m) PROVE IInv'
  BY <1>5, SendOwned
<1>6. ASSUME NEW m \in MediaTypes, ReceiveMore(m) PROVE IInv'
  BY <1>6, ReceiveMoreOwned
<1>7. ASSUME NEW m \in MediaTypes, ReceiveFrame(m) PROVE IInv'
  BY <1>7, ReceiveFrameOwned
<1>8. ASSUME NEW m \in MediaTypes, ReceiveNothing(m) PROVE IInv'
  BY <1>8, ReceiveNothingOwned
<1>9. ASSUME NEW m \in MediaTypes, CopyOut(m) PROVE IInv'
  BY <1>9, CopyOutOwned
<1>10. CASE UNCHANGED vars
  BY <1>10 DEF vars, IInv, ContextsOwned, CallsOwned, FramesOwned, VideoEmpty, ClosedEmpty, handleVars
<1> QED
  BY <1>1, <1>2, <1>3, <1>4, <1>5, <1>6, <1>7, <1>8, <1>9, <1>10 DEF Next, Step

\* The invariant that everything below follows from.
THEOREM Ownership == Spec => []IInv
<1>1. Init => IInv
  BY InitOwned
<1>2. IInv /\ [Next]_vars => IInv'
  BY NextOwned
<1> QED
  BY <1>1, <1>2, PTL DEF Spec

\* CarEye_DecoderYUV420 is never refused a packet for what came before it.
THEOREM VideoIsNeverRefused == Spec => []VideoNeverRefused
<1>1. IInv => VideoNeverRefused
  BY DEF IInv, VideoEmpty, VideoNeverRefused, Refuses
<1> QED
  BY <1>1, Ownership, PTL

\* The two media's threads never see each other's frames.
THEOREM FramesAreNotMixed == Spec => []CopyReadsOwnFrame
<1>1. IInv => CopyReadsOwnFrame
  BY OwnUnits DEF IInv, FramesOwned, CopyReadsOwnFrame
<1> QED
  BY <1>1, Ownership, PTL

\* A handle that has refused one packet of a medium refuses all later ones.
THEOREM RefusalLasts == Spec => RefusalIsPermanent
<1> DEFINE A == \A m \in MediaTypes :
          (pc[m] \in {"idle", "send"} /\ Refuses(cx[m]) /\ handle' = handle)
             => (cx'[m] = cx[m] /\ out'[m] = out[m])
<1>1. IInv /\ [Next]_vars => A
  <2> SUFFICES ASSUME IInv, [Next]_vars, NEW m \in MediaTypes,
                      pc[m] \in {"idle", "send"}, Refuses(cx[m]), handle' = handle
               PROVE  cx'[m] = cx[m] /\ out'[m] = out[m]
    OBVIOUS
  <2> USE DEF IInv
  <2>1. CASE Create \/ Release
    BY <2>1 DEF Create, Release, ClosedEmpty
  <2>2. ASSUME NEW n \in MediaTypes, CallInvalid(n) \/ Call(n)
        PROVE  cx'[m] = cx[m] /\ out'[m] = out[m]
    BY <2>2 DEF CallInvalid, Call
  <2>3. ASSUME NEW n \in MediaTypes, Send(n)
        PROVE  cx'[m] = cx[m] /\ out'[m] = out[m]
    <3>1. out' = out
      BY <2>3 DEF Send
    <3>2. PICK r \in SendPacket(cx[n], arg[n]) : cx' = [cx EXCEPT ![n] = r.cx]
      BY <2>3 DEF Send
    <3>3. n = m => r.cx = cx[m]
      BY <3>2 DEF SendPacket, Result
    <3> QED
      BY <3>1, <3>2, <3>3 DEF ContextsOwned
  <2>4. ASSUME NEW n \in MediaTypes, ReceiveMore(n) \/ ReceiveFrame(n) \/ ReceiveNothing(n)
        PROVE  cx'[m] = cx[m] /\ out'[m] = out[m]
    BY <2>4 DEF ReceiveMore, ReceiveFrame, ReceiveNothing, ContextsOwned
  <2>5. ASSUME NEW n \in MediaTypes, CopyOut(n)
        PROVE  cx'[m] = cx[m] /\ out'[m] = out[m]
    BY <2>5 DEF CopyOut
  <2>6. CASE UNCHANGED vars
    BY <2>6 DEF vars
  <2> QED
    BY <2>1, <2>2, <2>3, <2>4, <2>5, <2>6 DEF Next, Step
<1> QED
  BY <1>1, Ownership, PTL DEF Spec, RefusalIsPermanent
-----------------------------------------------------------------------------
\* The rest of the type invariant.
RestTyped ==
    /\ handle \in {"none", "open"} /\ leaked \in Nat
    /\ live \subseteq Resources
    /\ created \in Nat /\ pixelSize \in Nat
    /\ ret \in [MediaTypes -> Errors \cup {"none", "zero", "positive"}]
    /\ written \in Nat
    /\ out \in [MediaTypes -> Seq(Frames)]

\* What creation acquires are resources, and what release forgets is counted.
LEMMA AcquiredResources ==
    ASSUME NEW media \in SUBSET MediaTypes, NEW n \in 0 .. Len(Acquisitions(media))
    PROVE  Acquired(media, n) \subseteq Resources
<1> DEFINE v == IF "video" \in media THEN <<"VDecoder", "VOpen", "VFrame">> ELSE <<>>
           a == IF "audio" \in media THEN <<"ADecoder", "AOpen", "AFrame">> ELSE <<>>
           s == Acquisitions(media)
<1>1. v \in Seq(Resources) /\ a \in Seq(Resources)
  <2>1. <<"VDecoder", "VOpen", "VFrame">> \in Seq(Resources)
    BY DEF Resources
  <2>2. <<"ADecoder", "AOpen", "AFrame">> \in Seq(Resources)
    BY DEF Resources
  <2>3. <<>> \in Seq(Resources)
    BY EmptySeq
  <2> QED
    BY <2>1, <2>2, <2>3
<1>4. s = v \o a
  BY DEF Acquisitions
<1> HIDE DEF v, a
<1>2. s \in Seq(Resources)
  BY <1>1, <1>4, ConcatProperties
<1> HIDE DEF s
<1>3. \A i \in 1 .. n : s[i] \in Resources
  <2>1. n \in 0 .. Len(s)
    BY DEF s
  <2>2. n <= Len(s) /\ n \in Nat /\ Len(s) \in Nat
    BY <1>2, <2>1, LenProperties
  <2> QED
    BY <1>2, <2>2, ElementOfSeq
<1>5. \A i \in 1 .. n : Acquisitions(media)[i] \in Resources
  BY <1>3 DEF s
<1> QED
  BY <1>5 DEF Acquired, Resources

LEMMA NotFreedCounts == ASSUME NEW l \in SUBSET Resources PROVE NotFreed(l) \in Nat
<1>1. IsFiniteSet({})
  BY FS_EmptySet
<1> DEFINE add(T, x) == T \cup {x}
           s1 == add({}, "VDecoder")
           s2 == add(s1, "VOpen")
           s3 == add(s2, "VFrame")
           s4 == add(s3, "ADecoder")
           s5 == add(s4, "AOpen")
           s6 == add(s5, "AFrame")
           s7 == add(s6, "handle")
<1>4. Resources = s7
  BY DEF Resources
<1>5. ASSUME NEW T, IsFiniteSet(T), NEW x PROVE IsFiniteSet(T \cup {x})
  BY <1>5, FS_AddElement
<1>6. IsFiniteSet(s1) /\ IsFiniteSet(s2) /\ IsFiniteSet(s3)
  BY <1>1, <1>5
<1>7. IsFiniteSet(s4) /\ IsFiniteSet(s5)
  BY <1>6, <1>5
<1>2. IsFiniteSet(Resources)
  BY <1>4, <1>7, <1>5
<1>3. IsFiniteSet(ReleaseResources(l))
  BY <1>2, FS_Subset DEF ReleaseResources
<1> QED
  BY <1>3, FS_CardinalityType DEF NotFreed

\* do_decode and what calls it return success or one of the errors.
LEMMA DecodeReturns ==
    ASSUME NEW c, NEW rest, NEW own, NEW r \in DoDecode(c, rest, own)
    PROVE  r.ret \in Errors \cup {"OK"}
  BY DEF DoDecode, Result, Errors

LEMMA YuvBytesNat == ASSUME NEW pixels \in Nat PROVE YuvBytes(pixels) \in Nat
  BY DEF YuvBytes

LEMMA RestTypedPreserved ==
    ASSUME IInv, RestTyped, [Next]_vars PROVE RestTyped'
<1>1. CASE Create
  <2>1. PICK media \in SUBSET MediaTypes \ {{}}, d \in Dims :
            /\ pixelSize' = IF "video" \in media THEN d ELSE 0
            /\ \/ /\ handle' = "open"
                  /\ live' = Acquired(media, Len(Acquisitions(media)))
                  /\ UNCHANGED leaked
               \/ \E n \in 0 .. Len(Acquisitions(media)) - 1 :
                     /\ leaked' = leaked + NotFreed(Acquired(media, n))
                     /\ UNCHANGED <<handle, live>>
    BY <1>1 DEF Create
  <2>2. pixelSize' \in Nat
    BY <2>1, DecoderAssumption
  <2>3. Len(Acquisitions(media)) \in Nat
    BY DEF Acquisitions
  <2>4. \A n \in 0 .. Len(Acquisitions(media)) :
            Acquired(media, n) \subseteq Resources /\ NotFreed(Acquired(media, n)) \in Nat
    BY AcquiredResources, NotFreedCounts
  <2>5. handle' \in {"none", "open"} /\ leaked' \in Nat /\ live' \subseteq Resources
    <3>1. CASE live' = Acquired(media, Len(Acquisitions(media))) /\ handle' = "open"
               /\ UNCHANGED leaked
      BY <2>3, <2>4, <3>1 DEF RestTyped
    <3>2. ASSUME NEW n \in 0 .. Len(Acquisitions(media)) - 1,
                 leaked' = leaked + NotFreed(Acquired(media, n)),
                 UNCHANGED <<handle, live>>
          PROVE  handle' \in {"none", "open"} /\ leaked' \in Nat /\ live' \subseteq Resources
      <4>1. n \in 0 .. Len(Acquisitions(media))
        BY <2>3
      <4>2. NotFreed(Acquired(media, n)) \in Nat
        BY <2>4, <4>1
      <4> QED
        BY <3>2, <4>2 DEF RestTyped
    <3> QED
      BY <2>1, <3>1, <3>2
  <2>6. out' \in [MediaTypes -> Seq(Frames)]
    BY <1>1, EmptySeq DEF Create, Empty
  <2> QED
    BY <1>1, <2>2, <2>5, <2>6 DEF Create, RestTyped
<1>2. CASE Release
  BY <1>2, NotFreedCounts DEF Release, RestTyped
<1>3. ASSUME NEW m \in MediaTypes, CallInvalid(m) \/ Call(m) \/ ReceiveFrame(m) \/ ReceiveNothing(m)
      PROVE  RestTyped'
  BY <1>3 DEF CallInvalid, Call, ReceiveFrame, ReceiveNothing, Return, RestTyped,
              handleVars, Errors
<1>4. ASSUME NEW m \in MediaTypes, Send(m) PROVE RestTyped'
  <2>1. PICK r \in SendPacket(cx[m], arg[m]) :
            IF r.ret = "OK" THEN UNCHANGED ret ELSE ret' = [ret EXCEPT ![m] = r.ret]
    BY <1>4 DEF Send, Return
  <2>2. r.ret \in Errors \cup {"OK"}
    <3>1. CASE r = Result("EAGAIN", cx[m])
      BY <3>1 DEF Result, Errors
    <3>2. CASE r \in DoDecode(cx[m], arg[m], FALSE)
      BY <3>2, DecodeReturns
    <3> QED
      BY <2>1, <3>1, <3>2 DEF SendPacket
  <2> QED
    BY <1>4, <2>1, <2>2 DEF Send, RestTyped, handleVars
<1>5. ASSUME NEW m \in MediaTypes, ReceiveMore(m) PROVE RestTyped'
  <2>1. PICK r \in ReceiveIteration(cx[m]) :
            IF r.ret = "OK" THEN UNCHANGED ret ELSE ret' = [ret EXCEPT ![m] = r.ret]
    BY <1>5 DEF ReceiveMore, Return
  <2>2. r.ret \in Errors \cup {"OK"}
    <3>1. PICK q \in DoDecode(cx[m], cx[m].pkt, TRUE) :
              r = IF q.ret = "OK" THEN q ELSE Result(q.ret, [q.cx EXCEPT !.pkt = <<>>])
      BY <2>1 DEF ReceiveIteration
    <3>2. q.ret \in Errors \cup {"OK"}
      BY <3>1, DecodeReturns
    <3> QED
      BY <3>1, <3>2 DEF Result
  <2> QED
    BY <1>5, <2>1, <2>2 DEF ReceiveMore, RestTyped, handleVars
<1>6. ASSUME NEW m \in MediaTypes, CopyOut(m) PROVE RestTyped'
  <2>1. cx[m].dim \in Nat
    BY DecoderAssumption DEF IInv, ContextsOwned, Contexts
  <2>2. written' \in Nat
    BY <1>6, <2>1, YuvBytesNat DEF CopyOut, RestTyped
  <2>3. out' \in [MediaTypes -> Seq(Frames)]
    <3>1. frame[FrameOf(m)] \in Frames
      BY OwnUnits DEF IInv, FramesOwned, Frames
    <3>2. Append(out[m], frame[FrameOf(m)]) \in Seq(Frames)
      BY <3>1, AppendProperties DEF RestTyped
    <3> QED
      BY <1>6, <3>2 DEF CopyOut, RestTyped
  <2> QED
    BY <1>6, <2>2, <2>3 DEF CopyOut, Return, RestTyped, handleVars
<1>7. CASE UNCHANGED vars
  BY <1>7 DEF vars, RestTyped
<1> QED
  BY <1>1, <1>2, <1>3, <1>4, <1>5, <1>6, <1>7 DEF Next, Step

\* Every variable keeps its type.
THEOREM TypeCorrect == Spec => []TypeOK
<1>1. Init => RestTyped
  BY EmptySeq DEF Init, RestTyped, Empty
<1>2. IInv /\ RestTyped /\ [Next]_vars => RestTyped'
  BY RestTypedPreserved
<1>3. IInv /\ RestTyped => TypeOK
  BY DEF IInv, RestTyped, TypeOK, ContextsOwned, CallsOwned, FramesOwned
<1> QED
  BY <1>1, <1>2, <1>3, Ownership, PTL DEF Spec

\* Of what a handle acquires, a release forgets two contexts at most.
LEMMA NotFreedAreContexts ==
    ASSUME NEW l \in SUBSET Resources
    PROVE  NotFreed(l) \in Nat /\ NotFreed(l) <= 2 /\ NotFreed({}) = 0
<1>1. ReleaseResources(l) \subseteq {"VDecoder", "ADecoder"} /\ ReleaseResources({}) = {}
  BY DEF Resources, Released, ReleaseResources
<1>2. IsFiniteSet({"VDecoder"}) /\ Cardinality({"VDecoder"}) = 1
  BY FS_Singleton
<1>3. /\ IsFiniteSet({"VDecoder"} \cup {"ADecoder"})
      /\ Cardinality({"VDecoder"} \cup {"ADecoder"}) \in {1, 2}
  BY <1>2, FS_AddElement
<1>4. {"VDecoder", "ADecoder"} = {"VDecoder"} \cup {"ADecoder"}
  OBVIOUS
<1>5. Cardinality(ReleaseResources(l)) <= Cardinality({"VDecoder", "ADecoder"})
  BY <1>1, <1>3, <1>4, FS_Subset
<1>6. Cardinality({}) = 0
  BY FS_EmptySet
<1>7. NotFreed(l) \in Nat
  BY NotFreedCounts
<1> QED
  BY <1>1, <1>3, <1>4, <1>5, <1>6, <1>7 DEF NotFreed

LeaksCounted ==
    /\ handle = "none" => live = {}
    /\ leaked + NotFreed(live) <= 2 * created

LEMMA LeaksCountedPreserved ==
    ASSUME RestTyped, LeaksCounted, [Next]_vars PROVE LeaksCounted'
<1>0. leaked \in Nat /\ created \in Nat /\ NotFreed(live) \in Nat /\ NotFreed({}) = 0
  BY NotFreedAreContexts DEF RestTyped
<1>1. CASE Create
  <2>1. PICK media \in SUBSET MediaTypes \ {{}} :
            \/ /\ handle' = "open"
               /\ live' = Acquired(media, Len(Acquisitions(media)))
               /\ UNCHANGED leaked
            \/ \E n \in 0 .. Len(Acquisitions(media)) - 1 :
                  /\ leaked' = leaked + NotFreed(Acquired(media, n))
                  /\ UNCHANGED <<handle, live>>
    BY <1>1 DEF Create
  <2>2. handle = "none" /\ live = {} /\ created' = created + 1 /\ leaked <= 2 * created
    BY <1>0, <1>1 DEF Create, LeaksCounted
  <2>3. Len(Acquisitions(media)) \in Nat
    BY DEF Acquisitions
  <2>4. \A n \in 0 .. Len(Acquisitions(media)) :
            /\ NotFreed(Acquired(media, n)) \in Nat /\ NotFreed(Acquired(media, n)) <= 2
    BY AcquiredResources, NotFreedAreContexts
  <2>5. CASE handle' = "open" /\ live' = Acquired(media, Len(Acquisitions(media)))
             /\ UNCHANGED leaked
    <3>1. NotFreed(live') \in Nat /\ NotFreed(live') <= 2
      BY <2>3, <2>4, <2>5
    <3> QED
      BY <1>0, <2>2, <2>5, <3>1 DEF LeaksCounted
  <2>6. ASSUME NEW n \in 0 .. Len(Acquisitions(media)) - 1,
               leaked' = leaked + NotFreed(Acquired(media, n)),
               UNCHANGED <<handle, live>>
        PROVE  LeaksCounted'
    <3>1. n \in 0 .. Len(Acquisitions(media))
      BY <2>3
    <3>2. NotFreed(Acquired(media, n)) \in Nat /\ NotFreed(Acquired(media, n)) <= 2
      BY <2>4, <3>1
    <3> QED
      BY <1>0, <2>2, <2>6, <3>2 DEF LeaksCounted
  <2> QED
    BY <2>1, <2>5, <2>6
<1>2. CASE Release
  BY <1>0, <1>2 DEF Release, LeaksCounted
<1>3. ASSUME NEW m \in MediaTypes, CallInvalid(m) \/ Call(m) \/ Step(m) PROVE LeaksCounted'
  BY <1>3 DEF CallInvalid, Call, Step, Send, ReceiveMore, ReceiveFrame, ReceiveNothing,
              CopyOut, handleVars, LeaksCounted
<1>4. CASE UNCHANGED vars
  BY <1>4 DEF vars, LeaksCounted
<1> QED
  BY <1>1, <1>2, <1>3, <1>4 DEF Next

\* Whatever fails while handles are created, each of them loses at most its own two
\* codec contexts.
THEOREM LeaksAreBounded == Spec => []LosesContextsOnly
<1>1. Init => RestTyped /\ LeaksCounted
  BY EmptySeq, NotFreedAreContexts DEF Init, RestTyped, Empty, LeaksCounted
<1>2. IInv /\ RestTyped /\ [Next]_vars => RestTyped'
  BY RestTypedPreserved
<1>3. RestTyped /\ LeaksCounted /\ [Next]_vars => LeaksCounted'
  BY LeaksCountedPreserved
<1>4. LeaksCounted => LosesContextsOnly
  BY DEF LeaksCounted, LosesContextsOnly
<1> QED
  BY <1>1, <1>2, <1>3, <1>4, Ownership, PTL DEF Spec
-----------------------------------------------------------------------------
(* The refinement of FifoChannel. *)

\* Induction, stated with a set: the provers can instantiate it, as they cannot a
\* theorem that takes an operator.
LEMMA SetInduction ==
    ASSUME NEW T, 0 \in T, \A n \in Nat : n \in T => n + 1 \in T
    PROVE  Nat \subseteq T
<1> SUFFICES ASSUME NEW x \in Nat \ T PROVE FALSE
  OBVIOUS
<1> DEFINE Up == {0 .. k : k \in Nat \ T}
<1>1. Up \subseteq FiniteSubsetsOf(Nat)
  <2>1. ASSUME NEW k \in Nat PROVE 0 .. k \in FiniteSubsetsOf(Nat)
    <3>1. 0 .. k \subseteq Nat /\ 0 \in Int /\ k \in Int
      OBVIOUS
    <3>2. IsFiniteSet(0 .. k)
      BY <3>1, FS_Interval
    <3> QED
      BY <3>1, <3>2 DEF FiniteSubsetsOf
  <2> QED
    BY <2>1
<1>2. PICK I \in Up : \A J \in Up : ~ (<<J, I>> \in StrictSubsetOrdering(Nat))
  <2>1. IsWellFoundedOn(StrictSubsetOrdering(Nat), FiniteSubsetsOf(Nat))
    BY FS_StrictSubsetOrderingWellFounded
  <2>2. Up # {}
    OBVIOUS
  <2> HIDE DEF Up
  <2> QED
    BY <1>1, <2>1, <2>2, WFMin
<1>3. PICK k \in Nat \ T : I = 0 .. k
  BY <1>2
<1>4. k # 0 /\ k - 1 \in Nat \ T
  OBVIOUS
<1>5. 0 .. k - 1 \in Up
  BY <1>4
<1>6. <<0 .. k - 1, 0 .. k>> \in StrictSubsetOrdering(Nat)
  <2>1. k \in 0 .. k /\ k \notin 0 .. k - 1 /\ 0 .. k - 1 \subseteq 0 .. k /\ 0 .. k \subseteq Nat
    BY <1>4
  <2> QED
    BY <2>1 DEF StrictSubsetOrdering
<1> QED
  BY <1>2, <1>3, <1>5, <1>6

\* The recursion of LastFrames has a solution.
LEMMA LastFramesDefined ==
    ASSUME NEW S, NEW s \in Seq(S)
    PROVE  /\ DOMAIN LastFrames(s) = 0 .. Len(s)
           /\ LastFrames(s)[0] = <<>>
           /\ \A k \in 1 .. Len(s) :
                 LastFrames(s)[k] = FrameIn(s[Len(s) + 1 - k]) \o LastFrames(s)[k - 1]
<1> DEFINE Value(f, k) == IF k = 0 THEN <<>> ELSE FrameIn(s[Len(s) + 1 - k]) \o f[k - 1]
           T == {n \in Nat : \E f : f = [k \in 0 .. n |-> Value(f, k)]}
<1>0. Len(s) \in Nat
  BY LenProperties
<1>1. 0 \in T
  <2> DEFINE f == [k \in 0 .. 0 |-> <<>>]
  <2>1. f = [k \in 0 .. 0 |-> Value(f, k)]
    OBVIOUS
  <2> QED
    BY <2>1
<1>2. ASSUME NEW n \in T, n \in Nat PROVE n + 1 \in T
  <2>1. PICK f : f = [k \in 0 .. n |-> Value(f, k)]
    OBVIOUS
  <2> DEFINE g == [k \in 0 .. n + 1 |-> IF k = n + 1 THEN Value(f, k) ELSE f[k]]
  <2>2. \A k \in 0 .. n + 1 : g[k] = Value(g, k)
    <3> SUFFICES ASSUME NEW k \in 0 .. n + 1 PROVE g[k] = Value(g, k)
      OBVIOUS
    <3>1. k # 0 => k - 1 \in 0 .. n /\ g[k - 1] = f[k - 1]
      OBVIOUS
    <3>2. g[k] = Value(f, k)
      BY <2>1
    <3> QED
      BY <3>1, <3>2
  <2>3. g = [k \in 0 .. n + 1 |-> Value(g, k)]
    BY <2>2
  <2> HIDE DEF g, Value
  <2>4. n + 1 \in Nat
    BY <1>2
  <2> QED
    BY <2>3, <2>4
<1>3. Len(s) \in T
  <2> HIDE DEF T
  <2> QED
    BY <1>0, <1>1, <1>2, SetInduction
<1>4. \E f : f = [k \in 0 .. Len(s) |-> Value(f, k)]
  BY <1>3
<1>5. LastFrames(s) = CHOOSE f : f = [k \in 0 .. Len(s) |-> Value(f, k)]
  BY DEF LastFrames
<1>6. LastFrames(s) = [k \in 0 .. Len(s) |-> Value(LastFrames(s), k)]
  <2> HIDE DEF Value
  <2> QED
    BY <1>4, <1>5
<1> HIDE DEF Value
<1>7. /\ DOMAIN LastFrames(s) = 0 .. Len(s)
      /\ \A k \in 0 .. Len(s) : LastFrames(s)[k] = Value(LastFrames(s), k)
  BY <1>6
<1> QED
  BY <1>0, <1>7 DEF Value

\* No element of a sequence occurs twice in it.
Distinct(s) == \A i, j \in 1 .. Len(s) : i # j => s[i] # s[j]

\* What LastFrames gives consists of units of the packet, in which no unit
\* occurs twice if none does in the packet.
LEMMA LastFramesAreUnits ==
    ASSUME NEW S, NEW s \in Seq(S), NEW k \in 0 .. Len(s)
    PROVE  /\ LastFrames(s)[k] \in Seq(S)
           /\ \A i \in 1 .. Len(LastFrames(s)[k]) :
                 \E j \in Len(s) + 1 - k .. Len(s) : LastFrames(s)[k][i] = s[j]
           /\ Distinct(s) => Distinct(LastFrames(s)[k])
<1> DEFINE L == LastFrames(s)
           Good(n) == /\ L[n] \in Seq(S)
                      /\ \A i \in 1 .. Len(L[n]) : \E j \in Len(s) + 1 - n .. Len(s) : L[n][i] = s[j]
                      /\ (\A i, j \in 1 .. Len(s) : i # j => s[i] # s[j])
                            => \A i, j \in 1 .. Len(L[n]) : i # j => L[n][i] # L[n][j]
           T == {n \in Nat : n <= Len(s) => Good(n)}
<1>0. /\ Len(s) \in Nat /\ L[0] = <<>>
      /\ \A n \in 1 .. Len(s) : L[n] = FrameIn(s[Len(s) + 1 - n]) \o L[n - 1]
  BY LenProperties, LastFramesDefined
<1> HIDE DEF L
<1>1. 0 \in T
  <2>1. L[0] \in Seq(S) /\ Len(L[0]) = 0
    BY <1>0, EmptySeq
  <2> QED
    BY <2>1
<1>2. ASSUME NEW n \in Nat, n \in T PROVE n + 1 \in T
  <2> HIDE DEF Good
  <2> SUFFICES ASSUME n + 1 <= Len(s) PROVE Good(n + 1)
    OBVIOUS
  <2>0. n <= Len(s)
    BY <1>0
  <2>1. Good(n)
    BY <1>2, <2>0
  <2> USE DEF Good
  <2> DEFINE u == s[Len(s) - n]
  <2>2. Len(s) - n \in 1 .. Len(s) /\ n + 1 \in 1 .. Len(s) /\ Len(s) + 1 - (n + 1) = Len(s) - n
        /\ (n + 1) - 1 = n
    BY <1>0
  <2>3. L[n + 1] = FrameIn(u) \o L[n]
    BY <1>0, <2>2
  <2>4. u \in S /\ <<u>> \in Seq(S) /\ Len(<<u>>) = 1 /\ <<u>>[1] = u
    BY <2>2, ElementOfSeq
  <2>5. Len(L[n]) \in Nat
    BY <2>1, LenProperties
  <2> HIDE DEF u
  <2>6. CASE FrameIn(u) = <<>>
    <3>1. L[n + 1] = L[n]
      BY <2>1, <2>3, <2>6, ConcatEmptySeq
    <3>2. \A j \in Len(s) + 1 - n .. Len(s) : j \in Len(s) + 1 - (n + 1) .. Len(s)
      BY <1>0
    <3> QED
      BY <2>1, <3>1, <3>2
  <2>7. CASE FrameIn(u) = <<u>>
    <3>1. /\ L[n + 1] \in Seq(S) /\ Len(L[n + 1]) = 1 + Len(L[n])
          /\ \A i \in 1 .. 1 + Len(L[n]) :
                L[n + 1][i] = IF i <= 1 THEN <<u>>[i] ELSE L[n][i - 1]
      BY <2>1, <2>3, <2>4, <2>7, ConcatProperties
    <3>2. \A i \in 1 .. Len(L[n + 1]) :
             L[n + 1][i] = IF i = 1 THEN u ELSE L[n][i - 1]
      BY <2>4, <2>5, <3>1
    <3>3. \A i \in 2 .. Len(L[n + 1]) : i - 1 \in 1 .. Len(L[n])
      BY <2>5, <3>1
    <3>4. \A i \in 1 .. Len(L[n + 1]) : i = 1 \/ i \in 2 .. Len(L[n + 1])
      BY <2>5, <3>1
    <3>5. ASSUME NEW i \in 1 .. Len(L[n + 1])
          PROVE  \E j \in Len(s) + 1 - (n + 1) .. Len(s) : L[n + 1][i] = s[j]
      <4>1. CASE i = 1
        BY <1>0, <2>2, <3>2, <4>1 DEF u
      <4>2. CASE i \in 2 .. Len(L[n + 1])
        <5>1. L[n + 1][i] = L[n][i - 1] /\ i - 1 \in 1 .. Len(L[n])
          BY <3>2, <3>3, <4>2
        <5>2. PICK j \in Len(s) + 1 - n .. Len(s) : L[n][i - 1] = s[j]
          BY <2>1, <5>1
        <5>3. j \in Len(s) + 1 - (n + 1) .. Len(s)
          BY <1>0
        <5> QED
          BY <5>1, <5>2, <5>3
      <4> QED
        BY <3>4, <4>1, <4>2
    <3>6. ASSUME \A i, j \in 1 .. Len(s) : i # j => s[i] # s[j]
          PROVE  \A i, j \in 1 .. Len(L[n + 1]) : i # j => L[n + 1][i] # L[n + 1][j]
      <4>1. \A i \in 1 .. Len(L[n]) : L[n][i] # u
        <5> SUFFICES ASSUME NEW i \in 1 .. Len(L[n]) PROVE L[n][i] # u
          OBVIOUS
        <5>1. PICK j \in Len(s) + 1 - n .. Len(s) : L[n][i] = s[j]
          BY <2>1
        <5>2. j \in 1 .. Len(s) /\ j # Len(s) - n
          BY <1>0, <2>2
        <5> QED
          BY <2>2, <3>6, <5>1, <5>2 DEF u
      <4>2. \A i, j \in 1 .. Len(L[n]) : i # j => L[n][i] # L[n][j]
        BY <2>1, <3>6
      <4> SUFFICES ASSUME NEW i \in 1 .. Len(L[n + 1]), NEW j \in 1 .. Len(L[n + 1]), i # j
                   PROVE  L[n + 1][i] # L[n + 1][j]
        OBVIOUS
      <4>3. CASE i = 1
        <5>1. j \in 2 .. Len(L[n + 1])
          BY <3>4, <4>3
        <5> QED
          BY <3>2, <3>3, <4>1, <4>3, <5>1
      <4>4. CASE j = 1
        <5>1. i \in 2 .. Len(L[n + 1])
          BY <3>4, <4>4
        <5> QED
          BY <3>2, <3>3, <4>1, <4>4, <5>1
      <4>5. CASE i # 1 /\ j # 1
        <5>1. i \in 2 .. Len(L[n + 1]) /\ j \in 2 .. Len(L[n + 1])
          BY <3>4, <4>5
        <5>2. i - 1 # j - 1
          BY <5>1
        <5>3. /\ i - 1 \in 1 .. Len(L[n]) /\ j - 1 \in 1 .. Len(L[n])
              /\ L[n + 1][i] = L[n][i - 1] /\ L[n + 1][j] = L[n][j - 1]
          BY <3>2, <3>3, <4>5, <5>1
        <5> QED
          BY <4>2, <5>2, <5>3
      <4> QED
        BY <4>3, <4>4, <4>5
    <3> QED
      BY <3>1, <3>5, <3>6
  <2> QED
    BY <2>6, <2>7 DEF FrameIn
<1>3. k \in T
  <2> HIDE DEF T
  <2> QED
    BY <1>0, <1>1, <1>2, SetInduction
<1>4. Good(k)
  BY <1>0, <1>3
<1> QED
  BY <1>4 DEF L, Distinct

LEMMA FramesAreUnits ==
    ASSUME NEW S, NEW s \in Seq(S)
    PROVE  /\ FramesOf(s) \in Seq(S)
           /\ \A i \in 1 .. Len(FramesOf(s)) : \E j \in 1 .. Len(s) : FramesOf(s)[i] = s[j]
           /\ Distinct(s) => Distinct(FramesOf(s))
<1> DEFINE k == Len(s)
<1>1. k \in 0 .. Len(s) /\ Len(s) + 1 - k .. Len(s) = 1 .. Len(s) /\ FramesOf(s) = LastFrames(s)[k]
  BY LenProperties DEF FramesOf
<1> HIDE DEF k
<1>2. /\ LastFrames(s)[k] \in Seq(S)
      /\ \A i \in 1 .. Len(LastFrames(s)[k]) :
            \E j \in Len(s) + 1 - k .. Len(s) : LastFrames(s)[k][i] = s[j]
      /\ Distinct(s) => Distinct(LastFrames(s)[k])
  BY <1>1, LastFramesAreUnits
<1> QED
  BY <1>1, <1>2

\* The frames of a packet are those of its first unit and those of the rest.
LEMMA FramesOfSplit ==
    ASSUME NEW S, NEW s \in Seq(S), s # <<>>
    PROVE  FramesOf(s) = FrameIn(Head(s)) \o FramesOf(Tail(s))
<1> DEFINE t == Tail(s)
           T == {n \in Nat : n <= Len(t) => LastFrames(s)[n] = LastFrames(t)[n]}
<1>1. /\ t \in Seq(S) /\ Len(t) = Len(s) - 1 /\ Len(s) \in Nat \ {0} /\ Len(t) \in Nat
      /\ \A i \in 1 .. Len(t) : t[i] = s[i + 1]
      /\ Head(s) = s[1]
  BY HeadTailProperties, EmptySeq, LenProperties
<1> HIDE DEF t
<1>2. /\ LastFrames(s)[0] = <<>> /\ LastFrames(t)[0] = <<>>
      /\ \A n \in 1 .. Len(s) :
            LastFrames(s)[n] = FrameIn(s[Len(s) + 1 - n]) \o LastFrames(s)[n - 1]
      /\ \A n \in 1 .. Len(t) :
            LastFrames(t)[n] = FrameIn(t[Len(t) + 1 - n]) \o LastFrames(t)[n - 1]
  BY <1>1, LastFramesDefined
<1>3. 0 \in T
  BY <1>2
<1>4. ASSUME NEW n \in Nat, n \in T PROVE n + 1 \in T
  <2> SUFFICES ASSUME n + 1 <= Len(t) PROVE LastFrames(s)[n + 1] = LastFrames(t)[n + 1]
    OBVIOUS
  <2>1. LastFrames(s)[n] = LastFrames(t)[n]
    BY <1>1, <1>4
  <2>2. /\ n + 1 \in 1 .. Len(s) /\ n + 1 \in 1 .. Len(t) /\ (n + 1) - 1 = n
        /\ Len(t) + 1 - (n + 1) \in 1 .. Len(t)
        /\ Len(s) + 1 - (n + 1) = (Len(t) + 1 - (n + 1)) + 1
    BY <1>1
  <2>3. s[Len(s) + 1 - (n + 1)] = t[Len(t) + 1 - (n + 1)]
    BY <1>1, <2>2
  <2> QED
    BY <1>2, <2>1, <2>2, <2>3
<1>5. Len(t) \in T
  <2> HIDE DEF T
  <2> QED
    BY <1>1, <1>3, <1>4, SetInduction
<1>6. Len(s) \in 1 .. Len(s) /\ Len(s) + 1 - Len(s) = 1
  BY <1>1
<1>7. LastFrames(s)[Len(s)] = FrameIn(s[1]) \o LastFrames(s)[Len(t)]
  BY <1>1, <1>2, <1>6
<1>8. LastFrames(s)[Len(t)] = LastFrames(t)[Len(t)]
  BY <1>1, <1>5
<1>9. FramesOf(s) = FrameIn(Head(s)) \o FramesOf(t)
  BY <1>1, <1>7, <1>8 DEF FramesOf
<1> QED
  BY <1>9 DEF t
LEMMA FramesTyped ==
    ASSUME NEW S, NEW s \in Seq(S), NEW u \in S
    PROVE  /\ FramesOf(s) \in Seq(S) /\ FramesOf(<<>>) = <<>>
           /\ FrameIn(u) \in Seq(S) /\ Len(FrameIn(u)) \in {0, 1}
           /\ FrameIn(u) = IF u.kind = "frame" THEN <<u>> ELSE <<>>
<1>2. FramesOf(s) \in Seq(S)
  BY FramesAreUnits
<1>3. <<>> \in Seq(S) /\ Len(<<>>) = 0
  BY EmptySeq
<1>4. FramesOf(<<>>) = <<>>
  BY <1>3, LastFramesDefined DEF FramesOf
<1>5. <<u>> \in Seq(S) /\ Len(<<u>>) = 1
  OBVIOUS
<1> QED
  BY <1>2, <1>3, <1>4, <1>5 DEF FrameIn

\* What a context holds, in parts.
LEMMA InsideParts ==
    ASSUME NEW m \in MediaTypes, NEW c \in ContextOf(m)
    PROVE  /\ c.held \in Seq(UnitsOf(m)) /\ FramesOf(c.pkt) \in Seq(UnitsOf(m))
           /\ c.pkt \in Seq(UnitsOf(m)) /\ c.frame \in UnitsOf(m) \cup {NoFrame}
           /\ c.held \o FramesOf(c.pkt) \in Seq(UnitsOf(m))
           /\ Inside(c) \in Seq(UnitsOf(m))
           /\ c.frame = NoFrame => Inside(c) = c.held \o FramesOf(c.pkt)
           /\ c.frame # NoFrame => Inside(c) = <<c.frame>> \o (c.held \o FramesOf(c.pkt))
<1>1. /\ c.held \in Seq(UnitsOf(m)) /\ c.pkt \in Seq(UnitsOf(m))
      /\ c.frame \in UnitsOf(m) \cup {NoFrame}
  BY DEF ContextOf, Contexts, UnitsOf
<1>2. FramesOf(c.pkt) \in Seq(UnitsOf(m))
  BY <1>1, FramesAreUnits
<1>3. c.held \o FramesOf(c.pkt) \in Seq(UnitsOf(m))
  BY <1>1, <1>2, ConcatProperties
<1>4. CASE c.frame = NoFrame
  <2>1. Inside(c) = (<<>> \o c.held) \o FramesOf(c.pkt)
    BY <1>4 DEF Inside, HasOutput
  <2>2. <<>> \o c.held = c.held
    BY <1>1, ConcatEmptySeq
  <2> QED
    BY <1>1, <1>2, <1>3, <1>4, <2>1, <2>2
<1>5. CASE c.frame # NoFrame
  <2>1. Inside(c) = (<<c.frame>> \o c.held) \o FramesOf(c.pkt)
    BY <1>5 DEF Inside, HasOutput
  <2>2. <<c.frame>> \in Seq(UnitsOf(m))
    BY <1>1, <1>5
  <2>3. Inside(c) = <<c.frame>> \o (c.held \o FramesOf(c.pkt))
    <3> DEFINE x == <<c.frame>>
               h == c.held
               f == FramesOf(c.pkt)
    <3>1. x \in Seq(UnitsOf(m)) /\ h \in Seq(UnitsOf(m)) /\ f \in Seq(UnitsOf(m))
      BY <1>1, <1>2, <2>2
    <3>2. Inside(c) = (x \o h) \o f
      BY <2>1
    <3> HIDE DEF x, h, f
    <3>3. Inside(c) = x \o (h \o f)
      BY <3>1, <3>2, ConcatAssociative
    <3> QED
      BY <3>3 DEF x, h, f
  <2>4. <<c.frame>> \o (c.held \o FramesOf(c.pkt)) \in Seq(UnitsOf(m))
    BY <1>3, <2>2, ConcatProperties
  <2> QED
    BY <1>1, <1>2, <1>3, <1>5, <2>3, <2>4
<1> QED
  BY <1>4, <1>5

\* A non-empty sequence is its head and its tail.
LEMMA HeadAndTail ==
    ASSUME NEW S, NEW s \in Seq(S), s # <<>>
    PROVE  s = <<Head(s)>> \o Tail(s)
<1>1. Len(s) \in Nat \ {0} /\ Head(s) = s[1]
  BY EmptySeq
<1>2. 1 \in 1 .. Len(s) /\ Len(s) \in 1 .. Len(s)
  BY <1>1
<1>3. SubSeq(s, 1, Len(s)) = <<s[1]>> \o SubSeq(s, 1 + 1, Len(s))
  BY <1>2, SubSeqRecursiveFirst
<1>4. 1 + 1 = 2
  OBVIOUS
<1>5. SubSeq(s, 1, Len(s)) = s /\ Tail(s) = SubSeq(s, 2, Len(s))
  BY SubSeqFull, TailIsSubSeq
<1> QED
  BY <1>1, <1>3, <1>4, <1>5

\* What a step leaves unread has the frames of the data, but for that of the unit
\* the step went through.
LEMMA FramesOfUnread ==
    ASSUME NEW S, NEW s \in Seq(S), s # <<>>
    PROVE  /\ Unread(s) \in Seq(S)
           /\ FramesOf(s) = FrameIn(Head(s)) \o FramesOf(Unread(s))
<1>1. Tail(s) \in Seq(S)
  BY HeadTailProperties
<1>2. CASE Head(s).kind = "stuck"
  <2>1. FrameIn(Head(s)) = <<>> /\ Unread(s) = s
    BY <1>2 DEF FrameIn, Unread
  <2>2. FramesOf(s) \in Seq(S)
    BY FramesAreUnits
  <2> QED
    BY <2>1, <2>2, ConcatEmptySeq
<1>3. CASE Head(s).kind # "stuck"
  BY <1>1, <1>3, FramesOfSplit DEF Unread
<1> QED
  BY <1>2, <1>3

\* A step of do_decode that does not fail puts the frame of its first unit, if it is
\* one, behind the frames held, and the frames of the units that are kept behind that.
LEMMA DoDecodePending ==
    ASSUME NEW m \in MediaTypes, NEW c \in ContextOf(m), c.type = m, c.frame = NoFrame,
           NEW rest \in Seq(UnitsOf(m)), rest # <<>>,
           NEW own \in BOOLEAN, NEW r \in DoDecode(c, rest, own)
    PROVE  \/ r = Result("INVALIDDATA", c)
           \/ /\ r.ret \in {"OK", "ENOMEM"}
              /\ r.cx.pkt \in {<<>>, Unread(rest)} /\ r.cx \in ContextOf(m)
              /\ Inside(r.cx) = (c.held \o FrameIn(Head(rest))) \o FramesOf(r.cx.pkt)
<1> DEFINE u == Head(rest)
           d == CodecStep(c, rest)
           e == [d EXCEPT !.pkt = <<>>]
           h == c.held \o FrameIn(u)
<1>1. u \in UnitsOf(m) /\ Tail(rest) \in Seq(UnitsOf(m)) /\ <<u>> \in Seq(UnitsOf(m))
  BY HeadTailProperties
<1>2. c.held \in Seq(UnitsOf(m))
  BY InsideParts
<1>3. CodecHeld(c, u) = h
  <2>1. CASE u.kind = "frame"
    BY <1>1, <1>2, <2>1, AppendIsConcat DEF CodecHeld, FrameIn
  <2>2. CASE u.kind # "frame"
    BY <1>2, <2>2, ConcatEmptySeq DEF CodecHeld, FrameIn
  <2> QED
    BY <2>1, <2>2
<1>4. h \in Seq(UnitsOf(m)) /\ (GotFrame(c, u) => h # <<>>)
  <2>1. FrameIn(u) \in Seq(UnitsOf(m))
    BY <1>1, EmptySeq DEF FrameIn
  <2>2. GotFrame(c, u) => Append(c.held, u) # <<>> /\ CodecHeld(c, u) = Append(c.held, u)
    BY <1>1, <1>2, AppendProperties DEF GotFrame, CodecHeld
  <2> QED
    BY <1>2, <1>3, <2>1, <2>2, ConcatProperties
<1>5. /\ d.frame = IF GotFrame(c, u) THEN Head(h) ELSE NoFrame
      /\ d.held = IF GotFrame(c, u) THEN Tail(h) ELSE h
      /\ d.pkt \in {<<>>, Unread(rest)}
  BY <1>3 DEF CodecStep, ContextOf, Contexts, Remainder
<1>6. /\ e.frame = d.frame /\ e.held = d.held /\ e.pkt = <<>>
  BY DEF CodecStep, ContextOf, Contexts
<1> HIDE DEF d, e, h
<1>7. r = Result("INVALIDDATA", c) \/ r = Result("OK", d) \/ r = Result("ENOMEM", e)
  <2>1. CASE Head(rest).kind = "bad"
    BY <2>1 DEF DoDecode
  <2>2. CASE Head(rest).kind # "bad"
    BY <2>2 DEF DoDecode, d, e
  <2> QED
    BY <2>1, <2>2
<1>8. r \in {Result("OK", d), Result("ENOMEM", e)} =>
        /\ r.cx.frame = d.frame /\ r.cx.held = d.held /\ r.cx.pkt \in {<<>>, Unread(rest)}
        /\ r.ret \in {"OK", "ENOMEM"}
  BY <1>5, <1>6 DEF Result
<1>9. ASSUME r \in {Result("OK", d), Result("ENOMEM", e)}, r.cx \in ContextOf(m)
      PROVE  Inside(r.cx) = h \o FramesOf(r.cx.pkt)
  <2>0. FramesOf(r.cx.pkt) \in Seq(UnitsOf(m))
    BY <1>9, InsideParts
  <2>1. CASE ~GotFrame(c, u)
    BY <1>5, <1>8, <1>9, <2>1, InsideParts
  <2>2. CASE GotFrame(c, u)
    <3>1. Head(h) \in UnitsOf(m) /\ Tail(h) \in Seq(UnitsOf(m)) /\ <<Head(h)>> \in Seq(UnitsOf(m))
      BY <1>4, <2>2, HeadTailProperties
    <3>2. Head(h) # NoFrame
      BY <3>1, OwnUnits
    <3>3. Inside(r.cx) = <<Head(h)>> \o (Tail(h) \o FramesOf(r.cx.pkt))
      BY <1>5, <1>8, <1>9, <2>2, <3>2, InsideParts
    <3>4. Inside(r.cx) = (<<Head(h)>> \o Tail(h)) \o FramesOf(r.cx.pkt)
      BY <2>0, <3>1, <3>3, ConcatAssociative
    <3> QED
      BY <1>4, <2>2, <3>4, HeadAndTail
  <2> QED
    BY <2>1, <2>2
<1>10. r.cx \in ContextOf(m)
  BY DoDecodeOwned
<1> QED
  BY <1>7, <1>8, <1>9, <1>10 DEF h

\* How a step moves the frames of a medium: those of the packet being sent join the
\* pending ones, the oldest is handed out, the youngest are dropped, the handle is
\* new, or nothing moves.
Joins(m) ==
    \E new \in Seq(UnitsOf(m)) :
        /\ pc[m] = "send" /\ pc'[m] # "send"
        /\ \A i \in 1 .. Len(new) : \E j \in 1 .. Len(arg[m]) : new[i] = arg[m][j]
        /\ Distinct(arg[m]) => Distinct(new)
        /\ Pending(m)' = Pending(m) \o new
        /\ out'[m] = out[m]

Leaves(m) ==
    /\ Pending(m) # <<>>
    /\ out'[m] = Append(out[m], Head(Pending(m)))
    /\ Pending(m)' = Tail(Pending(m))

Shrinks(m) ==
    /\ \E n \in 0 .. Len(Pending(m)) : Pending(m)' = SubSeq(Pending(m), 1, n)
    /\ out'[m] = out[m]

Starts(m) == Pending(m)' = <<>> /\ out'[m] = <<>>

Stays(m) == Pending(m)' = Pending(m) /\ out'[m] = out[m]

LEMMA ConcatSplits ==
    ASSUME NEW S, NEW s \in Seq(S), NEW t \in Seq(S), NEW v \in Seq(S)
    PROVE  /\ s \o t \in Seq(S) /\ t \o v \in Seq(S)
           /\ (s \o t) \o v = s \o (t \o v)
<1>1. s \o t \in Seq(S) /\ t \o v \in Seq(S)
  BY ConcatProperties
<1> QED
  BY <1>1, ConcatAssociative

\* The first part of a sequence is one of its prefixes.
LEMMA PrefixOfConcat ==
    ASSUME NEW S, NEW s \in Seq(S), NEW t \in Seq(S), NEW p, p = s \o t
    PROVE  \E n \in 0 .. Len(p) : s = SubSeq(p, 1, n)
<1>1. Len(s) \in Nat /\ Len(t) \in Nat /\ Len(p) = Len(s) + Len(t)
  BY LenProperties, ConcatProperties
<1>2. Len(s) \in 0 .. Len(p)
  BY <1>1
<1>3. SubSeq(p, 1, Len(s)) = s
  <2>1. CASE Len(s) = 0
    <3>1. s = <<>>
      BY <2>1, EmptySeq
    <3>2. SubSeq(p, 1, 0) = <<>>
      BY SubSeqEmpty
    <3> QED
      BY <2>1, <3>1, <3>2
  <2>2. CASE Len(s) > 0
    <3>1. 1 \in 1 .. Len(s) /\ Len(s) \in 1 .. Len(s)
      BY <1>1, <2>2
    <3>2. SubSeq(p, 1, Len(s)) = SubSeq(s, 1, Len(s))
      BY <3>1, SubSeqOfConcat1
    <3>3. SubSeq(s, 1, Len(s)) = s
      BY SubSeqFull
    <3> QED
      BY <3>2, <3>3
  <2> QED
    BY <1>1, <2>1, <2>2
<1> DEFINE n == Len(s)
<1>4. n \in 0 .. Len(p) /\ s = SubSeq(p, 1, n)
  BY <1>2, <1>3
<1> HIDE DEF n
<1> QED
  BY <1>4

\* What is pending for a medium whose call is not about to copy.
LEMMA PendingInside ==
    ASSUME IInv, NEW m \in MediaTypes
    PROVE  /\ cx[m] \in ContextOf(m) /\ cx[m].type = m
           /\ Pending(m) \in Seq(UnitsOf(m))
           /\ pc[m] # "copy" => Pending(m) = Inside(cx[m])
           /\ pc[m] = "copy" => Pending(m) = <<frame[FrameOf(m)]>> \o Inside(cx[m])
<1>1. cx[m] \in ContextOf(m) /\ cx[m].type = m
  BY DEF IInv, ContextsOwned
<1>2. Inside(cx[m]) \in Seq(UnitsOf(m))
  BY <1>1, InsideParts
<1>3. CASE pc[m] # "copy"
  <2>1. Pending(m) = <<>> \o Inside(cx[m])
    BY <1>3 DEF Pending
  <2> QED
    BY <1>1, <1>2, <1>3, <2>1, ConcatEmptySeq
<1>4. CASE pc[m] = "copy"
  <2> DEFINE f == <<frame[FrameOf(m)]>>
  <2>1. Pending(m) = f \o Inside(cx[m])
    BY <1>4 DEF Pending
  <2>2. f \in Seq(UnitsOf(m))
    BY <1>4 DEF IInv, FramesOwned
  <2> HIDE DEF f
  <2>3. f \o Inside(cx[m]) \in Seq(UnitsOf(m))
    BY <1>2, <2>2, ConcatProperties
  <2> QED
    BY <1>1, <1>4, <2>1, <2>3 DEF f
<1> QED
  BY <1>3, <1>4

\* One unit, or none.
LEMMA UnitAlone ==
    ASSUME NEW u, NEW s, s = <<u>> \/ s = <<>>
    PROVE  \A i \in 1 .. Len(s) : i = 1 /\ s[i] = u
<1>1. <<u>>[1] = u /\ Len(<<u>>) = 1 /\ Len(<<>>) = 0
  OBVIOUS
<1>2. CASE s = <<u>>
  BY <1>1, <1>2
<1>3. CASE s = <<>>
  BY <1>1, <1>3
<1> QED
  BY <1>2, <1>3

LEMMA SendMoves ==
    ASSUME IInv, IInv', NEW m \in MediaTypes, Send(m)
    PROVE  Joins(m) \/ Stays(m)
<1> DEFINE c == cx[m]
           rest == arg[m]
           u == Head(rest)
<1>1. PICK r \in SendPacket(c, rest) : cx' = [cx EXCEPT ![m] = r.cx]
  BY DEF Send
<1>2. /\ rest \in Seq(UnitsOf(m)) /\ rest # <<>> /\ c \in ContextOf(m) /\ c.type = m
      /\ pc[m] = "send" /\ pc'[m] \in {"receive", "idle"} /\ out' = out /\ cx'[m] = r.cx
  BY <1>1 DEF IInv, CallsOwned, ContextsOwned, Send, Return
<1>3. Pending(m) = Inside(c) /\ Pending(m)' = Inside(r.cx)
  <2>1. Pending(m) = Inside(c)
    BY <1>2, PendingInside
  <2>2. Inside(r.cx) \in Seq(UnitsOf(m))
    <3>1. r.cx \in ContextOf(m)
      BY <1>2 DEF IInv, ContextsOwned
    <3> QED
      BY <3>1, InsideParts
  <2>3. Pending(m)' = <<>> \o Inside(r.cx)
    BY <1>2 DEF Pending, Inside, HasOutput
  <2> QED
    BY <2>1, <2>2, <2>3, ConcatEmptySeq
<1> HIDE DEF c, rest
<1>4. CASE r.cx = c
  BY <1>2, <1>3, <1>4 DEF Stays
<1>5. CASE r.cx # c
  <2> DEFINE new == FrameIn(u) \o FramesOf(r.cx.pkt)
  <2>1. r \in DoDecode(c, rest, FALSE) /\ c.frame = NoFrame /\ c.pkt = <<>>
    <3>1. ~Refuses(c)
      <4>1. Result("EAGAIN", c).cx = c
        BY DEF Result
      <4> QED
        BY <1>1, <1>5, <4>1 DEF SendPacket
    <3> QED
      BY <1>1, <3>1 DEF SendPacket, Refuses
  <2>2. /\ r.cx.pkt \in {<<>>, Unread(rest)} /\ r.cx \in ContextOf(m)
        /\ Inside(r.cx) = (c.held \o FrameIn(u)) \o FramesOf(r.cx.pkt)
    <3> DEFINE own == FALSE
    <3>1. own \in BOOLEAN /\ r \in DoDecode(c, rest, own)
      BY <2>1
    <3>2. r # Result("INVALIDDATA", c)
      BY <1>5 DEF Result
    <3> HIDE DEF own
    <3> QED
      BY <1>2, <2>1, <3>1, <3>2, DoDecodePending
  <2>3. u \in UnitsOf(m) /\ Len(rest) \in Nat \ {0} /\ u = rest[1]
    BY <1>2, HeadTailProperties, EmptySeq
  <2> HIDE DEF u
  <2>4. /\ FrameIn(u) \in Seq(UnitsOf(m)) /\ FramesOf(<<>>) = <<>>
        /\ Len(FrameIn(u)) \in {0, 1} /\ (FrameIn(u) = <<u>> \/ FrameIn(u) = <<>>)
    BY <1>2, <2>3, FramesTyped
  <2>5. FramesOf(r.cx.pkt) \in Seq(UnitsOf(m)) /\ c.held \in Seq(UnitsOf(m))
    BY <1>2, <2>2, InsideParts
  <2>7. Inside(c) = c.held
    <3>1. Inside(c) = c.held \o FramesOf(c.pkt)
      BY <1>2, <2>1, InsideParts
    <3> QED
      BY <2>1, <2>4, <2>5, <3>1, ConcatEmptySeq
  <2>8. new \in Seq(UnitsOf(m)) /\ Inside(r.cx) = c.held \o new
    <3> DEFINE a == c.held
               b == FrameIn(u)
               f == FramesOf(r.cx.pkt)
    <3>1. a \in Seq(UnitsOf(m)) /\ b \in Seq(UnitsOf(m)) /\ f \in Seq(UnitsOf(m))
      BY <2>4, <2>5
    <3>2. Inside(r.cx) = (a \o b) \o f
      BY <2>2 DEF u
    <3> HIDE DEF a, b, f
    <3>3. b \o f \in Seq(UnitsOf(m)) /\ Inside(r.cx) = a \o (b \o f)
      BY <3>1, <3>2, ConcatSplits
    <3> QED
      BY <3>3 DEF a, b, f
  <2>6. /\ \A i \in 1 .. Len(new) : \E j \in 1 .. Len(rest) : new[i] = rest[j]
        /\ Distinct(rest) => Distinct(new)
    <3>1. CASE r.cx.pkt = Unread(rest)
      <4>1. new = FramesOf(rest)
        BY <1>2, <3>1, FramesOfUnread DEF u
      <4> HIDE DEF new
      <4> QED
        BY <1>2, <4>1, FramesAreUnits
    <3>2. CASE r.cx.pkt = <<>>
      <4>1. new = FrameIn(u)
        BY <2>4, <3>2, ConcatEmptySeq
      <4> HIDE DEF new
      <4>2. 1 \in 1 .. Len(rest)
        BY <2>3
      <4> DEFINE v == rest[1]
      <4>4. \A i \in 1 .. Len(new) : i = 1 /\ new[i] = v
        BY <2>3, <2>4, <4>1, UnitAlone
      <4>5. \A i \in 1 .. Len(new) : \E j \in 1 .. Len(rest) : new[i] = rest[j]
        BY <4>2, <4>4
      <4>6. Distinct(new)
        BY <4>4 DEF Distinct
      <4> QED
        BY <4>5, <4>6
    <3> QED
      BY <2>2, <3>1, <3>2
  <2> HIDE DEF new
  <2> QED
    BY <1>2, <1>3, <2>6, <2>7, <2>8 DEF Joins, rest
<1> QED
  BY <1>4, <1>5

LEMMA ReceiveMoreMoves ==
    ASSUME IInv, IInv', NEW m \in MediaTypes, ReceiveMore(m)
    PROVE  Shrinks(m) \/ Stays(m)
<1> DEFINE c == cx[m]
           rest == c.pkt
           u == Head(rest)
<1>1. PICK r \in ReceiveIteration(c) : cx' = [cx EXCEPT ![m] = r.cx]
  BY DEF ReceiveMore
<1>2. PICK q \in DoDecode(c, rest, TRUE) :
          r = IF q.ret = "OK" THEN q ELSE Result(q.ret, [q.cx EXCEPT !.pkt = <<>>])
  BY <1>1 DEF ReceiveIteration
<1>3. /\ c \in ContextOf(m) /\ c.type = m /\ pc[m] = "receive" /\ pc'[m] \in {"receive", "idle"}
      /\ out' = out /\ cx'[m] = r.cx /\ c.frame = NoFrame /\ rest # <<>>
      /\ rest \in Seq(UnitsOf(m)) /\ r.cx \in ContextOf(m)
  <2>1. c \in ContextOf(m) /\ c.type = m /\ cx'[m] = r.cx
    BY <1>1 DEF IInv, ContextsOwned
  <2>2. r.cx \in ContextOf(m)
    BY <2>1 DEF IInv, ContextsOwned
  <2>3. /\ pc[m] = "receive" /\ pc'[m] \in {"receive", "idle"} /\ out' = out
        /\ c.frame = NoFrame /\ rest # <<>>
    BY DEF ReceiveMore, MustDecodeMore, Return, IInv, CallsOwned
  <2>4. rest \in Seq(UnitsOf(m))
    BY <2>1, InsideParts
  <2> QED
    BY <2>1, <2>2, <2>3, <2>4
<1>4. Pending(m) = Inside(c) /\ Pending(m)' = Inside(r.cx)
  <2>1. Pending(m) = Inside(c)
    BY <1>3, PendingInside
  <2>2. Inside(r.cx) \in Seq(UnitsOf(m))
    BY <1>3, InsideParts
  <2>3. Pending(m)' = <<>> \o Inside(r.cx)
    BY <1>3 DEF Pending, Inside, HasOutput
  <2> QED
    BY <2>1, <2>2, <2>3, ConcatEmptySeq
<1> HIDE DEF c
<1>5. /\ c.held \in Seq(UnitsOf(m)) /\ FrameIn(u) \in Seq(UnitsOf(m))
      /\ FramesOf(Unread(rest)) \in Seq(UnitsOf(m)) /\ FramesOf(rest) \in Seq(UnitsOf(m))
      /\ FramesOf(<<>>) = <<>> /\ FramesOf(rest) = FrameIn(u) \o FramesOf(Unread(rest))
      /\ Inside(c) = c.held \o FramesOf(rest)
  <2> DEFINE s == rest
  <2>1. s \in Seq(UnitsOf(m)) /\ s # <<>>
    BY <1>3
  <2> HIDE DEF s
  <2>2. Head(s) \in UnitsOf(m) /\ Unread(s) \in Seq(UnitsOf(m))
    BY <2>1, HeadTailProperties, FramesOfUnread
  <2>3. /\ FrameIn(Head(s)) \in Seq(UnitsOf(m)) /\ FramesOf(<<>>) = <<>>
        /\ FramesOf(Unread(s)) \in Seq(UnitsOf(m)) /\ FramesOf(s) \in Seq(UnitsOf(m))
    BY <2>1, <2>2, FramesTyped
  <2>4. FramesOf(s) = FrameIn(Head(s)) \o FramesOf(Unread(s))
    BY <2>1, FramesOfUnread
  <2>5. c.held \in Seq(UnitsOf(m)) /\ Inside(c) = c.held \o FramesOf(c.pkt)
    BY <1>3, InsideParts
  <2> QED
    BY <2>3, <2>4, <2>5 DEF s
<1> HIDE DEF u
<1> DEFINE h == c.held \o FrameIn(u)
<1>6. h \in Seq(UnitsOf(m)) /\ Inside(c) = h \o FramesOf(Unread(rest))
  <2> DEFINE a == c.held
             b == FrameIn(u)
             f == FramesOf(Unread(rest))
  <2>1. a \in Seq(UnitsOf(m)) /\ b \in Seq(UnitsOf(m)) /\ f \in Seq(UnitsOf(m))
    BY <1>5
  <2>2. Inside(c) = a \o (b \o f)
    BY <1>5
  <2> HIDE DEF a, b, f
  <2>3. a \o b \in Seq(UnitsOf(m)) /\ Inside(c) = (a \o b) \o f
    BY <2>1, <2>2, ConcatSplits
  <2> QED
    BY <2>3 DEF a, b, f
<1>7. CASE q = Result("INVALIDDATA", c)
  <2>1. r.cx.held = c.held /\ r.cx.pkt = <<>> /\ r.cx.frame = NoFrame
    BY <1>2, <1>3, <1>7 DEF Result, ContextOf, Contexts
  <2>2. Inside(r.cx) = c.held
    <3>1. Inside(r.cx) = r.cx.held \o FramesOf(r.cx.pkt)
      BY <1>3, <2>1, InsideParts
    <3> QED
      BY <1>5, <2>1, <3>1, ConcatEmptySeq
  <2>3. \E n \in 0 .. Len(Inside(c)) : Inside(r.cx) = SubSeq(Inside(c), 1, n)
    <3> DEFINE p == Inside(c)
               a == c.held
               b == FramesOf(rest)
    <3>1. a \in Seq(UnitsOf(m)) /\ b \in Seq(UnitsOf(m)) /\ p = a \o b
      BY <1>5
    <3> HIDE DEF p, a, b
    <3>2. \E n \in 0 .. Len(p) : a = SubSeq(p, 1, n)
      BY <3>1, PrefixOfConcat
    <3> QED
      BY <2>2, <3>2 DEF p, a
  <2> QED
    BY <1>3, <1>4, <2>3 DEF Shrinks
<1>8. CASE q # Result("INVALIDDATA", c)
  <2>1. /\ q.ret \in {"OK", "ENOMEM"} /\ q.cx.pkt \in {<<>>, Unread(rest)}
        /\ q.cx \in ContextOf(m) /\ Inside(q.cx) = h \o FramesOf(q.cx.pkt)
    <3> DEFINE own == TRUE
               s == rest
    <3>1. own \in BOOLEAN /\ q \in DoDecode(c, s, own) /\ s \in Seq(UnitsOf(m)) /\ s # <<>>
      BY <1>2, <1>3
    <3> HIDE DEF own, s
    <3>2. /\ q.ret \in {"OK", "ENOMEM"} /\ q.cx.pkt \in {<<>>, Unread(s)}
          /\ q.cx \in ContextOf(m)
          /\ Inside(q.cx) = (c.held \o FrameIn(Head(s))) \o FramesOf(q.cx.pkt)
      BY <1>3, <1>8, <3>1, DoDecodePending
    <3> QED
      BY <3>2 DEF s, u
  <2>2. q.ret = "OK"
    BY <1>2, <1>8 DEF DoDecode, Result
  <2>3. r = q
    BY <1>2, <2>2
  <2> HIDE DEF h
  <2>4. CASE q.cx.pkt = Unread(rest)
    BY <1>3, <1>4, <1>6, <2>1, <2>3, <2>4 DEF Stays
  <2>5. CASE q.cx.pkt = <<>>
    <3>1. Inside(r.cx) = h
      BY <1>5, <1>6, <2>1, <2>3, <2>5, ConcatEmptySeq
    <3>2. \E n \in 0 .. Len(Inside(c)) : Inside(r.cx) = SubSeq(Inside(c), 1, n)
      <4> DEFINE p == Inside(c)
                 b == FramesOf(Unread(rest))
      <4>1. h \in Seq(UnitsOf(m)) /\ b \in Seq(UnitsOf(m)) /\ p = h \o b
        BY <1>5, <1>6
      <4> HIDE DEF p, b
      <4>2. \E n \in 0 .. Len(p) : h = SubSeq(p, 1, n)
        BY <4>1, PrefixOfConcat
      <4> QED
        BY <3>1, <4>2 DEF p
    <3> QED
      BY <1>3, <1>4, <3>2 DEF Shrinks
  <2> QED
    BY <2>1, <2>4, <2>5
<1> QED
  BY <1>7, <1>8

\* A sequence with one element before it.
LEMMA HeadAndTailOfConcat ==
    ASSUME NEW S, NEW x \in S, NEW s \in Seq(S), NEW p, p = <<x>> \o s
    PROVE  p \in Seq(S) /\ p # <<>> /\ Head(p) = x /\ Tail(p) = s
<1>1. <<x>> \in Seq(S) /\ Len(<<x>>) = 1 /\ <<x>>[1] = x
  OBVIOUS
<1>2. Len(s) \in Nat
  BY LenProperties
<1>3. /\ p \in Seq(S) /\ Len(p) = 1 + Len(s)
      /\ \A i \in 1 .. 1 + Len(s) : p[i] = IF i <= 1 THEN <<x>>[i] ELSE s[i - 1]
  BY <1>1, ConcatProperties
<1>4. Len(p) # 0 /\ p[1] = x
  BY <1>1, <1>2, <1>3
<1>5. p # <<>> /\ Head(p) = x
  BY <1>3, <1>4, EmptySeq
<1>6. /\ Tail(p) \in Seq(S) /\ Len(Tail(p)) = Len(s)
      /\ \A i \in 1 .. Len(Tail(p)) : Tail(p)[i] = p[i + 1]
  BY <1>2, <1>3, <1>5, HeadTailProperties
<1>7. \A i \in 1 .. Len(Tail(p)) : Tail(p)[i] = s[i]
  <2> SUFFICES ASSUME NEW i \in 1 .. Len(Tail(p)) PROVE Tail(p)[i] = s[i]
    OBVIOUS
  <2>1. i + 1 \in 1 .. 1 + Len(s) /\ ~(i + 1 <= 1) /\ (i + 1) - 1 = i
    BY <1>2, <1>6
  <2>2. p[i + 1] = s[(i + 1) - 1]
    BY <1>3, <2>1
  <2> QED
    BY <1>6, <2>1, <2>2
<1> QED
  BY <1>3, <1>5, <1>6, <1>7, SeqEqual

LEMMA ReceiveFrameMoves ==
    ASSUME IInv, IInv', NEW m \in MediaTypes, ReceiveFrame(m)
    PROVE  Stays(m)
<1> DEFINE c == cx[m]
           d == MoveOut(c)
<1>1. /\ c \in ContextOf(m) /\ c.frame # NoFrame /\ pc[m] = "receive" /\ pc'[m] = "copy"
      /\ out' = out /\ cx'[m] = d /\ frame'[FrameOf(m)] = c.frame
  BY DEF IInv, ContextsOwned, CallsOwned, FramesOwned, ReceiveFrame, HasOutput, FrameOf,
         FrameObjects
<1>2. d \in ContextOf(m)
  BY <1>1 DEF IInv, ContextsOwned
<1>3. d.frame = NoFrame /\ d.held = c.held /\ d.pkt = c.pkt
  BY <1>1 DEF MoveOut, ContextOf, Contexts
<1>4. Pending(m)' = <<c.frame>> \o Inside(d)
  BY <1>1 DEF Pending, Inside, HasOutput
<1> HIDE DEF c, d
<1>5. Inside(d) = c.held \o FramesOf(c.pkt)
  BY <1>2, <1>3, InsideParts
<1>6. Inside(c) = <<c.frame>> \o (c.held \o FramesOf(c.pkt))
  BY <1>1, InsideParts
<1>7. Pending(m) = Inside(c)
  BY <1>1, PendingInside DEF c
<1> QED
  BY <1>1, <1>4, <1>5, <1>6, <1>7 DEF Stays

LEMMA CopyOutMoves ==
    ASSUME IInv, RestTyped, NEW m \in MediaTypes, CopyOut(m)
    PROVE  Leaves(m)
<1> DEFINE x == frame[FrameOf(m)]
           q == Inside(cx[m])
           p == Pending(m)
<1>1. /\ pc[m] = "copy" /\ pc'[m] = "idle" /\ cx' = cx /\ out'[m] = Append(out[m], x)
      /\ x \in UnitsOf(m) /\ cx[m] \in ContextOf(m)
  BY DEF IInv, ContextsOwned, CallsOwned, FramesOwned, CopyOut, Return, RestTyped
<1>2. q \in Seq(UnitsOf(m))
  BY <1>1, InsideParts
<1>3. p = <<x>> \o q
  BY <1>1, PendingInside
<1>4. Pending(m)' = <<>> \o q
  BY <1>1 DEF Pending, Inside, HasOutput
<1> HIDE DEF x, q, p
<1>5. p # <<>> /\ Head(p) = x /\ Tail(p) = q
  BY <1>1, <1>2, <1>3, HeadAndTailOfConcat
<1>6. Pending(m)' = q
  BY <1>2, <1>4, ConcatEmptySeq
<1> QED
  BY <1>1, <1>5, <1>6 DEF Leaves, p

LEMMA NothingMoves ==
    ASSUME NEW m \in MediaTypes, cx'[m] = cx[m], out'[m] = out[m],
           pc'[m] = "copy" <=> pc[m] = "copy",
           pc[m] = "copy" => frame'[FrameOf(m)] = frame[FrameOf(m)]
    PROVE  Stays(m)
<1>1. Inside(cx[m])' = Inside(cx[m])
  BY DEF Inside, HasOutput
<1> QED
  BY <1>1 DEF Stays, Pending

LEMMA NothingPending ==
    ASSUME NEW m \in MediaTypes, pc'[m] # "copy", cx'[m].frame = NoFrame,
           cx'[m].held = <<>>, cx'[m].pkt = <<>>
    PROVE  Pending(m)' = <<>>
<1>1. FramesOf(<<>>) = <<>>
  BY FramesTyped, EmptySeq
<1>2. Pending(m)' = <<>> \o ((<<>> \o <<>>) \o FramesOf(<<>>))
  BY DEF Pending, Inside, HasOutput
<1> QED
  BY <1>1, <1>2, EmptySeq, ConcatEmptySeq

LEMMA StepMoves ==
    ASSUME IInv, IInv', RestTyped, [Next]_vars, NEW m \in MediaTypes
    PROVE  Joins(m) \/ Leaves(m) \/ Shrinks(m) \/ Starts(m) \/ Stays(m)
<1>1. CASE Create
  <2>1. pc'[m] # "copy" /\ out'[m] = <<>>
    BY <1>1 DEF Create, Empty, IInv, CallsOwned
  <2>2. cx'[m].frame = NoFrame /\ cx'[m].held = <<>> /\ cx'[m].pkt = <<>>
    BY <1>1 DEF Create, OpenContext
  <2> QED
    BY <2>1, <2>2, NothingPending DEF Starts
<1>2. CASE Release
  <2>1. pc'[m] # "copy" /\ out' = out
    BY <1>2 DEF Release
  <2>2. cx'[m].frame = NoFrame /\ cx'[m].held = <<>> /\ cx'[m].pkt = <<>>
    BY <1>2 DEF Release, Closed, OpenContext
  <2>3. Pending(m)' = <<>>
    BY <2>1, <2>2, NothingPending
  <2>4. Len(Pending(m)) \in Nat
    BY PendingInside, LenProperties
  <2>5. 0 \in 0 .. Len(Pending(m)) /\ SubSeq(Pending(m), 1, 0) = <<>>
    BY <2>4, SubSeqEmpty
  <2> QED
    BY <2>1, <2>3, <2>5 DEF Shrinks
<1>3. ASSUME NEW n \in MediaTypes, CallInvalid(n) \/ Call(n) \/ ReceiveNothing(n)
      PROVE  Stays(m)
  <2>1. cx' = cx /\ out' = out
    BY <1>3 DEF CallInvalid, Call, ReceiveNothing
  <2>2. pc'[m] = "copy" <=> pc[m] = "copy"
    BY <1>3 DEF CallInvalid, Call, ReceiveNothing, Return, IInv, CallsOwned
  <2>3. pc[m] = "copy" => frame'[FrameOf(m)] = frame[FrameOf(m)]
    BY <1>3 DEF CallInvalid, Call, ReceiveNothing, FrameOf, FrameObjects, MediaTypes,
                IInv, FramesOwned
  <2> QED
    BY <2>1, <2>2, <2>3, NothingMoves
<1>4. ASSUME NEW n \in MediaTypes, Step(n), n # m PROVE Stays(m)
  <2>1. cx'[m] = cx[m]
    BY <1>4 DEF Step, Send, ReceiveMore, ReceiveFrame, ReceiveNothing, CopyOut, IInv,
                ContextsOwned
  <2>2. out'[m] = out[m]
    BY <1>4 DEF Step, Send, ReceiveMore, ReceiveFrame, ReceiveNothing, CopyOut, RestTyped
  <2>3. pc'[m] = pc[m]
    BY <1>4 DEF Step, Send, ReceiveMore, ReceiveFrame, ReceiveNothing, CopyOut, Return,
                IInv, CallsOwned
  <2>4. frame'[FrameOf(m)] = frame[FrameOf(m)]
    BY <1>4 DEF Step, Send, ReceiveMore, ReceiveFrame, ReceiveNothing, CopyOut, IInv,
                FramesOwned, FrameOf, FrameObjects, MediaTypes
  <2> QED
    BY <2>1, <2>2, <2>3, <2>4, NothingMoves
<1>5. CASE Step(m)
  BY <1>3, <1>5, SendMoves, ReceiveMoreMoves, ReceiveFrameMoves, CopyOutMoves DEF Step
<1>6. CASE UNCHANGED vars
  BY <1>6, NothingMoves DEF vars
<1> QED
  BY <1>1, <1>2, <1>3, <1>4, <1>5, <1>6 DEF Next
-----------------------------------------------------------------------------
\* Packets are numbered in the order they are sent, and a frame keeps its packet's
\* number: a packet still to be sent is younger than every frame taken in before.
Low(s, n) == \A i \in 1 .. Len(s) : s[i].id[2] < n

NextNumber(m) == IF pc[m] = "send" THEN sent[m] ELSE sent[m] + 1

Numbered ==
    \A m \in MediaTypes :
        /\ out[m] \in Seq(UnitsOf(m))
        /\ pc[m] = "send" => \A i \in 1 .. Len(arg[m]) : arg[m][i].id = <<m, sent[m], i>>
        /\ Low(Pending(m), NextNumber(m))
        /\ Low(out[m], NextNumber(m))

\* Numbers only grow, except that a new handle starts again with nothing pending.
LEMMA SentGrows ==
    ASSUME IInv, IInv', Numbered, [Next]_vars, NEW m \in MediaTypes
    PROVE  \/ Starts(m) /\ pc'[m] # "send"
           \/ /\ NextNumber(m) <= NextNumber(m)'
              /\ pc[m] = "send" /\ pc'[m] # "send" => sent[m] < NextNumber(m)'
              /\ pc'[m] = "send" =>
                    \A i \in 1 .. Len(arg'[m]) : arg'[m][i].id = <<m, sent'[m], i>>
<1>0. sent[m] \in Nat
  BY DEF IInv, CallsOwned
<1>1. CASE Create
  <2>1. pc'[m] = "idle" /\ out'[m] = <<>>
    BY <1>1 DEF Create, Empty, IInv, CallsOwned
  <2>2. cx'[m].frame = NoFrame /\ cx'[m].held = <<>> /\ cx'[m].pkt = <<>>
    BY <1>1 DEF Create, OpenContext
  <2> QED
    BY <2>1, <2>2, NothingPending DEF Starts
<1>2. ASSUME sent'[m] = sent[m], arg'[m] = arg[m], pc'[m] = "send" => pc[m] = "send"
      PROVE  /\ NextNumber(m) <= NextNumber(m)'
             /\ pc[m] = "send" /\ pc'[m] # "send" => sent[m] < NextNumber(m)'
             /\ pc'[m] = "send" =>
                   \A i \in 1 .. Len(arg'[m]) : arg'[m][i].id = <<m, sent'[m], i>>
  BY <1>0, <1>2 DEF NextNumber, Numbered
<1>3. CASE Release
  BY <1>2, <1>3 DEF Release
<1>4. ASSUME NEW n \in MediaTypes, CallInvalid(n) \/ Step(n) \/ (Call(n) /\ n # m)
      PROVE  sent'[m] = sent[m] /\ arg'[m] = arg[m] /\ (pc'[m] = "send" => pc[m] = "send")
  <2> USE DEF IInv, CallsOwned
  <2>1. CASE CallInvalid(n)
    BY <2>1 DEF CallInvalid, Return
  <2>2. CASE Step(n)
    BY <2>2 DEF Step, Send, ReceiveMore, ReceiveFrame, ReceiveNothing, CopyOut, Return
  <2>3. CASE Call(n) /\ n # m
    BY <2>3 DEF Call
  <2> QED
    BY <1>4, <2>1, <2>2, <2>3
<1>5. CASE Call(m)
  <2>1. /\ pc[m] = "idle" /\ pc'[m] = "send" /\ sent'[m] = sent[m] + 1
        /\ \E shape \in Shapes[m] : shape # <<>> /\ arg'[m] = Number(m, sent[m] + 1, shape)
    BY <1>5 DEF Call, IInv, CallsOwned
  <2>2. PICK shape \in Shapes[m] : shape # <<>> /\ arg'[m] = Number(m, sent[m] + 1, shape)
    BY <2>1
  <2>3. \A i \in 1 .. Len(arg'[m]) : arg'[m][i].id = <<m, sent[m] + 1, i>>
    <3>1. Len(shape) \in Nat
      BY DecoderAssumption
    <3>2. Len(Number(m, sent[m] + 1, shape)) = Len(shape)
      BY <3>1 DEF Number
    <3> QED
      BY <2>2, <3>2 DEF Number
  <2>4. NextNumber(m) = sent[m] + 1 /\ NextNumber(m)' = sent[m] + 1
    BY <2>1 DEF NextNumber
  <2> QED
    BY <1>0, <2>1, <2>3, <2>4
<1>6. CASE UNCHANGED vars
  BY <1>2, <1>6 DEF vars
<1> QED
  BY <1>1, <1>2, <1>3, <1>4, <1>5, <1>6 DEF Next

LEMMA LowLater ==
    ASSUME NEW m \in MediaTypes, NEW s \in Seq(UnitsOf(m)), NEW n \in Nat, NEW k \in Nat,
           n <= k, Low(s, n)
    PROVE  Low(s, k)
<1>1. \A u \in UnitsOf(m) : u.id[2] \in Nat
  BY DEF UnitsOf, Units, IdsOf
<1>2. \A i \in 1 .. Len(s) : s[i] \in UnitsOf(m)
  BY ElementOfSeq
<1>3. \A i \in 1 .. Len(s) : s[i].id[2] \in Nat
  BY <1>1, <1>2
<1> QED
  BY <1>3 DEF Low

\* The elements of what becomes of a sequence are among those it had.
LEMMA PartsOf ==
    ASSUME NEW S, NEW s \in Seq(S)
    PROVE  /\ s # <<>> => /\ Head(s) \in S /\ Tail(s) \in Seq(S)
                          /\ \E j \in 1 .. Len(s) : Head(s) = s[j]
                          /\ \A i \in 1 .. Len(Tail(s)) :
                                \E j \in 1 .. Len(s) : Tail(s)[i] = s[j]
           /\ \A n \in 0 .. Len(s) :
                 /\ SubSeq(s, 1, n) \in Seq(S)
                 /\ \A i \in 1 .. Len(SubSeq(s, 1, n)) :
                       \E j \in 1 .. Len(s) : SubSeq(s, 1, n)[i] = s[j]
<1>0. Len(s) \in Nat
  BY LenProperties
<1>1. ASSUME s # <<>>
      PROVE  /\ Head(s) \in S /\ Tail(s) \in Seq(S)
             /\ \E j \in 1 .. Len(s) : Head(s) = s[j]
             /\ \A i \in 1 .. Len(Tail(s)) : \E j \in 1 .. Len(s) : Tail(s)[i] = s[j]
  <2>1. /\ Head(s) \in S /\ Tail(s) \in Seq(S) /\ Len(Tail(s)) = Len(s) - 1
        /\ \A i \in 1 .. Len(Tail(s)) : Tail(s)[i] = s[i + 1]
    BY <1>1, HeadTailProperties
  <2>2. Len(s) # 0 /\ Head(s) = s[1]
    BY <1>1, EmptySeq
  <2>3. \E j \in 1 .. Len(s) : Head(s) = s[j]
    BY <1>0, <2>2
  <2>4. ASSUME NEW i \in 1 .. Len(Tail(s)) PROVE \E j \in 1 .. Len(s) : Tail(s)[i] = s[j]
    <3>1. i + 1 \in 1 .. Len(s) /\ Tail(s)[i] = s[i + 1]
      BY <1>0, <2>1
    <3> QED
      BY <3>1
  <2> QED
    BY <2>1, <2>3, <2>4
<1>2. ASSUME NEW n \in 0 .. Len(s)
      PROVE  /\ SubSeq(s, 1, n) \in Seq(S)
             /\ \A i \in 1 .. Len(SubSeq(s, 1, n)) :
                   \E j \in 1 .. Len(s) : SubSeq(s, 1, n)[i] = s[j]
  <2>1. CASE n = 0
    <3>1. SubSeq(s, 1, 0) = <<>>
      BY SubSeqEmpty
    <3> QED
      BY <2>1, <3>1, EmptySeq
  <2>2. CASE n # 0
    <3>1. \A i \in 1 .. n : s[i] \in S
      BY <1>0, ElementOfSeq
    <3>2. /\ SubSeq(s, 1, n) \in Seq(S) /\ Len(SubSeq(s, 1, n)) = n
          /\ \A i \in 1 .. n : SubSeq(s, 1, n)[i] = s[i]
      BY <1>0, <2>2, <3>1, SubSeqProperties
    <3> QED
      BY <1>0, <2>2, <3>2
  <2> QED
    BY <2>1, <2>2
<1> QED
  BY <1>1, <1>2

LEMMA NumberedPreserved ==
    ASSUME IInv, IInv', RestTyped, Numbered, [Next]_vars
    PROVE  Numbered'
<1> SUFFICES ASSUME NEW m \in MediaTypes
             PROVE  /\ out'[m] \in Seq(UnitsOf(m))
                    /\ pc'[m] = "send" =>
                          \A i \in 1 .. Len(arg'[m]) : arg'[m][i].id = <<m, sent'[m], i>>
                    /\ Low(Pending(m)', NextNumber(m)')
                    /\ Low(out'[m], NextNumber(m)')
  BY DEF Numbered, Low
<1> DEFINE p == Pending(m)
           p1 == Pending(m)'
           o == out[m]
           o1 == out'[m]
           n == NextNumber(m)
           n1 == NextNumber(m)'
<1>1. /\ p \in Seq(UnitsOf(m)) /\ o \in Seq(UnitsOf(m)) /\ n \in Nat /\ n1 \in Nat
      /\ Low(p, n) /\ Low(o, n)
  <2>1. n \in Nat /\ n1 \in Nat
    BY DEF NextNumber, IInv, CallsOwned
  <2>2. p \in Seq(UnitsOf(m))
    BY PendingInside
  <2> QED
    BY <2>1, <2>2 DEF Numbered
<1>2. CASE Starts(m)
  <2>1. p1 = <<>> /\ o1 = <<>> /\ Len(<<>>) = 0 /\ o1 \in Seq(UnitsOf(m))
    BY <1>2, EmptySeq DEF Starts
  <2>2. pc'[m] = "send" =>
            \A i \in 1 .. Len(arg'[m]) : arg'[m][i].id = <<m, sent'[m], i>>
    BY SentGrows
  <2> HIDE DEF p1, o1, n1
  <2>3. Low(p1, n1) /\ Low(o1, n1)
    BY <2>1 DEF Low
  <2> QED
    BY <2>1, <2>2, <2>3 DEF p1, o1, n1
<1>3. CASE ~Starts(m)
  <2>1. /\ n <= n1
        /\ pc[m] = "send" /\ pc'[m] # "send" => sent[m] < n1
        /\ pc'[m] = "send" =>
              \A i \in 1 .. Len(arg'[m]) : arg'[m][i].id = <<m, sent'[m], i>>
    BY <1>3, SentGrows
  <2>2. Low(p, n1) /\ Low(o, n1)
    BY <1>1, <2>1, LowLater
  <2>3. o1 \in Seq(UnitsOf(m)) /\ Low(p1, n1) /\ Low(o1, n1)
    <3>1. CASE Stays(m)
      BY <1>1, <2>2, <3>1 DEF Stays
    <3>2. CASE Leaves(m)
      <4>1. p # <<>> /\ o1 = Append(o, Head(p)) /\ p1 = Tail(p)
        BY <3>2 DEF Leaves
      <4> HIDE DEF p, p1, o, o1, n1
      <4>2. /\ Head(p) \in UnitsOf(m) /\ Head(p).id[2] < n1
            /\ \A i \in 1 .. Len(p1) : p1[i].id[2] < n1
        BY <1>1, <2>2, <4>1, PartsOf DEF Low
      <4>3. /\ o1 \in Seq(UnitsOf(m)) /\ Len(o) \in Nat /\ Len(o1) = Len(o) + 1
            /\ \A i \in 1 .. Len(o) : o1[i] = o[i]
            /\ o1[Len(o) + 1] = Head(p)
        BY <1>1, <4>1, <4>2, AppendProperties, LenProperties
      <4>4. \A i \in 1 .. Len(o1) : o1[i].id[2] < n1
        BY <2>2, <4>2, <4>3 DEF Low
      <4> QED
        BY <4>2, <4>3, <4>4 DEF Low
    <3>3. CASE Shrinks(m)
      <4>1. o1 = o /\ \E k \in 0 .. Len(p) : p1 = SubSeq(p, 1, k)
        BY <3>3 DEF Shrinks
      <4> HIDE DEF p, p1, o, o1, n1
      <4>2. \A i \in 1 .. Len(p1) : p1[i].id[2] < n1
        BY <1>1, <2>2, <4>1, PartsOf DEF Low
      <4> QED
        BY <1>1, <2>2, <4>1, <4>2 DEF Low
    <3>4. CASE Joins(m)
      <4> DEFINE a == arg[m]
      <4>1. PICK new \in Seq(UnitsOf(m)) :
                /\ pc[m] = "send" /\ pc'[m] # "send"
                /\ \A i \in 1 .. Len(new) : \E j \in 1 .. Len(a) : new[i] = a[j]
                /\ p1 = p \o new /\ o1 = o
        BY <3>4 DEF Joins
      <4>2. \A j \in 1 .. Len(a) : a[j].id[2] = sent[m]
        BY <4>1 DEF Numbered
      <4>3. sent[m] < n1
        BY <2>1, <4>1
      <4> HIDE DEF p, p1, o, o1, n1, a
      <4>4. \A i \in 1 .. Len(new) : new[i].id[2] < n1
        BY <4>1, <4>2, <4>3
      <4>5. /\ Len(p) \in Nat /\ Len(new) \in Nat /\ Len(p1) = Len(p) + Len(new)
            /\ \A i \in 1 .. Len(p) + Len(new) :
                  p1[i] = IF i <= Len(p) THEN p[i] ELSE new[i - Len(p)]
        BY <1>1, <4>1, ConcatProperties, LenProperties
      <4>6. ASSUME NEW i \in 1 .. Len(p1) PROVE p1[i].id[2] < n1
        <5>1. CASE i <= Len(p)
          <6>1. i \in 1 .. Len(p) /\ p1[i] = p[i]
            BY <4>5, <5>1
          <6> QED
            BY <2>2, <6>1 DEF Low
        <5>2. CASE ~(i <= Len(p))
          <6>1. i - Len(p) \in 1 .. Len(new) /\ p1[i] = new[i - Len(p)]
            BY <4>5, <5>2
          <6> QED
            BY <4>4, <6>1
        <5> QED
          BY <5>1, <5>2
      <4> QED
        BY <1>1, <2>2, <4>1, <4>6 DEF Low
    <3> QED
      BY <1>3, <3>1, <3>2, <3>3, <3>4, StepMoves
  <2> QED
    BY <2>1, <2>3
<1> QED
  BY <1>2, <1>3

\* The channel's steps, for one medium.
Accepted(p, p1, o) ==
    /\ Len(p1) > Len(p)
    /\ SubSeq(p1, 1, Len(p)) = p
    /\ \A i \in Len(p) + 1 .. Len(p1) : /\ \A j \in 1 .. i - 1 : p1[j] # p1[i]
                                        /\ \A j \in 1 .. Len(o) : o[j] # p1[i]

Channel(m, pending, pending1, out1) ==
    \/ Accepted(pending, pending1, out[m]) /\ out1 = out[m]
    \/ /\ pending # <<>>
       /\ out1 = Append(out[m], Head(pending))
       /\ pending1 = Tail(pending)
    \/ /\ \E n \in 0 .. Len(pending) : pending1 = SubSeq(pending, 1, n)
       /\ out1 = out[m]
    \/ pending1 = <<>> /\ out1 = <<>>
    \/ pending1 = pending /\ out1 = out[m]

\* Elements that are new, and differ from each other, may join.
Fresh(new, p, o) ==
    \A i \in 1 .. Len(new) : /\ \A j \in 1 .. Len(p) : p[j] # new[i]
                             /\ \A j \in 1 .. Len(o) : o[j] # new[i]

LEMMA JoinIsAccept ==
    ASSUME NEW S, NEW p \in Seq(S), NEW new \in Seq(S), new # <<>>, NEW p1, p1 = p \o new,
           NEW o, Distinct(new), Fresh(new, p, o)
    PROVE  Accepted(p, p1, o)
<1>1. /\ Len(p) \in Nat /\ Len(new) \in Nat /\ Len(p1) = Len(p) + Len(new)
      /\ \A i \in 1 .. Len(p) + Len(new) :
            p1[i] = IF i <= Len(p) THEN p[i] ELSE new[i - Len(p)]
  BY ConcatProperties, LenProperties
<1>2. Len(new) # 0
  BY EmptySeq
<1>3. SubSeq(p1, 1, Len(p)) = p
  <2>1. CASE Len(p) = 0
    <3>1. p = <<>> /\ SubSeq(p1, 1, 0) = <<>>
      BY <2>1, EmptySeq, SubSeqEmpty
    <3> QED
      BY <2>1, <3>1
  <2>2. CASE Len(p) > 0
    <3>1. 1 \in 1 .. Len(p) /\ Len(p) \in 1 .. Len(p)
      BY <1>1, <2>2
    <3>2. SubSeq(p1, 1, Len(p)) = SubSeq(p, 1, Len(p))
      BY <3>1, SubSeqOfConcat1
    <3> QED
      BY <3>2, SubSeqFull
  <2> QED
    BY <1>1, <2>1, <2>2
<1>4. ASSUME NEW i \in Len(p) + 1 .. Len(p1)
      PROVE  /\ \A j \in 1 .. i - 1 : p1[j] # p1[i]
             /\ \A j \in 1 .. Len(o) : o[j] # p1[i]
  <2> DEFINE k == i - Len(p)
  <2>1. k \in 1 .. Len(new) /\ p1[i] = new[k] /\ i = k + Len(p) /\ i \in Nat
    BY <1>1
  <2> HIDE DEF k
  <2>2. ASSUME NEW j \in 1 .. i - 1 PROVE p1[j] # p1[i]
    <3>1. CASE j <= Len(p)
      <4>1. j \in 1 .. Len(p) /\ p1[j] = p[j]
        BY <1>1, <2>1, <3>1
      <4> QED
        BY <2>1, <4>1 DEF Fresh
    <3>2. CASE ~(j <= Len(p))
      <4> DEFINE h == j - Len(p)
      <4>1. h \in 1 .. Len(new) /\ p1[j] = new[h] /\ h # k
        BY <1>1, <2>1, <3>2
      <4> HIDE DEF h
      <4> QED
        BY <2>1, <4>1 DEF Distinct
    <3> QED
      BY <3>1, <3>2
  <2>3. \A j \in 1 .. Len(o) : o[j] # p1[i]
    BY <2>1 DEF Fresh
  <2> QED
    BY <2>2, <2>3
<1> QED
  BY <1>1, <1>2, <1>3, <1>4 DEF Accepted

LEMMA JoinsIsChannel ==
    ASSUME IInv, Numbered, NEW m \in MediaTypes, Joins(m)
    PROVE  Channel(m, Pending(m), Pending(m)', out'[m])
<1> DEFINE p == Pending(m)
           p1 == Pending(m)'
           o == out[m]
           a == arg[m]
<1>1. PICK new \in Seq(UnitsOf(m)) :
          /\ pc[m] = "send"
          /\ \A i \in 1 .. Len(new) : \E j \in 1 .. Len(a) : new[i] = a[j]
          /\ Distinct(a) => Distinct(new)
          /\ p1 = p \o new /\ out'[m] = o
  BY DEF Joins
<1>2. p \in Seq(UnitsOf(m))
  BY PendingInside
<1>3. CASE new = <<>>
  <2>1. p1 = p
    <3> HIDE DEF p, p1
    <3> QED
      BY <1>1, <1>2, <1>3, ConcatEmptySeq
  <2> QED
    BY <1>1, <2>1 DEF Channel
<1>4. CASE new # <<>>
  <2> DEFINE n == sent[m]
  <2>0. \A j \in 1 .. Len(a) : a[j].id = <<m, n, j>>
    BY <1>1 DEF Numbered
  <2>1. \A j \in 1 .. Len(a) : a[j].id[2] = n /\ a[j].id[3] = j
    <3> HIDE DEF a, n
    <3> QED
      BY <2>0
  <2>2. Distinct(new)
    <3> HIDE DEF a, n
    <3>1. Distinct(a)
      BY <2>1 DEF Distinct
    <3> QED
      BY <1>1, <3>1
  <2>3. \A i \in 1 .. Len(new) : new[i].id[2] = n
    <3> HIDE DEF a, n
    <3> QED
      BY <1>1, <2>1
  <2>4. NextNumber(m) = n /\ n \in Nat
    BY <1>1 DEF NextNumber, IInv, CallsOwned
  <2>5. Low(p, n) /\ Low(o, n)
    BY <2>4 DEF Numbered
  <2>6. Fresh(new, p, o)
    <3>1. n \in Nat /\ Low(p, n) /\ Low(o, n) /\ \A i \in 1 .. Len(new) : new[i].id[2] = n
      BY <2>3, <2>4, <2>5
    <3> HIDE DEF n, p, o
    <3>2. \A x \in Nat : ~(x < x)
      OBVIOUS
    <3>3. ASSUME NEW i \in 1 .. Len(new), NEW j \in 1 .. Len(p) PROVE p[j] # new[i]
      <4>1. p[j].id[2] < n /\ new[i].id[2] = n
        BY <3>1 DEF Low
      <4> QED
        BY <3>1, <3>2, <4>1
    <3>4. ASSUME NEW i \in 1 .. Len(new), NEW j \in 1 .. Len(o) PROVE o[j] # new[i]
      <4>1. o[j].id[2] < n /\ new[i].id[2] = n
        BY <3>1 DEF Low
      <4> QED
        BY <3>1, <3>2, <4>1
    <3> QED
      BY <3>3, <3>4 DEF Fresh
  <2>7. Accepted(p, p1, o)
    <3> DEFINE S == UnitsOf(m)
    <3>1. p \in Seq(S) /\ new \in Seq(S) /\ p1 = p \o new
      BY <1>1, <1>2
    <3> HIDE DEF p, p1, o, a, n, S
    <3> QED
      BY <1>4, <2>2, <2>6, <3>1, JoinIsAccept
  <2> QED
    BY <1>1, <2>7 DEF Channel
<1> QED
  BY <1>3, <1>4

LEMMA StepIsChannel ==
    ASSUME IInv, IInv', RestTyped, Numbered, [Next]_vars, NEW m \in MediaTypes
    PROVE  Channel(m, Pending(m), Pending(m)', out'[m])
<1>1. CASE Joins(m)
  BY <1>1, JoinsIsChannel
<1>2. CASE Leaves(m)
  BY <1>2 DEF Leaves, Channel
<1>3. CASE Shrinks(m)
  BY <1>3 DEF Shrinks, Channel
<1>4. CASE Starts(m)
  BY <1>4 DEF Starts, Channel
<1>5. CASE Stays(m)
  BY <1>5 DEF Stays, Channel
<1> QED
  BY <1>1, <1>2, <1>3, <1>4, <1>5, StepMoves

\* Each medium's calls hand out its frames in decoding order, each at most once and
\* none of the other medium's, whatever each packet holds, however the codec
\* reorders, and whichever packets fail, are refused or are dropped half-way.
THEOREM Refinement == Spec => MediaInOrder
<1>1. Init => RestTyped /\ Numbered /\ Video!Init /\ Audio!Init
  <2> SUFFICES ASSUME Init PROVE RestTyped /\ Numbered /\ Video!Init /\ Audio!Init
    OBVIOUS
  <2>1. RestTyped
    BY EmptySeq DEF Init, RestTyped, Empty
  <2>2. \A m \in MediaTypes :
            /\ cx[m].held = <<>> /\ cx[m].frame = NoFrame /\ cx[m].pkt = <<>>
            /\ out[m] = <<>> /\ pc[m] = "idle"
    BY DEF Init, Closed, OpenContext, Empty
  <2>3. \A m \in MediaTypes : Pending(m) = <<>>
    <3>1. FramesOf(<<>>) = <<>>
      BY FramesTyped, EmptySeq
    <3>2. \A m \in MediaTypes : Pending(m) = <<>> \o ((<<>> \o <<>>) \o FramesOf(<<>>))
      BY <2>2 DEF Pending, Inside, HasOutput
    <3> QED
      BY <3>1, <3>2, EmptySeq, ConcatEmptySeq
  <2>4. \A m \in MediaTypes : out[m] \in Seq(UnitsOf(m)) /\ Len(<<>>) = 0
    BY <2>2, EmptySeq
  <2>5. Numbered
    BY <2>2, <2>3, <2>4 DEF Numbered, Low
  <2>6. "video" \in MediaTypes /\ "audio" \in MediaTypes
    BY DEF MediaTypes
  <2> QED
    BY <2>1, <2>2, <2>3, <2>5, <2>6 DEF Video!Init, Audio!Init
<1>2. IInv /\ IInv' /\ RestTyped /\ Numbered /\ [Next]_vars => RestTyped' /\ Numbered'
  BY RestTypedPreserved, NumberedPreserved
<1>3. IInv /\ IInv' /\ RestTyped /\ Numbered /\ [Next]_vars =>
        [Video!Next]_Video!vars /\ [Audio!Next]_Audio!vars
  <2> SUFFICES ASSUME IInv, IInv', RestTyped, Numbered, [Next]_vars
               PROVE  [Video!Next]_Video!vars /\ [Audio!Next]_Audio!vars
    OBVIOUS
  <2>1. Channel("video", Pending("video"), Pending("video")', out'["video"])
    BY StepIsChannel DEF MediaTypes
  <2>2. Channel("audio", Pending("audio"), Pending("audio")', out'["audio"])
    BY StepIsChannel DEF MediaTypes
  <2>3. [Video!Next]_Video!vars
    BY <2>1 DEF Channel, Accepted, Video!Next, Video!vars, Video!Accept, Video!Deliver, Video!Drop,
                Video!Reset
  <2>4. [Audio!Next]_Audio!vars
    BY <2>2 DEF Channel, Accepted, Audio!Next, Audio!vars, Audio!Accept, Audio!Deliver, Audio!Drop,
                Audio!Reset
  <2> QED
    BY <2>3, <2>4
<1> QED
  BY <1>1, <1>2, <1>3, Ownership, PTL DEF Spec, MediaInOrder, Video!Spec, Audio!Spec
=============================================================================
