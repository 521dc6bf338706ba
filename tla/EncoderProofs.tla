--------------------------- MODULE EncoderProofs ----------------------------
(***************************************************************************)
(* Proofs about Encoder, for every codec delay, every number of B-frames   *)
(* and every number of inputs and handles.                                 *)
(***************************************************************************)
EXTENDS Encoder, SequenceTheorems, FiniteSetTheorems, TLAPS

\* A context holds a packet only between the send and the receive of one call,
\* and a call's own packet exists only between its receive and its copy.
Typed ==
    /\ handle \in {"none", "open"}
    /\ cx \in [MediaTypes -> Contexts]
    /\ frame \in [FrameObjects -> Slot]
    /\ packet \in [MediaTypes -> Slot]
    /\ pc \in [MediaTypes -> {"idle", "send", "receive", "copy"}]
    /\ arg \in [MediaTypes -> Slot]
    /\ sent \in [MediaTypes -> Nat]
    /\ failed \in [MediaTypes -> Nat]
    /\ out \in [MediaTypes -> Seq(Inputs)]

PacketsInPlace ==
    \A m \in MediaTypes :
        /\ cx[m].valid => pc[m] = "receive" /\ cx[m].pkt # NoInput
        /\ packet[m] # NoInput => pc[m] = "copy"

InputsInPlace ==
    \A m \in MediaTypes : pc[m] = "send" =>
        arg[m] \in Inputs /\ frame[FrameOf(m)] = arg[m]

IdleWithoutHandle == handle = "none" => \A m \in MediaTypes : pc[m] = "idle"

\* LossesAreReported for one medium.
Counted(m) == sent[m] = Unsent(m) + failed[m] + Carried(m) + Len(out[m])

CInv ==
    /\ Typed /\ PacketsInPlace /\ InputsInPlace /\ IdleWithoutHandle
    /\ handle = "open" => \A m \in MediaTypes : Counted(m)
-----------------------------------------------------------------------------
(* What do_encode leaves in a context. *)

\* Taking one input out of a queue.
LEMMA WithoutTyped ==
    ASSUME NEW q \in Seq(Inputs), NEW k \in 1 .. Len(q)
    PROVE  /\ Without(q, k) \in Seq(Inputs) /\ Len(Without(q, k)) = Len(q) - 1
           /\ \A i \in 1 .. Len(q) - 1 :
                 Without(q, k)[i] = q[IF i < k THEN i ELSE i + 1]
<1>1. Len(q) \in Nat /\ Len(q) >= 1 /\ k \in Nat /\ Len(q) - 1 \in Nat
  BY LenProperties
<1>2. \A i \in 1 .. Len(q) - 1 : q[IF i < k THEN i ELSE i + 1] \in Inputs
  <2> SUFFICES ASSUME NEW i \in 1 .. Len(q) - 1
               PROVE  q[IF i < k THEN i ELSE i + 1] \in Inputs
    OBVIOUS
  <2>1. (IF i < k THEN i ELSE i + 1) \in 1 .. Len(q)
    BY <1>1
  <2> QED
    BY <2>1, ElementOfSeq
<1>3. Without(q, k) = [i \in 1 .. Len(q) - 1 |-> q[IF i < k THEN i ELSE i + 1]]
  BY DEF Without
<1> HIDE DEF Without
<1>4. Without(q, k) \in [1 .. Len(q) - 1 -> Inputs]
  BY <1>2, <1>3
<1>5. Without(q, k) \in Seq(Inputs)
  BY <1>1, <1>4, SeqDef
<1>6. DOMAIN Without(q, k) = 1 .. Len(q) - 1
  BY <1>3
<1> QED
  BY <1>1, <1>3, <1>5, <1>6, LenProperties

\* The outcomes of do_encode, one by one.
LEMMA DoEncodeCases ==
    ASSUME NEW c \in Contexts, NEW input \in Inputs, NEW r \in DoEncode(c, input)
    PROVE  \/ r = Rejected(c)
           \/ r = Queued(c, Append(c.held, input))
           \/ \E k \in Codable(c, Append(c.held, input)) :
                 \/ r = Result("OK", Coded(c, Append(c.held, input), k))
                 \/ r = Result("ERROR", Lost(c, Append(c.held, input), k))
  BY DEF DoEncode, Outcomes

LEMMA DoEncodeCounted ==
    ASSUME NEW c \in Contexts, ~c.valid, NEW input \in Inputs, NEW r \in DoEncode(c, input)
    PROVE  /\ r.cx \in Contexts /\ r.ret \in {"OK", "ERROR"}
           /\ r.cx.valid => r.cx.pkt # NoInput
           /\ r.cx.delay = c.delay /\ r.cx.bframes = c.bframes
           /\ c.behind <= c.bframes => r.cx.behind <= c.bframes
           /\ Holds(c) = Len(c.held) /\ Holds(c) \in Nat
           /\ r.ret = "OK" => Holds(r.cx) = Holds(c) + 1
           /\ r.ret # "OK" => ~r.cx.valid /\ Holds(r.cx) = Holds(c)
<1> DEFINE q == Append(c.held, input)
<1>1. /\ c.held \in Seq(Inputs) /\ Len(c.held) \in Nat /\ c.valid = FALSE
      /\ c.behind \in Nat /\ c.bframes \in Nat /\ c.delay \in Nat
  BY LenProperties DEF Contexts
<1>2. q \in Seq(Inputs) /\ Len(q) = Len(c.held) + 1
  BY <1>1, AppendProperties
<1>3. NoInput \notin Inputs
  BY EncoderAssumption
<1>4. Holds(c) = Len(c.held)
  BY <1>1 DEF Holds
<1> HIDE DEF q
<1>5. CASE r = Rejected(c)
  <2> DEFINE d == [c EXCEPT !.pkt = NoInput, !.valid = FALSE]
  <2>1. /\ d \in Contexts /\ d.valid = FALSE /\ d.held = c.held /\ d.delay = c.delay
        /\ d.bframes = c.bframes /\ d.behind = c.behind
    BY <1>1 DEF Contexts
  <2>2. r.ret = "ERROR" /\ r.cx = d
    BY <1>5 DEF Rejected, Result
  <2> HIDE DEF d
  <2>3. Holds(d) = Len(c.held)
    <3>1. ~d.valid /\ Len(d.held) = Len(c.held)
      BY <2>1
    <3> QED
      BY <1>1, <3>1 DEF Holds
  <2> QED
    BY <1>1, <1>4, <2>1, <2>2, <2>3
<1>6. CASE r = Queued(c, q)
  <2> DEFINE d == [c EXCEPT !.pkt = NoInput, !.valid = FALSE, !.held = q]
  <2>1. /\ d \in Contexts /\ d.valid = FALSE /\ d.held = q /\ d.delay = c.delay
        /\ d.bframes = c.bframes /\ d.behind = c.behind
    BY <1>1, <1>2 DEF Contexts
  <2>2. r.ret = "OK" /\ r.cx = d
    BY <1>6 DEF Queued, Result
  <2> HIDE DEF d
  <2>3. Holds(d) = Len(c.held) + 1
    BY <1>1, <1>2, <2>1 DEF Holds
  <2> QED
    BY <1>1, <1>4, <2>1, <2>2, <2>3
<1>7. ASSUME NEW k \in Codable(c, q),
             r = Result("OK", Coded(c, q, k)) \/ r = Result("ERROR", Lost(c, q, k))
      PROVE  /\ r.cx \in Contexts /\ r.ret \in {"OK", "ERROR"}
             /\ r.cx.valid => r.cx.pkt # NoInput
             /\ r.cx.delay = c.delay /\ r.cx.bframes = c.bframes
             /\ c.behind <= c.bframes => r.cx.behind <= c.bframes
             /\ r.ret = "OK" => Holds(r.cx) = Len(c.held) + 1
             /\ r.ret # "OK" => ~r.cx.valid /\ Holds(r.cx) = Len(c.held)
  <2>1. k \in 1 .. Len(q) /\ k <= (IF c.behind > 0 THEN c.behind ELSE c.bframes + 1)
    BY DEF Codable
  <2>2. /\ Without(q, k) \in Seq(Inputs) /\ Len(Without(q, k)) = Len(c.held)
        /\ q[k] \in Inputs
    BY <1>1, <1>2, <2>1, WithoutTyped, ElementOfSeq
  <2>3. Behind(c, k) \in Nat /\ (c.behind <= c.bframes => Behind(c, k) <= c.bframes)
    BY <1>1, <1>2, <2>1 DEF Behind
  <2>4. CASE r = Result("OK", Coded(c, q, k))
    <3> DEFINE d == Coded(c, q, k)
    <3>1. /\ d \in Contexts /\ d.valid = TRUE /\ d.held = Without(q, k) /\ d.pkt = q[k]
          /\ d.delay = c.delay /\ d.bframes = c.bframes /\ d.behind = Behind(c, k)
      BY <1>1, <2>2, <2>3 DEF Contexts, Coded
    <3>2. r.ret = "OK" /\ r.cx = d
      BY <2>4 DEF Result
    <3> HIDE DEF d
    <3>3. Holds(d) = Len(c.held) + 1
      BY <1>1, <2>2, <3>1 DEF Holds
    <3> QED
      BY <1>3, <2>2, <2>3, <3>1, <3>2, <3>3
  <2>5. CASE r = Result("ERROR", Lost(c, q, k))
    <3> DEFINE d == Lost(c, q, k)
    <3>1. /\ d \in Contexts /\ d.valid = FALSE /\ d.held = Without(q, k)
          /\ d.delay = c.delay /\ d.bframes = c.bframes /\ d.behind = Behind(c, k)
      BY <1>1, <2>2, <2>3 DEF Contexts, Lost
    <3>2. r.ret = "ERROR" /\ r.cx = d
      BY <2>5 DEF Result
    <3> HIDE DEF d
    <3>3. Holds(d) = Len(c.held)
      BY <1>1, <2>2, <3>1 DEF Holds
    <3> QED
      BY <2>3, <3>1, <3>2, <3>3
  <2> QED
    BY <1>7, <2>4, <2>5
<1>8. \/ r = Rejected(c)
      \/ r = Queued(c, q)
      \/ \E k \in Codable(c, q) : \/ r = Result("OK", Coded(c, q, k))
                                  \/ r = Result("ERROR", Lost(c, q, k))
  BY DoEncodeCases DEF q
<1>9. CASE \E k \in Codable(c, q) : \/ r = Result("OK", Coded(c, q, k))
                                    \/ r = Result("ERROR", Lost(c, q, k))
  <2>1. PICK k \in Codable(c, q) : \/ r = Result("OK", Coded(c, q, k))
                                  \/ r = Result("ERROR", Lost(c, q, k))
    BY <1>9
  <2> QED
    BY <1>1, <1>4, <1>7, <2>1
<1> QED
  BY <1>5, <1>6, <1>8, <1>9
-----------------------------------------------------------------------------
LEMMA OpenHolds ==
    ASSUME NEW delay \in Nat, NEW bframes \in Nat
    PROVE  /\ OpenContext(delay, bframes) \in Contexts
           /\ ~OpenContext(delay, bframes).valid /\ Holds(OpenContext(delay, bframes)) = 0
  BY EmptySeq DEF OpenContext, Contexts, Holds

LEMMA DelaysNat == ASSUME NEW m \in MediaTypes
                   PROVE  Delays[m] \subseteq Nat /\ Some(Delays[m]) \in Nat /\ BFrames[m] \in Nat
  BY EncoderAssumption DEF Some

LEMMA InitCounted == Init => CInv
<1> SUFFICES ASSUME Init PROVE CInv
  OBVIOUS
<1>1. \A m \in MediaTypes : cx[m] \in Contexts /\ ~cx[m].valid
  BY OpenHolds, DelaysNat DEF Init, Closed
<1>2. Typed
  BY <1>1, EmptySeq DEF Init, Typed, Closed, NoFrames, Zero, Empty, Slot
<1>3. PacketsInPlace /\ InputsInPlace /\ IdleWithoutHandle
  BY <1>1 DEF Init, PacketsInPlace, InputsInPlace, IdleWithoutHandle
<1> QED
  BY <1>2, <1>3 DEF CInv, Init

LEMMA CreateCounted == ASSUME CInv, Create PROVE CInv'
<1>1. PICK v \in Delays["video"], a \in Delays["audio"] :
          cx' = [m \in MediaTypes |->
                    OpenContext(IF m = "video" THEN v ELSE a, BFrames[m])]
  BY DEF Create
<1>2. v \in Nat /\ a \in Nat /\ \A m \in MediaTypes : BFrames[m] \in Nat
  BY DelaysNat DEF MediaTypes
<1>3. \A m \in MediaTypes : /\ cx'[m] \in Contexts
                            /\ ~cx'[m].valid /\ Holds(cx'[m]) = 0
  BY <1>1, <1>2, OpenHolds
<1>4. \A m \in MediaTypes : pc[m] = "idle" /\ packet[m] = NoInput
  BY DEF CInv, IdleWithoutHandle, PacketsInPlace, Create, Typed
<1>5. Typed'
  <2>1. handle' \in {"none", "open"}
    BY DEF Create, CInv, Typed
  <2>2. cx' \in [MediaTypes -> Contexts]
    BY <1>1, <1>3
  <2> QED
    BY <2>1, <2>2, EmptySeq DEF CInv, Create, Typed, NoFrames, Zero, Empty, Slot
<1>6. PacketsInPlace' /\ InputsInPlace' /\ IdleWithoutHandle'
  BY <1>3, <1>4 DEF Create, PacketsInPlace, InputsInPlace, IdleWithoutHandle
<1>7. \A m \in MediaTypes : Counted(m)'
  <2> SUFFICES ASSUME NEW m \in MediaTypes PROVE Counted(m)'
    OBVIOUS
  <2>1. /\ sent'[m] = 0 /\ failed'[m] = 0 /\ Len(out'[m]) = 0
        /\ packet'[m] = NoInput /\ pc'[m] = "idle"
    BY <1>4, EmptySeq DEF Create, Zero, Empty
  <2> QED
    BY <1>3, <2>1 DEF Counted, Unsent, Carried
<1> QED
  BY <1>5, <1>6, <1>7 DEF CInv

LEMMA ReleaseCounted == ASSUME CInv, Release PROVE CInv'
<1>1. \A m \in MediaTypes : cx'[m] \in Contexts /\ ~cx'[m].valid
  BY OpenHolds, DelaysNat DEF Release, Closed
<1>2. \A m \in MediaTypes : pc[m] = "idle" /\ packet[m] = NoInput
  BY DEF CInv, PacketsInPlace, Release, Typed
<1>4. Typed'
  BY <1>1 DEF CInv, Release, Typed, Closed, NoFrames, Slot
<1>5. PacketsInPlace' /\ InputsInPlace' /\ IdleWithoutHandle'
  BY <1>1, <1>2 DEF Release, PacketsInPlace, InputsInPlace, IdleWithoutHandle
<1> QED
  BY <1>4, <1>5 DEF CInv, Release

\* A step that leaves a medium's counts alone.
LEMMA SameCount ==
    ASSUME CInv, NEW n \in MediaTypes, handle' = handle, sent'[n] = sent[n],
           failed'[n] = failed[n], packet'[n] = packet[n], cx'[n] = cx[n], out'[n] = out[n],
           pc'[n] = "send" <=> pc[n] = "send"
    PROVE  handle' = "open" => Counted(n)'
  BY DEF CInv, Counted, Unsent, Carried, Holds

LEMMA CarriedNat ==
    ASSUME Typed, NEW n \in MediaTypes
    PROVE  /\ Holds(cx[n]) \in Nat /\ Carried(n) \in Nat
           /\ failed[n] \in Nat /\ Len(out[n]) \in Nat /\ sent[n] \in Nat
<1>1. Len(cx[n].held) \in Nat
  BY LenProperties DEF Typed, Contexts
<1>2. Holds(cx[n]) \in Nat
  <2>1. CASE cx[n].valid
    <3>1. Holds(cx[n]) = 1 + Len(cx[n].held)
      BY <2>1 DEF Holds
    <3> QED
      BY <1>1, <3>1
  <2>2. CASE ~cx[n].valid
    <3>1. Holds(cx[n]) = 0 + Len(cx[n].held)
      BY <2>2 DEF Holds
    <3> QED
      BY <1>1, <3>1
  <2> QED
    BY <2>1, <2>2
<1> QED
  BY <1>2, LenProperties DEF Typed, Carried

LEMMA CallInvalidCounted == ASSUME CInv, NEW m \in MediaTypes, CallInvalid(m) PROVE CInv'
<1>1. Typed'
  BY DEF CInv, CallInvalid, Return, Typed, handleVars, Slot
<1>2. PacketsInPlace' /\ InputsInPlace' /\ IdleWithoutHandle'
  BY DEF CInv, CallInvalid, Return, Typed, handleVars, PacketsInPlace, InputsInPlace,
         IdleWithoutHandle
<1>3. \A n \in MediaTypes : handle' = "open" => Counted(n)'
  BY SameCount DEF CallInvalid, Return, handleVars, CInv, Typed
<1> QED
  BY <1>1, <1>2, <1>3 DEF CInv

LEMMA CallCounted == ASSUME CInv, NEW m \in MediaTypes, Call(m) PROVE CInv'
<1> DEFINE input == <<m, sent[m] + 1>>
<1>1. arg' = [arg EXCEPT ![m] = input] /\ frame' = [frame EXCEPT ![FrameOf(m)] = input]
  BY DEF Call
<1>2. input \in Inputs /\ FrameOf(m) \in FrameObjects
  BY DEF CInv, Typed, Inputs, FrameOf, FrameObjects
<1> HIDE DEF input
<1>4. Typed'
  <2>1. arg' \in [MediaTypes -> Slot] /\ frame' \in [FrameObjects -> Slot]
    BY <1>1, <1>2 DEF CInv, Typed, Slot
  <2>2. /\ packet' \in [MediaTypes -> Slot] /\ sent' \in [MediaTypes -> Nat]
        /\ pc' \in [MediaTypes -> {"idle", "send", "receive", "copy"}]
    BY DEF CInv, Typed, Call, Slot
  <2> QED
    BY <2>1, <2>2 DEF CInv, Typed, Call, handleVars
<1>5. PacketsInPlace'
  BY DEF CInv, Call, Typed, PacketsInPlace
<1>6. InputsInPlace'
  BY <1>1, <1>2 DEF CInv, Call, Typed, InputsInPlace, FrameOf, FrameObjects, MediaTypes
<1>7. IdleWithoutHandle'
  BY DEF CInv, Call, Has, IdleWithoutHandle, handleVars
<1>8. ASSUME NEW n \in MediaTypes, handle' = "open" PROVE Counted(n)'
  <2>1. CASE n # m
    BY <1>8, <2>1, SameCount DEF Call, handleVars, CInv, Typed
  <2>2. CASE n = m
    <3>1. packet[m] = NoInput /\ packet'[m] = NoInput /\ cx' = cx /\ out' = out
          /\ failed' = failed /\ handle' = handle /\ sent'[m] = sent[m] + 1
          /\ pc[m] = "idle" /\ pc'[m] = "send"
      BY DEF Call, handleVars, CInv, Typed, PacketsInPlace
    <3>2. sent[m] = 0 + failed[m] + Carried(m) + Len(out[m])
      BY <1>8, <3>1 DEF CInv, Counted, Unsent
    <3>3. Carried(m) = Holds(cx[m]) + 0 /\ Carried(m)' = Carried(m)
      BY <3>1 DEF Carried, Holds, CInv, Typed, Contexts
    <3>4. Carried(m) \in Nat /\ failed[m] \in Nat /\ Len(out[m]) \in Nat
      BY CarriedNat DEF CInv
    <3>5. sent'[m] = 1 + failed[m] + Carried(m) + Len(out[m])
      BY <3>1, <3>2, <3>4
    <3> QED
      BY <2>2, <3>1, <3>3, <3>5 DEF Counted, Unsent
  <2> QED
    BY <2>1, <2>2
<1> QED
  BY <1>4, <1>5, <1>6, <1>7, <1>8 DEF CInv

LEMMA SendCounted == ASSUME CInv, NEW m \in MediaTypes, Send(m) PROVE CInv'
<1> DEFINE c == cx[m]
<1>1. /\ arg[m] \in Inputs /\ frame[FrameOf(m)] = arg[m] /\ c \in Contexts /\ ~c.valid
      /\ packet[m] = NoInput /\ pc[m] = "send"
  BY DEF CInv, Typed, InputsInPlace, PacketsInPlace, Send
<1>2. PICK r \in DoEncode(c, arg[m]) :
          /\ cx' = [cx EXCEPT ![m] = r.cx]
          /\ IF r.ret = "OK"
             THEN pc' = [pc EXCEPT ![m] = "receive"] /\ UNCHANGED <<ret, failed>>
             ELSE Return(m, r.ret) /\ failed' = [failed EXCEPT ![m] = @ + 1]
  BY <1>1 DEF Send, SendFrame
<1>3. UNCHANGED <<handle, frame, packet, arg, sent, out>>
  BY DEF Send, handleVars
<1> HIDE DEF c
<1>4. /\ r.cx \in Contexts /\ r.ret \in {"OK", "ERROR"}
      /\ r.cx.valid => r.cx.pkt # NoInput
      /\ Holds(c) \in Nat
      /\ r.ret = "OK" => Holds(r.cx) = Holds(c) + 1
      /\ r.ret # "OK" => ~r.cx.valid /\ Holds(r.cx) = Holds(c)
  BY <1>1, DoEncodeCounted
<1>5. /\ cx'[m] = r.cx /\ \A n \in MediaTypes \ {m} : cx'[n] = cx[n]
      /\ pc'[m] # "send" /\ \A n \in MediaTypes \ {m} : pc'[n] = pc[n]
      /\ \A n \in MediaTypes \ {m} : failed'[n] = failed[n]
  BY <1>2 DEF CInv, Typed, Return
<1>6. Typed'
  <2>1. cx' \in [MediaTypes -> Contexts]
    BY <1>2, <1>4 DEF CInv, Typed
  <2>2. pc' \in [MediaTypes -> {"idle", "send", "receive", "copy"}]
    BY <1>2 DEF CInv, Typed, Return
  <2>3. failed' = failed \/ failed' = [failed EXCEPT ![m] = failed[m] + 1]
    BY <1>2
  <2>4. failed' \in [MediaTypes -> Nat]
    <3>1. failed \in [MediaTypes -> Nat] /\ failed[m] + 1 \in Nat
      BY DEF CInv, Typed
    <3> QED
      BY <2>3, <3>1
  <2> QED
    BY <1>3, <2>1, <2>2, <2>4 DEF CInv, Typed
<1>7. PacketsInPlace'
  BY <1>1, <1>2, <1>3, <1>4, <1>5 DEF CInv, Typed, PacketsInPlace, Return
<1>8. InputsInPlace' /\ IdleWithoutHandle'
  BY <1>1, <1>3, <1>5 DEF CInv, InputsInPlace, IdleWithoutHandle
<1>9. ASSUME NEW n \in MediaTypes, handle' = "open" PROVE Counted(n)'
  <2>1. CASE n # m
    BY <1>3, <1>5, <1>9, <2>1, SameCount
  <2>2. CASE n = m
    <3>1. sent[m] = 1 + failed[m] + Carried(m) + Len(out[m])
      BY <1>1, <1>3, <1>9 DEF CInv, Counted, Unsent
    <3>2. Carried(m) = Holds(c)
      BY <1>1, <1>4 DEF Carried, c
    <3>3. Carried(m)' = Holds(r.cx) /\ Unsent(m)' = 0
      <4>1. Holds(r.cx) \in Nat
        BY <1>4
      <4>2. Carried(m)' = 0 + Holds(r.cx)
        BY <1>1, <1>3, <1>5 DEF Carried
      <4> QED
        BY <1>5, <4>1, <4>2 DEF Unsent
    <3>4. failed[m] \in Nat /\ Len(out[m]) \in Nat /\ sent'[m] = sent[m] /\ out'[m] = out[m]
      BY <1>3, CarriedNat DEF CInv
    <3>5. CASE r.ret = "OK"
      <4>1. failed'[m] = failed[m] /\ Carried(m)' = Holds(c) + 1
        BY <1>2, <1>4, <3>3, <3>5
      <4>2. sent'[m] = 0 + failed'[m] + Carried(m)' + Len(out'[m])
        BY <1>4, <3>1, <3>2, <3>4, <4>1
      <4> QED
        BY <2>2, <3>3, <4>2 DEF Counted
    <3>6. CASE r.ret # "OK"
      <4>1. failed'[m] = failed[m] + 1 /\ Carried(m)' = Holds(c)
        BY <1>2, <1>4, <3>3, <3>6 DEF CInv, Typed
      <4>2. sent'[m] = 0 + failed'[m] + Carried(m)' + Len(out'[m])
        BY <1>4, <3>1, <3>2, <3>4, <4>1
      <4> QED
        BY <2>2, <3>3, <4>2 DEF Counted
    <3> QED
      BY <3>5, <3>6
  <2> QED
    BY <2>1, <2>2
<1> QED
  BY <1>6, <1>7, <1>8, <1>9 DEF CInv

LEMMA ReceiveCounted == ASSUME CInv, NEW m \in MediaTypes, Receive(m) PROVE CInv'
<1> DEFINE c == cx[m]
           d == IF c.valid THEN [c EXCEPT !.pkt = NoInput, !.valid = FALSE] ELSE c
<1>1. c \in Contexts /\ (c.valid => c.pkt # NoInput) /\ packet[m] = NoInput /\ pc[m] = "receive"
  BY DEF CInv, Typed, PacketsInPlace, Receive
<1>2. /\ cx' = [cx EXCEPT ![m] = d]
      /\ packet' = IF c.valid THEN [packet EXCEPT ![m] = c.pkt] ELSE packet
      /\ pc' = [pc EXCEPT ![m] = "copy"]
      /\ UNCHANGED <<handle, frame, arg, sent, failed, out>>
  BY DEF Receive, ReceivePacket, Result, handleVars
<1>3. d \in Contexts /\ ~d.valid /\ d.held = c.held
  BY <1>1 DEF Contexts
<1>4. c.pkt \in Slot /\ c.valid \in BOOLEAN /\ Len(c.held) \in Nat
  BY <1>1, LenProperties DEF Contexts, Slot
<1> HIDE DEF d, c
<1>5. /\ cx'[m] = d /\ pc'[m] = "copy"
      /\ \A n \in MediaTypes \ {m} :
            cx'[n] = cx[n] /\ packet'[n] = packet[n] /\ pc'[n] = pc[n]
  BY <1>2 DEF CInv, Typed
<1>6. Typed'
  BY <1>2, <1>3, <1>4 DEF CInv, Typed
<1>7. PacketsInPlace'
  BY <1>2, <1>3, <1>5 DEF CInv, Typed, PacketsInPlace
<1>8. InputsInPlace' /\ IdleWithoutHandle'
  BY <1>2, <1>5, <1>1 DEF CInv, Typed, InputsInPlace, IdleWithoutHandle
<1>9. ASSUME NEW n \in MediaTypes, handle' = "open" PROVE Counted(n)'
  <2>1. CASE n # m
    BY <1>2, <1>5, <1>9, <2>1, SameCount
  <2>2. CASE n = m
    <3>1. Carried(m)' = Carried(m)
      <4>1. Holds(cx[m])' = Len(c.held)
        <5>1. ~d.valid /\ d.held = c.held /\ cx'[m] = d
          BY <1>3, <1>5
        <5> QED
          BY <1>4, <5>1 DEF Holds
      <4>2. CASE c.valid
        <5>1. packet'[m] # NoInput
          BY <1>1, <1>2, <4>2 DEF CInv, Typed
        <5>2. Carried(m)' = 1 + Len(c.held)
          BY <4>1, <5>1 DEF Carried
        <5>3. Holds(cx[m]) = 1 + Len(c.held)
          BY <4>2 DEF Holds, c
        <5>4. Carried(m) = 0 + (1 + Len(c.held))
          BY <1>1, <5>3 DEF Carried
        <5> QED
          BY <1>4, <5>2, <5>4
      <4>3. CASE ~c.valid
        <5>1. packet'[m] = NoInput
          BY <1>1, <1>2, <4>3
        <5>2. Carried(m)' = 0 + Len(c.held)
          BY <4>1, <5>1 DEF Carried
        <5>3. Holds(cx[m]) = 0 + Len(c.held)
          BY <4>3 DEF Holds, c
        <5>4. Carried(m) = 0 + (0 + Len(c.held))
          BY <1>1, <5>3 DEF Carried
        <5> QED
          BY <1>4, <5>2, <5>4
      <4> QED
        BY <4>2, <4>3
    <3>2. Unsent(m)' = Unsent(m)
      BY <1>1, <1>5 DEF Unsent
    <3> QED
      BY <1>2, <1>9, <2>2, <3>1, <3>2 DEF CInv, Counted
  <2> QED
    BY <2>1, <2>2
<1> QED
  BY <1>6, <1>7, <1>8, <1>9 DEF CInv

LEMMA CopyOutCounted == ASSUME CInv, NEW m \in MediaTypes, CopyOut(m) PROVE CInv'
<1>1. Len(out[m]) \in Nat /\ out[m] \in Seq(Inputs) /\ ~cx[m].valid /\ pc[m] = "copy"
  BY LenProperties DEF CInv, Typed, PacketsInPlace, CopyOut
<1>2. /\ packet' = [packet EXCEPT ![m] = NoInput]
      /\ pc' = [pc EXCEPT ![m] = "idle"]
      /\ UNCHANGED <<handle, cx, frame, arg, sent, failed>>
  BY DEF CopyOut, Return, handleVars
<1>3. /\ out' \in [MediaTypes -> Seq(Inputs)]
      /\ Len(out'[m]) = Len(out[m]) + (IF packet[m] = NoInput THEN 0 ELSE 1)
      /\ \A n \in MediaTypes \ {m} : out'[n] = out[n]
  <2>1. CASE packet[m] = NoInput
    BY <1>1, <2>1 DEF CopyOut, CInv, Typed
  <2>2. CASE packet[m] # NoInput
    <3>1. packet[m] \in Inputs
      BY <2>2 DEF CInv, Typed, Slot
    <3>2. /\ Append(out[m], packet[m]) \in Seq(Inputs)
          /\ Len(Append(out[m], packet[m])) = Len(out[m]) + 1
      BY <1>1, <3>1, AppendProperties
    <3>3. out' = [out EXCEPT ![m] = Append(out[m], packet[m])]
      BY <2>2 DEF CopyOut
    <3> QED
      BY <2>2, <3>2, <3>3 DEF CInv, Typed
  <2> QED
    BY <2>1, <2>2
<1>4. /\ packet'[m] = NoInput /\ pc'[m] = "idle"
      /\ \A n \in MediaTypes \ {m} : packet'[n] = packet[n] /\ pc'[n] = pc[n]
  BY <1>2 DEF CInv, Typed
<1>5. Typed'
  BY <1>2, <1>3 DEF CInv, Typed, Slot
<1>6. PacketsInPlace' /\ InputsInPlace' /\ IdleWithoutHandle'
  BY <1>1, <1>2 DEF CInv, Typed, PacketsInPlace, InputsInPlace, IdleWithoutHandle
<1>7. ASSUME NEW n \in MediaTypes, handle' = "open" PROVE Counted(n)'
  <2>1. CASE n # m
    BY <1>2, <1>3, <1>4, <1>7, <2>1, SameCount
  <2>2. CASE n = m
    <3>1. Holds(cx[m]) \in Nat /\ failed[m] \in Nat
      BY CarriedNat DEF CInv
    <3>2. sent[m] = 0 + failed[m] + Carried(m) + Len(out[m])
      BY <1>1, <1>2, <1>7 DEF CInv, Counted, Unsent
    <3>3. Unsent(m)' = 0 /\ Carried(m)' = 0 + Holds(cx[m])
      BY <1>2, <1>4 DEF Unsent, Carried, Holds
    <3>4. sent'[m] = 0 + failed'[m] + Carried(m)' + Len(out'[m])
      <4>1. CASE packet[m] = NoInput
        <5>1. Carried(m) = 0 + Holds(cx[m]) /\ Len(out'[m]) = Len(out[m])
          BY <1>1, <1>3, <4>1 DEF Carried
        <5> QED
          BY <1>2, <3>2, <3>3, <5>1
      <4>2. CASE packet[m] # NoInput
        <5>1. Carried(m) = 1 + Holds(cx[m]) /\ Len(out'[m]) = Len(out[m]) + 1
          BY <1>3, <4>2 DEF Carried
        <5>2. sent[m] = 0 + failed[m] + (1 + Holds(cx[m])) + Len(out[m])
          BY <3>2, <5>1
        <5>3. sent[m] = 0 + failed[m] + (0 + Holds(cx[m])) + (Len(out[m]) + 1)
          <6>1. \A x, y, z \in Nat : 0 + x + (1 + y) + z = 0 + x + (0 + y) + (z + 1)
            OBVIOUS
          <6> QED
            BY <1>1, <3>1, <5>2, <6>1
        <5>4. sent'[m] = sent[m] /\ failed'[m] = failed[m] /\ Carried(m)' = 0 + Holds(cx[m])
          BY <1>2, <3>3
        <5>5. Len(out'[m]) = Len(out[m]) + 1
          BY <5>1
        <5> QED
          BY <5>3, <5>4, <5>5
      <4> QED
        BY <4>1, <4>2
    <3> QED
      BY <2>2, <3>3, <3>4 DEF Counted
  <2> QED
    BY <2>1, <2>2
<1> QED
  BY <1>5, <1>6, <1>7 DEF CInv

LEMMA NextCounted == CInv /\ [Next]_vars => CInv'
<1> SUFFICES ASSUME CInv, [Next]_vars PROVE CInv'
  OBVIOUS
<1>1. CASE Create
  BY <1>1, CreateCounted
<1>2. CASE Release
  BY <1>2, ReleaseCounted
<1>3. ASSUME NEW m \in MediaTypes, CallInvalid(m) PROVE CInv'
  BY <1>3, CallInvalidCounted
<1>4. ASSUME NEW m \in MediaTypes, Call(m) PROVE CInv'
  BY <1>4, CallCounted
<1>5. ASSUME NEW m \in MediaTypes, Send(m) PROVE CInv'
  BY <1>5, SendCounted
<1>6. ASSUME NEW m \in MediaTypes, Receive(m) PROVE CInv'
  BY <1>6, ReceiveCounted
<1>7. ASSUME NEW m \in MediaTypes, CopyOut(m) PROVE CInv'
  BY <1>7, CopyOutCounted
<1>8. CASE UNCHANGED vars
  <2>1. Typed' /\ PacketsInPlace' /\ InputsInPlace' /\ IdleWithoutHandle'
    BY <1>8 DEF vars, CInv, Typed, PacketsInPlace, InputsInPlace, IdleWithoutHandle
  <2>2. \A n \in MediaTypes : handle' = "open" => Counted(n)'
    BY <1>8, SameCount DEF vars
  <2> QED
    BY <2>1, <2>2 DEF CInv
<1> QED
  BY <1>1, <1>2, <1>3, <1>4, <1>5, <1>6, <1>7, <1>8 DEF Next, Step

\* CInv is an invariant of the specification.
THEOREM Invariance == Spec => []CInv
<1>1. Init => CInv
  BY InitCounted
<1>2. CInv /\ [Next]_vars => CInv'
  BY NextCounted
<1> QED
  BY <1>1, <1>2, PTL DEF Spec

\* avcodec_send_frame never refuses what the bridge sends.
THEOREM SendIsNeverRefused == Spec => []SendNeverRefused
<1>1. CInv => SendNeverRefused
  BY DEF CInv, PacketsInPlace, SendNeverRefused
<1> QED
  BY <1>1, Invariance, PTL

\* Every input of an open handle is with its codec, on its way or with the caller,
\* except one for each call that returned an error.
THEOREM LossesAreCounted == Spec => []LossesAreReported
<1>1. CInv => LossesAreReported
  BY DEF CInv, Counted, LossesAreReported
<1> QED
  BY <1>1, Invariance, PTL

\* What a thread sends is what it copied in.
THEOREM InputsAreNotMixed == Spec => []SendsOwnInput
<1>1. CInv => SendsOwnInput
  BY DEF CInv, InputsInPlace, SendsOwnInput
<1> QED
  BY <1>1, Invariance, PTL
-----------------------------------------------------------------------------
(* The rest of the type invariant, and what is lost. *)

\* What creation acquires are resources, and at most the picture of VFrame is
\* not freed with them.
LEMMA AcquiredResources ==
    ASSUME NEW media \in SUBSET MediaTypes, NEW n \in 0 .. Len(Acquisitions(media))
    PROVE  Acquired(media, n) \subseteq Resources
<1> DEFINE v == IF "video" \in media THEN <<"VEncoder", "VOpen", "VFrame", "VImage">> ELSE <<>>
           a == IF "audio" \in media THEN <<"AEncoder", "AOpen", "AFrame", "ABuffer">> ELSE <<>>
           s == Acquisitions(media)
<1>1. v \in Seq(Resources) /\ a \in Seq(Resources)
  <2>1. <<"VEncoder", "VOpen", "VFrame", "VImage">> \in Seq(Resources)
    BY DEF Resources
  <2>2. <<"AEncoder", "AOpen", "AFrame", "ABuffer">> \in Seq(Resources)
    BY DEF Resources
  <2>3. <<>> \in Seq(Resources)
    BY EmptySeq
  <2> QED
    BY <2>1, <2>2, <2>3
<1>4. s = v \o a
  BY DEF Acquisitions
<1> HIDE DEF v, a
<1>2. s \in Seq(Resources)
  BY <1>1, <1>4, ConcatProperties
<1> HIDE DEF s
<1>3. \A i \in 1 .. n : s[i] \in Resources
  <2>1. n \in 0 .. Len(s)
    BY DEF s
  <2>2. n <= Len(s) /\ n \in Nat /\ Len(s) \in Nat
    BY <1>2, <2>1, LenProperties
  <2> QED
    BY <1>2, <2>2, ElementOfSeq
<1>5. \A i \in 1 .. n : Acquisitions(media)[i] \in Resources
  BY <1>3 DEF s
<1> QED
  BY <1>5 DEF Acquired, Resources

LEMMA NotFreedIsOne ==
    ASSUME NEW l \in SUBSET Resources
    PROVE  NotFreed(l) \in Nat /\ NotFreed(l) <= 1 /\ NotFreed({}) = 0
<1>1. l \ Released \subseteq {"VImage"} /\ {} \ Released = {}
  BY DEF Resources, Released
<1>2. IsFiniteSet({"VImage"}) /\ Cardinality({"VImage"}) = 1
  BY FS_Singleton
<1>3. IsFiniteSet(l \ Released) /\ Cardinality(l \ Released) <= 1
  BY <1>1, <1>2, FS_Subset
<1>4. Cardinality({}) = 0
  BY FS_EmptySet
<1> QED
  BY <1>1, <1>3, <1>4, FS_CardinalityType DEF NotFreed

\* A context keeps what it was opened with, and overtakes no more than it may.
OpenedAs(m) ==
    /\ cx[m].delay \in Delays[m] /\ cx[m].bframes = BFrames[m]
    /\ cx[m].behind <= cx[m].bframes

RestTyped ==
    /\ leaked \in Nat /\ created \in Nat
    /\ live \subseteq Resources /\ (handle = "none" => live = {})
    /\ leaked + NotFreed(live) <= created
    /\ ret \in [MediaTypes -> Errors \cup {"none", "zero", "positive"}]
    /\ \A m \in MediaTypes : OpenedAs(m)

LEMMA RestTypedPreserved == CInv /\ RestTyped /\ [Next]_vars => RestTyped'
<1> SUFFICES ASSUME CInv, RestTyped, [Next]_vars PROVE RestTyped'
  OBVIOUS
<1>1. CASE Create
  <2>1. PICK media \in SUBSET MediaTypes \ {{}}, v \in Delays["video"], a \in Delays["audio"] :
            /\ cx' = [m \in MediaTypes |->
                           OpenContext(IF m = "video" THEN v ELSE a, BFrames[m])]
            /\ \/ /\ handle' = "open"
                  /\ live' = Acquired(media, Len(Acquisitions(media)))
                  /\ UNCHANGED leaked
               \/ \E n \in 0 .. Len(Acquisitions(media)) - 1 :
                     /\ leaked' = leaked + NotFreed(Acquired(media, n))
                     /\ UNCHANGED <<handle, live>>
    BY <1>1 DEF Create
  <2>2. handle = "none" /\ live = {} /\ created' = created + 1
    BY <1>1 DEF Create, RestTyped
  <2>3. leaked \in Nat /\ created \in Nat /\ leaked <= created
    <3>1. NotFreed({}) = 0
      BY NotFreedIsOne
    <3> QED
      BY <2>2, <3>1 DEF RestTyped
  <2>4. Len(Acquisitions(media)) \in Nat
    BY DEF Acquisitions
  <2>5. \A n \in 0 .. Len(Acquisitions(media)) :
            /\ Acquired(media, n) \subseteq Resources
            /\ NotFreed(Acquired(media, n)) \in Nat /\ NotFreed(Acquired(media, n)) <= 1
    BY AcquiredResources, NotFreedIsOne
  <2>6. /\ leaked' \in Nat /\ created' \in Nat
        /\ live' \subseteq Resources /\ (handle' = "none" => live' = {})
        /\ leaked' + NotFreed(live') <= created'
    <3>1. CASE handle' = "open" /\ live' = Acquired(media, Len(Acquisitions(media)))
               /\ UNCHANGED leaked
      <4>1. NotFreed(live') \in Nat /\ NotFreed(live') <= 1 /\ live' \subseteq Resources
        BY <2>4, <2>5, <3>1
      <4> QED
        BY <2>2, <2>3, <3>1, <4>1
    <3>2. ASSUME NEW n \in 0 .. Len(Acquisitions(media)) - 1,
                 leaked' = leaked + NotFreed(Acquired(media, n)),
                 UNCHANGED <<handle, live>>
          PROVE  <2>6!:
      <4>1. n \in 0 .. Len(Acquisitions(media))
        BY <2>4
      <4>2. NotFreed(Acquired(media, n)) \in Nat /\ NotFreed(Acquired(media, n)) <= 1
        BY <2>5, <4>1
      <4>3. live' = {} /\ NotFreed({}) = 0
        BY <2>2, <3>2, NotFreedIsOne
      <4> QED
        BY <2>2, <2>3, <3>2, <4>2, <4>3
    <3> QED
      BY <2>1, <3>1, <3>2
  <2>7. \A m \in MediaTypes : OpenedAs(m)'
    BY <2>1, DelaysNat DEF OpenContext, MediaTypes, OpenedAs
  <2> QED
    BY <1>1, <2>6, <2>7 DEF Create, RestTyped
<1>2. CASE Release
  <2>1. leaked' = leaked + NotFreed(live) /\ live' = {} /\ created' = created /\ ret' = ret
    BY <1>2 DEF Release
  <2>2. NotFreed(live) \in Nat /\ NotFreed({}) = 0
    BY NotFreedIsOne DEF RestTyped
  <2>3. \A m \in MediaTypes : OpenedAs(m)'
    BY <1>2, EncoderAssumption DEF Release, Closed, OpenContext, Some, OpenedAs
  <2>4. leaked' \in Nat /\ leaked' + NotFreed(live') <= created'
    BY <2>1, <2>2 DEF RestTyped
  <2> QED
    BY <2>1, <2>3, <2>4 DEF RestTyped
<1>3. ASSUME NEW m \in MediaTypes, CallInvalid(m) \/ Call(m) \/ CopyOut(m)
      PROVE  RestTyped'
  BY <1>3 DEF CallInvalid, Call, CopyOut, Return, RestTyped, handleVars, OpenedAs
<1>4. ASSUME NEW m \in MediaTypes, Send(m) PROVE RestTyped'
  <2>1. /\ arg[m] \in Inputs /\ frame[FrameOf(m)] = arg[m] /\ cx[m] \in Contexts
        /\ ~cx[m].valid
    BY <1>4 DEF CInv, Typed, InputsInPlace, PacketsInPlace, Send
  <2>2. PICK r \in DoEncode(cx[m], arg[m]) :
            /\ cx' = [cx EXCEPT ![m] = r.cx]
            /\ ret' = ret \/ ret' = [ret EXCEPT ![m] = r.ret]
            /\ r.ret = "OK" => ret' = ret
    BY <1>4, <2>1 DEF Send, Return, SendFrame
  <2>3. UNCHANGED handleVars
    BY <1>4 DEF Send
  <2>4. /\ r.ret \in {"OK", "ERROR"} /\ r.cx.delay = cx[m].delay
        /\ r.cx.bframes = cx[m].bframes
        /\ cx[m].behind <= cx[m].bframes => r.cx.behind <= cx[m].bframes
    BY <2>1, DoEncodeCounted
  <2>5. ret' \in [MediaTypes -> Errors \cup {"none", "zero", "positive"}]
    BY <2>2, <2>4 DEF RestTyped, Errors
  <2>6. \A n \in MediaTypes : OpenedAs(n)'
    BY <2>2, <2>4 DEF RestTyped, CInv, Typed, OpenedAs
  <2> QED
    BY <2>3, <2>5, <2>6 DEF RestTyped, handleVars
<1>5. ASSUME NEW m \in MediaTypes, Receive(m) PROVE RestTyped'
  <2> DEFINE r == ReceivePacket(cx[m])
  <2>1. cx' = [cx EXCEPT ![m] = r.cx] /\ UNCHANGED <<handleVars, ret>>
    BY <1>5 DEF Receive
  <2>2. cx[m] \in Contexts
    BY DEF CInv, Typed
  <2>3. /\ r.cx.delay = cx[m].delay /\ r.cx.bframes = cx[m].bframes
        /\ r.cx.behind = cx[m].behind
    BY <2>2 DEF ReceivePacket, Result, Contexts
  <2> HIDE DEF r
  <2>4. \A n \in MediaTypes : OpenedAs(n)'
    BY <2>1, <2>3 DEF RestTyped, CInv, Typed, OpenedAs
  <2> QED
    BY <2>1, <2>4 DEF RestTyped, handleVars
<1>6. CASE UNCHANGED vars
  BY <1>6 DEF vars, RestTyped, OpenedAs
<1> QED
  BY <1>1, <1>2, <1>3, <1>4, <1>5, <1>6 DEF Next, Step

LEMMA RestIsTyped == Spec => []RestTyped
<1>1. Init => RestTyped
  <2> SUFFICES ASSUME Init PROVE RestTyped
    OBVIOUS
  <2>1. \A m \in MediaTypes : OpenedAs(m)
    BY EncoderAssumption DEF Init, Closed, OpenContext, Some, OpenedAs
  <2>2. NotFreed({}) = 0
    BY NotFreedIsOne
  <2> QED
    BY <2>1, <2>2 DEF Init, RestTyped
<1> QED
  BY <1>1, RestTypedPreserved, Invariance, PTL DEF Spec

\* Every variable keeps its type, and a context the delay and the B-frames it was
\* opened with.
THEOREM TypeCorrect == Spec => []TypeOK
<1>1. CInv /\ RestTyped => TypeOK
  BY DEF CInv, Typed, RestTyped, TypeOK, OpenedAs
<1> QED
  BY <1>1, Invariance, RestIsTyped, PTL

\* Whatever fails while handles are created, each of them loses at most the picture
\* that av_image_alloc put into VFrame.
THEOREM LeaksAreBounded == Spec => []LosesPictureOnly
<1>1. RestTyped => LosesPictureOnly
  BY DEF RestTyped, LosesPictureOnly
<1> QED
  BY <1>1, RestIsTyped, PTL
-----------------------------------------------------------------------------
(* How far a packet can be overtaken: facts about queues and sets of inputs. *)

\* The members of G that went in after x, which have overtaken it.
Overtakers(G, x) == {y \in G : x[2] < y[2]}

\* A queue in the order in which its inputs came.
Rising(q) == \A i, j \in 1 .. Len(q) : i < j => q[i][2] < q[j][2]

\* With G coded, and at most n to overtake an input, the first b of the queue have
\* been overtaken by no more than n + 1 - b, and the others by none.
Within(q, b, n, G) ==
    \A i \in 1 .. Len(q) :
        Cardinality(Overtakers(G, q[i])) <= (IF i <= b THEN n + 1 - b ELSE 0)

LEMMA NumbersNat == \A x \in Inputs : x[2] \in Nat
  BY DEF Inputs

LEMMA WithoutElements ==
    ASSUME NEW q \in Seq(Inputs), Rising(q), NEW k \in 1 .. Len(q)
    PROVE  /\ Rising(Without(q, k))
           /\ Elements(Without(q, k)) = Elements(q) \ {q[k]}
<1> DEFINE w == Without(q, k)
           at(i) == IF i < k THEN i ELSE i + 1
<1>1. /\ Len(w) = Len(q) - 1 /\ \A i \in 1 .. Len(q) - 1 : w[i] = q[at(i)]
      /\ Len(q) \in Nat /\ Len(q) >= 1 /\ k \in Nat
  BY WithoutTyped, LenProperties
<1>2. \A i \in 1 .. Len(q) - 1 : at(i) \in 1 .. Len(q) /\ at(i) # k
  BY <1>1
<1>3. \A i, j \in 1 .. Len(q) - 1 : i < j => at(i) < at(j)
  BY <1>1
<1>4. \A j \in 1 .. Len(q) : j # k => \E i \in 1 .. Len(q) - 1 : at(i) = j
  <2> SUFFICES ASSUME NEW j \in 1 .. Len(q), j # k
               PROVE  \E i \in 1 .. Len(q) - 1 : at(i) = j
    OBVIOUS
  <2>1. CASE j < k
    <3>1. j \in 1 .. Len(q) - 1 /\ at(j) = j
      BY <1>1, <2>1
    <3> QED
      BY <3>1
  <2>2. CASE j > k
    <3>1. j - 1 \in 1 .. Len(q) - 1 /\ at(j - 1) = j
      BY <1>1, <2>2
    <3> QED
      BY <3>1
  <2> QED
    BY <1>1, <2>1, <2>2
<1>5. \A j \in 1 .. Len(q) : j # k => q[j] # q[k]
  <2> SUFFICES ASSUME NEW j \in 1 .. Len(q), j # k PROVE q[j] # q[k]
    OBVIOUS
  <2>1. q[j] \in Inputs /\ q[k] \in Inputs
    BY ElementOfSeq
  <2>2. q[j][2] \in Nat /\ q[k][2] \in Nat
    BY <2>1, NumbersNat
  <2>3. q[j][2] < q[k][2] \/ q[k][2] < q[j][2]
    BY <1>1 DEF Rising
  <2> QED
    BY <2>2, <2>3
<1> HIDE DEF w, at
<1>6. Rising(w)
  <2> SUFFICES ASSUME NEW i \in 1 .. Len(w), NEW j \in 1 .. Len(w), i < j
               PROVE  w[i][2] < w[j][2]
    BY DEF Rising
  <2>1. w[i] = q[at(i)] /\ w[j] = q[at(j)] /\ at(i) < at(j)
        /\ at(i) \in 1 .. Len(q) /\ at(j) \in 1 .. Len(q)
    BY <1>1, <1>2, <1>3
  <2> QED
    BY <2>1 DEF Rising
<1>7. Elements(w) \subseteq Elements(q) \ {q[k]}
  BY <1>1, <1>2, <1>5 DEF Elements
<1>8. Elements(q) \ {q[k]} \subseteq Elements(w)
  <2> SUFFICES ASSUME NEW j \in 1 .. Len(q), q[j] # q[k] PROVE q[j] \in Elements(w)
    BY DEF Elements
  <2>1. j # k
    OBVIOUS
  <2>2. PICK i \in 1 .. Len(q) - 1 : at(i) = j
    BY <1>4, <2>1
  <2>3. w[i] = q[j] /\ i \in 1 .. Len(w)
    BY <1>1, <2>2
  <2> QED
    BY <2>3 DEF Elements
<1> QED
  BY <1>6, <1>7, <1>8 DEF w

\* A queue takes an input that is newer than all before it.
LEMMA AppendElements ==
    ASSUME NEW q \in Seq(Inputs), Rising(q), NEW x \in Inputs,
           \A y \in Elements(q) : y[2] < x[2]
    PROVE  /\ Rising(Append(q, x)) /\ Elements(Append(q, x)) = Elements(q) \cup {x}
           /\ Append(q, x) \in Seq(Inputs) /\ Len(Append(q, x)) = Len(q) + 1
           /\ Len(q) \in Nat /\ \A i \in 1 .. Len(q) : Append(q, x)[i] = q[i]
           /\ Append(q, x)[Len(q) + 1] = x
<1> DEFINE w == Append(q, x)
<1>1. /\ w \in Seq(Inputs) /\ Len(w) = Len(q) + 1 /\ Len(q) \in Nat
      /\ \A i \in 1 .. Len(q) : w[i] = q[i]
      /\ w[Len(q) + 1] = x
  BY AppendProperties, LenProperties
<1> HIDE DEF w
<1>2. Rising(w)
  <2> SUFFICES ASSUME NEW i \in 1 .. Len(w), NEW j \in 1 .. Len(w), i < j
               PROVE  w[i][2] < w[j][2]
    BY DEF Rising
  <2>1. i \in 1 .. Len(q) /\ w[i] = q[i]
    BY <1>1
  <2>2. CASE j \in 1 .. Len(q)
    BY <1>1, <2>1, <2>2 DEF Rising
  <2>3. CASE j = Len(q) + 1
    BY <1>1, <2>1, <2>3 DEF Elements
  <2> QED
    BY <1>1, <2>2, <2>3
<1>3. \A i \in 1 .. Len(w) : w[i] \in Elements(q) \cup {x}
  BY <1>1 DEF Elements
<1>4. \A i \in 1 .. Len(q) : q[i] \in Elements(w)
  BY <1>1 DEF Elements
<1>5. x \in Elements(w)
  <2>1. Len(q) + 1 \in 1 .. Len(w)
    BY <1>1
  <2> QED
    BY <1>1, <2>1 DEF Elements
<1>6. Elements(w) = Elements(q) \cup {x}
  BY <1>3, <1>4, <1>5 DEF Elements
<1> QED
  BY <1>1, <1>2, <1>6 DEF w

\* The newest input has been overtaken by nothing.
LEMMA AppendWithin ==
    ASSUME NEW q \in Seq(Inputs), Rising(q), NEW x \in Inputs,
           \A y \in Elements(q) : y[2] < x[2],
           NEW G \in SUBSET Inputs, \A y \in G : y[2] < x[2],
           NEW b \in Nat, NEW n \in Nat, b <= n, Within(q, b, n, G)
    PROVE  Within(Append(q, x), b, n, G)
<1> DEFINE w == Append(q, x)
<1>1. /\ Len(w) = Len(q) + 1 /\ Len(q) \in Nat
      /\ \A i \in 1 .. Len(q) : w[i] = q[i]
      /\ w[Len(q) + 1] = x
  BY AppendElements
<1>2. Cardinality(Overtakers(G, x)) = 0
  <2>1. \A y \in G : ~(x[2] < y[2])
    BY NumbersNat
  <2>2. Overtakers(G, x) = {}
    BY <2>1 DEF Overtakers
  <2> QED
    BY <2>2, FS_EmptySet
<1> HIDE DEF w
<1>3. ASSUME NEW i \in 1 .. Len(w)
      PROVE  Cardinality(Overtakers(G, w[i])) <= (IF i <= b THEN n + 1 - b ELSE 0)
  <2>1. CASE i \in 1 .. Len(q)
    BY <1>1, <2>1 DEF Within
  <2>2. CASE i = Len(q) + 1
    BY <1>1, <1>2, <2>2
  <2> QED
    BY <1>1, <2>1, <2>2
<1> QED
  BY <1>3 DEF Within, w

\* Coding the k-th input, as the codec may, keeps every other within its bound;
\* so does losing it.
LEMMA CodingWithin ==
    ASSUME NEW q \in Seq(Inputs), Rising(q), NEW G \in SUBSET Inputs, IsFiniteSet(G),
           NEW b \in Nat, NEW n \in Nat, b <= n, Within(q, b, n, G),
           NEW k \in 1 .. Len(q), k <= (IF b > 0 THEN b ELSE n + 1),
           NEW d, d = (IF b > 0 THEN b - 1 ELSE k - 1),
           NEW H \in SUBSET (G \cup {q[k]})
    PROVE  Within(Without(q, k), d, n, H)
<1> DEFINE w == Without(q, k)
<1>1. /\ Len(w) = Len(q) - 1 /\ Len(q) \in Nat /\ k \in Nat
      /\ \A i \in 1 .. Len(q) - 1 : w[i] = q[IF i < k THEN i ELSE i + 1]
  BY WithoutTyped, LenProperties
<1> HIDE DEF w
<1> SUFFICES ASSUME NEW i \in 1 .. Len(w)
             PROVE  Cardinality(Overtakers(H, w[i])) <= (IF i <= d THEN n + 1 - d ELSE 0)
  BY DEF Within, w
<1> DEFINE j == IF i < k THEN i ELSE i + 1
           old == Overtakers(G, q[j])
           new == Overtakers(H, q[j])
<1>2. w[i] = q[j] /\ j \in 1 .. Len(q)
  BY <1>1
<1>3. IsFiniteSet(old) /\ Cardinality(old) \in Nat
  <2>1. old \subseteq G
    BY DEF Overtakers
  <2> QED
    BY <2>1, FS_Subset, FS_CardinalityType
<1>4. Cardinality(old) <= (IF j <= b THEN n + 1 - b ELSE 0)
  BY <1>2 DEF Within
<1>5. CASE i < k
  <2>1. new \subseteq old \cup {q[k]}
    BY DEF Overtakers
  <2>2. /\ IsFiniteSet(old \cup {q[k]})
        /\ Cardinality(old \cup {q[k]}) <= Cardinality(old) + 1
        /\ Cardinality(old \cup {q[k]}) \in Nat
    <3> HIDE DEF old, new
    <3>1. IsFiniteSet(old \cup {q[k]})
          /\ Cardinality(old \cup {q[k]}) =
                 IF q[k] \in old THEN Cardinality(old) ELSE Cardinality(old) + 1
      BY <1>3, FS_AddElement
    <3> QED
      BY <1>3, <3>1
  <2>3. Cardinality(new) \in Nat /\ Cardinality(new) <= Cardinality(old \cup {q[k]})
    BY <2>1, <2>2, FS_Subset, FS_CardinalityType
  <2>4. Cardinality(new) <= Cardinality(old) + 1
    BY <1>3, <2>2, <2>3
  <2>5. j = i /\ i <= d /\ (IF j <= b THEN n + 1 - b ELSE 0) + 1 <= n + 1 - d
    BY <1>1, <1>5
  <2> HIDE DEF j, old, new
  <2>6. Cardinality(new) <= n + 1 - d
    <3>1. d \in Nat /\ (IF j <= b THEN n + 1 - b ELSE 0) \in Int
      BY <1>1
    <3> QED
      BY <1>3, <1>4, <2>3, <2>4, <2>5, <3>1
  <2> QED
    BY <1>2, <2>5, <2>6 DEF new
<1>6. CASE i >= k
  <2>1. j = i + 1 /\ k < j
    BY <1>1, <1>6
  <2>2. q[k][2] < q[j][2] /\ q[k] \in Inputs /\ q[j] \in Inputs
    BY <1>2, <2>1, ElementOfSeq DEF Rising
  <2>3. ~(q[j][2] < q[k][2])
    BY <2>2, NumbersNat
  <2>4. new \subseteq old
    BY <2>3 DEF Overtakers
  <2>5. Cardinality(new) \in Nat /\ Cardinality(new) <= Cardinality(old)
    BY <1>3, <2>4, FS_Subset, FS_CardinalityType
  <2>6. (IF j <= b THEN n + 1 - b ELSE 0) <= (IF i <= d THEN n + 1 - d ELSE 0)
    BY <1>1, <1>6, <2>1
  <2> HIDE DEF j, old, new
  <2>7. /\ (IF j <= b THEN n + 1 - b ELSE 0) \in Int
        /\ (IF i <= d THEN n + 1 - d ELSE 0) \in Int
    BY <1>1
  <2>8. Cardinality(new) <= (IF i <= d THEN n + 1 - d ELSE 0)
    BY <1>3, <1>4, <2>5, <2>6, <2>7
  <2> QED
    BY <1>2, <2>8 DEF new
<1> QED
  BY <1>1, <1>5, <1>6

\* An input still in the queue when a newer one is handed out had been overtaken by
\* fewer than n of those handed out before.
LEMMA WithinDelivers ==
    ASSUME NEW q \in Seq(Inputs), NEW G \in SUBSET Inputs, IsFiniteSet(G),
           NEW b \in Nat, NEW n \in Nat, b <= n, Within(q, b, n, G),
           NEW i \in 1 .. Len(q), NEW x \in G, q[i][2] < x[2],
           NEW S \in SUBSET G, x \notin S
    PROVE  Cardinality(Overtakers(S, q[i])) < n
<1> DEFINE all == Overtakers(G, q[i])
           some == Overtakers(S, q[i])
<1>1. IsFiniteSet(all) /\ Cardinality(all) \in Nat
  <2>1. all \subseteq G
    BY DEF Overtakers
  <2> QED
    BY <2>1, FS_Subset, FS_CardinalityType
<1>2. some \cup {x} \subseteq all /\ x \notin some /\ some \subseteq all
  BY DEF Overtakers
<1>3. Cardinality(all) <= (IF i <= b THEN n + 1 - b ELSE 0)
  BY DEF Within
<1> HIDE DEF all, some
<1>4. IsFiniteSet(some) /\ Cardinality(some) \in Nat
  BY <1>1, <1>2, FS_Subset, FS_CardinalityType
<1>5. Cardinality(some \cup {x}) = Cardinality(some) + 1
  BY <1>2, <1>4, FS_AddElement
<1>6. Cardinality(some) + 1 <= Cardinality(all)
  BY <1>1, <1>2, <1>5, FS_Subset
<1>7. i \in Nat /\ i >= 1
  BY LenProperties
<1>8. i <= b
  BY <1>1, <1>3, <1>4, <1>6
<1>9. Cardinality(all) <= n + 1 - b /\ b >= 1
  BY <1>3, <1>7, <1>8
<1> QED
  BY <1>1, <1>4, <1>6, <1>9 DEF some
-----------------------------------------------------------------------------
(* Each medium's calls implement a ReorderChannel. *)

\* A context that has coded the inputs G of medium m; the next number is top.
Sound(c, G, m, top) ==
    /\ \A x \in G \cup Elements(c.held) : x \in {m} \X Nat /\ x[2] < top
    /\ Rising(c.held) /\ Elements(c.held) \cap G = {} /\ IsFiniteSet(G)
    /\ Within(c.held, c.behind, c.bframes, G)

\* What one send does to the set of inputs inside, if x is what it offers.
Takes(before, after, x) ==
    \/ after = before
    \/ /\ x \in after \ before
       /\ \/ after = before \cup {x}
          \/ \E lost \in before : after = (before \cup {x}) \ {lost}

LEMMA DoEncodeSound ==
    ASSUME NEW c \in Contexts, ~c.valid, c.behind <= c.bframes,
           NEW m \in MediaTypes, NEW x \in {m} \X Nat, NEW G, Sound(c, G, m, x[2]),
           NEW r \in DoEncode(c, x)
    PROVE  /\ Sound(r.cx, G \cup {z \in {r.cx.pkt} : r.cx.valid}, m, x[2] + 1)
           /\ r.cx.valid => r.cx.pkt \notin G
           /\ Takes(Elements(c.held), Inside(r.cx), x)
<1> DEFINE q == Append(c.held, x)
           H == G \cup {z \in {r.cx.pkt} : r.cx.valid}
<1>1. /\ c.held \in Seq(Inputs) /\ c.behind \in Nat /\ c.bframes \in Nat
      /\ x \in Inputs /\ x[2] \in Nat /\ {m} \X Nat \subseteq Inputs
  BY DEF Contexts, Inputs
<1>2. /\ \A y \in G \cup Elements(c.held) : y \in {m} \X Nat /\ y[2] < x[2]
      /\ Rising(c.held) /\ Elements(c.held) \cap G = {} /\ IsFiniteSet(G)
      /\ Within(c.held, c.behind, c.bframes, G)
  BY DEF Sound
<1>3. G \in SUBSET Inputs
  BY <1>1, <1>2
<1>4. /\ Rising(q) /\ Elements(q) = Elements(c.held) \cup {x} /\ q \in Seq(Inputs)
      /\ Within(q, c.behind, c.bframes, G)
  BY <1>1, <1>2, <1>3, AppendElements, AppendWithin
<1>5. x \notin G /\ x \notin Elements(c.held)
  BY <1>1, <1>2
<1>6. \A y \in G \cup Elements(q) : y \in {m} \X Nat /\ y[2] < x[2] + 1
  <2> SUFFICES ASSUME NEW y \in G \cup Elements(q)
               PROVE  y \in {m} \X Nat /\ y[2] < x[2] + 1
    OBVIOUS
  <2>1. CASE y = x
    BY <1>1, <2>1
  <2>2. CASE y # x
    <3>1. y \in {m} \X Nat /\ y[2] < x[2]
      BY <1>2, <1>4, <2>2
    <3>2. y[2] \in Nat
      BY <1>1, <3>1, NumbersNat
    <3> QED
      BY <1>1, <3>1, <3>2
  <2> QED
    BY <2>1, <2>2
<1>7. CASE r = Rejected(c)
  <2>1. /\ r.cx.held = c.held /\ r.cx.behind = c.behind /\ r.cx.bframes = c.bframes
        /\ r.cx.valid = FALSE
    BY <1>7 DEF Rejected, Result, Contexts
  <2>2. H = G /\ Inside(r.cx) = Elements(c.held)
    BY <2>1 DEF Inside
  <2> QED
    BY <1>2, <1>4, <1>6, <2>1, <2>2 DEF Sound, Takes
<1>8. CASE r = Queued(c, q)
  <2> HIDE DEF q
  <2>1. /\ r.cx.held = q /\ r.cx.behind = c.behind /\ r.cx.bframes = c.bframes
        /\ r.cx.valid = FALSE
    BY <1>8 DEF Queued, Result, Contexts
  <2>2. H = G /\ Inside(r.cx) = Elements(q)
    BY <2>1 DEF Inside
  <2>3. Elements(q) \cap G = {}
    BY <1>2, <1>4, <1>5
  <2> QED
    BY <1>2, <1>4, <1>5, <1>6, <2>1, <2>2, <2>3 DEF Sound, Takes
<1>9. ASSUME NEW k \in Codable(c, q),
             r = Result("OK", Coded(c, q, k)) \/ r = Result("ERROR", Lost(c, q, k))
      PROVE  /\ Sound(r.cx, H, m, x[2] + 1)
             /\ r.cx.valid => r.cx.pkt \notin G
             /\ Takes(Elements(c.held), Inside(r.cx), x)
  <2> HIDE DEF q
  <2>1. k \in 1 .. Len(q) /\ k <= (IF c.behind > 0 THEN c.behind ELSE c.bframes + 1)
    BY DEF Codable
  <2>2. /\ r.cx.held = Without(q, k) /\ r.cx.behind = Behind(c, k)
        /\ r.cx.bframes = c.bframes
        /\ r.cx.valid = FALSE \/ (r.cx.valid = TRUE /\ r.cx.pkt = q[k])
    <3>1. CASE r = Result("OK", Coded(c, q, k))
      BY <3>1 DEF Coded, Result, Contexts
    <3>2. CASE r = Result("ERROR", Lost(c, q, k))
      BY <3>2 DEF Lost, Result, Contexts
    <3> QED
      BY <1>9, <3>1, <3>2
  <2>3. /\ Rising(Without(q, k)) /\ Elements(Without(q, k)) = Elements(q) \ {q[k]}
    BY <1>4, <2>1, WithoutElements
  <2>4. q[k] \in Elements(q) /\ q[k] \in Inputs /\ q[k] \notin G
    <3>1. q[k] \in Elements(q)
      BY <2>1 DEF Elements
    <3> QED
      BY <1>2, <1>4, <1>5, <2>1, <3>1, ElementOfSeq
  <2>5. H \in SUBSET (G \cup {q[k]}) /\ IsFiniteSet(H)
    <3>1. H \subseteq G \cup {q[k]}
      BY <2>2
    <3>2. IsFiniteSet(G \cup {q[k]})
      BY <1>2, FS_AddElement
    <3> QED
      BY <3>1, <3>2, FS_Subset
  <2>6. Within(Without(q, k), Behind(c, k), c.bframes, H)
    <3>1. Behind(c, k) = (IF c.behind > 0 THEN c.behind - 1 ELSE k - 1)
      BY DEF Behind
    <3> QED
      BY <1>1, <1>2, <1>3, <1>4, <2>1, <2>5, <3>1, CodingWithin
  <2>7. Sound(r.cx, H, m, x[2] + 1)
    <3>1. \A y \in H \cup Elements(r.cx.held) : y \in {m} \X Nat /\ y[2] < x[2] + 1
      BY <1>6, <2>2, <2>3, <2>4, <2>5
    <3>2. Elements(r.cx.held) \cap H = {}
      BY <1>2, <1>4, <1>5, <2>2, <2>3, <2>5
    <3> QED
      BY <2>2, <2>3, <2>5, <2>6, <3>1, <3>2 DEF Sound
  <2>8. Takes(Elements(c.held), Inside(r.cx), x)
    <3>1. CASE r.cx.valid = TRUE
      <4>1. Inside(r.cx) = Elements(c.held) \cup {x}
        BY <1>4, <2>2, <2>3, <2>4, <3>1 DEF Inside
      <4> QED
        BY <1>5, <4>1 DEF Takes
    <3>2. CASE r.cx.valid = FALSE
      <4>1. Inside(r.cx) = (Elements(c.held) \cup {x}) \ {q[k]}
        BY <1>4, <2>2, <2>3, <3>2 DEF Inside
      <4>2. CASE q[k] = x
        BY <1>5, <4>1, <4>2 DEF Takes
      <4>3. CASE q[k] # x
        BY <1>4, <1>5, <2>4, <4>1, <4>3 DEF Takes
      <4> QED
        BY <4>2, <4>3
    <3> QED
      BY <2>2, <3>1, <3>2
  <2> QED
    BY <2>2, <2>4, <2>7, <2>8
<1>10. \/ r = Rejected(c)
       \/ r = Queued(c, q)
       \/ \E k \in Codable(c, q) : \/ r = Result("OK", Coded(c, q, k))
                                   \/ r = Result("ERROR", Lost(c, q, k))
  BY <1>1, DoEncodeCases
<1>11. CASE \E k \in Codable(c, q) : \/ r = Result("OK", Coded(c, q, k))
                                     \/ r = Result("ERROR", Lost(c, q, k))
  <2>1. PICK k \in Codable(c, q) : \/ r = Result("OK", Coded(c, q, k))
                                   \/ r = Result("ERROR", Lost(c, q, k))
    BY <1>11
  <2> QED
    BY <1>9, <2>1
<1> QED
  BY <1>7, <1>8, <1>10, <1>11
-----------------------------------------------------------------------------
\* What has left the queue of a medium's codec: it is in the context, in the call or
\* with the caller.
Gone(m) ==
    Elements(out[m]) \cup {x \in {packet[m]} : x # NoInput}
    \cup {x \in {cx[m].pkt} : cx[m].valid}

\* Inputs are numbered in the order of the calls: what a call is about to send has
\* a number of its own.
NextNumber(m) == IF pc[m] = "send" THEN sent[m] ELSE sent[m] + 1

Ordered(m) ==
    /\ pc[m] = "send" => arg[m] = <<m, sent[m]>>
    /\ packet[m] \notin Elements(out[m])
    /\ cx[m].valid => cx[m].pkt \notin Elements(out[m])
    /\ Sound(cx[m], Gone(m), m, NextNumber(m))

AllOrdered == \A m \in MediaTypes : Ordered(m)

RInv == CInv /\ RestTyped /\ AllOrdered

\* The steps of a ReorderChannel, for one medium.
Channel(m, before, after, given, given1) ==
    \/ /\ \E x \in after \ before :
             /\ x \in {m} \X Nat
             /\ \A y \in before \cup Elements(given) : y[2] < x[2]
             /\ \/ after = before \cup {x}
                \/ \E lost \in before : after = (before \cup {x}) \ {lost}
       /\ given1 = given
    \/ \E x \in before :
          /\ \A y \in before :
                y[2] < x[2] => Cardinality(Overtakers(Elements(given), y)) < BFrames[m]
          /\ after = before \ {x}
          /\ given1 = Append(given, x)
    \/ after = {} /\ given1 = given
    \/ after = {} /\ given1 = <<>>
    \/ after = before /\ given1 = given

Maps(m) == Channel(m, Pending(m), Pending(m)', out[m], out'[m])

LEMMA SameCardinality ==
    \A S : Video!Cardinality(S) = Cardinality(S) /\ Audio!Cardinality(S) = Cardinality(S)
  BY DEF Cardinality, Video!Cardinality, Audio!Cardinality

LEMMA EmptyElements == Elements(<<>>) = {}
  BY DEF Elements

\* A context with nothing in it.
LEMMA FreshIsSound ==
    ASSUME NEW c, c.held = <<>>, NEW G, NEW m, NEW top, IsFiniteSet(G),
           \A x \in G : x \in {m} \X Nat /\ x[2] < top
    PROVE  Sound(c, G, m, top)
  BY EmptyElements DEF Sound, Rising, Within

LEMMA CreateMaps == ASSUME RInv, Create, NEW m \in MediaTypes PROVE Ordered(m)' /\ Maps(m)
<1>1. /\ pc'[m] = "idle" /\ packet'[m] = NoInput /\ out'[m] = <<>>
      /\ cx'[m].held = <<>> /\ cx'[m].valid = FALSE
  BY DEF RInv, CInv, IdleWithoutHandle, PacketsInPlace, Create, Empty, OpenContext
<1>2. Gone(m)' = {} /\ Pending(m)' = {}
  BY <1>1, EmptyElements DEF Gone, Pending, Inside
<1>3. Sound(cx'[m], {}, m, NextNumber(m)')
  BY <1>1, FreshIsSound, FS_EmptySet
<1>4. packet'[m] \notin Elements(out'[m])
  BY <1>1, EmptyElements
<1> QED
  BY <1>1, <1>2, <1>3, <1>4 DEF Ordered, Maps, Channel

LEMMA ReleaseMaps == ASSUME RInv, Release, NEW m \in MediaTypes PROVE Ordered(m)' /\ Maps(m)
<1>1. /\ pc[m] = "idle" /\ packet[m] = NoInput /\ ~cx[m].valid
      /\ UNCHANGED <<pc, packet, out, sent>>
      /\ cx'[m].held = <<>> /\ cx'[m].valid = FALSE
  BY DEF RInv, CInv, PacketsInPlace, Release, Closed, OpenContext
<1>2. Gone(m)' = Gone(m) /\ Pending(m)' = {} /\ NextNumber(m)' = NextNumber(m)
  BY <1>1, EmptyElements DEF Gone, Pending, Inside, NextNumber
<1>3. Ordered(m)
  BY DEF RInv, AllOrdered
<1>4. Sound(cx'[m], Gone(m), m, NextNumber(m))
  BY <1>1, <1>3, FreshIsSound DEF Ordered, Sound
<1> QED
  BY <1>1, <1>2, <1>3, <1>4 DEF Ordered, Maps, Channel

\* A step that leaves a medium's context, packets and numbers alone.
LEMMA SameMaps ==
    ASSUME RInv, NEW m \in MediaTypes, cx'[m] = cx[m], packet'[m] = packet[m],
           out'[m] = out[m], NextNumber(m)' = NextNumber(m),
           pc'[m] = "send" => arg'[m] = <<m, sent'[m]>>
    PROVE  Ordered(m)' /\ Maps(m)
<1>1. Gone(m)' = Gone(m) /\ Pending(m)' = Pending(m)
  BY DEF Gone, Pending, Inside
<1>2. Ordered(m)
  BY DEF RInv, AllOrdered
<1> QED
  BY <1>1, <1>2 DEF Ordered, Maps, Channel

LEMMA CallMaps == ASSUME RInv, NEW m \in MediaTypes, Call(m) PROVE Ordered(m)' /\ Maps(m)
<1>1. /\ pc[m] = "idle" /\ pc'[m] = "send" /\ sent'[m] = sent[m] + 1
      /\ arg'[m] = <<m, sent[m] + 1>> /\ cx' = cx /\ out' = out
      /\ packet[m] = NoInput /\ packet'[m] = NoInput
  BY DEF RInv, CInv, Typed, PacketsInPlace, Call
<1>2. NextNumber(m)' = NextNumber(m)
  BY <1>1 DEF NextNumber
<1> QED
  BY <1>1, <1>2, SameMaps

LEMMA SendMaps == ASSUME RInv, NEW m \in MediaTypes, Send(m) PROVE Ordered(m)' /\ Maps(m)
<1> DEFINE c == cx[m]
           x == arg[m]
<1>1. /\ x \in Inputs /\ frame[FrameOf(m)] = x /\ c \in Contexts /\ ~c.valid
      /\ packet[m] = NoInput /\ pc[m] = "send" /\ c.behind <= c.bframes
  BY DEF RInv, CInv, RestTyped, OpenedAs, Typed, InputsInPlace, PacketsInPlace, Send
<1>0. Ordered(m)
  BY DEF RInv, AllOrdered
<1>2. /\ x \in {m} \X Nat /\ x[2] = sent[m] /\ sent[m] \in Nat
      /\ Sound(c, Gone(m), m, x[2]) /\ NoInput \notin Elements(out[m])
  <2>1. x = <<m, sent[m]>> /\ sent[m] \in Nat
    BY <1>0, <1>1 DEF RInv, CInv, Typed, Ordered
  <2>2. x \in {m} \X Nat /\ x[2] = sent[m]
    BY <2>1
  <2>3. Sound(c, Gone(m), m, sent[m]) /\ NoInput \notin Elements(out[m])
    BY <1>0, <1>1 DEF Ordered, NextNumber
  <2> QED
    BY <2>1, <2>2, <2>3
<1>3. PICK r \in DoEncode(c, x) :
          /\ cx' = [cx EXCEPT ![m] = r.cx]
          /\ IF r.ret = "OK" THEN pc' = [pc EXCEPT ![m] = "receive"] ELSE Return(m, r.ret)
  BY <1>1 DEF Send, SendFrame
<1>4. /\ cx'[m] = r.cx /\ pc'[m] # "send" /\ UNCHANGED <<packet, out, sent>>
  BY <1>3 DEF RInv, CInv, Typed, Return, Send
<1>5. /\ Gone(m) = Elements(out[m]) /\ Pending(m) = Elements(c.held)
      /\ Gone(m)' = Gone(m) \cup {z \in {r.cx.pkt} : r.cx.valid}
      /\ Pending(m)' = Inside(r.cx)
      /\ NextNumber(m)' = x[2] + 1
  BY <1>1, <1>2, <1>4 DEF Gone, Pending, Inside, NextNumber
<1> HIDE DEF c, x
<1>6. /\ Sound(r.cx, Gone(m)', m, x[2] + 1)
      /\ r.cx.valid => r.cx.pkt \notin Gone(m)
      /\ Takes(Elements(c.held), Inside(r.cx), x)
  <2> DEFINE H == Gone(m) \cup {z \in {r.cx.pkt} : r.cx.valid}
  <2>1. Sound(r.cx, H, m, x[2] + 1)
        /\ (r.cx.valid => r.cx.pkt \notin Gone(m))
        /\ Takes(Elements(c.held), Inside(r.cx), x)
    BY <1>1, <1>2, DoEncodeSound
  <2>2. Gone(m)' = H
    BY <1>5
  <2> QED
    BY <2>1, <2>2
<1>7. Ordered(m)'
  BY <1>1, <1>2, <1>4, <1>5, <1>6 DEF Ordered
<1>8. \A y \in Elements(c.held) \cup Elements(out[m]) : y[2] < x[2]
  BY <1>2, <1>5 DEF Sound
<1>9. Maps(m)
  BY <1>2, <1>4, <1>5, <1>6, <1>8 DEF Maps, Channel, Takes
<1> QED
  BY <1>7, <1>9

LEMMA ReceiveMaps ==
    ASSUME RInv, NEW m \in MediaTypes, Receive(m) PROVE Ordered(m)' /\ Maps(m)
<1> DEFINE c == cx[m]
           d == IF c.valid THEN [c EXCEPT !.pkt = NoInput, !.valid = FALSE] ELSE c
<1>1. /\ c \in Contexts /\ (c.valid => c.pkt # NoInput) /\ packet[m] = NoInput
      /\ pc[m] = "receive" /\ Ordered(m)
  BY DEF RInv, AllOrdered, CInv, Typed, PacketsInPlace, Receive
<1>2. /\ cx'[m] = d /\ packet'[m] = (IF c.valid THEN c.pkt ELSE packet[m])
      /\ pc'[m] = "copy" /\ UNCHANGED <<sent, out>>
  BY DEF RInv, CInv, Typed, Receive, ReceivePacket, Result, handleVars
<1>3. /\ ~d.valid /\ d.held = c.held /\ d.behind = c.behind /\ d.bframes = c.bframes
  BY <1>1 DEF Contexts
<1> HIDE DEF c, d
<1>4. Gone(m)' = Gone(m) /\ Pending(m)' = Pending(m)
  BY <1>1, <1>2, <1>3 DEF Gone, Pending, Inside, c
<1>5. NextNumber(m)' = NextNumber(m)
  BY <1>1, <1>2 DEF NextNumber
<1>6. Sound(d, Gone(m), m, NextNumber(m))
  BY <1>1, <1>3 DEF Ordered, Sound, c
<1>7. Ordered(m)'
  BY <1>1, <1>2, <1>3, <1>4, <1>5, <1>6 DEF Ordered, c
<1> QED
  BY <1>2, <1>4, <1>7 DEF Maps, Channel

LEMMA CopyOutMaps ==
    ASSUME RInv, NEW m \in MediaTypes, CopyOut(m) PROVE Ordered(m)' /\ Maps(m)
<1> DEFINE c == cx[m]
           x == packet[m]
<1>1. /\ c \in Contexts /\ ~c.valid /\ pc[m] = "copy" /\ Ordered(m) /\ out[m] \in Seq(Inputs)
      /\ x \in Inputs \cup {NoInput} /\ c.behind <= c.bframes /\ c.bframes = BFrames[m]
      /\ NoInput \notin Inputs
  BY EncoderAssumption
     DEF RInv, AllOrdered, CInv, Typed, RestTyped, OpenedAs, PacketsInPlace, CopyOut, Slot
<1>2. /\ packet'[m] = NoInput /\ pc'[m] = "idle" /\ UNCHANGED <<cx, sent>>
      /\ out'[m] = (IF x = NoInput THEN out[m] ELSE Append(out[m], x))
  BY DEF RInv, CInv, Typed, CopyOut, Return
<1>3. NextNumber(m)' = NextNumber(m)
  BY <1>1, <1>2 DEF NextNumber
<1>4. CASE x = NoInput
  <2>1. packet'[m] = packet[m] /\ out'[m] = out[m] /\ cx'[m] = cx[m]
    BY <1>2, <1>4
  <2> QED
    BY <1>2, <1>3, <2>1, SameMaps
<1>5. CASE x # NoInput
  <2> HIDE DEF c, x
  <2>1. x \in Inputs
    BY <1>1, <1>5
  <2>2. Elements(out'[m]) = Elements(out[m]) \cup {x}
    <3>1. /\ Len(Append(out[m], x)) = Len(out[m]) + 1 /\ Len(out[m]) \in Nat
          /\ \A i \in 1 .. Len(out[m]) : Append(out[m], x)[i] = out[m][i]
          /\ Append(out[m], x)[Len(out[m]) + 1] = x
      BY <1>1, <2>1, AppendProperties, LenProperties
    <3>2. out'[m] = Append(out[m], x)
      BY <1>2, <1>5
    <3>3. Len(out[m]) + 1 \in 1 .. Len(out'[m])
      BY <3>1, <3>2
    <3>4. Elements(out'[m]) \subseteq Elements(out[m]) \cup {x}
      BY <3>1, <3>2 DEF Elements
    <3>5. Elements(out[m]) \subseteq Elements(out'[m])
      <4> SUFFICES ASSUME NEW i \in 1 .. Len(out[m]) PROVE out[m][i] \in Elements(out'[m])
        BY DEF Elements
      <4>1. i \in 1 .. Len(out'[m]) /\ out'[m][i] = out[m][i]
        BY <3>1, <3>2
      <4> QED
        BY <4>1 DEF Elements
    <3>6. x \in Elements(out'[m])
      BY <3>1, <3>2, <3>3 DEF Elements
    <3> QED
      BY <3>4, <3>5, <3>6
  <2>3. Gone(m)' = Gone(m) /\ Gone(m) = Elements(out[m]) \cup {x}
    BY <1>1, <1>2, <1>5, <2>2 DEF Gone, c, x
  <2>4. Pending(m) = {x} \cup Elements(c.held) /\ Pending(m)' = Elements(c.held)
    BY <1>1, <1>2, <1>5 DEF Pending, Inside, c, x
  <2>5. /\ Sound(c, Gone(m), m, NextNumber(m)) /\ x \notin Elements(out[m])
    BY <1>1 DEF Ordered, c, x
  <2>6. NoInput \notin Elements(out'[m])
    <3>1. \A y \in Gone(m) : y \in {m} \X Nat
      BY <2>5 DEF Sound
    <3>2. NoInput \notin Gone(m)
      BY <1>1, <3>1 DEF Inputs
    <3> QED
      BY <2>2, <2>3, <3>2
  <2>7. Ordered(m)'
    BY <1>1, <1>2, <1>3, <2>3, <2>5, <2>6 DEF Ordered, c
  <2>8. /\ x \notin Elements(c.held) /\ x \in Gone(m)
    BY <2>3, <2>5 DEF Sound
  <2>9. ASSUME NEW y \in Pending(m), y[2] < x[2]
        PROVE  Cardinality(Overtakers(Elements(out[m]), y)) < BFrames[m]
    <3>1. y \in Elements(c.held)
      BY <2>1, <2>4, <2>9, NumbersNat
    <3>2. PICK i \in 1 .. Len(c.held) : y = c.held[i]
      BY <3>1 DEF Elements
    <3>3. /\ c.held \in Seq(Inputs) /\ c.behind \in Nat /\ c.bframes \in Nat
          /\ Gone(m) \in SUBSET Inputs /\ IsFiniteSet(Gone(m))
          /\ Within(c.held, c.behind, c.bframes, Gone(m))
      BY <1>1, <2>5 DEF Sound, Contexts, Inputs
    <3>4. Elements(out[m]) \in SUBSET Gone(m)
      BY <2>3
    <3> QED
      BY <1>1, <2>5, <2>8, <2>9, <3>2, <3>3, <3>4, WithinDelivers
  <2>10. Maps(m)
    <3>1. x \in Pending(m) /\ Pending(m)' = Pending(m) \ {x}
      BY <2>4, <2>8
    <3>2. out'[m] = Append(out[m], x)
      BY <1>2, <1>5
    <3> QED
      BY <2>9, <3>1, <3>2 DEF Maps, Channel
  <2> QED
    BY <2>7, <2>10
<1> QED
  BY <1>4, <1>5

LEMMA StepMaps ==
    ASSUME RInv, [Next]_vars, NEW m \in MediaTypes PROVE Ordered(m)' /\ Maps(m)
<1>1. Ordered(m)
  BY DEF RInv, AllOrdered
<1>2. CASE Create
  BY <1>2, CreateMaps
<1>3. CASE Release
  BY <1>3, ReleaseMaps
<1>4. ASSUME NEW n \in MediaTypes, CallInvalid(n) PROVE Ordered(m)' /\ Maps(m)
  <2>1. /\ UNCHANGED <<cx, packet, sent, out>>
        /\ pc' = [pc EXCEPT ![n] = "idle"] /\ pc[n] = "idle"
        /\ arg' = [arg EXCEPT ![n] = NoInput]
    BY <1>4 DEF CallInvalid, Return
  <2>2. pc'[m] = pc[m] /\ (pc[m] = "send" => arg'[m] = arg[m])
    BY <2>1 DEF RInv, CInv, Typed
  <2> QED
    BY <1>1, <2>1, <2>2, SameMaps DEF Ordered, NextNumber
<1>5. ASSUME NEW n \in MediaTypes, Call(n) \/ Step(n), n # m PROVE Ordered(m)' /\ Maps(m)
  <2>1. /\ cx'[m] = cx[m] /\ packet'[m] = packet[m] /\ out'[m] = out[m]
        /\ pc'[m] = pc[m] /\ arg'[m] = arg[m] /\ sent'[m] = sent[m]
    <3>1. CASE Call(n)
      BY <1>5, <3>1 DEF Call, RInv, CInv, Typed
    <3>2. CASE Send(n)
      BY <1>5, <3>2 DEF Send, Return, RInv, CInv, Typed
    <3>3. CASE Receive(n)
      BY <1>5, <3>3 DEF Receive, RInv, CInv, Typed
    <3>4. CASE CopyOut(n)
      BY <1>5, <3>4 DEF CopyOut, Return, RInv, CInv, Typed
    <3> QED
      BY <1>5, <3>1, <3>2, <3>3, <3>4 DEF Step
  <2> QED
    BY <1>1, <2>1, SameMaps DEF Ordered, NextNumber
<1>6. CASE Call(m)
  BY <1>6, CallMaps
<1>7. CASE Send(m)
  BY <1>7, SendMaps
<1>8. CASE Receive(m)
  BY <1>8, ReceiveMaps
<1>9. CASE CopyOut(m)
  BY <1>9, CopyOutMaps
<1>10. CASE UNCHANGED vars
  BY <1>1, <1>10, SameMaps DEF vars, Ordered, NextNumber
<1> QED
  BY <1>2, <1>3, <1>4, <1>5, <1>6, <1>7, <1>8, <1>9, <1>10 DEF Next, Step

\* Each medium's packets are of its own inputs, come out at most once each, and none
\* is overtaken by more than the B-frames its encoder was opened with.
THEOREM Refinement == Spec => MediaInOrder
<1>1. Init => AllOrdered /\ Video!Init /\ Audio!Init
  <2> SUFFICES ASSUME Init
               PROVE  AllOrdered /\ Video!Init /\ Audio!Init
    OBVIOUS
  <2>1. \A m \in MediaTypes :
            /\ cx[m].held = <<>> /\ cx[m].valid = FALSE /\ packet[m] = NoInput
            /\ out[m] = <<>> /\ pc[m] = "idle"
    BY DEF Init, Closed, OpenContext, Empty
  <2>2. \A m \in MediaTypes : Gone(m) = {} /\ Pending(m) = {}
    BY <2>1, EmptyElements DEF Gone, Pending, Inside
  <2>3. \A m \in MediaTypes : Sound(cx[m], {}, m, NextNumber(m))
    BY <2>1, FreshIsSound, FS_EmptySet
  <2>4. \A m \in MediaTypes : Ordered(m)
    BY <2>1, <2>2, <2>3, EmptyElements DEF Ordered
  <2>5. "video" \in MediaTypes /\ "audio" \in MediaTypes
    BY DEF MediaTypes
  <2> QED
    BY <2>1, <2>2, <2>4, <2>5 DEF AllOrdered, Video!Init, Audio!Init
<1>2. RInv /\ [Next]_vars => AllOrdered'
  BY StepMaps DEF AllOrdered
<1>3. RInv /\ [Next]_vars => [Video!Next]_Video!vars /\ [Audio!Next]_Audio!vars
  <2> SUFFICES ASSUME RInv, [Next]_vars
               PROVE  [Video!Next]_Video!vars /\ [Audio!Next]_Audio!vars
    OBVIOUS
  <2>1. Maps("video") /\ Maps("audio")
    BY StepMaps DEF MediaTypes
  <2>2. [Video!Next]_Video!vars
    BY <2>1, SameCardinality
       DEF Maps, Channel, Elements, Overtakers, Video!Next, Video!vars, Video!Accept,
                Video!Deliver, Video!Close, Video!Reset, Video!Items, Video!Given,
                Video!Overtook
  <2>3. [Audio!Next]_Audio!vars
    BY <2>1, SameCardinality
       DEF Maps, Channel, Elements, Overtakers, Audio!Next, Audio!vars, Audio!Accept,
                Audio!Deliver, Audio!Close, Audio!Reset, Audio!Items, Audio!Given,
                Audio!Overtook
  <2> QED
    BY <2>2, <2>3
<1>4. Spec => []AllOrdered
  BY <1>1, <1>2, Invariance, RestIsTyped, PTL DEF Spec, RInv
<1> QED
  BY <1>1, <1>3, <1>4, Invariance, RestIsTyped, PTL
     DEF Spec, RInv, MediaInOrder, Video!Spec, Audio!Spec
=============================================================================
