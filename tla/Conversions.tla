---------------------------- MODULE Conversions -----------------------------
(***************************************************************************)
(* What the bridge does to the data that pass through it: planes of a      *)
(* picture copied as if its lines touched, samples taken apart and put     *)
(* together, the header in front of an AAC packet, and the escaping of a   *)
(* caption.  Each is set against its reader on the other side.             *)
(***************************************************************************)
EXTENDS Integers, Sequences

CONSTANT Requests            \* bound: the inputs that are tried

Characters == {"letter", "colon", "space", "bracket", "quote", "backslash", "percent"}

ASSUME RequestAssumption ==
    \A r \in Requests :
        /\ r.kind \in {"encodeYuv", "decodeYuv"} => r.w \in Nat /\ r.h \in Nat
        /\ r.kind = "pcm" => /\ r.samples \in Nat /\ r.channels \in Nat \ {0}
                            /\ r.size \in Nat \ {0} /\ r.perPcmSize \in Nat \ {0}
        /\ r.kind = "adts" => r.size \in Nat /\ r.channels \in Nat
        /\ r.kind = "caption" => r.text \in Seq(Characters)

-----------------------------------------------------------------------------
(* Pictures.  A plane is w by h; the pixel in column x of line y has number  *)
(* y * w + x in the array of the caller, which has no gaps.                  *)

AlignUp(n, a) == ((n + a - 1) \div a) * a        \* FFALIGN

\* The planes that CarEyeJni cuts out of an array of len bytes.
\* (Faulty variant: U is taken to follow half of the array.)
MutPlanes(len) == <<[at |-> 0, size |-> (len * 2) \div 3],
                    [at |-> len \div 2, size |-> len \div 6],
                    [at |-> (len * 5) \div 6, size |-> len \div 6]>>
Planes(len) == <<[at |-> 0, size |-> (len * 2) \div 3],
                 [at |-> (len * 2) \div 3, size |-> len \div 6],
                 [at |-> (len * 5) \div 6, size |-> len \div 6]>>

\* Widths and heights of the three planes of a YUV420P picture.
Width(w) == <<w, w \div 2, w \div 2>>
Height(h) == <<h, h \div 2, h \div 2>>

\* av_image_alloc(..., 16): the line sizes of the encoder's and of the caption's
\* picture.
ImageStride(w) == LET v == AlignUp(w, 8)
                  IN  [i \in 1 .. 3 |-> AlignUp(Width(v)[i], 16)]

\* update_frame_pool: the width grows by its lowest bit until all lines are
\* aligned.
LowestBit(n) == CHOOSE b \in {1, 2, 4, 8, 16, 32, 64, 128, 256} :
                    n % b = 0 /\ n % (2 * b) # 0
PoolWidths(w) ==
    LET grown[k \in 0 .. 10] == IF k = 0 THEN w
                                ELSE grown[k - 1] + LowestBit(grown[k - 1])
    IN  grown
PoolStride(w) ==
    LET v == AlignUp(w, 16)
        Aligned(k) == \A i \in 1 .. 3 : Width(PoolWidths(v)[k])[i] % 16 = 0
        n == CHOOSE k \in 0 .. 10 : Aligned(k) /\ \A j \in 0 .. k - 1 : ~Aligned(j)
    IN  Width(PoolWidths(v)[n])

\* CarEye_EncoderYUV and CarEye_OSD_Encode: one memcpy per plane into lines that
\* are stride apart.  Where the codec finds pixel p, as a number in the source;
\* -1: in bytes that were not copied.
CopiedIn(w, h, size, stride) ==
    [p \in 0 .. w * h - 1 |-> LET k == (p \div w) * stride + (p % w)
                              IN  IF k < size THEN k ELSE -1]

EncodeYuv(w, h) ==
    LET cut == Planes((w * h * 3) \div 2)
    IN  [i \in 1 .. 3 |-> [p \in 0 .. Width(w)[i] * Height(h)[i] - 1 |->
            LET k == CopiedIn(Width(w)[i], Height(h)[i], cut[i].size, ImageStride(w)[i])[p]
            IN  IF k = -1 THEN -1 ELSE cut[i].at + k]]

\* CarEye_DecoderYUV420: y_size bytes from the start of each plane.  The pixel
\* that byte k of the output holds; -1: padding behind a line.
CopiedOut(w, stride, n) ==
    [k \in 0 .. n - 1 |-> IF k % stride < w THEN (k \div stride) * w + (k % stride) ELSE -1]

DecodeYuv(w, h) ==
    [i \in 1 .. 3 |-> CopiedOut(Width(w)[i], PoolStride(w)[i],
                                IF i = 1 THEN w * h ELSE (w * h) \div 4)]

-----------------------------------------------------------------------------
(* Samples.  Sample s of channel c is number s * channels + c in PCM.         *)

\* CarEye_EncoderPCM's loops: the break leaves the inner one only, so once the
\* input is used up every further line still takes one sample.
\* (Faulty variant: the count is one sample ahead.)
MutTaken(k, n, channels) == IF n - k \in 1 .. channels THEN n - k - 1
                            ELSE IF n <= k THEN 1 ELSE channels
Taken(k, n, channels) == IF n - k \in 1 .. channels THEN n - k
                         ELSE IF n <= k THEN 1 ELSE channels

\* Which sample of the input goes to each place of the frame; -1: the place
\* keeps what an earlier block left there.
LineStarts(samples, channels, n) ==
    LET from[i \in 0 .. samples] ==
            IF i = 0 THEN 0 ELSE from[i - 1] + Taken(from[i - 1], n, channels)
    IN  from
Given(size, perPcmSize) == (size + perPcmSize - 1) \div perPcmSize
Deinterleave(samples, channels, size, perPcmSize) ==
    LET from == LineStarts(samples, channels, Given(size, perPcmSize))
    IN  [c \in 0 .. channels - 1 |-> [i \in 0 .. samples - 1 |->
            IF c < from[i + 1] - from[i] THEN from[i] + c ELSE -1]]

\* CarEye_DecoderPCM's loops.
Interleave(frame, samples, channels) ==
    [k \in 0 .. samples * channels - 1 |-> frame[k % channels][k \div channels]]

-----------------------------------------------------------------------------
(* The ADTS header. *)

SamplingFrequencies == <<96000, 88200, 64000, 48000, 44100, 32000, 24000, 22050,
                         16000, 12000, 11025, 8000, 7350, 0, 0, 0>>

GetAACSampleFrequencyIndex(rate) ==
    LET found == {i \in 0 .. 15 : SamplingFrequencies[i + 1] = rate}
    IN  IF found = {} THEN 11 ELSE CHOOSE i \in found : \A j \in found : i <= j

Byte(n) == n % 256

\* The header of a packet of size bytes, as CarEye_EncoderCreate and
\* CarEye_EncoderPCM write it.
\* (Faulty variant: the length leaves out the header.)
MutAdts(size, rate, channels) ==
    <<255, 241, Byte(64 + GetAACSampleFrequencyIndex(rate) * 4 + channels \div 4),
      Byte((channels % 4) * 64 + size \div 2048), Byte((size % 2048) \div 8),
      Byte((size % 8) * 32 + 31), 252>>
Adts(size, rate, channels) ==
    <<255, 241, Byte(64 + GetAACSampleFrequencyIndex(rate) * 4 + channels \div 4),
      Byte((channels % 4) * 64 + (7 + size) \div 2048), Byte(((7 + size) % 2048) \div 8),
      Byte(((7 + size) % 8) * 32 + 31), 252>>

\* avpriv_aac_parse_header.
ParseAdts(b) ==
    [sync |-> b[1] * 16 + b[2] \div 16, crcAbsent |-> b[2] % 2,
     objectType |-> b[3] \div 64 + 1, samplingIndex |-> (b[3] \div 4) % 16,
     channels |-> (b[3] % 2) * 4 + b[4] \div 64,
     size |-> (b[4] % 4) * 2048 + b[5] * 8 + b[6] \div 32,
     frames |-> (b[7] % 4) + 1]

-----------------------------------------------------------------------------
(* Captions.  A text is a sequence of kinds of character: those some reader   *)
(* treats specially, and "letter" for all others.                             *)

\* EncodeCode.
\* (Faulty variant: a backslash too few, or too many.)
MutEscaped(c) == IF c = "colon" THEN <<"backslash", "backslash", "colon">> ELSE <<c>>
Escaped(c) == IF c = "colon" THEN <<"backslash", "backslash", "backslash", "colon">>
                             ELSE <<c>>
EncodedParts(text) ==
    LET done[i \in 0 .. Len(text)] ==
            IF i = 0 THEN <<>> ELSE done[i - 1] \o Escaped(text[i])
    IN  done
EncodeCode(text) == EncodedParts(text)[Len(text)]

\* av_get_token, one character at a time: mode says what was just read, keep how
\* much of out is safe from the trimming of spaces.
TokenStart == [mode |-> "lead", out |-> <<>>, keep |-> 0]
Add(st, c, mode) == [st EXCEPT !.mode = mode, !.out = Append(@, c)]
AddKept(st, c) == [Add(st, c, "plain") EXCEPT !.keep = Len(st.out) + 1]
TokenStep(st, c, term) ==
    CASE st.mode = "done"                          -> [st EXCEPT !.mode = "excess"]
      [] st.mode = "excess"                        -> st
      [] st.mode = "escape"                        -> AddKept(st, c)
      [] st.mode = "quoted" /\ c # "quote"         -> Add(st, c, "quoted")
      [] st.mode = "quoted" /\ c = "quote"         -> [st EXCEPT !.mode = "plain",
                                                                 !.keep = Len(st.out)]
      [] st.mode = "lead" /\ c = "space"           -> st
      [] OTHER -> IF c \in term THEN [st EXCEPT !.mode = "done"]
                  ELSE CASE c = "backslash" -> [st EXCEPT !.mode = "escape"]
                         [] c = "quote"     -> [st EXCEPT !.mode = "quoted"]
                         [] OTHER           -> Add(st, c, "plain")

Trimmed(out, keep) ==
    LET kept == {n \in keep .. Len(out) : \A i \in n + 1 .. Len(out) : out[i] = "space"}
    IN  SubSeq(out, 1, CHOOSE n \in kept : \A k \in kept : n <= k)

\* The token, and whether something follows the character that ended it.
TokenStates(text, term) ==
    LET read[i \in 0 .. Len(text)] ==
            IF i = 0 THEN TokenStart ELSE TokenStep(read[i - 1], text[i], term)
    IN  read
GetToken(text, term) ==
    LET last == TokenStates(text, term)[Len(text)]
        out == IF last.mode = "escape" THEN Append(last.out, "backslash") ELSE last.out
    IN  [token |-> Trimmed(out, last.keep), ended |-> last.mode # "excess"]

\* expand_text: what is drawn; "refused" where it fails (a stray %).
Refused == <<"refused">>
ExpandStart == [mode |-> "plain", out |-> <<>>, stray |-> FALSE]
ExpandStep(st, c) ==
    IF st.mode = "escape" THEN Add(st, c, "plain")
    ELSE IF c = "backslash" THEN [st EXCEPT !.mode = "escape"]
    ELSE [Add(st, c, st.mode) EXCEPT !.stray = @ \/ c = "percent"]
ExpandStates(text) ==
    LET read[i \in 0 .. Len(text)] ==
            IF i = 0 THEN ExpandStart ELSE ExpandStep(read[i - 1], text[i])
    IN  read
Expand(text) ==
    LET last == ExpandStates(text)[Len(text)]
    IN  IF last.stray THEN Refused
        ELSE IF last.mode = "escape" THEN Append(last.out, "backslash") ELSE last.out

\* The option string's text='...' through the three readers: the graph's parser,
\* the filter's options, drawtext.
Drawn(text) ==
    LET graph == GetToken(<<"quote">> \o EncodeCode(text) \o <<"quote">>, {"bracket"})
        option == GetToken(graph.token, {"colon"})
    IN  IF graph.ended /\ option.ended THEN Expand(option.token) ELSE Refused

-----------------------------------------------------------------------------
(* One request, one answer. *)

VARIABLES request, answer
requestVars == <<request, answer>>

Pending == <<"pending">>
RequestInit == request \in Requests /\ answer = Pending

Asks(kind) == answer = Pending /\ request.kind = kind /\ UNCHANGED request

EncodesYuv == Asks("encodeYuv") /\ answer' = EncodeYuv(request.w, request.h)
DecodesYuv == Asks("decodeYuv") /\ answer' = DecodeYuv(request.w, request.h)
EncodesPcm == Asks("pcm") /\ answer' = Deinterleave(request.samples, request.channels,
                                                   request.size, request.perPcmSize)
WritesAdts == Asks("adts") /\ answer' = Adts(request.size, request.rate, request.channels)
Captions == Asks("caption") /\ answer' = Drawn(request.text)

Answer == EncodesYuv \/ DecodesYuv \/ EncodesPcm \/ WritesAdts \/ Captions

RequestSpec == RequestInit /\ [][Answer]_requestVars

Answered(kind) == request.kind = kind /\ answer # Pending

-----------------------------------------------------------------------------
(* Properties. *)

InPlace(w, h, at) == [p \in 0 .. w * h - 1 |-> at + p]

\* A picture of even size and at least two chroma lines reaches the codec, and the caller,
\* pixel for pixel if its width is a multiple of 32, and skewed if it is not:
\* the copies of both directions ignore the line size.
PicturesArrive ==
    LET w == request.w
        h == request.h
        Sent == <<InPlace(w, h, 0), InPlace(w \div 2, h \div 2, w * h),
                  InPlace(w \div 2, h \div 2, w * h + (w * h) \div 4)>>
        Decoded == [i \in 1 .. 3 |-> InPlace(Width(w)[i], Height(h)[i], 0)]
        Even == w % 2 = 0 /\ h % 2 = 0 /\ w >= 2 /\ h >= 4
    IN  /\ Answered("encodeYuv") /\ Even => (answer = Sent <=> w % 32 = 0)
        /\ Answered("decodeYuv") /\ Even => (answer = Decoded <=> w % 32 = 0)

\* Each sample of the caller's block, full or short, is where the encoder looks
\* for it, no block is read past the size of a full one, and putting a full
\* block together again gives what was taken apart.
SamplesArrive == Answered("pcm") =>
    LET n == request.samples
        ch == request.channels
        given == Given(request.size, request.perPcmSize)
    IN  /\ \A c \in 0 .. ch - 1, i \in 0 .. n - 1 :
              /\ i * ch + c < given => answer[c][i] = i * ch + c
              /\ answer[c][i] < n * ch
        /\ given >= n * ch =>
              \A k \in 0 .. n * ch - 1 : Interleave(answer, n, ch)[k] = k

\* libavcodec reads back from the header the length of header and packet, a rate of
\* the table and the channels, as long as the length fits in its 13 bits and the
\* channels in their 3.
HeaderParses == Answered("adts") /\ request.channels < 8 =>
    LET p == ParseAdts(answer)
        Standard == \E i \in 1 .. 13 : SamplingFrequencies[i] = request.rate
    IN  /\ p.sync = 4095 /\ p.crcAbsent = 1 /\ p.objectType = 2 /\ p.frames = 1
        /\ Standard => SamplingFrequencies[p.samplingIndex + 1] = request.rate
        /\ request.size + 7 < 8192 =>
              p.size = request.size + 7 /\ p.channels = request.channels

\* A text of letters, colons, spaces and what ends a filter, with no space at
\* either end, is drawn as it is.
Plain(text) == /\ text # <<>>
               /\ \A i \in 1 .. Len(text) : text[i] \in {"letter", "colon", "space", "bracket"}
               /\ text[1] # "space" /\ text[Len(text)] # "space"
CaptionArrives == Answered("caption") /\ Plain(request.text) => answer = request.text
=============================================================================
