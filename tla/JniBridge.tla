----------------------------- MODULE JniBridge ------------------------------
(***************************************************************************)
(* A session of MainActivity through FFmpegNative and CarEyeJni.c: create  *)
(* a handle; then read, call and write, round by round; then destroy.  A   *)
(* handle is a number in Java; an array is pinned, or copied and written   *)
(* back; and the function a wrapper ends in need not be the one it names.  *)
(* Sessions share nothing, so one is enough.                               *)
(***************************************************************************)
EXTENDS Integers, Sequences

CONSTANT MaxRounds               \* bound: frames read by a session

ASSUME BridgeAssumption == MaxRounds \in Nat

VARIABLES
    task,        \* what the session does: encode, decode or caption
    copies,      \* the virtual machine hands out copies of its arrays
    oneArray,    \* the same array is passed as input and output
    pc, round,   \* where the session is; the number of the frame it read last
    handle,      \* its handle: an object, null (0), or junk
    heap,        \* the parts of its object that are allocated
    java,        \* its arrays
    native,      \* the elements held for the array arguments
    ret,         \* what the last call returned
    made,        \* what the call of each round made, as the native code left it
    file,        \* what the session wrote, by round
    wild         \* a number that is no handle, or a field of another type, was followed

fixed == <<task, copies, oneArray>>
objects == <<handle, heap, wild>>
arrays == <<java, native>>
vars == <<fixed, pc, round, objects, arrays, ret, made, file>>

Tasks == {"encode", "decode", "caption"}
Pcs == {"start", "loop", "call", "output", "work", "input", "last", "returned",
        "close", "closed", "failed", "thrown"}

-----------------------------------------------------------------------------
\* An array has two parts, since a read or a result may fill it only partly; each
\* says what it holds and of which frame.
Piece(what, r) == [what |-> what, of |-> r]
Pieces == [what : {"none", "blank", "frame", "result", "captioned"}, of : 0 .. MaxRounds]
Contents == [head : Pieces, tail : Pieces]
Whole(p) == [head |-> p, tail |-> p]
Blank == Whole(Piece("blank", 0))
None == Whole(Piece("none", 0))            \* no elements are held

\* n parts of an array are stored, or taken.
Sizes == {1, 2}
Put(c, n, p) == IF n = 2 THEN Whole(p) ELSE [head |-> p, tail |-> c.tail]
PartOf(c, n) == IF n = 2 THEN c ELSE [head |-> c.head, tail |-> Piece("none", 0)]

Arrays == {"data", "out_data"}
Arguments == {"frame", "OutFrame"}

\* The array behind an argument.
ArrayOf(arg) == IF arg = "frame" \/ oneArray THEN "data" ELSE "out_data"

\* The structures behind a handle: their first fields, in order.
\* (Faulty variant: the decoder's fields by medium.)
MutLayout(kind) == IF kind = "caption" THEN <<"frame", "filter">>
                   ELSE IF kind = "decode" THEN <<"context", "frame", "context", "frame">>
                   ELSE <<"context", "context", "frame", "frame">>
Layout(kind) == IF kind = "caption" THEN <<"frame", "filter">>
                ELSE <<"context", "context", "frame", "frame">>

\* What a complete object has: itself (0), its fields, and the picture of
\* av_image_alloc, which no frame owns.
Picture == 5
Object(kind) == (0 .. Len(Layout(kind))) \cup (IF kind = "decode" THEN {} ELSE {Picture})

Init ==
    /\ task \in Tasks /\ copies \in BOOLEAN
    /\ oneArray \in (IF task = "caption" THEN {TRUE} ELSE BOOLEAN)
    /\ pc = "start" /\ round = 0
    /\ handle = "null" /\ heap = {} /\ wild = FALSE
    /\ java = [a \in Arrays |-> Blank] /\ native = [g \in Arguments |-> None]
    /\ ret = 0
    /\ made = [r \in 1 .. MaxRounds |-> Blank] /\ file = made

Goto(from, to) == pc = from /\ ~wild /\ pc' = to /\ UNCHANGED fixed

-----------------------------------------------------------------------------
(* Handles. *)

\* CreateEncode, CreateDecode, OpenOSD.  OpenOSD has no return statement; and
\* the caption's session logs a failure and goes on.
CreateSucceeds ==
    /\ heap' = Object(task)
    /\ handle' \in (IF task = "caption" THEN {"object", "junk"} ELSE {"object"})
    /\ Goto("start", "loop")
    /\ UNCHANGED <<round, wild, arrays, ret, made, file>>

\* What was acquired has been released again, but for a picture, and for a
\* decoder's contexts, which CarEye_DecoderRelease closes and keeps.
CreateFails ==
    /\ heap' \in SUBSET (IF task = "decode" THEN {1, 2} ELSE {Picture})
    /\ handle' \in (IF task = "caption" THEN {"null", "junk"} ELSE {"null"})
    /\ Goto("start", IF task = "caption" THEN "loop" ELSE "failed")
    /\ UNCHANGED <<round, wild, arrays, ret, made, file>>

\* The wrappers' last calls: which structure the function takes the handle for,
\* and what it frees of it.
ReleasedAs(kind) == IF kind = "caption" THEN "caption" ELSE "encode"
Freed(kind) == 0 .. Len(Layout(ReleasedAs(kind)))

\* DelOSD, DestroyEncode, DestroyDecode.
Destroy ==
    /\ Goto("close", "closed")
    /\ wild' = \/ handle = "junk"
               \/ handle = "object" /\ Layout(ReleasedAs(task)) # Layout(task)
    /\ heap' = IF handle = "object" /\ ~wild' THEN heap \ Freed(task) ELSE heap
    /\ UNCHANGED <<round, handle, arrays, ret, made, file>>

-----------------------------------------------------------------------------
(* The rounds. *)

\* in.read fills the array, or only its head: what it returns is compared with 0
\* only, and an earlier round's tail stays.
Frame(r) == Piece("frame", r)
Read ==
    /\ round < MaxRounds /\ round' = round + 1
    /\ \E n \in Sizes : java' = [java EXCEPT !.data = Put(@, n, Frame(round'))]
    /\ Goto("loop", "call")
    /\ UNCHANGED <<objects, native, ret, made, file>>

\* Or there is nothing more to read; or it throws, and the catch clause skips the
\* destruction.
Stop ==
    /\ \/ Goto("loop", "close")
       \/ Goto("loop", "thrown")
    /\ UNCHANGED <<round, objects, arrays, ret, made, file>>

\* GetByteArrayElements: a copy, or the array itself.
GetElements(arg) == native' = [native EXCEPT ![arg] = java[ArrayOf(arg)]]
Sees(arg) == IF copies THEN native[arg] ELSE java[ArrayOf(arg)]
Store(arg, c) ==
    IF copies THEN native' = [native EXCEPT ![arg] = c] /\ UNCHANGED java
              ELSE java' = [java EXCEPT ![ArrayOf(arg)] = c] /\ UNCHANGED native

\* ReleaseByteArrayElements with mode 0: a copy is written back and freed.
\* (Faulty variant: JNI_COMMIT, which keeps it.)
MutReleaseElements(arg) ==
    /\ UNCHANGED native
    /\ java' = IF copies THEN [java EXCEPT ![ArrayOf(arg)] = native[arg]] ELSE java
ReleaseElements(arg) ==
    /\ native' = [native EXCEPT ![arg] = None]
    /\ java' = IF copies THEN [java EXCEPT ![ArrayOf(arg)] = native[arg]] ELSE java

Makes(c) == made' = [made EXCEPT ![round] = c]

\* The test of the handle, before anything is held.
TestHandle ==
    /\ handle # "object"
    /\ Goto("call", "returned") /\ ret' = -1
    /\ wild' = (handle = "junk")
    /\ IF task = "caption" THEN Makes(java["data"]) ELSE UNCHANGED made
    /\ UNCHANGED <<round, handle, heap, arrays, file>>

GetInput ==
    /\ handle = "object"
    /\ Goto("call", IF task = "caption" THEN "work" ELSE "output")
    /\ GetElements("frame")
    /\ UNCHANGED <<round, objects, java, ret, made, file>>

GetOutput ==
    /\ Goto("output", "work") /\ GetElements("OutFrame")
    /\ UNCHANGED <<round, objects, java, ret, made, file>>

\* The function behind fails, or has nothing yet; a caption's picture stays as it is.
WorkFails ==
    /\ Goto("work", "input") /\ ret' \in {-1, 0}
    /\ IF task = "caption" THEN Makes(Sees("frame")) ELSE UNCHANGED made
    /\ UNCHANGED <<round, objects, arrays, file>>

\* CarEye_OSD_Encode blends in place and returns 0; ...
Captioned(c) == [head |-> Piece("captioned", c.head.of), tail |-> Piece("captioned", c.tail.of)]
Blend ==
    /\ task = "caption"
    /\ Goto("work", "input") /\ ret' = 0
    /\ Store("frame", Captioned(Sees("frame"))) /\ Makes(Captioned(Sees("frame")))
    /\ UNCHANGED <<round, objects, file>>

\* ... the others store a result and return its size.  A codec that holds frames
\* back gives the result of one handed over in an earlier round.
Work ==
    /\ task # "caption"
    /\ Goto("work", "input")
    /\ \E f \in 1 .. round, n \in Sizes :
          /\ ret' = n
          /\ Store("OutFrame", Put(Sees("OutFrame"), n, Piece("result", f)))
          /\ Makes(PartOf(Whole(Piece("result", f)), n))
    /\ UNCHANGED <<round, objects, file>>

\* The input is given back before the output.
\* (Faulty variant: the other way round.)
MutReleaseOrder == <<"OutFrame", "frame">>
ReleaseOrder == <<"frame", "OutFrame">>

ReleaseFirst ==
    /\ Goto("input", IF task = "caption" THEN "returned" ELSE "last")
    /\ ReleaseElements(IF task = "caption" THEN "frame" ELSE ReleaseOrder[1])
    /\ UNCHANGED <<round, objects, ret, made, file>>

ReleaseLast ==
    /\ Goto("last", "returned") /\ ReleaseElements(ReleaseOrder[2])
    /\ UNCHANGED <<round, objects, ret, made, file>>

\* Back in Java: a caption's picture is written whole whatever came back, a result
\* if it has a size, and as much of the array as that says.
Write ==
    /\ Goto("returned", "loop")
    /\ file' = IF task = "caption" THEN [file EXCEPT ![round] = java["data"]]
               ELSE IF ret > 0
               THEN [file EXCEPT ![round] = PartOf(java[ArrayOf("OutFrame")], ret)]
               ELSE file
    /\ UNCHANGED <<round, objects, arrays, ret, made>>

Next == \/ CreateSucceeds \/ CreateFails \/ Destroy \/ Read \/ Stop
        \/ TestHandle \/ GetInput \/ GetOutput \/ WorkFails \/ Blend \/ Work
        \/ ReleaseFirst \/ ReleaseLast \/ Write

Spec == Init /\ [][Next]_vars

-----------------------------------------------------------------------------
(* Properties. *)

TypeOK ==
    /\ task \in Tasks /\ copies \in BOOLEAN /\ oneArray \in BOOLEAN
    /\ pc \in Pcs /\ round \in 0 .. MaxRounds
    /\ handle \in {"object", "null", "junk"}
    /\ heap \subseteq Object(task) /\ wild \in BOOLEAN
    /\ java \in [Arrays -> Contents] /\ native \in [Arguments -> Contents]
    /\ ret \in {-1, 0} \cup Sizes
    /\ made \in [1 .. MaxRounds -> Contents] /\ file \in [1 .. MaxRounds -> Contents]

Finished(r) == r < round \/ (r = round /\ pc \in {"loop", "close", "closed", "thrown"})

\* Whether arrays are pinned or copied, one or two: a call works on the frame read
\* in its round, and the file gets of each round exactly what its call made, which
\* may be an earlier frame's result, and nothing if it made none.
FileHasResults ==
    /\ pc = "work" => Sees("frame").head = Frame(round)
    /\ \A r \in 1 .. MaxRounds : Finished(r) => file[r] = made[r]

\* Java sees an array that is not held by a call: no elements stay behind on any
\* path, and what it reads is never what a call is still to write back.
NoElementsStayHeld ==
    pc \notin {"output", "work", "input", "last"} =>
        /\ \A g \in Arguments : native[g] = None
        /\ \A a \in Arrays : java[a] # None

\* A session that destroys its handle leaves at most a picture, although a
\* decoder is released as if it were an encoder; and a session whose handle is
\* what its creation made never follows anything else.
DestroyIsComplete ==
    /\ pc = "closed" /\ handle = "object" => heap \subseteq {Picture}
    /\ wild => handle = "junk"
=============================================================================
