------------------------------ MODULE OsdFilter -----------------------------
(***************************************************************************)
(* The bridge's caption handle: CarEyeOSDAPI.cpp and the FFVideoFilter it  *)
(* drives.  A call copies the caller's picture into the handle's VFrame,   *)
(* builds a filter graph for the text, gives VFrame to it, takes the       *)
(* captioned frame back into VFrame, and copies that to the caller.        *)
(*                                                                         *)
(* What decides the outcome is who owns VFrame's planes: created by        *)
(* av_image_alloc they belong to nobody, so the graph copies them; frames  *)
(* of the graph are reference counted, so the graph takes them away.       *)
(***************************************************************************)
EXTENDS Naturals

CONSTANTS
    MaxPictures,    \* bound: calls per handle
    MaxHandles      \* bound: creations

ASSUME OsdAssumption == MaxPictures \in Nat /\ MaxHandles \in Nat

VARIABLES
    handle,      \* "none" or "open": what the caller holds
    created,     \* handles asked for so far
    filter,      \* CarEyeFilter.VideoFilter: "null", "object" or "wild"
    planes,      \* who owns VFrame's planes: "none", "raw", "counted", "empty"
    shown,       \* the picture in those planes
    inouts,      \* m_inputs and m_outputs point to descriptors
    graph,       \* m_pFilter_graph points to a graph
    pc,          \* the step BlendFilters or OSD_Encode takes next
    picture,     \* the caller's picture
    calls,       \* pictures offered so far: numbers them
    blend,       \* BlendFilters' ret: "ok" or "error"
    ret,         \* what the last call returned
    leaked,      \* objects nothing points to any more
    broken       \* a wild or NULL pointer was followed

vars == <<handle, created, filter, planes, shown, inouts, graph, pc, picture,
          calls, blend, ret, leaked, broken>>

-----------------------------------------------------------------------------
NoPicture == [id |-> 0, captioned |-> FALSE]
Pictures == [id : Nat, captioned : BOOLEAN]
NoLeak == [images |-> 0, inouts |-> 0]

Init ==
    /\ handle = "none" /\ created = 0
    /\ filter = "null" /\ planes = "none" /\ shown = NoPicture
    /\ inouts = FALSE /\ graph = FALSE
    /\ pc = "idle" /\ picture = NoPicture /\ calls = 0
    /\ blend = "ok" /\ ret = "none"
    /\ leaked = NoLeak /\ broken = FALSE

\* (Faulty variant: counts planes that VFrame owns.)
MutImagesLost(p) == IF p \in {"raw", "counted"} THEN 1 ELSE 0

\* av_frame_free and av_frame_move_ref lose planes that no buffer owns.
ImagesLost(p) == IF p = "raw" THEN 1 ELSE 0

\* CarEye_OSD_Release: VFrame first, then the filter if its pointer is not NULL.
ReleaseObjects(f, p) ==
    /\ leaked' = [leaked EXCEPT !.images = @ + ImagesLost(p)]
    /\ broken' = (broken \/ f = "wild")
    /\ handle' = "none" /\ filter' = "null" /\ planes' = "none"
    /\ shown' = NoPicture /\ inouts' = FALSE /\ graph' = FALSE

Create ==
    /\ handle = "none" /\ created < MaxHandles /\ ~broken
    /\ created' = created + 1
    /\ calls' = 0 /\ picture' = NoPicture /\ ret' = "none"
    /\ UNCHANGED <<pc, blend>>
    /\ \/ /\ handle' = "open" /\ filter' = "object" /\ planes' = "raw"
          /\ shown' = NoPicture /\ inouts' = FALSE /\ graph' = FALSE
          /\ UNCHANGED <<leaked, broken>>
          \* av_frame_alloc or av_image_alloc fails: `new' left the filter
          \* pointer with whatever the memory held.
       \/ \E f \in {"null", "wild"} : ReleaseObjects(f, "none")
          \* InitFilters refuses the parameters.
       \/ ReleaseObjects("object", "raw")

Release ==
    /\ handle = "open" /\ pc = "idle" /\ ~broken
    /\ ReleaseObjects(filter, planes)
    /\ UNCHANGED <<created, pc, picture, calls, blend, ret>>

-----------------------------------------------------------------------------
\* The copy of the caller's picture into VFrame's planes, through NULL if they
\* are gone.  (Faulty variant: only planes of the handle's own are filled.)
MutLoadFrame(p) ==
    /\ shown' = IF planes = "raw" THEN p ELSE shown
    /\ UNCHANGED broken

LoadFrame(p) ==
    IF planes = "empty"
    THEN broken' = TRUE /\ UNCHANGED shown
    ELSE shown' = p /\ UNCHANGED broken

\* CarEye_OSD_Encode up to BlendFilters, and BlendFilters' test of the text.
Encode ==
    /\ handle = "open" /\ pc = "idle" /\ calls < MaxPictures /\ ~broken
    /\ calls' = calls + 1
    /\ picture' = [id |-> calls + 1, captioned |-> FALSE]
    /\ LoadFrame(picture')
    /\ \/ broken' /\ UNCHANGED <<pc, inouts, graph, leaked, ret>>
       \/ /\ ~broken' /\ pc' = "source"
          /\ leaked' = [leaked EXCEPT !.inouts = @ + (IF inouts THEN 1 ELSE 0)]
          /\ inouts' = TRUE /\ graph' = TRUE
          /\ UNCHANGED ret
       \/ /\ ~broken' /\ ret' = "error"
          /\ UNCHANGED <<pc, inouts, graph, leaked>>
    /\ UNCHANGED <<handle, created, filter, planes, blend>>

\* The end of BlendFilters, from the_end (the descriptors go) or from the_end1.
Finish(result, freesInouts) ==
    /\ inouts' = (inouts /\ ~freesInouts)
    /\ graph' = FALSE
    /\ blend' = result
    /\ IF result = "ok" THEN pc' = "copyout" /\ UNCHANGED ret
                        ELSE pc' = "idle" /\ ret' = "error"

callVars == <<handle, created, filter, picture, calls, broken>>

\* The steps before VFrame enters the graph, each with its label on failure.
\* (Faulty variant: the graph is left when a step fails.)
MutBuild(step, next, freesInouts) ==
    /\ pc = step
    /\ \/ pc' = next /\ UNCHANGED <<inouts, graph, blend, ret>>
       \/ pc' = "idle" /\ ret' = "error" /\ UNCHANGED <<inouts, graph, blend>>
    /\ UNCHANGED <<callVars, planes, shown, leaked>>

Build(step, next, freesInouts) ==
    /\ pc = step
    /\ \/ pc' = next /\ UNCHANGED <<inouts, graph, blend, ret>>
       \/ Finish("error", freesInouts)
    /\ UNCHANGED <<callVars, planes, shown, leaked>>

BuildGraph ==
    \/ Build("source", "sink", FALSE)     \* avfilter_graph_create_filter "buffer"
    \/ Build("sink", "parse", FALSE)      \* avfilter_graph_create_filter "buffersink"
    \/ Build("parse", "config", TRUE)     \* avfilter_graph_parse_ptr
    \/ Build("config", "add", TRUE)       \* avfilter_graph_config

\* av_buffersrc_add_frame takes a counted frame away and copies a raw one.  It
\* may refuse the frame before it takes it, or fail with it already taken; ret
\* then still holds the success of the step before.
AddFrame ==
    /\ pc = "add"
    /\ \/ pc' = "get" /\ UNCHANGED <<inouts, graph, blend, ret>>
       \/ Finish("ok", TRUE)
    /\ \/ planes' = IF planes = "counted" THEN "empty" ELSE planes
       \/ pc' = "copyout" /\ UNCHANGED planes
    /\ UNCHANGED <<callVars, shown, leaked>>

\* av_buffersink_get_frame runs the graph: VFrame becomes the captioned frame,
\* over whatever planes it had, or the filter fails on the text and frees it.
GetFrame ==
    /\ pc = "get"
    /\ \/ /\ leaked' = [leaked EXCEPT !.images = @ + ImagesLost(planes)]
          /\ planes' = "counted"
          /\ shown' = [shown EXCEPT !.captioned = TRUE]
          /\ Finish("ok", TRUE)
       \/ Finish("error", TRUE) /\ UNCHANGED <<leaked, planes, shown>>
    /\ UNCHANGED callVars

\* The copy back to the caller.
CopyOut ==
    /\ pc = "copyout"
    /\ pc' = "idle"
    /\ IF planes = "empty"
       THEN broken' = TRUE /\ UNCHANGED <<picture, ret>>
       ELSE picture' = shown /\ ret' = "ok" /\ UNCHANGED broken
    /\ UNCHANGED <<handle, created, filter, planes, shown, inouts, graph, calls,
                   blend, leaked>>

Blend == BuildGraph \/ AddFrame \/ GetFrame \/ CopyOut

Next == Create \/ Release \/ Encode \/ Blend

\* A call that has begun runs to its end: nothing in it waits.
Spec == Init /\ [][Next]_vars /\ WF_vars(Blend)
-----------------------------------------------------------------------------
\* What each variable holds.
TypeOK ==
    /\ handle \in {"none", "open"} /\ created \in Nat /\ calls \in Nat
    /\ filter \in {"null", "object", "wild"}
    /\ planes \in {"none", "raw", "counted", "empty"}
    /\ shown \in Pictures /\ picture \in Pictures
    /\ inouts \in BOOLEAN /\ graph \in BOOLEAN /\ broken \in BOOLEAN
    /\ pc \in {"idle", "source", "sink", "parse", "config", "add", "get", "copyout"}
    /\ blend \in {"ok", "error"} /\ ret \in {"none", "ok", "error"}
    /\ leaked \in [images : Nat, inouts : Nat]
    /\ handle = "open" => filter = "object" /\ planes # "none"

\* Whatever step of BlendFilters fails, the caller's buffer keeps the caller's
\* picture: what OSD_Encode copies back is never an earlier call's frame, and an
\* error leaves the picture without a caption.
PictureIsCallers ==
    /\ picture.id = calls
    /\ pc = "copyout" => shown.id = calls
    /\ ret = "error" => ~picture.captioned

\* No graph survives a call, on any of its exits: the next call, which sets
\* m_pFilter_graph without a look at it, overwrites no live graph.  Descriptors,
\* which it overwrites too and thereby loses, survive only a call that failed.
GraphEndsWithCall == pc = "idle" => ~graph /\ (inouts => ret = "error")

\* However many pictures a handle captions, it loses one image at most: the
\* planes made by av_image_alloc are replaced once and never come back.
OneImagePerHandle ==
    leaked.images + (IF planes = "raw" THEN 1 ELSE 0) <= created

-----------------------------------------------------------------------------
(* A claim of documentation that the code does not keep. *)

\* buffersrc.h:160: "this function will take ownership of the reference(s) and
\* reset the frame": a caller must not write to the frame's planes after it,
\* and OSD_Encode follows no pointer that is NULL.
FrameIsNotWrittenAfterReset == handle = "open" => ~broken
=============================================================================
