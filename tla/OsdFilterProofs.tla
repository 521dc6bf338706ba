-------------------------- MODULE OsdFilterProofs ---------------------------
(***************************************************************************)
(* Proofs about OsdFilter, for any number of handles and pictures.         *)
(***************************************************************************)
EXTENDS OsdFilter, TLAPS

\* A handle that is gone has no frame; inside a call VFrame shows the picture of
\* that call, which the caller has not got back yet.
CallInProgress ==
    /\ handle = "none" => planes = "none" /\ pc = "idle"
    /\ pc # "idle" => shown.id = calls /\ ~picture.captioned
    /\ pc = "copyout" => ~graph /\ ~inouts

OInv == TypeOK /\ PictureIsCallers /\ GraphEndsWithCall /\ OneImagePerHandle /\ CallInProgress

\* The parts of the state that a release changes, for whatever it releases.
LEMMA ReleaseLosesOneImage ==
    ASSUME NEW f, NEW p, TypeOK, ReleaseObjects(f, p)
    PROVE  /\ handle' = "none" /\ filter' = "null" /\ planes' = "none"
           /\ shown' = NoPicture /\ inouts' = FALSE /\ graph' = FALSE
           /\ broken' \in BOOLEAN
           /\ leaked' \in [images : Nat, inouts : Nat]
           /\ leaked'.images = leaked.images + (IF p = "raw" THEN 1 ELSE 0)
<1>1. ImagesLost(p) \in Nat /\ leaked.images \in Nat
  BY DEF ImagesLost, TypeOK
<1>2. leaked' = [leaked EXCEPT !.images = @ + ImagesLost(p)]
  BY DEF ReleaseObjects
<1>3. leaked' \in [images : Nat, inouts : Nat] /\ leaked'.images = leaked.images + ImagesLost(p)
  BY <1>1, <1>2 DEF TypeOK
<1>4. broken' \in BOOLEAN
  BY DEF ReleaseObjects, TypeOK
<1> QED
  BY <1>3, <1>4 DEF ReleaseObjects, ImagesLost

LEMMA InitHolds == Init => OInv
<1> SUFFICES ASSUME Init PROVE OInv
  OBVIOUS
<1>1. TypeOK
  BY DEF Init, TypeOK, NoPicture, Pictures, NoLeak
<1>2. PictureIsCallers /\ GraphEndsWithCall /\ CallInProgress
  BY DEF Init, PictureIsCallers, GraphEndsWithCall, CallInProgress, NoPicture
<1>3. OneImagePerHandle
  BY DEF Init, OneImagePerHandle, NoLeak
<1> QED
  BY <1>1, <1>2, <1>3 DEF OInv

LEMMA CreateHolds == ASSUME OInv, Create PROVE OInv'
<1>0. TypeOK /\ NoPicture \in Pictures
  BY DEF OInv, NoPicture, Pictures
<1>1. /\ handle = "none" /\ planes = "none" /\ pc = "idle" /\ leaked.images <= created
      /\ leaked.images \in Nat /\ created \in Nat
  BY DEF OInv, Create, CallInProgress, OneImagePerHandle, TypeOK
<1>2. /\ created' = created + 1 /\ calls' = 0 /\ picture' = NoPicture /\ ret' = "none"
      /\ UNCHANGED <<pc, blend>>
  BY DEF Create
<1>3. /\ \/ handle' = "open" /\ filter' = "object" /\ planes' = "raw"
         \/ handle' = "none" /\ filter' = "null" /\ planes' = "none"
      /\ shown' = NoPicture /\ inouts' = FALSE /\ graph' = FALSE
      /\ broken' \in BOOLEAN
      /\ leaked' \in [images : Nat, inouts : Nat]
      /\ leaked'.images + (IF planes' = "raw" THEN 1 ELSE 0) <= leaked.images + 1
  <2>1. CASE handle' = "open" /\ filter' = "object" /\ planes' = "raw"
             /\ shown' = NoPicture /\ inouts' = FALSE /\ graph' = FALSE
             /\ UNCHANGED <<leaked, broken>>
    BY <1>1, <2>1 DEF OInv, TypeOK
  <2>2. ASSUME NEW f \in {"null", "wild"}, ReleaseObjects(f, "none") PROVE <1>3!:
    <3>1. /\ handle' = "none" /\ filter' = "null" /\ planes' = "none"
          /\ shown' = NoPicture /\ inouts' = FALSE /\ graph' = FALSE
          /\ broken' \in BOOLEAN /\ leaked' \in [images : Nat, inouts : Nat]
          /\ leaked'.images = leaked.images + (IF "none" = "raw" THEN 1 ELSE 0)
      BY <1>0, <2>2, ReleaseLosesOneImage
    <3>2. leaked'.images = leaked.images + 0
      BY <3>1
    <3>3. leaked'.images + (IF planes' = "raw" THEN 1 ELSE 0) <= leaked.images + 1
      BY <1>1, <3>1, <3>2
    <3> QED
      BY <3>1, <3>3
  <2>3. CASE ReleaseObjects("object", "raw")
    <3>1. /\ handle' = "none" /\ filter' = "null" /\ planes' = "none"
          /\ shown' = NoPicture /\ inouts' = FALSE /\ graph' = FALSE
          /\ broken' \in BOOLEAN /\ leaked' \in [images : Nat, inouts : Nat]
          /\ leaked'.images = leaked.images + (IF "raw" = "raw" THEN 1 ELSE 0)
      BY <1>0, <2>3, ReleaseLosesOneImage
    <3>2. leaked'.images + (IF planes' = "raw" THEN 1 ELSE 0) <= leaked.images + 1
      BY <1>1, <3>1
    <3> QED
      BY <3>1, <3>2
  <2> QED
    BY <2>1, <2>2, <2>3 DEF Create
<1>4. TypeOK'
  <2>1. created' \in Nat /\ calls' \in Nat
    BY <1>1, <1>2
  <2>2. handle' \in {"none", "open"} /\ filter' \in {"null", "object", "wild"}
        /\ planes' \in {"none", "raw", "counted", "empty"}
        /\ (handle' = "open" => filter' = "object" /\ planes' # "none")
    BY <1>3
  <2>3. shown' \in Pictures /\ picture' \in Pictures /\ ret' \in {"none", "ok", "error"}
        /\ inouts' \in BOOLEAN /\ graph' \in BOOLEAN /\ broken' \in BOOLEAN
    BY <1>0, <1>2, <1>3
  <2>4. pc' = pc /\ blend' = blend
    BY <1>2
  <2> QED
    BY <1>0, <1>3, <2>1, <2>2, <2>3, <2>4 DEF TypeOK
<1>5. PictureIsCallers' /\ GraphEndsWithCall' /\ CallInProgress'
  BY <1>1, <1>2, <1>3 DEF PictureIsCallers, GraphEndsWithCall, CallInProgress, NoPicture
<1>6. OneImagePerHandle'
  <2>1. leaked'.images \in Nat
    BY <1>3
  <2> QED
    BY <1>1, <1>2, <1>3, <2>1 DEF OneImagePerHandle
<1> QED
  BY <1>4, <1>5, <1>6 DEF OInv

LEMMA ReleaseHolds == ASSUME OInv, Release PROVE OInv'
<1>1. /\ leaked.images + (IF planes = "raw" THEN 1 ELSE 0) <= created
      /\ leaked.images \in Nat /\ created \in Nat
  BY DEF OInv, OneImagePerHandle, TypeOK
<1>2. ReleaseObjects(filter, planes) /\ pc = "idle"
      /\ UNCHANGED <<created, pc, picture, calls, blend, ret>>
  BY DEF Release
<1>3. /\ handle' = "none" /\ filter' = "null" /\ planes' = "none"
      /\ shown' = NoPicture /\ inouts' = FALSE /\ graph' = FALSE
      /\ broken' \in BOOLEAN
      /\ leaked' \in [images : Nat, inouts : Nat]
      /\ leaked'.images = leaked.images + (IF planes = "raw" THEN 1 ELSE 0)
  BY <1>2, ReleaseLosesOneImage DEF OInv
<1>4. TypeOK'
  BY <1>2, <1>3 DEF OInv, TypeOK, NoPicture, Pictures
<1>5. PictureIsCallers' /\ GraphEndsWithCall' /\ CallInProgress'
  BY <1>2, <1>3 DEF OInv, PictureIsCallers, GraphEndsWithCall, CallInProgress
<1>6. OneImagePerHandle'
  BY <1>1, <1>2, <1>3 DEF OneImagePerHandle
<1> QED
  BY <1>4, <1>5, <1>6 DEF OInv

LEMMA EncodeHolds == ASSUME OInv, Encode PROVE OInv'
<1>1. /\ handle = "open" /\ pc = "idle" /\ calls \in Nat /\ planes # "none"
      /\ leaked \in [images : Nat, inouts : Nat]
  BY DEF OInv, Encode, TypeOK
<1>2. /\ calls' = calls + 1 /\ picture' = [id |-> calls + 1, captioned |-> FALSE]
      /\ UNCHANGED <<handle, created, filter, planes, blend>>
  BY DEF Encode
<1>3. /\ shown' \in Pictures /\ broken' \in BOOLEAN
      /\ ~broken' => shown' = picture'
  <2>1. picture' \in Pictures /\ shown \in Pictures /\ broken \in BOOLEAN
    BY <1>1, <1>2 DEF OInv, TypeOK, Pictures
  <2>2. CASE planes = "empty"
    BY <2>1, <2>2 DEF Encode, LoadFrame
  <2>3. CASE planes # "empty"
    BY <2>1, <2>3 DEF Encode, LoadFrame
  <2> QED
    BY <2>2, <2>3
<1>4. /\ leaked' \in [images : Nat, inouts : Nat] /\ leaked'.images = leaked.images
      /\ inouts' \in BOOLEAN /\ graph' \in BOOLEAN
      /\ \/ pc' = "idle" /\ graph' = graph /\ inouts' = inouts /\ ret' \in {ret, "error"}
         \/ pc' = "source" /\ ret' = ret /\ ~broken'
  <2>1. CASE UNCHANGED <<inouts, graph, leaked>>
    BY <1>1, <2>1 DEF Encode, OInv, TypeOK
  <2>2. CASE ~broken' /\ pc' = "source"
             /\ leaked' = [leaked EXCEPT !.inouts = @ + (IF inouts THEN 1 ELSE 0)]
             /\ inouts' = TRUE /\ graph' = TRUE /\ ret' = ret
    <3>1. (IF inouts THEN 1 ELSE 0) \in Nat /\ leaked.inouts \in Nat
      BY <1>1 DEF OInv, TypeOK
    <3> QED
      BY <1>1, <2>2, <3>1
  <2> QED
    BY <2>1, <2>2 DEF Encode
<1>5. TypeOK'
  BY <1>1, <1>2, <1>3, <1>4 DEF OInv, TypeOK, Pictures
<1>6. PictureIsCallers' /\ GraphEndsWithCall' /\ CallInProgress'
  BY <1>1, <1>2, <1>3, <1>4 DEF OInv, PictureIsCallers, GraphEndsWithCall, CallInProgress
<1>7. OneImagePerHandle'
  BY <1>2, <1>4 DEF OInv, OneImagePerHandle
<1> QED
  BY <1>5, <1>6, <1>7 DEF OInv

LEMMA FinishHolds ==
    ASSUME OInv, handle = "open", pc # "idle", UNCHANGED callVars,
           NEW result \in {"ok", "error"}, NEW frees \in BOOLEAN, Finish(result, frees),
           result = "ok" => frees,
           planes' \in {"raw", "counted", "empty"}, shown' \in Pictures, shown'.id = shown.id,
           leaked' \in [images : Nat, inouts : Nat], OneImagePerHandle'
    PROVE  OInv'
<1>1. /\ inouts' \in BOOLEAN /\ graph' = FALSE /\ blend' = result
      /\ \/ pc' = "copyout" /\ ret' = ret /\ ~inouts'
         \/ pc' = "idle" /\ ret' = "error"
  BY DEF Finish, OInv, TypeOK
<1>2. TypeOK'
  BY <1>1 DEF OInv, TypeOK, callVars
<1>3. PictureIsCallers' /\ GraphEndsWithCall' /\ CallInProgress'
  BY <1>1 DEF OInv, PictureIsCallers, GraphEndsWithCall, CallInProgress, callVars
<1> QED
  BY <1>2, <1>3 DEF OInv

LEMMA StepHolds ==
    ASSUME OInv, handle = "open", pc # "idle", UNCHANGED callVars,
           pc' \in {"sink", "parse", "config", "add", "get"},
           UNCHANGED <<inouts, graph, blend, ret, shown, leaked>>,
           planes' \in {"raw", "counted", "empty"}, planes' = "raw" => planes = "raw"
    PROVE  OInv'
<1>1. TypeOK'
  BY DEF OInv, TypeOK, callVars
<1>2. PictureIsCallers' /\ GraphEndsWithCall' /\ CallInProgress'
  BY DEF OInv, PictureIsCallers, GraphEndsWithCall, CallInProgress, callVars
<1>3. OneImagePerHandle'
  BY DEF OInv, OneImagePerHandle, TypeOK, callVars
<1> QED
  BY <1>1, <1>2, <1>3 DEF OInv

LEMMA BlendHolds == ASSUME OInv, Blend PROVE OInv'
<1>1. pc # "idle" => handle = "open" /\ planes \in {"raw", "counted", "empty"}
  BY DEF OInv, CallInProgress, TypeOK
<1>2. ASSUME NEW step \in {"source", "sink", "parse", "config"},
             NEW next \in {"sink", "parse", "config", "add"},
             NEW frees \in BOOLEAN, Build(step, next, frees)
      PROVE  OInv'
  <2>1. pc # "idle" /\ UNCHANGED callVars /\ UNCHANGED <<planes, shown, leaked>>
    BY <1>2 DEF Build
  <2>2. CASE pc' = next /\ UNCHANGED <<inouts, graph, blend, ret>>
    BY <1>1, <2>1, <2>2, StepHolds
  <2>3. CASE Finish("error", frees)
    <3>1. shown' \in Pictures /\ leaked' \in [images : Nat, inouts : Nat] /\ OneImagePerHandle'
      BY <2>1 DEF OInv, TypeOK, OneImagePerHandle, callVars
    <3> QED
      BY <1>1, <2>1, <2>3, <3>1, FinishHolds
  <2> QED
    BY <1>2, <2>2, <2>3 DEF Build
<1>3. CASE AddFrame
  <2>1. pc = "add" /\ UNCHANGED callVars /\ UNCHANGED <<shown, leaked>>
        /\ planes' \in {planes, "empty"}
    BY <1>3 DEF AddFrame
  <2>2. CASE pc' = "get" /\ UNCHANGED <<inouts, graph, blend, ret>>
    BY <1>1, <2>1, <2>2, StepHolds
  <2>3. CASE Finish("ok", TRUE)
    <3>1. shown' \in Pictures /\ leaked' \in [images : Nat, inouts : Nat]
      BY <2>1 DEF OInv, TypeOK
    <3>2. OneImagePerHandle'
      BY <2>1 DEF OInv, TypeOK, OneImagePerHandle, callVars
    <3> QED
      BY <1>1, <2>1, <2>3, <3>1, <3>2, FinishHolds
  <2> QED
    BY <1>3, <2>2, <2>3 DEF AddFrame
<1>4. CASE GetFrame
  <2>1. pc = "get" /\ UNCHANGED callVars
    BY <1>4 DEF GetFrame
  <2>2. CASE UNCHANGED <<leaked, planes, shown>> /\ Finish("error", TRUE)
    <3>1. shown' \in Pictures /\ leaked' \in [images : Nat, inouts : Nat] /\ OneImagePerHandle'
      BY <2>1, <2>2 DEF OInv, TypeOK, OneImagePerHandle, callVars
    <3> QED
      BY <1>1, <2>1, <2>2, <3>1, FinishHolds
  <2>3. CASE /\ leaked' = [leaked EXCEPT !.images = @ + ImagesLost(planes)]
             /\ planes' = "counted" /\ shown' = [shown EXCEPT !.captioned = TRUE]
             /\ Finish("ok", TRUE)
    <3>1. leaked.images \in Nat /\ created \in Nat /\ leaked \in [images : Nat, inouts : Nat]
          /\ leaked.images + (IF planes = "raw" THEN 1 ELSE 0) <= created
      BY DEF OInv, TypeOK, OneImagePerHandle
    <3>2. shown' \in Pictures /\ shown'.id = shown.id
      BY <2>3 DEF OInv, TypeOK, Pictures
    <3>3. /\ leaked' \in [images : Nat, inouts : Nat]
          /\ leaked'.images = leaked.images + (IF planes = "raw" THEN 1 ELSE 0)
      BY <2>3, <3>1 DEF ImagesLost
    <3>4. OneImagePerHandle'
      BY <2>1, <2>3, <3>1, <3>3 DEF OneImagePerHandle, callVars
    <3> QED
      BY <1>1, <2>1, <2>3, <3>2, <3>3, <3>4, FinishHolds
  <2> QED
    BY <1>4, <2>2, <2>3 DEF GetFrame
<1>5. CASE CopyOut
  <2>1. /\ pc = "copyout" /\ pc' = "idle" /\ handle = "open"
        /\ UNCHANGED <<handle, created, filter, planes, shown, inouts, graph, calls,
                       blend, leaked>>
        /\ \/ broken' = TRUE /\ picture' = picture /\ ret' = ret
           \/ picture' = shown /\ ret' = "ok" /\ broken' = broken
    BY <1>1, <1>5 DEF CopyOut
  <2>2. shown.id = calls /\ ~picture.captioned
    BY <2>1 DEF OInv, CallInProgress
  <2>3. TypeOK' /\ OneImagePerHandle'
    BY <2>1 DEF OInv, TypeOK, OneImagePerHandle
  <2>4. GraphEndsWithCall'
    BY <2>1 DEF OInv, CallInProgress, GraphEndsWithCall
  <2>5. PictureIsCallers' /\ CallInProgress'
    BY <2>1, <2>2 DEF OInv, PictureIsCallers, CallInProgress
  <2> QED
    BY <2>3, <2>4, <2>5 DEF OInv
<1> QED
  BY <1>2, <1>3, <1>4, <1>5 DEF Blend, BuildGraph

LEMMA NextHolds == OInv /\ [Next]_vars => OInv'
<1> SUFFICES ASSUME OInv, [Next]_vars PROVE OInv'
  OBVIOUS
<1>1. CASE UNCHANGED vars
  BY <1>1 DEF vars, OInv, TypeOK, PictureIsCallers, GraphEndsWithCall, OneImagePerHandle,
              CallInProgress
<1> QED
  BY <1>1, CreateHolds, ReleaseHolds, EncodeHolds, BlendHolds DEF Next

\* OInv is an invariant of the specification.
THEOREM Invariance == Spec => []OInv
<1> QED
  BY InitHolds, NextHolds, PTL DEF Spec

\* Every variable keeps its type; an open handle has its filter and its frame.
THEOREM TypeCorrect == Spec => []TypeOK
<1>1. OInv => TypeOK
  BY DEF OInv
<1> QED
  BY <1>1, Invariance, PTL

\* What a call copies back to the caller is the caller's own picture, whichever
\* step of BlendFilters fails.
THEOREM PictureStaysCallers == Spec => []PictureIsCallers
<1>1. OInv => PictureIsCallers
  BY DEF OInv
<1> QED
  BY <1>1, Invariance, PTL

\* No graph outlives the call that built it.
THEOREM NoGraphSurvives == Spec => []GraphEndsWithCall
<1>1. OInv => GraphEndsWithCall
  BY DEF OInv
<1> QED
  BY <1>1, Invariance, PTL

\* A handle loses at most one image in its whole life.
THEOREM LeakIsBounded == Spec => []OneImagePerHandle
<1>1. OInv => OneImagePerHandle
  BY DEF OInv
<1> QED
  BY <1>1, Invariance, PTL
=============================================================================
