---------------------------- MODULE BridgeProofs -----------------------------
(***************************************************************************)
(* Proofs about the bridge: JniBridge's sessions, of any length, and       *)
(* Conversions' data, of any size.                                         *)
(*                                                                         *)
(* Sessions: what is written is what the calls made, no elements stay      *)
(* held, and a destroyed handle leaves at most a picture behind.           *)
(*                                                                         *)
(* Data: pictures, samples, headers and captions against the code that     *)
(* reads them on the other side.  A loop over data is a recursive function *)
(* in Conversions: what it computes is shown by induction on the number of *)
(* passes (SetInduction), after it is shown to exist (RecursionExists).    *)
(***************************************************************************)
EXTENDS JniBridge, Conversions, SequenceTheorems, FiniteSetTheorems,
        WellFoundedInduction, TLAPS

-----------------------------------------------------------------------------
(* Sessions. *)

\* The parts of a round in which the input's, and the output's, elements are held.
InputHeld == pc \in {"output", "work", "input"}
OutputHeld == task # "caption" /\ pc \in {"work", "input", "last"}

\* Elements are held exactly in these parts.
Holding ==
    /\ ~InputHeld => native["frame"] = None
    /\ ~OutputHeld => native["OutFrame"] = None
    /\ InputHeld => native["frame"] # None
    /\ OutputHeld => native["OutFrame"] # None
    /\ \A a \in Arrays : java[a] # None

\* Where the frame of the round, and what its call made, is.
Progress ==
    /\ pc \in {"call", "output", "work"} => java["data"].head = Frame(round)
    /\ pc \in {"output", "work"} => native["frame"].head = Frame(round)
    /\ task # "caption" /\ ret > 0 =>
          /\ pc \in {"input", "last"} =>
                PartOf(IF copies THEN native["OutFrame"] ELSE java[ArrayOf("OutFrame")], ret)
                    = made[round]
          /\ pc = "returned" => PartOf(java[ArrayOf("OutFrame")], ret) = made[round]
    /\ task # "caption" /\ ~(ret > 0) =>
          (pc \in {"input", "last", "returned"} => made[round] = Blank)
    /\ task = "caption" =>
          /\ oneArray
          /\ pc = "input" => (IF copies THEN native["frame"] ELSE java["data"]) = made[round]
          /\ pc = "returned" => java["data"] = made[round]
          /\ pc \notin {"output", "last"}

\* What is still to be made, and still to be written.
Before == pc \in {"call", "output", "work"}
During == Before \/ pc \in {"input", "last", "returned"}
Fresh == \A r \in 1 .. MaxRounds :
             /\ r > round \/ (r = round /\ Before) => made[r] = Blank
             /\ r > round \/ (r = round /\ During) => file[r] = Blank

\* The files of the rounds that are over.
Filed == \A r \in 1 .. MaxRounds : Finished(r) => file[r] = made[r]

Rounds == /\ During => round >= 1
          /\ pc = "start" => round = 0

HandleLeads == pc \in {"output", "work", "input", "last"} => handle = "object"

IInv == TypeOK /\ Holding /\ Progress /\ Fresh /\ Filed /\ Rounds /\ HandleLeads
        /\ DestroyIsComplete

-----------------------------------------------------------------------------
\* A decoder is released as an encoder, whose first fields are the same.
LEMMA SameLayout ==
    ASSUME NEW k \in Tasks
    PROVE  Layout(ReleasedAs(k)) = Layout(k) /\ Object(k) \ Freed(k) \subseteq {Picture}
<1>1. CASE k = "caption"
  BY <1>1 DEF Layout, ReleasedAs, Object, Freed, Picture
<1>2. CASE k # "caption"
  BY <1>2 DEF Layout, ReleasedAs, Object, Freed, Picture
<1> QED BY <1>1, <1>2

\* What is stored in an array and taken from it.
LEMMA ContentsFacts ==
    /\ Blank \in Contents /\ Blank # None /\ None \in Contents
    /\ \A r \in 0 .. MaxRounds : /\ Frame(r) \in Pieces /\ Frame(r).what # "none"
                                 /\ Piece("result", r) \in Pieces
                                 /\ Piece("result", r).what # "none"
    /\ \A c \in Contents, n \in Sizes, p \in Pieces :
          /\ Put(c, n, p) \in Contents /\ PartOf(c, n) \in Contents /\ Whole(p) \in Contents
          /\ p.what # "none" => Put(c, n, p) # None
          /\ Put(c, n, p).head = p
          /\ PartOf(Put(c, n, p), n) = PartOf(Whole(p), n)
    /\ \A c \in Contents : Captioned(c) \in Contents /\ Captioned(c) # None
<1>1. 0 \in 0 .. MaxRounds
  BY BridgeAssumption
<1>2. Piece("none", 0) \in Pieces /\ Piece("blank", 0) \in Pieces
  BY <1>1 DEF Piece, Pieces
<1>3. \A p \in Pieces : /\ Whole(p) \in Contents /\ Whole(p).head = p
                        /\ p = [what |-> p.what, of |-> p.of]
  BY DEF Whole, Contents, Pieces
<1>4. Piece("none", 0).what = "none" /\ Piece("blank", 0).what = "blank"
  BY DEF Piece
<1>5. None.head.what = "none" /\ None \in Contents
  BY <1>2, <1>3, <1>4 DEF None
<1>6. Blank \in Contents /\ Blank # None
  BY <1>2, <1>3, <1>4, <1>5 DEF Blank
<1>7. \A r \in 0 .. MaxRounds : /\ Frame(r) \in Pieces /\ Frame(r).what # "none"
                                /\ Piece("result", r) \in Pieces
                                /\ Piece("result", r).what # "none"
  BY DEF Frame, Piece, Pieces
<1>8. ASSUME NEW c \in Contents, NEW n \in Sizes, NEW p \in Pieces
      PROVE  /\ Put(c, n, p) \in Contents /\ PartOf(c, n) \in Contents
             /\ p.what # "none" => Put(c, n, p) # None
             /\ Put(c, n, p).head = p
             /\ PartOf(Put(c, n, p), n) = PartOf(Whole(p), n)
  <2>1. c.head \in Pieces /\ c.tail \in Pieces
    BY DEF Contents
  <2>2. Put(c, n, p) \in Contents /\ Put(c, n, p).head = p
    BY <2>1, <1>3 DEF Put, Contents
  <2>3. PartOf(c, n) \in Contents
    BY <2>1, <1>2 DEF PartOf, Contents
  <2>4. PartOf(Put(c, n, p), n) = PartOf(Whole(p), n)
    BY DEF PartOf, Put, Whole
  <2> QED BY <2>2, <2>3, <2>4, <1>5
<1>9. ASSUME NEW c \in Contents PROVE Captioned(c) \in Contents /\ Captioned(c) # None
  <2>1. c.head.of \in 0 .. MaxRounds /\ c.tail.of \in 0 .. MaxRounds
    BY DEF Contents, Pieces
  <2>2. Piece("captioned", c.head.of) \in Pieces /\ Piece("captioned", c.tail.of) \in Pieces
        /\ Piece("captioned", c.head.of).what = "captioned"
    BY <2>1 DEF Piece, Pieces
  <2>3. Captioned(c) \in Contents /\ Captioned(c).head = Piece("captioned", c.head.of)
    BY <2>2 DEF Captioned, Contents
  <2> QED BY <2>2, <2>3, <1>5
<1> QED BY <1>3, <1>5, <1>6, <1>7, <1>8, <1>9

LEMMA InitHolds == Init => IInv
<1> SUFFICES ASSUME Init PROVE IInv OBVIOUS
<1> USE DEF Init
<1>1. 0 \in 0 .. MaxRounds /\ \A r \in 1 .. MaxRounds : made[r] = Blank /\ file[r] = Blank
  BY BridgeAssumption
<1>2. TypeOK
  <2>1. made \in [1 .. MaxRounds -> Contents] /\ file \in [1 .. MaxRounds -> Contents]
    BY ContentsFacts
  <2> QED BY <1>1, <2>1, ContentsFacts DEF TypeOK, Pcs, Arrays, Arguments
<1>3. Holding BY <1>1, ContentsFacts DEF Holding, InputHeld, OutputHeld, Arguments, Arrays
<1>4. Progress /\ Rounds /\ HandleLeads
  BY DEF Progress, Rounds, HandleLeads, During, Before
<1>5. Fresh /\ Filed BY <1>1 DEF Fresh, Filed
<1>6. DestroyIsComplete BY DEF DestroyIsComplete
<1> QED BY <1>2, <1>3, <1>4, <1>5, <1>6 DEF IInv

\* A step between two rounds, or before them, leaves what is made and filed as it is.
LEMMA FilesKept ==
    ASSUME Fresh, Filed, Rounds, round \in Nat, UNCHANGED <<round, made, file>>,
           \/ pc \in {"start", "loop", "close"} /\ ~During'
           \/ Before /\ Before'
           \/ During /\ ~Before /\ During' /\ ~Before'
    PROVE  Fresh' /\ Filed'
<1> USE DEF Fresh, Filed, Rounds, Finished, During, Before
<1>1. CASE pc \in {"start", "loop", "close"} /\ ~During'
  <2>1. Fresh' BY <1>1
  <2>2. Filed' BY <1>1
  <2> QED BY <2>1, <2>2
<1>2. CASE Before /\ Before'
  <2>1. Fresh' BY <1>2
  <2>2. Filed' BY <1>2
  <2> QED BY <2>1, <2>2
<1>3. CASE During /\ ~Before /\ During' /\ ~Before'
  <2>1. Fresh' BY <1>3
  <2>2. Filed' BY <1>3
  <2> QED BY <2>1, <2>2
<1> QED BY <1>1, <1>2, <1>3

\* A call that makes something of its round leaves the rounds before it as they are.
LEMMA FilesAfterCall ==
    ASSUME Fresh, Filed, round \in Nat, made \in [1 .. MaxRounds -> Contents],
           UNCHANGED <<round, file>>, Before, During', ~Before',
           UNCHANGED made \/ \E c : made' = [made EXCEPT ![round] = c]
    PROVE  Fresh' /\ Filed'
<1> USE DEF Fresh, Filed, Finished, During, Before
<1>1. \A r \in 1 .. MaxRounds : r # round => made'[r] = made[r]
  OBVIOUS
<1>2. Fresh' BY <1>1
<1>3. Filed' BY <1>1
<1> QED BY <1>2, <1>3

LEMMA StepHolds == IInv /\ [Next]_vars => IInv'
<1> SUFFICES ASSUME IInv, [Next]_vars PROVE IInv' OBVIOUS
<1> USE DEF IInv
<1>0. /\ round \in 0 .. MaxRounds /\ round \in Nat
      /\ java \in [Arrays -> Contents] /\ native \in [Arguments -> Contents]
      /\ made \in [1 .. MaxRounds -> Contents] /\ file \in [1 .. MaxRounds -> Contents]
  BY BridgeAssumption DEF TypeOK
<1>1. CASE CreateSucceeds \/ CreateFails
  <2> USE <1>1 DEF CreateSucceeds, CreateFails, Goto, fixed, arrays
  <2>1. TypeOK'
    <3>1. heap' \subseteq Object(task)
      BY DEF TypeOK, Tasks, Object, Layout, Picture
    <3> QED BY <3>1 DEF TypeOK, Pcs
  <2>2. Holding' BY DEF Holding, InputHeld, OutputHeld
  <2>3. Progress' /\ Rounds' /\ HandleLeads'
    BY DEF Progress, Rounds, HandleLeads, During, Before
  <2>4. Fresh' /\ Filed' BY <1>0, FilesKept DEF During, Before
  <2>5. DestroyIsComplete' BY DEF DestroyIsComplete
  <2> QED BY <2>1, <2>2, <2>3, <2>4, <2>5
<1>2. CASE Destroy
  <2> USE <1>2 DEF Destroy, Goto, fixed, arrays
  <2>1. Layout(ReleasedAs(task)) = Layout(task) /\ Object(task) \ Freed(task) \subseteq {Picture}
    BY SameLayout DEF TypeOK
  <2>2. TypeOK' BY DEF TypeOK, Pcs
  <2>3. Holding' BY DEF Holding, InputHeld, OutputHeld
  <2>4. Progress' /\ Rounds' /\ HandleLeads'
    BY DEF Progress, Rounds, HandleLeads, During, Before
  <2>5. Fresh' /\ Filed' BY <1>0, FilesKept DEF During, Before
  <2>6. DestroyIsComplete' BY <2>1 DEF DestroyIsComplete, TypeOK
  <2> QED BY <2>2, <2>3, <2>4, <2>5, <2>6
<1>3. CASE Read
  <2> USE <1>3 DEF Read, Goto, fixed, objects
  <2>1. round' \in 0 .. MaxRounds /\ round' >= 1 /\ round' = round + 1
    BY <1>0, BridgeAssumption
  <2>2. PICK n \in Sizes : java' = [java EXCEPT !["data"] = Put(java["data"], n, Frame(round'))]
    OBVIOUS
  <2> DEFINE p == Frame(round')
             d == java["data"]
             c == Put(d, n, p)
  <2>3. c \in Contents /\ c # None /\ c.head = Frame(round')
    <3>1. p \in Pieces /\ p.what # "none" BY <2>1, ContentsFacts
    <3>2. d \in Contents BY <1>0 DEF Arrays
    <3> HIDE DEF p, d
    <3>3. c \in Contents /\ c # None /\ c.head = p BY <3>1, <3>2, ContentsFacts
    <3> QED BY <3>3 DEF p
  <2>4. java' = [java EXCEPT !["data"] = c] BY <2>2
  <2> HIDE DEF c
  <2>5. TypeOK' BY <1>0, <2>1, <2>3, <2>4 DEF TypeOK, Pcs, Arrays
  <2>6. Holding' BY <1>0, <2>3, <2>4 DEF Holding, InputHeld, OutputHeld, Arrays
  <2>7. Progress' BY <1>0, <2>3, <2>4 DEF Progress, Arrays
  <2>8. Rounds' /\ HandleLeads' BY <2>1 DEF Rounds, HandleLeads, During, Before
  <2>9. Fresh' BY <1>0, <2>1 DEF Fresh, During, Before
  <2>10. Filed' BY <1>0, <2>1 DEF Filed, Finished
  <2>11. DestroyIsComplete' BY DEF DestroyIsComplete
  <2> QED BY <2>5, <2>6, <2>7, <2>8, <2>9, <2>10, <2>11
<1>4. CASE Stop
  <2> USE <1>4 DEF Stop, Goto, fixed, objects, arrays
  <2>1. TypeOK' BY DEF TypeOK, Pcs
  <2>2. Holding' BY DEF Holding, InputHeld, OutputHeld
  <2>3. Progress' /\ Rounds' /\ HandleLeads'
    BY DEF Progress, Rounds, HandleLeads, During, Before
  <2>4. Fresh' /\ Filed' BY <1>0, FilesKept DEF During, Before
  <2>5. DestroyIsComplete' BY DEF DestroyIsComplete
  <2> QED BY <2>1, <2>2, <2>3, <2>4, <2>5
<1>5. CASE TestHandle
  <2> USE <1>5 DEF TestHandle, Makes, Goto, fixed, arrays
  <2>1. round \in 1 .. MaxRounds /\ java["data"] \in Contents
    BY <1>0 DEF Rounds, During, Before, Arrays
  <2>2. TypeOK' BY <1>0, <2>1 DEF TypeOK, Pcs
  <2>3. Holding' BY DEF Holding, InputHeld, OutputHeld
  <2>4. Progress'
    <3>1. task = "caption" => made'[round] = java["data"] BY <1>0, <2>1
    <3>2. task # "caption" => made'[round] = Blank BY <2>1 DEF Fresh, Before
    <3>3. ~(ret' > 0) OBVIOUS
    <3> QED BY <3>1, <3>2, <3>3 DEF Progress
  <2>5. Rounds' /\ HandleLeads' BY DEF Rounds, HandleLeads, During, Before
  <2>6. Fresh' /\ Filed' BY <1>0, FilesAfterCall DEF During, Before
  <2>7. DestroyIsComplete' BY DEF DestroyIsComplete, TypeOK
  <2> QED BY <2>2, <2>3, <2>4, <2>5, <2>6, <2>7
<1>6. CASE GetInput
  <2> USE <1>6 DEF GetInput, Goto, fixed, objects
  <2>1. native' = [native EXCEPT !["frame"] = java["data"]] /\ java["data"] # None
        /\ java["data"] \in Contents /\ java["data"].head = Frame(round)
    BY DEF GetElements, ArrayOf, Holding, TypeOK, Arrays, Progress
  <2>2. native["OutFrame"] = None /\ native \in [Arguments -> Contents]
    BY DEF Holding, OutputHeld, TypeOK
  <2>3. TypeOK' BY <2>1, <2>2 DEF TypeOK, Pcs, Arguments
  <2>4. Holding' BY <2>1, <2>2 DEF Holding, InputHeld, OutputHeld, Arguments
  <2>5. Progress' BY <2>1, <2>2 DEF Progress, Arguments
  <2>6. Rounds' /\ HandleLeads' BY DEF Rounds, HandleLeads, During, Before
  <2>7. Fresh' /\ Filed' BY <1>0, FilesKept DEF During, Before
  <2>8. DestroyIsComplete' BY DEF DestroyIsComplete
  <2> QED BY <2>3, <2>4, <2>5, <2>6, <2>7, <2>8
<1>7. CASE GetOutput
  <2> USE <1>7 DEF GetOutput, Goto, fixed, objects
  <2>1. ArrayOf("OutFrame") \in Arrays /\ task # "caption"
    BY DEF ArrayOf, Arrays, Progress
  <2>2. native' = [native EXCEPT !["OutFrame"] = java[ArrayOf("OutFrame")]]
        /\ java[ArrayOf("OutFrame")] # None /\ java[ArrayOf("OutFrame")] \in Contents
    BY <2>1 DEF GetElements, Holding, TypeOK
  <2>3. native["frame"] # None /\ native \in [Arguments -> Contents]
    BY DEF Holding, InputHeld, TypeOK
  <2>4. TypeOK' BY <2>2, <2>3 DEF TypeOK, Pcs, Arguments
  <2>5. Holding' BY <2>1, <2>2, <2>3 DEF Holding, InputHeld, OutputHeld, Arguments
  <2>6. Progress' BY <2>1, <2>2, <2>3 DEF Progress, Arguments
  <2>7. Rounds' /\ HandleLeads' BY DEF Rounds, HandleLeads, During, Before
  <2>8. Fresh' /\ Filed' BY <1>0, FilesKept DEF During, Before
  <2>9. DestroyIsComplete' BY DEF DestroyIsComplete
  <2> QED BY <2>4, <2>5, <2>6, <2>7, <2>8, <2>9
<1>8. CASE WorkFails
  <2> USE <1>8 DEF WorkFails, Makes, Goto, fixed, objects, arrays
  <2>1. round \in 1 .. MaxRounds
    BY <1>0 DEF Rounds, During, Before
  <2>2. /\ Sees("frame") = IF copies THEN native["frame"] ELSE java["data"]
        /\ Sees("frame") \in Contents
    BY <1>0 DEF Sees, ArrayOf, Arrays, Arguments
  <2>3. TypeOK' BY <1>0, <2>1, <2>2 DEF TypeOK, Pcs
  <2>4. Holding' BY DEF Holding, InputHeld, OutputHeld
  <2>5. Progress'
    <3>1. task = "caption" => made'[round] = Sees("frame") BY <1>0, <2>1
    <3>2. task # "caption" => made'[round] = Blank BY <2>1 DEF Fresh, Before
    <3>3. ~(ret' > 0) OBVIOUS
    <3> QED BY <2>2, <3>1, <3>2, <3>3 DEF Progress
  <2>6. Rounds' /\ HandleLeads' BY DEF Rounds, HandleLeads, During, Before
  <2>7. Fresh' /\ Filed' BY <1>0, FilesAfterCall DEF During, Before
  <2>8. DestroyIsComplete' BY DEF DestroyIsComplete
  <2> QED BY <2>3, <2>4, <2>5, <2>6, <2>7, <2>8
<1>9. CASE Blend
  <2> USE <1>9 DEF Blend, Makes, Goto, fixed, objects
  <2> DEFINE c == Captioned(Sees("frame"))
  <2>1. round \in 1 .. MaxRounds
    BY <1>0 DEF Rounds, During, Before
  <2>2. Sees("frame") \in Contents
    BY <1>0 DEF Sees, ArrayOf, Arrays, Arguments
  <2>3. c \in Contents /\ c # None
    BY <2>2, ContentsFacts
  <2> HIDE DEF c
  <2>4. Store("frame", c) /\ made' = [made EXCEPT ![round] = c] /\ ret' = 0
    BY DEF c
  <2>5. made'[round] = c /\ made' \in [1 .. MaxRounds -> Contents]
    BY <1>0, <2>1, <2>3, <2>4
  <2>6. Rounds' /\ HandleLeads' /\ DestroyIsComplete'
    BY DEF Rounds, HandleLeads, DestroyIsComplete, During, Before
  <2>7. Fresh' /\ Filed' BY <1>0, <2>4, FilesAfterCall DEF During, Before
  <2>8. CASE copies
    <3>1. native' = [native EXCEPT !["frame"] = c] /\ java' = java
      BY <2>4, <2>8 DEF Store
    <3>2. native'["frame"] = c /\ native'["OutFrame"] = native["OutFrame"]
      BY <1>0, <3>1 DEF Arguments
    <3>3. TypeOK' BY <1>0, <2>3, <2>4, <2>5, <3>1 DEF TypeOK, Pcs
    <3>4. Holding' BY <2>3, <3>1, <3>2 DEF Holding, InputHeld, OutputHeld
    <3>5. Progress' BY <2>5, <2>8, <3>2 DEF Progress
    <3> QED BY <2>6, <2>7, <3>3, <3>4, <3>5
  <2>9. CASE ~copies
    <3>1. java' = [java EXCEPT !["data"] = c] /\ native' = native
      BY <2>4, <2>9 DEF Store, ArrayOf
    <3>2. java'["data"] = c /\ \A a \in Arrays : a # "data" => java'[a] = java[a]
      BY <1>0, <3>1 DEF Arrays
    <3>3. TypeOK' BY <1>0, <2>3, <2>4, <2>5, <3>1 DEF TypeOK, Pcs
    <3>4. Holding' BY <2>3, <3>1, <3>2 DEF Holding, InputHeld, OutputHeld
    <3>5. Progress' BY <2>5, <2>9, <3>2 DEF Progress
    <3> QED BY <2>6, <2>7, <3>3, <3>4, <3>5
  <2> QED BY <2>8, <2>9 DEF TypeOK
<1>10. CASE Work
  <2> USE <1>10 DEF Work, Makes, Goto, fixed, objects
  <2>1. round \in 1 .. MaxRounds
    BY <1>0 DEF Rounds, During, Before
  <2>2. PICK f \in 1 .. round, n \in Sizes :
            /\ ret' = n
            /\ Store("OutFrame", Put(Sees("OutFrame"), n, Piece("result", f)))
            /\ made' = [made EXCEPT ![round] = PartOf(Whole(Piece("result", f)), n)]
    OBVIOUS
  <2> DEFINE p == Piece("result", f)
             c == Put(Sees("OutFrame"), n, p)
             t == PartOf(Whole(p), n)
  <2>3. p \in Pieces /\ p.what # "none"
    <3>1. f \in 0 .. MaxRounds BY <1>0, BridgeAssumption
    <3> QED BY <3>1, ContentsFacts
  <2> HIDE DEF p
  <2>4. Sees("OutFrame") \in Contents /\ ArrayOf("OutFrame") \in Arrays
    BY <1>0 DEF Sees, ArrayOf, Arrays, Arguments
  <2>5. c \in Contents /\ c # None /\ PartOf(c, n) = t /\ t \in Contents
    BY <2>3, <2>4, ContentsFacts
  <2> HIDE DEF c, t
  <2>6. Store("OutFrame", c) /\ made' = [made EXCEPT ![round] = t] /\ ret' = n
    BY <2>2 DEF c, t, p
  <2>7. made'[round] = t /\ made' \in [1 .. MaxRounds -> Contents] /\ n > 0 /\ n \in Sizes
    BY <1>0, <2>1, <2>5, <2>6 DEF Sizes
  <2>8. Rounds' /\ HandleLeads' /\ DestroyIsComplete'
    BY DEF Rounds, HandleLeads, DestroyIsComplete, During, Before
  <2>9. Fresh' /\ Filed' BY <1>0, <2>6, FilesAfterCall DEF During, Before
  <2>10. CASE copies
    <3>1. native' = [native EXCEPT !["OutFrame"] = c] /\ java' = java
      BY <2>6, <2>10 DEF Store
    <3>2. native'["OutFrame"] = c /\ native'["frame"] = native["frame"]
      BY <1>0, <3>1 DEF Arguments
    <3>3. TypeOK' BY <1>0, <2>5, <2>6, <2>7, <3>1 DEF TypeOK, Pcs
    <3>4. Holding' BY <2>5, <3>1, <3>2 DEF Holding, InputHeld, OutputHeld
    <3>5. Progress' BY <2>5, <2>6, <2>7, <2>10, <3>2 DEF Progress
    <3> QED BY <2>8, <2>9, <3>3, <3>4, <3>5
  <2>11. CASE ~copies
    <3> DEFINE o == ArrayOf("OutFrame")
    <3>1. java' = [java EXCEPT ![o] = c] /\ native' = native /\ ArrayOf("OutFrame")' = o
      BY <2>6, <2>11 DEF Store, ArrayOf
    <3>2. o \in Arrays BY <2>4
    <3> HIDE DEF o
    <3>3. java'[o] = c /\ \A a \in Arrays : a # o => java'[a] = java[a]
      BY <1>0, <3>1, <3>2
    <3>4. TypeOK' BY <1>0, <2>5, <2>6, <2>7, <3>1 DEF TypeOK, Pcs
    <3>5. Holding' BY <2>5, <3>1, <3>3 DEF Holding, InputHeld, OutputHeld
    <3>6. Progress' BY <2>5, <2>6, <2>7, <2>11, <3>1, <3>3 DEF Progress
    <3> QED BY <2>8, <2>9, <3>4, <3>5, <3>6
  <2> QED BY <2>10, <2>11 DEF TypeOK
<1>11. CASE ReleaseFirst
  <2> USE <1>11 DEF ReleaseFirst, Goto, fixed, objects
  <2>1. ReleaseElements("frame")
    BY DEF ReleaseOrder
  <2>2. native' = [native EXCEPT !["frame"] = None]
        /\ java' = IF copies THEN [java EXCEPT !["data"] = native["frame"]] ELSE java
    BY <2>1 DEF ReleaseElements, ArrayOf
  <2>3. native["frame"] # None /\ native["frame"] \in Contents
    BY <1>0 DEF Holding, InputHeld, Arguments
  <2>4. native'["frame"] = None /\ native'["OutFrame"] = native["OutFrame"]
    BY <1>0, <2>2 DEF Arguments
  <2>5. TypeOK' BY <1>0, <2>2, <2>3, ContentsFacts DEF TypeOK, Pcs, Arrays
  <2>6. Holding' BY <1>0, <2>2, <2>3, <2>4 DEF Holding, InputHeld, OutputHeld, Arrays
  <2>7. Progress'
    BY <1>0, <2>2, <2>3, <2>4 DEF Progress, ArrayOf, Arrays, TypeOK
  <2>8. Rounds' /\ HandleLeads' BY DEF Rounds, HandleLeads, During, Before
  <2>9. Fresh' /\ Filed' BY <1>0, FilesKept DEF During, Before
  <2>10. DestroyIsComplete' BY DEF DestroyIsComplete
  <2> QED BY <2>5, <2>6, <2>7, <2>8, <2>9, <2>10
<1>12. CASE ReleaseLast
  <2> USE <1>12 DEF ReleaseLast, Goto, fixed, objects
  <2>1. ReleaseElements("OutFrame") /\ ArrayOf("OutFrame") \in Arrays /\ task # "caption"
    BY DEF ReleaseOrder, ArrayOf, Arrays, Progress
  <2>2. native' = [native EXCEPT !["OutFrame"] = None]
        /\ java' = IF copies THEN [java EXCEPT ![ArrayOf("OutFrame")] = native["OutFrame"]]
                             ELSE java
    BY <2>1 DEF ReleaseElements
  <2>3. native["frame"] = None /\ native["OutFrame"] # None /\ native["OutFrame"] \in Contents
    BY <1>0, <2>1 DEF Holding, InputHeld, OutputHeld, Arguments
  <2>4. native'["OutFrame"] = None /\ native'["frame"] = None
    BY <1>0, <2>2, <2>3 DEF Arguments
  <2>5. TypeOK' BY <1>0, <2>1, <2>2, <2>3, ContentsFacts DEF TypeOK, Pcs
  <2>6. Holding' BY <1>0, <2>1, <2>2, <2>3, <2>4 DEF Holding, InputHeld, OutputHeld
  <2>7. ArrayOf("OutFrame")' = ArrayOf("OutFrame") BY DEF ArrayOf
  <2>8. Progress' BY <1>0, <2>1, <2>2, <2>3, <2>7 DEF Progress
  <2>9. Rounds' /\ HandleLeads' BY DEF Rounds, HandleLeads, During, Before
  <2>10. Fresh' /\ Filed' BY <1>0, FilesKept DEF During, Before
  <2>11. DestroyIsComplete' BY DEF DestroyIsComplete
  <2> QED BY <2>5, <2>6, <2>8, <2>9, <2>10, <2>11
<1>13. CASE Write
  <2> USE <1>13 DEF Write, Goto, fixed, objects, arrays
  <2>1. ArrayOf("OutFrame") \in Arrays /\ java[ArrayOf("OutFrame")] \in Contents
        /\ java["data"] \in Contents
    BY <1>0 DEF ArrayOf, Arrays
  <2>2. round \in 1 .. MaxRounds /\ file[round] = Blank
    BY <1>0 DEF Rounds, Fresh, During
  <2>3. TypeOK'
    <3>1. ret > 0 => ret \in Sizes BY DEF TypeOK, Sizes
    <3>2. ret > 0 => PartOf(java[ArrayOf("OutFrame")], ret) \in Contents
      <4>1. ret \in Sizes => PartOf(java[ArrayOf("OutFrame")], ret) \in Contents
        <5> DEFINE c == java[ArrayOf("OutFrame")]
        <5>1. c \in Contents BY <2>1
        <5> HIDE DEF c
        <5>2. Piece("none", 0) \in Pieces BY BridgeAssumption DEF Piece, Pieces
        <5>3. PartOf(c, ret) \in Contents BY <5>1, <5>2 DEF PartOf, Contents
        <5> QED BY <5>3 DEF c
      <4> QED BY <3>1, <4>1
    <3>3. file' \in [1 .. MaxRounds -> Contents] BY <1>0, <2>1, <3>2
    <3> QED BY <3>3 DEF TypeOK, Pcs
  <2>4. Holding' BY DEF Holding, InputHeld, OutputHeld
  <2>5. Progress' /\ Rounds' /\ HandleLeads'
    BY DEF Progress, Rounds, HandleLeads, During, Before
  <2>6. file'[round] = made[round] /\ \A r \in 1 .. MaxRounds : r # round => file'[r] = file[r]
    <3>1. CASE task = "caption" BY <1>0, <2>2, <3>1 DEF Progress
    <3>2. CASE task # "caption" /\ ret > 0 BY <1>0, <2>2, <3>2 DEF Progress
    <3>3. CASE task # "caption" /\ ~(ret > 0) BY <2>2, <3>3 DEF Progress
    <3> QED BY <3>1, <3>2, <3>3
  <2>7. Fresh' BY <1>0, <2>6 DEF Fresh, During, Before
  <2>8. Filed' BY <1>0, <2>6 DEF Filed, Finished
  <2>9. DestroyIsComplete' BY DEF DestroyIsComplete
  <2> QED BY <2>3, <2>4, <2>5, <2>7, <2>8, <2>9
<1>14. CASE UNCHANGED vars
  <2> USE <1>14 DEF vars, fixed, objects, arrays
  <2>1. TypeOK' /\ Holding' BY DEF TypeOK, Holding, InputHeld, OutputHeld
  <2>2. Progress' BY DEF Progress, ArrayOf
  <2>3. Fresh' /\ Filed' BY DEF Fresh, Filed, Finished, During, Before
  <2>4. Rounds' /\ HandleLeads' /\ DestroyIsComplete'
    BY DEF Rounds, HandleLeads, DestroyIsComplete, During, Before
  <2> QED BY <2>1, <2>2, <2>3, <2>4
<1> QED
  BY <1>1, <1>2, <1>3, <1>4, <1>5, <1>6, <1>7, <1>8, <1>9, <1>10, <1>11, <1>12, <1>13, <1>14
  DEF Next

-----------------------------------------------------------------------------
LEMMA Invariance == Spec => []IInv
<1> QED BY InitHolds, StepHolds, PTL DEF Spec

\* The variables of the bridge keep their types (JniBridge's TypeOK).
THEOREM TypeCorrect == Spec => []TypeOK
<1>1. IInv => TypeOK BY DEF IInv
<1> QED BY <1>1, Invariance, PTL

\* Whether the arrays are pinned or copied, one or two, a call works on the frame read
\* in its round, and the file gets of each round exactly what its call made, also when
\* a read is short or a codec gives an earlier frame's result (CarEyeJni.c, Encode,
\* Decode and AddOSD; MainActivity.java).
THEOREM WritesItsResults == Spec => []FileHasResults
<1>1. IInv => FileHasResults
  BY DEF IInv, Progress, Filed, FileHasResults, Sees, ArrayOf
<1> QED BY <1>1, Invariance, PTL

\* Every path of an entry point gives back the elements it holds.
THEOREM ElementsAreReleased == Spec => []NoElementsStayHeld
<1>1. IInv => NoElementsStayHeld
  BY DEF IInv, Holding, InputHeld, OutputHeld, NoElementsStayHeld, Arguments
<1> QED BY <1>1, Invariance, PTL

\* A destroyed handle leaves at most a picture, a decoder too, which is released
\* as if it were an encoder (FFmpegNative.java, DestroyDecode).
THEOREM HandlesAreDestroyed == Spec => []DestroyIsComplete
<1>1. IInv => DestroyIsComplete BY DEF IInv
<1> QED BY <1>1, Invariance, PTL

-----------------------------------------------------------------------------
(* Numbers, and recursive functions over them. *)

\* A set of numbers with 0 and every successor has them all.
LEMMA SetInduction ==
    ASSUME NEW T, 0 \in T, \A n \in Nat : n \in T => n + 1 \in T
    PROVE  Nat \subseteq T
<1> SUFFICES ASSUME NEW x \in Nat \ T PROVE FALSE
  OBVIOUS
<1> DEFINE Up == {0 .. k : k \in Nat \ T}
<1>1. Up \subseteq FiniteSubsetsOf(Nat)
  <2>1. ASSUME NEW k \in Nat PROVE 0 .. k \in FiniteSubsetsOf(Nat)
    <3>1. 0 .. k \subseteq Nat /\ 0 \in Int /\ k \in Int
      OBVIOUS
    <3>2. IsFiniteSet(0 .. k)
      BY <3>1, FS_Interval
    <3> QED
      BY <3>1, <3>2 DEF FiniteSubsetsOf
  <2> QED
    BY <2>1
<1>2. PICK I \in Up : \A J \in Up : ~ (<<J, I>> \in StrictSubsetOrdering(Nat))
  <2>1. IsWellFoundedOn(StrictSubsetOrdering(Nat), FiniteSubsetsOf(Nat))
    BY FS_StrictSubsetOrderingWellFounded
  <2>2. Up # {}
    OBVIOUS
  <2> HIDE DEF Up
  <2> QED
    BY <1>1, <2>1, <2>2, WFMin
<1>3. PICK k \in Nat \ T : I = 0 .. k
  BY <1>2
<1>4. k # 0 /\ k - 1 \in Nat \ T
  OBVIOUS
<1>5. 0 .. k - 1 \in Up
  BY <1>4
<1>6. <<0 .. k - 1, 0 .. k>> \in StrictSubsetOrdering(Nat)
  <2>1. k \in 0 .. k /\ k \notin 0 .. k - 1 /\ 0 .. k - 1 \subseteq 0 .. k /\ 0 .. k \subseteq Nat
    BY <1>4
  <2> QED
    BY <2>1 DEF StrictSubsetOrdering
<1> QED
  BY <1>2, <1>3, <1>5, <1>6

\* A set of numbers has a least one.
LEMMA Least ==
    ASSUME NEW S \in SUBSET Nat, S # {}
    PROVE  \E n \in S : \A m \in S : n <= m
<1> SUFFICES ASSUME \A n \in S : \E m \in S : ~(n <= m) PROVE FALSE
  OBVIOUS
<1> DEFINE T == {n \in Nat : \A m \in S : n < m}
<1>1. 0 \in T
  OBVIOUS
<1>2. ASSUME NEW n \in Nat, n \in T PROVE n + 1 \in T
  <2>1. \A m \in S : n + 1 <= m
    BY <1>2
  <2>2. n + 1 \notin S
    BY <2>1
  <2> QED
    BY <2>1, <2>2
<1>3. Nat \subseteq T
  <2> HIDE DEF T
  <2> QED
    BY <1>1, <1>2, SetInduction
<1>4. PICK m \in S : TRUE
  OBVIOUS
<1>5. m < m
  BY <1>3
<1> QED
  BY <1>5

\* Division with remainder.
LEMMA DivModOf ==
    ASSUME NEW d \in Nat \ {0}, NEW q \in Nat, NEW r \in 0 .. d - 1
    PROVE (q * d + r) \div d = q /\ (q * d + r) % d = r
  OBVIOUS

LEMMA DivMod ==
    ASSUME NEW n \in Nat, NEW d \in Nat \ {0}
    PROVE  n = (n \div d) * d + (n % d) /\ n % d \in 0 .. d - 1 /\ n \div d \in Nat
<1> DEFINE q == n \div d
           r == n - q * d
<1>1. q \in Nat
  OBVIOUS
<1>2. q * d <= n /\ n < q * d + d
  OBVIOUS
<1> HIDE DEF q
<1>3. q * d \in Nat
  BY <1>1
<1>4. r \in 0 .. d - 1 /\ n = q * d + r
  BY <1>2, <1>3
<1> HIDE DEF r
<1>5. (q * d + r) % d = r
  BY <1>1, <1>4, DivModOf
<1>6. n % d = r
  BY <1>4, <1>5
<1> QED
  BY <1>1, <1>4, <1>6 DEF q

\* f starts at b and goes on by the steps G.
Recursion(f, S, b, n, G) ==
    f \in [0 .. n -> S] /\ f[0] = b /\ \A k \in 1 .. n : f[k] = G[k][f[k - 1]]

\* A recursion whose steps stay in a set has a solution there.
LEMMA RecursionExists ==
    ASSUME NEW S, NEW b \in S, NEW n \in Nat, NEW G \in [1 .. n -> [S -> S]]
    PROVE  \E f : Recursion(f, S, b, n, G)
<1> DEFINE Solves(f, m) == f[0] = b /\ \A k \in 1 .. m : f[k] = G[k][f[k - 1]]
           T == {m \in Nat : m <= n => \E f \in [0 .. m -> S] : Solves(f, m)}
<1>1. 0 \in T
  <2> DEFINE f == [k \in 0 .. 0 |-> b]
  <2>1. f \in [0 .. 0 -> S] /\ Solves(f, 0)
    OBVIOUS
  <2> QED
    BY <2>1
<1>2. ASSUME NEW m \in Nat, m \in T PROVE m + 1 \in T
  <2> SUFFICES ASSUME m + 1 <= n
               PROVE  \E f \in [0 .. m + 1 -> S] : Solves(f, m + 1)
    OBVIOUS
  <2>1. PICK f \in [0 .. m -> S] : Solves(f, m)
    BY <1>2
  <2>2. m + 1 \in 1 .. n /\ m \in 0 .. m /\ G[m + 1] \in [S -> S] /\ f[m] \in S
    OBVIOUS
  <2> DEFINE x == G[m + 1][f[m]]
             g == [k \in 0 .. m + 1 |-> IF k = m + 1 THEN x ELSE f[k]]
  <2>3. x \in S
    BY <2>2
  <2>4. g \in [0 .. m + 1 -> S]
    BY <2>3
  <2>5. g[0] = b /\ \A k \in 1 .. m : g[k] = f[k] /\ g[k - 1] = f[k - 1]
    BY <2>1
  <2>6. g[m + 1] = x /\ g[(m + 1) - 1] = f[m]
    OBVIOUS
  <2>7. \A k \in 1 .. m + 1 : g[k] = G[k][g[k - 1]]
    <3> HIDE DEF g
    <3> SUFFICES ASSUME NEW k \in 1 .. m + 1 PROVE g[k] = G[k][g[k - 1]]
      OBVIOUS
    <3>1. CASE k = m + 1
      BY <2>6, <3>1
    <3>2. CASE k # m + 1
      <4>1. k \in 1 .. m
        BY <3>2
      <4> QED
        BY <2>1, <2>5, <4>1
    <3> QED
      BY <3>1, <3>2
  <2> QED
    BY <2>4, <2>5, <2>7
<1>3. n \in T
  <2> HIDE DEF T
  <2> QED
    BY <1>1, <1>2, SetInduction
<1> QED
  BY <1>3 DEF Recursion

-----------------------------------------------------------------------------
(* Requests and answers. *)

\* What was asked stays, and an answer is the one its request calls for.
AnswersFit ==
    /\ request \in Requests
    /\ answer # Pending =>
          \/ request.kind = "encodeYuv" /\ answer = EncodeYuv(request.w, request.h)
          \/ request.kind = "decodeYuv" /\ answer = DecodeYuv(request.w, request.h)
          \/ /\ request.kind = "pcm"
             /\ answer = Deinterleave(request.samples, request.channels, request.size,
                                      request.perPcmSize)
          \/ request.kind = "adts" /\ answer = Adts(request.size, request.rate, request.channels)
          \/ request.kind = "caption" /\ answer = Drawn(request.text)

LEMMA Answers == RequestSpec => []AnswersFit
<1>1. RequestInit => AnswersFit
  BY DEF RequestInit, AnswersFit
<1>2. AnswersFit /\ [Answer]_requestVars => AnswersFit'
  BY DEF AnswersFit, Answer, EncodesYuv, DecodesYuv, EncodesPcm, WritesAdts, Captions, Asks,
         requestVars
<1> QED
  BY <1>1, <1>2, PTL DEF RequestSpec

-----------------------------------------------------------------------------
(* Headers. *)

\* A standard rate is found in the table, at an index of four bits.
LEMMA FrequencyIndex ==
    ASSUME NEW rate
    PROVE  /\ GetAACSampleFrequencyIndex(rate) \in 0 .. 15
           /\ \A i \in 1 .. 13 : SamplingFrequencies[i] = rate =>
                 SamplingFrequencies[GetAACSampleFrequencyIndex(rate) + 1] = rate
<1> DEFINE found == {i \in 0 .. 15 : SamplingFrequencies[i + 1] = rate}
           least == CHOOSE i \in found : \A j \in found : i <= j
<1>1. GetAACSampleFrequencyIndex(rate) = IF found = {} THEN 11 ELSE least
  BY DEF GetAACSampleFrequencyIndex
<1>2. CASE found = {}
  <2>1. \A i \in 1 .. 13 : SamplingFrequencies[i] # rate
    <3>1. \A i \in 1 .. 13 : i - 1 \in 0 .. 15 /\ (i - 1) + 1 = i
      OBVIOUS
    <3> QED
      BY <1>2, <3>1
  <2> QED
    BY <1>1, <1>2, <2>1
<1>3. CASE found # {}
  <2>1. \E i \in found : \A j \in found : i <= j
    <3>1. found \in SUBSET Nat
      OBVIOUS
    <3> HIDE DEF found
    <3> QED
      BY <1>3, <3>1, Least
  <2>2. least \in found
    <3> HIDE DEF found
    <3> QED
      BY <2>1
  <2> HIDE DEF least
  <2> QED
    BY <1>1, <1>3, <2>2
<1> QED
  BY <1>2, <1>3

\* What the parser makes of a header's bytes.
Header(size, channels, index) ==
    <<255, 241, Byte(64 + index * 4 + channels \div 4),
      Byte((channels % 4) * 64 + (7 + size) \div 2048),
      Byte(((7 + size) % 2048) \div 8), Byte(((7 + size) % 8) * 32 + 31), 252>>

Reads(p, size, channels, index) ==
    /\ p.sync = 4095 /\ p.crcAbsent = 1 /\ p.objectType = 2 /\ p.frames = 1
    /\ p.samplingIndex = index
    /\ size + 7 < 8192 => p.size = size + 7 /\ p.channels = channels

\* Whole multiples of 2048 do not touch the low three bits.
LEMMA WholeRows ==
    ASSUME NEW a \in Nat, NEW c \in Nat
    PROVE  (a * 2048 + c) % 8 = c % 8
  OBVIOUS

\* ParseAdts takes the bytes of the header apart again.
LEMMA HeaderRead ==
    ASSUME NEW size \in Nat, NEW channels \in 0 .. 7, NEW index \in 0 .. 15, NEW p,
           p = ParseAdts(Header(size, channels, index))
    PROVE  Reads(p, size, channels, index)
<1> DEFINE q == channels \div 4
           r == channels % 4
           t == 7 + size
           b == Header(size, channels, index)
<1>1. q \in 0 .. 1 /\ r \in 0 .. 3 /\ channels = 4 * q + r /\ t \in Nat
  OBVIOUS
<1>2. /\ b[1] = 255 /\ b[2] = 241 /\ b[7] = 252 /\ b[3] = Byte(64 + index * 4 + q)
      /\ b[4] = Byte(r * 64 + t \div 2048) /\ b[5] = Byte((t % 2048) \div 8)
      /\ b[6] = Byte((t % 8) * 32 + 31)
  BY DEF Header
<1> HIDE DEF q, r, b
<1>3. b[3] = 64 + index * 4 + q
  BY <1>1, <1>2 DEF Byte
<1>4. b[3] \div 64 = 1 /\ (b[3] \div 4) % 16 = index /\ b[3] % 2 = q
  BY <1>1, <1>3
<1>5. ASSUME size + 7 < 8192
      PROVE  /\ (b[3] % 2) * 4 + b[4] \div 64 = channels
             /\ (b[4] % 4) * 2048 + b[5] * 8 + b[6] \div 32 = size + 7
  <2> DEFINE u == t \div 2048
             v == (t % 2048) \div 8
             x == t % 8
  <2>1. u \in 0 .. 3 /\ v \in 0 .. 255 /\ x \in 0 .. 7 /\ t = u * 2048 + v * 8 + x
    <3> DEFINE y == t % 2048
    <3>1. t \in Nat /\ t < 8192
      BY <1>1, <1>5
    <3> HIDE DEF t
    <3>2. u \in Nat /\ y \in 0 .. 2047 /\ t = u * 2048 + y
      <4> DEFINE d == 2048
      <4>1. d \in Nat \ {0} /\ d - 1 = 2047
        OBVIOUS
      <4> HIDE DEF d
      <4>2. t = (t \div d) * d + (t % d) /\ t % d \in 0 .. d - 1 /\ t \div d \in Nat
        BY <3>1, <4>1, DivMod
      <4> QED
        BY <4>1, <4>2 DEF d
    <3> HIDE DEF y, u
    <3>3. u \in 0 .. 3
      BY <3>1, <3>2
    <3>4. x = y % 8
      BY <3>2, WholeRows
    <3> HIDE DEF x
    <3>5. y = v * 8 + x /\ x \in 0 .. 7 /\ v \in Nat
      <4> DEFINE d == 8
      <4>1. d \in Nat \ {0} /\ d - 1 = 7 /\ y \in Nat
        BY <3>2
      <4> HIDE DEF d
      <4>2. y = (y \div d) * d + (y % d) /\ y % d \in 0 .. d - 1 /\ y \div d \in Nat
        BY <4>1, DivMod
      <4> QED
        BY <3>4, <4>1, <4>2 DEF d, y
    <3> HIDE DEF v
    <3>6. v \in 0 .. 255
      BY <3>2, <3>5
    <3> QED
      BY <3>2, <3>3, <3>5, <3>6
  <2> HIDE DEF u, v, x
  <2>2. b[4] = r * 64 + u /\ b[5] = v /\ b[6] = x * 32 + 31
    BY <1>1, <1>2, <2>1 DEF Byte, u, v, x
  <2>3. b[4] \div 64 = r /\ b[4] % 4 = u /\ b[6] \div 32 = x
    BY <1>1, <2>1, <2>2
  <2>4. (b[3] % 2) * 4 + b[4] \div 64 = q * 4 + r
    BY <1>4, <2>3
  <2>5. (b[4] % 4) * 2048 + b[5] * 8 + b[6] \div 32 = u * 2048 + v * 8 + x
    BY <2>2, <2>3
  <2> QED
    BY <1>1, <2>1, <2>4, <2>5
<1>6. b[1] * 16 + b[2] \div 16 = 4095 /\ b[2] % 2 = 1 /\ b[7] % 4 = 0
  BY <1>2
<1>7. p = ParseAdts(b)
  BY DEF b
<1> QED
  BY <1>4, <1>5, <1>6, <1>7 DEF ParseAdts, Reads

\* The parser of libavcodec reads back what CarEye_EncoderPCM wrote in front of a
\* packet, for every length and number of channels that have room in the header.
THEOREM HeadersAreRead == RequestSpec => []HeaderParses
<1>1. AnswersFit => HeaderParses
  <2> SUFFICES ASSUME AnswersFit, Answered("adts"), request.channels < 8
               PROVE  HeaderParses
    BY DEF HeaderParses
  <2> DEFINE size == request.size
             channels == request.channels
             index == GetAACSampleFrequencyIndex(request.rate)
             b == answer
  <2>1. b = Adts(size, request.rate, channels)
    BY DEF AnswersFit, Answered
  <2>2. size \in Nat /\ channels \in 0 .. 7
    BY RequestAssumption DEF AnswersFit, Answered
  <2>3. /\ index \in 0 .. 15
        /\ \A i \in 1 .. 13 : SamplingFrequencies[i] = request.rate =>
              SamplingFrequencies[index + 1] = request.rate
    BY FrequencyIndex
  <2>4. b = Header(size, channels, index)
    BY <2>1 DEF Adts, Header
  <2> HIDE DEF index, size, channels, b
  <2> DEFINE p == ParseAdts(b)
  <2>5. p = ParseAdts(Header(size, channels, index))
    BY <2>4
  <2> HIDE DEF p
  <2>6. Reads(p, size, channels, index)
    BY <2>2, <2>3, <2>5, HeaderRead
  <2> QED
    BY <2>3, <2>6 DEF HeaderParses, Reads, p, b, size, channels
<1> QED
  BY <1>1, Answers, PTL

-----------------------------------------------------------------------------
(* Samples. *)

\* The recursion of LineStarts has a solution.
LEMMA LineStartsDefined ==
    ASSUME NEW samples \in Nat, NEW channels \in Nat \ {0}, NEW n \in Nat
    PROVE  LET from == LineStarts(samples, channels, n)
           IN  /\ from[0] = 0
               /\ \A i \in 1 .. samples : from[i] = from[i - 1] + Taken(from[i - 1], n, channels)
<1> DEFINE G == [i \in 1 .. samples |-> [k \in Nat |-> k + Taken(k, n, channels)]]
           Value(f, i) == IF i = 0 THEN 0 ELSE f[i - 1] + Taken(f[i - 1], n, channels)
           from == LineStarts(samples, channels, n)
<1>1. \A k \in Nat : k + Taken(k, n, channels) \in Nat
  BY DEF Taken
<1>2. G \in [1 .. samples -> [Nat -> Nat]]
  BY <1>1
<1>3. PICK f : Recursion(f, Nat, 0, samples, G)
  <2>1. 0 \in Nat
    OBVIOUS
  <2> HIDE DEF G
  <2> QED
    BY <1>2, <2>1, RecursionExists, Zenon
<1>4. \A i \in 0 .. samples : f[i] = Value(f, i)
  <2> SUFFICES ASSUME NEW i \in 1 .. samples PROVE f[i] = f[i - 1] + Taken(f[i - 1], n, channels)
    BY <1>3 DEF Recursion
  <2>1. f[i - 1] \in Nat
    BY <1>3 DEF Recursion
  <2> QED
    BY <1>3, <2>1 DEF Recursion
<1>5. f = [i \in 0 .. samples |-> Value(f, i)]
  <2> HIDE DEF Value, G
  <2> QED
    BY <1>3, <1>4 DEF Recursion
<1>6. from = CHOOSE g : g = [i \in 0 .. samples |-> Value(g, i)]
  BY DEF LineStarts
<1> HIDE DEF Value
<1>7. from = [i \in 0 .. samples |-> Value(from, i)]
  BY <1>5, <1>6
<1> HIDE DEF from
<1>8. \A i \in 0 .. samples : from[i] = Value(from, i)
  BY <1>7
<1> QED
  BY <1>8 DEF Value, from

\* Where each line of samples starts: where it should while there is input, and
\* never later.
StartsRight(from, samples, channels, n) ==
    \A i \in 0 .. samples : /\ from[i] \in Nat /\ from[i] <= i * channels
                            /\ i * channels <= n => from[i] = i * channels

LEMMA LineStartsBound ==
    ASSUME NEW samples \in Nat, NEW channels \in Nat \ {0}, NEW n \in Nat,
           NEW from, from = LineStarts(samples, channels, n)
    PROVE  StartsRight(from, samples, channels, n)
<1> DEFINE Good(i) == /\ from[i] \in Nat /\ from[i] <= i * channels
                      /\ i * channels <= n => from[i] = i * channels
           T == {i \in Nat : i <= samples => Good(i)}
<1>0. /\ from[0] = 0
      /\ \A i \in 1 .. samples : from[i] = from[i - 1] + Taken(from[i - 1], n, channels)
  BY LineStartsDefined
<1>1. 0 \in T
  <2>1. 0 * channels = 0
    OBVIOUS
  <2> QED
    BY <1>0, <2>1
<1>2. ASSUME NEW i \in Nat, i \in T PROVE i + 1 \in T
  <2> SUFFICES ASSUME i + 1 <= samples PROVE Good(i + 1)
    OBVIOUS
  <2> DEFINE k == from[i]
             at == i * channels
             next == (i + 1) * channels
  <2>1. Good(i)
    <3> i <= samples
      OBVIOUS
    <3> HIDE DEF Good
    <3> QED
      BY <1>2
  <2>2. from[i + 1] = k + Taken(k, n, channels)
    <3>1. i + 1 \in 1 .. samples /\ (i + 1) - 1 = i
      OBVIOUS
    <3> QED
      BY <1>0, <3>1
  <2>3. next = at + channels /\ at \in Nat
    OBVIOUS
  <2>4. k \in Nat /\ k <= at /\ (at <= n => k = at)
    BY <2>1
  <2> HIDE DEF k, at, next
  <2>5. Taken(k, n, channels) \in 1 .. channels
    BY <2>4 DEF Taken
  <2>6. next <= n => k = at /\ Taken(k, n, channels) = channels
    BY <2>3, <2>4 DEF Taken
  <2>7. from[i + 1] \in Nat /\ from[i + 1] <= next /\ (next <= n => from[i + 1] = next)
    BY <2>2, <2>3, <2>4, <2>5, <2>6
  <2> QED
    BY <2>7 DEF next
<1>3. Nat \subseteq T
  <2> HIDE DEF T
  <2> QED
    BY <1>1, <1>2, SetInduction
<1> QED
  BY <1>3 DEF StartsRight

LEMMA GivenIsNumber ==
    ASSUME NEW size \in Nat \ {0}, NEW per \in Nat \ {0}
    PROVE  Given(size, per) \in Nat
<1>1. size + per - 1 \in Nat
  OBVIOUS
<1> QED
  BY <1>1, DivMod DEF Given

\* Samples in, frame out: the place of every sample, and the frame's own order.
LEMMA SamplesPlaced ==
    ASSUME NEW samples \in Nat, NEW channels \in Nat \ {0},
           NEW size \in Nat \ {0}, NEW per \in Nat \ {0}, NEW frame,
           frame = Deinterleave(samples, channels, size, per)
    PROVE  \A c \in 0 .. channels - 1, i \in 0 .. samples - 1 :
              /\ i * channels + c < Given(size, per) => frame[c][i] = i * channels + c
              /\ frame[c][i] < samples * channels
<1> DEFINE given == Given(size, per)
           from == LineStarts(samples, channels, given)
<1>1. given \in Nat
  BY GivenIsNumber
<1>2. \A i \in 0 .. samples : /\ from[i] \in Nat /\ from[i] <= i * channels
                              /\ i * channels <= given => from[i] = i * channels
  <2> HIDE DEF given, from
  <2>1. from = LineStarts(samples, channels, given)
    BY DEF from
  <2>2. StartsRight(from, samples, channels, given)
    BY <1>1, <2>1, LineStartsBound
  <2> QED
    BY <2>2 DEF StartsRight
<1>3. \A i \in 1 .. samples : from[i] = from[i - 1] + Taken(from[i - 1], given, channels)
  <2> HIDE DEF given
  <2> QED
    BY <1>1, LineStartsDefined
<1>4. \A c \in 0 .. channels - 1, i \in 0 .. samples - 1 :
          frame[c][i] = IF c < from[i + 1] - from[i] THEN from[i] + c ELSE -1
  BY DEF Deinterleave
<1> HIDE DEF given, from
<1> SUFFICES ASSUME NEW c \in 0 .. channels - 1, NEW i \in 0 .. samples - 1
             PROVE  /\ i * channels + c < given => frame[c][i] = i * channels + c
                    /\ frame[c][i] < samples * channels
  BY DEF given
<1> DEFINE k == from[i]
           next == from[i + 1]
           at == i * channels
           then == (i + 1) * channels
           all == samples * channels
<1>5. /\ i \in 0 .. samples /\ i + 1 \in 0 .. samples /\ i + 1 \in 1 .. samples
      /\ (i + 1) - 1 = i
  OBVIOUS
<1>6. at \in Nat /\ then = at + channels /\ all \in Nat
  OBVIOUS
<1>7. then <= all
  <2>1. samples - (i + 1) \in Nat
    OBVIOUS
  <2>2. (samples - (i + 1)) * channels \in Nat
    BY <2>1
  <2>3. all = then + (samples - (i + 1)) * channels
    OBVIOUS
  <2> QED
    BY <1>6, <2>2, <2>3
<1>8. k \in Nat /\ next \in Nat /\ k <= at /\ next <= then /\ (at <= given => k = at)
  BY <1>2, <1>5
<1>9. next = k + Taken(k, given, channels)
  BY <1>3, <1>5
<1>10. frame[c][i] = IF c < next - k THEN k + c ELSE -1
  BY <1>4
<1> HIDE DEF k, next, at, then, all
<1>11. at + c < given => frame[c][i] = at + c
  <2> SUFFICES ASSUME at + c < given PROVE c < next - k /\ k = at
    BY <1>10
  <2>1. k = at
    BY <1>1, <1>6, <1>8
  <2> QED
    BY <1>1, <1>6, <1>8, <1>9, <2>1 DEF Taken
<1>12. frame[c][i] < all
  BY <1>6, <1>7, <1>8, <1>10
<1> QED
  BY <1>11, <1>12 DEF at, all

\* Sample k of a full block lies in channel k % channels of line k div channels.
LEMMA SamplesBack ==
    ASSUME NEW samples \in Nat, NEW channels \in Nat \ {0}, NEW frame,
           \A c \in 0 .. channels - 1, i \in 0 .. samples - 1 : frame[c][i] = i * channels + c
    PROVE  \A k \in 0 .. samples * channels - 1 : Interleave(frame, samples, channels)[k] = k
<1> SUFFICES ASSUME NEW k \in 0 .. samples * channels - 1
             PROVE  frame[k % channels][k \div channels] = k
  BY DEF Interleave
<1> DEFINE i == k \div channels
           c == k % channels
<1>1. k = i * channels + c /\ c \in 0 .. channels - 1 /\ i \in Nat
  <2>1. samples * channels \in Nat
    OBVIOUS
  <2>2. k \in Nat
    BY <2>1
  <2> QED
    BY <2>2, DivMod
<1> HIDE DEF i, c
<1>2. i < samples
  <2> SUFFICES ASSUME i >= samples PROVE FALSE
    BY <1>1
  <2> DEFINE all == samples * channels
             more == (i - samples) * channels
  <2>1. i - samples \in Nat /\ all \in Nat
    BY <1>1
  <2>2. more \in Nat
    BY <2>1
  <2>3. i * channels = all + more
    BY <1>1
  <2>4. k < all
    BY <2>1
  <2> HIDE DEF all, more
  <2> QED
    BY <1>1, <2>1, <2>2, <2>3, <2>4
<1>3. frame[c][i] = i * channels + c
  BY <1>1, <1>2
<1> QED
  BY <1>1, <1>3 DEF i, c

\* Every sample of a block, full or short, is where the encoder looks for it, none is
\* taken from behind a full block, and a full block comes back as it was.
THEOREM SamplesAreKept == RequestSpec => []SamplesArrive
<1>1. AnswersFit => SamplesArrive
  <2> SUFFICES ASSUME AnswersFit, Answered("pcm") PROVE SamplesArrive
    BY DEF SamplesArrive
  <2> DEFINE n == request.samples
             ch == request.channels
             given == Given(request.size, request.perPcmSize)
  <2>1. answer = Deinterleave(n, ch, request.size, request.perPcmSize)
    BY DEF AnswersFit, Answered
  <2>2. /\ n \in Nat /\ ch \in Nat \ {0}
        /\ request.size \in Nat \ {0} /\ request.perPcmSize \in Nat \ {0}
    BY RequestAssumption DEF AnswersFit, Answered
  <2>3. \A c \in 0 .. ch - 1, i \in 0 .. n - 1 :
            /\ i * ch + c < given => answer[c][i] = i * ch + c
            /\ answer[c][i] < n * ch
    <3> DEFINE size == request.size
               per == request.perPcmSize
    <3> HIDE DEF n, ch, size, per
    <3>1. /\ n \in Nat /\ ch \in Nat \ {0} /\ size \in Nat \ {0} /\ per \in Nat \ {0}
          /\ answer = Deinterleave(n, ch, size, per)
      BY <2>1, <2>2 DEF n, ch, size, per
    <3>2. \A c \in 0 .. ch - 1, i \in 0 .. n - 1 :
              /\ i * ch + c < Given(size, per) => answer[c][i] = i * ch + c
              /\ answer[c][i] < n * ch
      BY <3>1, SamplesPlaced
    <3> QED
      BY <3>2 DEF size, per
  <2>4. given >= n * ch =>
            \A k \in 0 .. n * ch - 1 : Interleave(answer, n, ch)[k] = k
    <3> SUFFICES ASSUME given >= n * ch
                 PROVE  \A k \in 0 .. n * ch - 1 : Interleave(answer, n, ch)[k] = k
      OBVIOUS
    <3>1. given \in Nat
      BY <2>2, GivenIsNumber
    <3> HIDE DEF n, ch, given
    <3>2. ASSUME NEW c \in 0 .. ch - 1, NEW i \in 0 .. n - 1
          PROVE  answer[c][i] = i * ch + c
      <4> DEFINE at == i * ch
                 all == n * ch
                 more == (n - (i + 1)) * ch
      <4>1. n - (i + 1) \in Nat /\ at \in Nat /\ all \in Nat
        BY <2>2
      <4>2. more \in Nat
        BY <2>2, <4>1
      <4>3. all = at + ch + more
        BY <2>2
      <4>4. at + c < given
        <5> HIDE DEF at, all, more
        <5>1. all <= given
          BY <3>1, <4>1 DEF all
        <5> QED
          BY <2>2, <3>1, <4>1, <4>2, <4>3, <5>1
      <4> QED
        BY <2>3, <4>4
    <3> QED
      BY <2>2, <3>2, SamplesBack
  <2> QED
    BY <2>3, <2>4 DEF SamplesArrive
<1> QED
  BY <1>1, Answers, PTL

-----------------------------------------------------------------------------
(* Pictures. *)

\* FFALIGN to 8 and to 16.
LEMMA AlignUpFits ==
    ASSUME NEW n \in Nat
    PROVE  /\ AlignUp(n, 8) \in Nat /\ AlignUp(n, 8) >= n /\ AlignUp(n, 8) % 8 = 0
           /\ n % 8 = 0 => AlignUp(n, 8) = n
           /\ AlignUp(n, 16) \in Nat /\ AlignUp(n, 16) >= n /\ AlignUp(n, 16) % 16 = 0
           /\ n % 16 = 0 => AlignUp(n, 16) = n
  BY DEF AlignUp

\* Lines without gaps are copied byte for byte; lines with gaps shift the second one.
LEMMA CopiedInExactly ==
    ASSUME NEW w \in Nat \ {0}, NEW h \in Nat, NEW size, size = w * h
    PROVE  CopiedIn(w, h, size, w) = [p \in 0 .. w * h - 1 |-> p]
<1>1. ASSUME NEW p \in 0 .. w * h - 1
      PROVE  p = (p \div w) * w + (p % w) /\ p < size
  <2>1. w * h \in Nat
    OBVIOUS
  <2>2. p \in Nat
    BY <2>1
  <2> QED
    BY <2>1, <2>2, DivMod
<1> QED
  BY <1>1 DEF CopiedIn

LEMMA CopiedInSkewed ==
    ASSUME NEW w \in Nat \ {0}, NEW h \in Nat, h >= 2, NEW size \in Nat,
           NEW stride \in Nat, stride > w
    PROVE  w \in 0 .. w * h - 1 /\ CopiedIn(w, h, size, stride)[w] \in Int \ {w}
<1>1. w \in 0 .. w * h - 1
  <2>1. (h - 2) * w \in Nat
    OBVIOUS
  <2>2. w * h = w + w + (h - 2) * w
    OBVIOUS
  <2> QED
    BY <2>1, <2>2
<1>2. w \div w = 1 /\ w % w = 0
  <2>1. (1 * w + 0) \div w = 1 /\ (1 * w + 0) % w = 0
    <3>1. 1 \in Nat /\ 0 \in 0 .. w - 1
      OBVIOUS
    <3> QED
      BY <3>1, DivModOf
  <2>2. 1 * w + 0 = w
    OBVIOUS
  <2> QED
    BY <2>1, <2>2
<1>3. (w \div w) * stride + (w % w) = stride
  BY <1>2
<1> QED
  BY <1>1, <1>3 DEF CopiedIn

\* The same for the way out of the codec.
LEMMA CopiedOutExactly ==
    ASSUME NEW w \in Nat \ {0}, NEW n \in Nat
    PROVE  CopiedOut(w, w, n) = [k \in 0 .. n - 1 |-> k]
<1>1. ASSUME NEW k \in 0 .. n - 1
      PROVE  k % w < w /\ k = (k \div w) * w + (k % w)
  <2>1. k \in Nat
    OBVIOUS
  <2> QED
    BY <2>1, DivMod
<1> QED
  BY <1>1 DEF CopiedOut

LEMMA CopiedOutSkewed ==
    ASSUME NEW w \in Nat \ {0}, NEW n \in Nat, n > w, NEW stride \in Nat, stride > w
    PROVE  w \in 0 .. n - 1 /\ CopiedOut(w, stride, n)[w] # w
<1>1. w % stride = w
  <2>1. (0 * stride + w) % stride = w
    <3>1. 0 \in Nat /\ w \in 0 .. stride - 1 /\ stride \in Nat \ {0}
      OBVIOUS
    <3> QED
      BY <3>1, DivModOf
  <2>2. 0 * stride + w = w
    OBVIOUS
  <2> QED
    BY <2>1, <2>2
<1>2. w \in 0 .. n - 1
  OBVIOUS
<1> QED
  BY <1>1, <1>2 DEF CopiedOut

\* The encoder's line sizes are the plane's own widths just if the width is a
\* multiple of 32.
LEMMA ImageStrides ==
    ASSUME NEW a \in Nat
    PROVE  /\ ImageStride(2 * a)[1] \in Nat /\ ImageStride(2 * a)[2] \in Nat
           /\ ImageStride(2 * a)[3] = ImageStride(2 * a)[2]
           /\ (2 * a) % 32 = 0 => ImageStride(2 * a)[1] = 2 * a /\ ImageStride(2 * a)[2] = a
           /\ (2 * a) % 32 # 0 => ImageStride(2 * a)[2] > a
<1> DEFINE v == AlignUp(2 * a, 8)
           y == AlignUp(v, 16)
           c == AlignUp(v \div 2, 16)
<1>1. ImageStride(2 * a)[1] = y /\ ImageStride(2 * a)[2] = c /\ ImageStride(2 * a)[3] = c
  BY DEF ImageStride, Width
<1>2. v \in Nat /\ v >= 2 * a /\ ((2 * a) % 8 = 0 => v = 2 * a)
  <2>1. 2 * a \in Nat
    OBVIOUS
  <2> QED
    BY <2>1, AlignUpFits
<1> HIDE DEF v
<1>3. v \div 2 \in Nat /\ v \div 2 >= a /\ (v = 2 * a => v \div 2 = a)
  BY <1>2
<1>4. y \in Nat /\ (v % 16 = 0 => y = v)
  BY <1>2, AlignUpFits
<1>5. c \in Nat /\ c >= v \div 2 /\ c % 16 = 0 /\ ((v \div 2) % 16 = 0 => c = v \div 2)
  BY <1>3, AlignUpFits
<1> HIDE DEF y, c
<1>6. ASSUME (2 * a) % 32 = 0 PROVE y = 2 * a /\ c = a
  <2>1. (2 * a) % 8 = 0 /\ (2 * a) % 16 = 0 /\ a % 16 = 0
    BY <1>6
  <2> QED
    BY <1>2, <1>3, <1>4, <1>5, <2>1
<1>7. ASSUME (2 * a) % 32 # 0 PROVE c > a
  <2>1. a % 16 # 0
    BY <1>7
  <2> QED
    BY <1>3, <1>5, <2>1
<1> QED
  BY <1>1, <1>4, <1>5, <1>6, <1>7

\* What update_frame_pool tries first, and second.
LEMMA PoolWidthsGrow ==
    ASSUME NEW w
    PROVE  /\ PoolWidths(w)[0] = w
           /\ PoolWidths(w)[1] = w + LowestBit(w)
<1> DEFINE Value(f, k) == IF k = 0 THEN w ELSE f[k - 1] + LowestBit(f[k - 1])
           T == {m \in Nat : \E f : f = [k \in 0 .. m |-> Value(f, k)]}
           grown == PoolWidths(w)
<1>1. 0 \in T
  <2> DEFINE f == [k \in 0 .. 0 |-> w]
  <2>1. f = [k \in 0 .. 0 |-> Value(f, k)]
    OBVIOUS
  <2> QED
    BY <2>1
<1>2. ASSUME NEW m \in Nat, m \in T PROVE m + 1 \in T
  <2>1. PICK f : f = [k \in 0 .. m |-> Value(f, k)]
    BY <1>2
  <2> DEFINE g == [k \in 0 .. m + 1 |-> IF k = m + 1 THEN f[m] + LowestBit(f[m]) ELSE f[k]]
  <2>2. \A k \in 0 .. m : g[k] = f[k] /\ f[k] = Value(f, k)
    <3>1. \A k \in 0 .. m : g[k] = f[k]
      OBVIOUS
    <3> HIDE DEF g, Value
    <3> QED
      BY <2>1, <3>1
  <2>3. g[m + 1] = f[m] + LowestBit(f[m]) /\ (m + 1) - 1 = m /\ m \in 0 .. m /\ m + 1 # 0
    OBVIOUS
  <2>4. \A k \in 0 .. m + 1 : g[k] = Value(g, k)
    <3> HIDE DEF g
    <3> SUFFICES ASSUME NEW k \in 0 .. m + 1 PROVE g[k] = Value(g, k)
      OBVIOUS
    <3>1. CASE k = m + 1
      BY <2>2, <2>3, <3>1
    <3>2. CASE k = 0
      BY <2>2, <3>2
    <3>3. CASE k # m + 1 /\ k # 0
      <4>1. k \in 0 .. m /\ k - 1 \in 0 .. m
        BY <3>3
      <4> QED
        BY <2>2, <3>3, <4>1
    <3> QED
      BY <3>1, <3>2, <3>3
  <2>5. g = [k \in 0 .. m + 1 |-> g[k]]
    OBVIOUS
  <2>6. g = [k \in 0 .. m + 1 |-> Value(g, k)]
    <3> HIDE DEF g, Value
    <3> QED
      BY <2>4, <2>5
  <2> HIDE DEF g, Value
  <2> QED
    BY <2>6
<1>3. 10 \in T
  <2>1. 10 \in Nat
    OBVIOUS
  <2> HIDE DEF T
  <2> QED
    BY <1>1, <1>2, <2>1, SetInduction
<1>4. grown = CHOOSE f : f = [k \in 0 .. 10 |-> Value(f, k)]
  BY DEF PoolWidths
<1> HIDE DEF Value, grown
<1>5. grown = [k \in 0 .. 10 |-> Value(grown, k)]
  BY <1>3, <1>4
<1>6. grown[0] = Value(grown, 0) /\ grown[1] = Value(grown, 1)
  BY <1>5
<1>7. 1 - 1 = 0 /\ 1 # 0
  OBVIOUS
<1> QED
  BY <1>6, <1>7 DEF Value, grown

\* The width grows by 16 if it is an odd multiple of 16.
LEMMA LowestBitOf16 ==
    ASSUME NEW n \in Nat, n % 32 = 16
    PROVE  LowestBit(n) = 16
<1>1. n % 2 = 0 /\ n % 4 = 0 /\ n % 8 = 0 /\ n % 16 = 0 /\ n % 32 # 0
  OBVIOUS
<1>2. n % 64 # 0 /\ n % 128 # 0 /\ n % 256 # 0
  OBVIOUS
<1> DEFINE P(b) == n % b = 0 /\ n % (2 * b) # 0
           B == {1, 2, 4, 8, 16, 32, 64, 128, 256}
<1>3. 16 \in B /\ P(16)
  BY <1>1
<1>4. ASSUME NEW b \in B, P(b) PROVE b = 16
  <2>1. b = 1 => n % (2 * b) = 0
    BY <1>1
  <2>2. b = 2 => n % (2 * b) = 0
    BY <1>1
  <2>3. b = 4 => n % (2 * b) = 0
    BY <1>1
  <2>4. b = 8 => n % (2 * b) = 0
    BY <1>1
  <2>5. (b = 32 \/ b = 64 \/ b = 128 \/ b = 256) => n % b # 0
    BY <1>1, <1>2
  <2> QED
    BY <1>4, <2>1, <2>2, <2>3, <2>4, <2>5
<1> HIDE DEF P
<1>5. (CHOOSE b \in B : P(b)) = 16
  BY <1>3, <1>4
<1> QED
  BY <1>5 DEF LowestBit, P

\* The decoder's line sizes are the planes' own widths if the width is a multiple of
\* 32; else its first one is larger.
LEMMA PoolStrides ==
    ASSUME NEW a \in Nat
    PROVE  /\ (2 * a) % 32 = 0 => PoolStride(2 * a) = <<2 * a, a, a>>
           /\ (2 * a) % 32 # 0 => PoolStride(2 * a)[1] \in Nat /\ PoolStride(2 * a)[1] > 2 * a
<1> DEFINE w == 2 * a
           v == AlignUp(w, 16)
           widths == PoolWidths(v)
           Aligned(k) == \A i \in 1 .. 3 : Width(widths[k])[i] % 16 = 0
           First(k) == Aligned(k) /\ \A j \in 0 .. k - 1 : ~Aligned(j)
           n == CHOOSE k \in 0 .. 10 : First(k)
<1>1. PoolStride(w) = Width(widths[n])
  BY DEF PoolStride
<1>2. w \in Nat /\ v \in Nat /\ v >= w /\ v % 16 = 0 /\ (w % 16 = 0 => v = w)
  <2>1. w \in Nat
    OBVIOUS
  <2> QED
    BY <2>1, AlignUpFits
<1>3. widths[0] = v /\ widths[1] = v + LowestBit(v)
  BY PoolWidthsGrow
<1>4. \A x : Width(x)[1] = x /\ Width(x)[2] = x \div 2 /\ Width(x)[3] = x \div 2
  BY DEF Width
<1>5. \A k : Aligned(k) <=> widths[k] % 16 = 0 /\ (widths[k] \div 2) % 16 = 0
  <2> HIDE DEF widths
  <2>1. \A k : Aligned(k) <=> /\ Width(widths[k])[1] % 16 = 0 /\ Width(widths[k])[2] % 16 = 0
                              /\ Width(widths[k])[3] % 16 = 0
    OBVIOUS
  <2> HIDE DEF Aligned
  <2> QED
    BY <1>4, <2>1
<1>6. w % 32 = 0 => v = w /\ w \div 2 = a
  BY <1>2
<1> HIDE DEF v, widths, Aligned
<1>7. CASE v % 32 = 0
  <2>1. Aligned(0)
    <3>1. v % 16 = 0 /\ (v \div 2) % 16 = 0
      BY <1>2, <1>7
    <3> QED
      BY <1>3, <1>5, <3>1
  <2>2. First(0)
    BY <2>1
  <2>3. ASSUME NEW k \in 0 .. 10, First(k) PROVE k = 0
    <3> SUFFICES ASSUME k # 0 PROVE FALSE
      OBVIOUS
    <3>1. 0 \in 0 .. k - 1
      OBVIOUS
    <3> QED
      BY <2>1, <2>3, <3>1
  <2>4. n = 0
    <3>1. 0 \in 0 .. 10
      OBVIOUS
    <3> HIDE DEF First
    <3> QED
      BY <2>2, <2>3, <3>1
  <2>5. PoolStride(w) = Width(v)
    BY <1>1, <1>3, <2>4
  <2>6. w % 32 = 0 => PoolStride(w) = <<w, a, a>>
    BY <1>6, <2>5 DEF Width
  <2>7. w % 32 # 0 => v > w
    BY <1>2, <1>7
  <2> QED
    BY <1>2, <1>4, <2>5, <2>6, <2>7
<1>8. CASE v % 32 # 0
  <2>1. v % 32 = 16
    BY <1>2, <1>8
  <2>2. widths[1] = v + 16
    BY <1>2, <1>3, <2>1, LowestBitOf16
  <2>3. ~Aligned(0) /\ Aligned(1)
    <3>1. (v \div 2) % 16 # 0 /\ (v + 16) % 16 = 0 /\ ((v + 16) \div 2) % 16 = 0
      BY <1>2, <2>1
    <3> QED
      BY <1>3, <1>5, <2>2, <3>1
  <2>4. First(1)
    <3>1. \A j \in 0 .. 1 - 1 : j = 0
      OBVIOUS
    <3> QED
      BY <2>3, <3>1
  <2>5. ASSUME NEW k \in 0 .. 10, First(k) PROVE k = 1
    <3>1. k # 0
      BY <2>3, <2>5
    <3> SUFFICES ASSUME k # 1 PROVE FALSE
      OBVIOUS
    <3>2. 1 \in 0 .. k - 1
      BY <3>1
    <3> QED
      BY <2>3, <2>5, <3>2
  <2>6. n = 1
    <3>1. 1 \in 0 .. 10
      OBVIOUS
    <3> HIDE DEF First
    <3> QED
      BY <2>4, <2>5, <3>1
  <2>7. PoolStride(w) = Width(v + 16)
    BY <1>1, <2>2, <2>6
  <2>8. w % 32 # 0
    BY <1>6, <1>8
  <2>9. PoolStride(w)[1] = v + 16
    BY <1>4, <2>7
  <2> QED
    BY <1>2, <2>8, <2>9
<1> QED
  BY <1>7, <1>8

\* The sizes of a picture with 2 * a columns and 2 * b lines.
Sized(a, b, N) ==
    /\ N \in Nat /\ N > a /\ (2 * a) * (2 * b) = 4 * N
    /\ (2 * a) \div 2 = a /\ (2 * b) \div 2 = b
    /\ (4 * N) \div 4 = N
    /\ Planes((4 * N * 3) \div 2) = <<[at |-> 0, size |-> 4 * N],
                                      [at |-> 4 * N, size |-> N],
                                      [at |-> 5 * N, size |-> N]>>

LEMMA PictureSizes ==
    ASSUME NEW a \in Nat \ {0}, NEW b \in Nat, b >= 2, NEW N, N = a * b
    PROVE  Sized(a, b, N)
<1>1. N \in Nat
  OBVIOUS
<1>2. N > a
  <2>1. (b - 2) * a \in Nat
    OBVIOUS
  <2>2. N = a + a + (b - 2) * a
    OBVIOUS
  <2> QED
    BY <2>1, <2>2
<1>3. (2 * a) * (2 * b) = 4 * N
  OBVIOUS
<1>4. /\ (4 * N * 3) \div 2 = 6 * N /\ (6 * N * 2) \div 3 = 4 * N /\ (6 * N) \div 6 = N
      /\ (6 * N * 5) \div 6 = 5 * N /\ (4 * N) \div 4 = N
      /\ (2 * a) \div 2 = a /\ (2 * b) \div 2 = b
  BY <1>1
<1> QED
  BY <1>1, <1>2, <1>3, <1>4 DEF Planes, Sized

\* A function on 1 .. 3 is the triple of its values.
LEMMA Three ==
    ASSUME NEW f, NEW x, NEW y, NEW z, f = [i \in 1 .. 3 |-> f[i]]
    PROVE  f = <<x, y, z>> <=> f[1] = x /\ f[2] = y /\ f[3] = z
<1>1. ASSUME f[1] = x, f[2] = y, f[3] = z PROVE f = <<x, y, z>>
  <2>1. <<x, y, z>> = [i \in 1 .. 3 |-> IF i = 1 THEN x ELSE IF i = 2 THEN y ELSE z]
    OBVIOUS
  <2>2. \A i \in 1 .. 3 : f[i] = IF i = 1 THEN x ELSE IF i = 2 THEN y ELSE z
    BY <1>1
  <2> QED
    BY <2>1, <2>2
<1> QED
  BY <1>1

\* What the encoder finds of one plane.
SentPlane(w, h, at, size, stride) ==
    [p \in 0 .. w * h - 1 |-> LET k == CopiedIn(w, h, size, stride)[p]
                              IN  IF k = -1 THEN -1 ELSE at + k]

LEMMA SentExactly ==
    ASSUME NEW w \in Nat \ {0}, NEW h \in Nat, NEW at \in Nat, NEW size, size = w * h
    PROVE  SentPlane(w, h, at, size, w) = InPlace(w, h, at)
<1>1. CopiedIn(w, h, size, w) = [p \in 0 .. w * h - 1 |-> p]
  BY CopiedInExactly
<1>2. ASSUME NEW p \in 0 .. w * h - 1 PROVE CopiedIn(w, h, size, w)[p] = p /\ p # -1
  BY <1>1
<1> QED
  BY <1>2 DEF SentPlane, InPlace

LEMMA SentSkewed ==
    ASSUME NEW w \in Nat \ {0}, NEW h \in Nat, h >= 2, NEW at \in Nat, NEW size \in Nat,
           NEW stride \in Nat, stride > w
    PROVE  SentPlane(w, h, at, size, stride) # InPlace(w, h, at)
<1>1. w \in 0 .. w * h - 1 /\ CopiedIn(w, h, size, stride)[w] \in Int \ {w}
  BY CopiedInSkewed
<1>2. SentPlane(w, h, at, size, stride)[w] # at + w
  BY <1>1 DEF SentPlane
<1>3. InPlace(w, h, at)[w] = at + w
  BY <1>1 DEF InPlace
<1> QED
  BY <1>2, <1>3

\* What the encoder finds is what the caller sent just if the width is a multiple of 32.
LEMMA PicturesSent ==
    ASSUME NEW a \in Nat \ {0}, NEW b \in Nat, b >= 2, NEW N, N = a * b
    PROVE  EncodeYuv(2 * a, 2 * b) = <<InPlace(2 * a, 2 * b, 0), InPlace(a, b, 4 * N),
                                       InPlace(a, b, 5 * N)>>
             <=> (2 * a) % 32 = 0
<1> DEFINE w == 2 * a
           h == 2 * b
           luma == ImageStride(w)[1]
           chroma == ImageStride(w)[2]
           f == EncodeYuv(w, h)
<1>1. /\ N \in Nat /\ N > a /\ w * h = 4 * N /\ w \div 2 = a /\ h \div 2 = b
      /\ Planes((4 * N * 3) \div 2) = <<[at |-> 0, size |-> 4 * N], [at |-> 4 * N, size |-> N],
                                        [at |-> 5 * N, size |-> N]>>
  <2>1. Sized(a, b, N)
    BY PictureSizes
  <2> QED
    BY <2>1 DEF Sized
<1>2. /\ luma \in Nat /\ chroma \in Nat /\ ImageStride(w)[3] = chroma
      /\ w % 32 = 0 => luma = w /\ chroma = a
      /\ w % 32 # 0 => chroma > a
  BY ImageStrides
<1>3. w \in Nat \ {0} /\ h \in Nat
  OBVIOUS
<1>4. /\ f[1] = SentPlane(w, h, 0, 4 * N, luma)
      /\ f[2] = SentPlane(a, b, 4 * N, N, chroma)
      /\ f[3] = SentPlane(a, b, 5 * N, N, chroma)
      /\ f = [i \in 1 .. 3 |-> f[i]]
  <2> DEFINE cut == Planes((w * h * 3) \div 2)
             Part(i) == SentPlane(Width(w)[i], Height(h)[i], cut[i].at, cut[i].size,
                                  ImageStride(w)[i])
  <2>1. f = [i \in 1 .. 3 |-> Part(i)]
    BY DEF EncodeYuv, SentPlane
  <2>2. /\ Width(w)[1] = w /\ Width(w)[2] = a /\ Width(w)[3] = a
        /\ Height(h)[1] = h /\ Height(h)[2] = b /\ Height(h)[3] = b
    BY <1>1 DEF Width, Height
  <2>3. /\ cut[1].at = 0 /\ cut[1].size = 4 * N /\ cut[2].at = 4 * N /\ cut[2].size = N
        /\ cut[3].at = 5 * N /\ cut[3].size = N
    BY <1>1
  <2> HIDE DEF cut, w, h, f
  <2>4. Part(1) = SentPlane(w, h, 0, 4 * N, luma)
    BY <2>2, <2>3
  <2>5. Part(2) = SentPlane(a, b, 4 * N, N, chroma)
    BY <2>2, <2>3
  <2>6. Part(3) = SentPlane(a, b, 5 * N, N, chroma)
    BY <1>2, <2>2, <2>3
  <2> HIDE DEF Part
  <2>7. f[1] = Part(1) /\ f[2] = Part(2) /\ f[3] = Part(3) /\ f = [i \in 1 .. 3 |-> f[i]]
    BY <2>1
  <2> QED
    BY <2>4, <2>5, <2>6, <2>7
<1> HIDE DEF w, h, luma, chroma, f
<1>5. ASSUME w % 32 = 0
      PROVE  /\ f[1] = InPlace(w, h, 0) /\ f[2] = InPlace(a, b, 4 * N)
             /\ f[3] = InPlace(a, b, 5 * N)
  <2>1. SentPlane(w, h, 0, 4 * N, luma) = InPlace(w, h, 0)
    <3>1. luma = w /\ 0 \in Nat /\ 4 * N = w * h
      BY <1>1, <1>2, <1>5
    <3> QED
      BY <1>3, <3>1, SentExactly
  <2>2. 4 * N \in Nat /\ 5 * N \in Nat /\ chroma = a
    BY <1>1, <1>2, <1>5
  <2>3. SentPlane(a, b, 4 * N, N, chroma) = InPlace(a, b, 4 * N)
    BY <2>2, SentExactly
  <2>4. SentPlane(a, b, 5 * N, N, chroma) = InPlace(a, b, 5 * N)
    BY <2>2, SentExactly
  <2> QED
    BY <1>4, <2>1, <2>3, <2>4
<1>6. ASSUME w % 32 # 0 PROVE f[2] # InPlace(a, b, 4 * N)
  <2>1. 4 * N \in Nat /\ chroma > a
    BY <1>1, <1>2, <1>6
  <2>2. SentPlane(a, b, 4 * N, N, chroma) # InPlace(a, b, 4 * N)
    BY <1>1, <1>2, <2>1, SentSkewed
  <2> QED
    BY <1>4, <2>2
<1>7. f = <<InPlace(w, h, 0), InPlace(a, b, 4 * N), InPlace(a, b, 5 * N)>> <=>
          /\ f[1] = InPlace(w, h, 0) /\ f[2] = InPlace(a, b, 4 * N)
          /\ f[3] = InPlace(a, b, 5 * N)
  BY <1>4, Three
<1>8. f = <<InPlace(w, h, 0), InPlace(a, b, 4 * N), InPlace(a, b, 5 * N)>> <=> w % 32 = 0
  BY <1>5, <1>6, <1>7
<1> QED
  BY <1>8 DEF f, w, h

\* What the caller finds is what was decoded just if the width is a multiple of 32.
LEMMA PicturesDecoded ==
    ASSUME NEW a \in Nat \ {0}, NEW b \in Nat, b >= 2, NEW N, N = a * b
    PROVE  DecodeYuv(2 * a, 2 * b) =
                [i \in 1 .. 3 |-> InPlace(Width(2 * a)[i], Height(2 * b)[i], 0)]
             <=> (2 * a) % 32 = 0
<1> DEFINE w == 2 * a
           h == 2 * b
           stride == PoolStride(w)
           f == DecodeYuv(w, h)
           g == [i \in 1 .. 3 |-> InPlace(Width(w)[i], Height(h)[i], 0)]
<1>1. N \in Nat /\ N > a /\ w * h = 4 * N /\ w \div 2 = a /\ h \div 2 = b /\ (4 * N) \div 4 = N
  <2>1. Sized(a, b, N)
    BY PictureSizes
  <2> QED
    BY <2>1 DEF Sized
<1>2. /\ w % 32 = 0 => stride = <<w, a, a>>
      /\ w % 32 # 0 => stride[1] \in Nat /\ stride[1] > w
  BY PoolStrides
<1>3. w \in Nat \ {0} /\ 4 * N > w /\ 4 * N \in Nat
  BY <1>1
<1>4. /\ f[1] = CopiedOut(w, stride[1], 4 * N)
      /\ f[2] = CopiedOut(a, stride[2], N) /\ f[3] = CopiedOut(a, stride[3], N)
      /\ f = [i \in 1 .. 3 |-> f[i]]
  <2> DEFINE Part(i) == CopiedOut(Width(w)[i], PoolStride(w)[i],
                                  IF i = 1 THEN w * h ELSE (w * h) \div 4)
  <2>1. f = [i \in 1 .. 3 |-> Part(i)]
    BY DEF DecodeYuv
  <2>2. Width(w)[1] = w /\ Width(w)[2] = a /\ Width(w)[3] = a
    BY <1>1 DEF Width
  <2> HIDE DEF w, h, f, stride
  <2>3. Part(1) = CopiedOut(w, stride[1], 4 * N)
    BY <1>1, <2>2 DEF stride
  <2>4. Part(2) = CopiedOut(a, stride[2], N) /\ Part(3) = CopiedOut(a, stride[3], N)
    BY <1>1, <2>2 DEF stride
  <2> HIDE DEF Part
  <2>5. f[1] = Part(1) /\ f[2] = Part(2) /\ f[3] = Part(3) /\ f = [i \in 1 .. 3 |-> f[i]]
    BY <2>1
  <2> QED
    BY <2>3, <2>4, <2>5
<1>5. /\ g[1] = [p \in 0 .. 4 * N - 1 |-> p]
      /\ g[2] = [p \in 0 .. N - 1 |-> p] /\ g[3] = [p \in 0 .. N - 1 |-> p]
      /\ g = [i \in 1 .. 3 |-> g[i]]
  <2>1. /\ g[1] = InPlace(w, h, 0) /\ g[2] = InPlace(a, b, 0) /\ g[3] = InPlace(a, b, 0)
        /\ g = [i \in 1 .. 3 |-> g[i]]
    <3>1. /\ Width(w)[1] = w /\ Width(w)[2] = a /\ Width(w)[3] = a
          /\ Height(h)[1] = h /\ Height(h)[2] = b /\ Height(h)[3] = b
      BY <1>1 DEF Width, Height
    <3> QED
      BY <3>1
  <2>2. \A n \in Nat : [p \in 0 .. n - 1 |-> 0 + p] = [p \in 0 .. n - 1 |-> p]
    OBVIOUS
  <2> HIDE DEF g, w, h
  <2>3. InPlace(w, h, 0) = [p \in 0 .. 4 * N - 1 |-> p]
    BY <1>1, <1>3, <2>2 DEF InPlace
  <2>4. InPlace(a, b, 0) = [p \in 0 .. N - 1 |-> p]
    BY <1>1, <2>2 DEF InPlace
  <2> QED
    BY <2>1, <2>3, <2>4
<1> HIDE DEF w, h, stride, f, g
<1>6. ASSUME w % 32 = 0 PROVE f[1] = g[1] /\ f[2] = g[2] /\ f[3] = g[3]
  <2>1. stride[1] = w /\ stride[2] = a /\ stride[3] = a
    BY <1>2, <1>6
  <2>2. CopiedOut(w, w, 4 * N) = [p \in 0 .. 4 * N - 1 |-> p]
    BY <1>3, CopiedOutExactly
  <2>3. CopiedOut(a, a, N) = [p \in 0 .. N - 1 |-> p]
    BY <1>1, CopiedOutExactly
  <2> QED
    BY <1>4, <1>5, <2>1, <2>2, <2>3
<1>7. ASSUME w % 32 # 0 PROVE f[1] # g[1]
  <2>1. w \in 0 .. 4 * N - 1 /\ CopiedOut(w, stride[1], 4 * N)[w] # w
    BY <1>2, <1>3, <1>7, CopiedOutSkewed
  <2>2. g[1][w] = w
    BY <1>5, <2>1
  <2> QED
    BY <1>4, <2>1, <2>2
<1>8. f = g <=> f[1] = g[1] /\ f[2] = g[2] /\ f[3] = g[3]
  <2>1. g = <<g[1], g[2], g[3]>>
    BY <1>5, Three
  <2>2. f = <<g[1], g[2], g[3]>> <=> f[1] = g[1] /\ f[2] = g[2] /\ f[3] = g[3]
    BY <1>4, Three
  <2> QED
    BY <2>1, <2>2
<1>9. f = g <=> w % 32 = 0
  BY <1>6, <1>7, <1>8
<1> QED
  BY <1>9 DEF f, g, w, h

\* A picture comes through, either way, just if its width is a multiple of 32: the
\* copies leave no room for the gaps that the codec keeps between its lines.
THEOREM PicturesSkew == RequestSpec => []PicturesArrive
<1>1. AnswersFit => PicturesArrive
  <2> SUFFICES ASSUME AnswersFit, answer # Pending,
                      request.kind \in {"encodeYuv", "decodeYuv"},
                      request.w % 2 = 0, request.h % 2 = 0, request.w >= 2, request.h >= 4
               PROVE  PicturesArrive
    BY DEF PicturesArrive, Answered
  <2> DEFINE w == request.w
             h == request.h
             a == w \div 2
             b == h \div 2
             N == a * b
  <2>1. w \in Nat /\ h \in Nat
    BY RequestAssumption DEF AnswersFit
  <2>2. w = 2 * a /\ h = 2 * b /\ a \in Nat \ {0} /\ b \in Nat /\ b >= 2
    BY <2>1
  <2>3. w * h = 4 * N /\ (w * h) \div 4 = N /\ N \in Nat
    <3> HIDE DEF w, h, a, b, N
    <3>1. N = a * b
      BY DEF N
    <3>2. Sized(a, b, N)
      BY <2>2, <3>1, PictureSizes
    <3> QED
      BY <2>2, <3>2 DEF Sized
  <2>4. w * h + (w * h) \div 4 = 5 * N
    BY <2>3
  <2>5. request.kind = "encodeYuv" => answer = EncodeYuv(w, h)
    BY DEF AnswersFit
  <2>6. request.kind = "decodeYuv" => answer = DecodeYuv(w, h)
    BY DEF AnswersFit
  <2>7. EncodeYuv(w, h) = <<InPlace(w, h, 0), InPlace(a, b, 4 * N), InPlace(a, b, 5 * N)>>
          <=> w % 32 = 0
    <3> HIDE DEF a, b, w, h, N
    <3>1. N = a * b
      BY DEF N
    <3> QED
      BY <2>2, <3>1, PicturesSent
  <2>8. DecodeYuv(w, h) = [i \in 1 .. 3 |-> InPlace(Width(w)[i], Height(h)[i], 0)]
          <=> w % 32 = 0
    <3> HIDE DEF a, b, w, h, N
    <3>1. N = a * b
      BY DEF N
    <3> QED
      BY <2>2, <3>1, PicturesDecoded
  <2> HIDE DEF N
  <2> QED
    BY <2>3, <2>4, <2>5, <2>6, <2>7, <2>8 DEF PicturesArrive, Answered
<1> QED
  BY <1>1, Answers, PTL

-----------------------------------------------------------------------------
(* Captions. *)

TokenState == [mode : {"lead", "plain", "quoted", "escape", "done", "excess"},
               out : Seq(Characters), keep : Nat]
ExpandState == [mode : {"plain", "escape"}, out : Seq(Characters), stray : BOOLEAN]

\* R goes through the characters of text one by one.
TokenRun(R, text, term) ==
    R[0] = TokenStart /\ \A i \in 1 .. Len(text) : R[i] = TokenStep(R[i - 1], text[i], term)
ExpandRun(R, text) ==
    R[0] = ExpandStart /\ \A i \in 1 .. Len(text) : R[i] = ExpandStep(R[i - 1], text[i])

\* Each step ends in a state again.
LEMMA TokenStepType ==
    ASSUME NEW st \in TokenState, NEW c \in Characters, NEW term
    PROVE  TokenStep(st, c, term) \in TokenState
<1>1. Append(st.out, c) \in Seq(Characters) /\ Len(st.out) \in Nat
  BY DEF TokenState
<1>2. \A m \in {"lead", "plain", "quoted", "escape", "done", "excess"} :
          [st EXCEPT !.mode = m] \in TokenState /\ Add(st, c, m) \in TokenState
  BY <1>1 DEF TokenState, Add
<1>3. AddKept(st, c) \in TokenState
  <2> DEFINE x == Add(st, c, "plain")
             k == Len(st.out) + 1
  <2>1. x \in TokenState /\ k \in Nat
    BY <1>1, <1>2
  <2>2. AddKept(st, c) = [x EXCEPT !.keep = k]
    BY DEF AddKept
  <2> HIDE DEF x, k
  <2> QED
    BY <2>1, <2>2 DEF TokenState
<1>4. [st EXCEPT !.mode = "plain", !.keep = Len(st.out)] \in TokenState
  BY <1>1 DEF TokenState
<1> QED
  BY <1>2, <1>3, <1>4 DEF TokenStep

LEMMA ExpandStepType ==
    ASSUME NEW st \in ExpandState, NEW c \in Characters
    PROVE  ExpandStep(st, c) \in ExpandState
<1>1. Append(st.out, c) \in Seq(Characters)
  BY DEF ExpandState
<1> QED
  BY <1>1 DEF ExpandState, ExpandStep, Add

\* The recursions of both readers have solutions.
LEMMA TokenStatesRun ==
    ASSUME NEW text \in Seq(Characters), NEW term
    PROVE  TokenRun(TokenStates(text, term), text, term)
<1> DEFINE n == Len(text)
           G == [i \in 1 .. n |-> [st \in TokenState |-> TokenStep(st, text[i], term)]]
           Value(f, i) == IF i = 0 THEN TokenStart ELSE TokenStep(f[i - 1], text[i], term)
           R == TokenStates(text, term)
<1>1. n \in Nat /\ \A i \in 1 .. n : text[i] \in Characters
  OBVIOUS
<1>2. TokenStart \in TokenState
  BY DEF TokenStart, TokenState
<1>3. G \in [1 .. n -> [TokenState -> TokenState]]
  <2> HIDE DEF n
  <2> QED
    BY <1>1, TokenStepType
<1>4. PICK f : Recursion(f, TokenState, TokenStart, n, G)
  <2> HIDE DEF G, n
  <2> QED
    BY <1>1, <1>2, <1>3, RecursionExists, Zenon
<1>5. \A i \in 0 .. n : f[i] = Value(f, i)
  <2> HIDE DEF n
  <2> SUFFICES ASSUME NEW i \in 1 .. n PROVE f[i] = TokenStep(f[i - 1], text[i], term)
    BY <1>4 DEF Recursion
  <2>1. f[i - 1] \in TokenState
    BY <1>1, <1>4 DEF Recursion
  <2> QED
    BY <1>4, <2>1 DEF Recursion
<1>6. f = [i \in 0 .. n |-> Value(f, i)]
  <2> HIDE DEF Value, G, n
  <2> QED
    BY <1>4, <1>5 DEF Recursion
<1>7. R = CHOOSE g : g = [i \in 0 .. n |-> Value(g, i)]
  BY DEF TokenStates
<1> HIDE DEF Value, R, n
<1>8. R = [i \in 0 .. n |-> Value(R, i)]
  BY <1>6, <1>7
<1>9. \A i \in 0 .. n : R[i] = Value(R, i)
  BY <1>8
<1>10. R[0] = TokenStart
  BY <1>1, <1>9 DEF Value
<1>11. \A i \in 1 .. n : R[i] = TokenStep(R[i - 1], text[i], term)
  BY <1>1, <1>9 DEF Value
<1> QED
  BY <1>10, <1>11 DEF TokenRun, R, n

LEMMA ExpandStatesRun ==
    ASSUME NEW text \in Seq(Characters)
    PROVE  ExpandRun(ExpandStates(text), text)
<1> DEFINE n == Len(text)
           G == [i \in 1 .. n |-> [st \in ExpandState |-> ExpandStep(st, text[i])]]
           Value(f, i) == IF i = 0 THEN ExpandStart ELSE ExpandStep(f[i - 1], text[i])
           R == ExpandStates(text)
<1>1. n \in Nat /\ \A i \in 1 .. n : text[i] \in Characters
  OBVIOUS
<1>2. ExpandStart \in ExpandState
  BY DEF ExpandStart, ExpandState
<1>3. G \in [1 .. n -> [ExpandState -> ExpandState]]
  <2> HIDE DEF n
  <2> QED
    BY <1>1, ExpandStepType
<1>4. PICK f : Recursion(f, ExpandState, ExpandStart, n, G)
  <2> HIDE DEF G, n
  <2> QED
    BY <1>1, <1>2, <1>3, RecursionExists, Zenon
<1>5. \A i \in 0 .. n : f[i] = Value(f, i)
  <2> HIDE DEF n
  <2> SUFFICES ASSUME NEW i \in 1 .. n PROVE f[i] = ExpandStep(f[i - 1], text[i])
    BY <1>4 DEF Recursion
  <2>1. f[i - 1] \in ExpandState
    BY <1>1, <1>4 DEF Recursion
  <2> QED
    BY <1>4, <2>1 DEF Recursion
<1>6. f = [i \in 0 .. n |-> Value(f, i)]
  <2> HIDE DEF Value, G, n
  <2> QED
    BY <1>4, <1>5 DEF Recursion
<1>7. R = CHOOSE g : g = [i \in 0 .. n |-> Value(g, i)]
  BY DEF ExpandStates
<1> HIDE DEF Value, R, n
<1>8. R = [i \in 0 .. n |-> Value(R, i)]
  BY <1>6, <1>7
<1>9. \A i \in 0 .. n : R[i] = Value(R, i)
  BY <1>8
<1>10. R[0] = ExpandStart
  BY <1>1, <1>9 DEF Value
<1>11. \A i \in 1 .. n : R[i] = ExpandStep(R[i - 1], text[i])
  BY <1>1, <1>9 DEF Value
<1> QED
  BY <1>10, <1>11 DEF ExpandRun, R, n

\* What a caption's encoded text is made of.
Unquoted == Characters \ {"quote"}

\* D puts sequences of characters together, X[i] after X[i - 1].
Joined(D, X, n) ==
    /\ D \in [0 .. n -> Seq(Unquoted)] /\ X \in [1 .. n -> Seq(Unquoted)]
    /\ D[0] = <<>> /\ \A i \in 1 .. n : D[i] = D[i - 1] \o X[i]

\* Any pieces can be put together.
LEMMA JoinedExists ==
    ASSUME NEW n \in Nat, NEW X \in [1 .. n -> Seq(Unquoted)]
    PROVE  \E D : Joined(D, X, n)
<1> DEFINE S == Seq(Unquoted)
           G == [i \in 1 .. n |-> [x \in S |-> x \o X[i]]]
<1>1. G \in [1 .. n -> [S -> S]] /\ <<>> \in S
  OBVIOUS
<1>2. PICK f : Recursion(f, S, <<>>, n, G)
  <2> HIDE DEF S, G
  <2> QED
    BY <1>1, RecursionExists, Zenon
<1>3. \A i \in 1 .. n : f[i] = f[i - 1] \o X[i]
  <2> SUFFICES ASSUME NEW i \in 1 .. n PROVE f[i] = f[i - 1] \o X[i]
    OBVIOUS
  <2>1. f[i - 1] \in S
    BY <1>2 DEF Recursion
  <2> QED
    BY <1>2, <2>1 DEF Recursion
<1>4. Joined(f, X, n)
  BY <1>2, <1>3 DEF Recursion, Joined
<1> QED
  BY <1>4

\* The parts of an encoded text, and the pieces they are made of.
EncodedPieces(text) == [i \in 1 .. Len(text) |-> Escaped(text[i])]

\* EncodeCode puts the escaped characters together.
LEMMA EncodedJoined ==
    ASSUME NEW text \in Seq(Unquoted)
    PROVE  Joined(EncodedParts(text), EncodedPieces(text), Len(text))
<1> DEFINE n == Len(text)
           X == EncodedPieces(text)
           Value(f, i) == IF i = 0 THEN <<>> ELSE f[i - 1] \o Escaped(text[i])
           D == EncodedParts(text)
<1>1. n \in Nat /\ \A i \in 1 .. n : text[i] \in Unquoted
  OBVIOUS
<1>2. \A c \in Unquoted : Escaped(c) \in Seq(Unquoted)
  <2>1. "backslash" \in Unquoted /\ "colon" \in Unquoted
    BY DEF Characters, Unquoted
  <2> QED
    BY <2>1 DEF Escaped
<1>3. X \in [1 .. n -> Seq(Unquoted)] /\ \A i \in 1 .. n : X[i] = Escaped(text[i])
  <2> HIDE DEF n
  <2> QED
    BY <1>1, <1>2 DEF EncodedPieces, n
<1>4. PICK f : Joined(f, X, n)
  <2> HIDE DEF n, X
  <2> QED
    BY <1>1, <1>3, JoinedExists
<1> HIDE DEF n, X
<1>5. \A i \in 0 .. n : f[i] = Value(f, i)
  <2> SUFFICES ASSUME NEW i \in 0 .. n PROVE f[i] = Value(f, i)
    OBVIOUS
  <2>1. CASE i = 0
    BY <1>4, <2>1 DEF Joined
  <2>2. CASE i # 0
    <3>1. i \in 1 .. n
      BY <1>1, <2>2
    <3>2. f[i] = f[i - 1] \o X[i]
      BY <1>4, <3>1 DEF Joined
    <3>3. X[i] = Escaped(text[i])
      BY <1>3, <3>1
    <3> QED
      BY <2>2, <3>2, <3>3
  <2> QED
    BY <2>1, <2>2
<1>6. f = [i \in 0 .. n |-> Value(f, i)]
  <2> HIDE DEF Value
  <2> QED
    BY <1>4, <1>5 DEF Joined
<1>7. D = CHOOSE g : g = [i \in 0 .. n |-> Value(g, i)]
  BY DEF EncodedParts, n
<1> HIDE DEF Value, D
<1>8. D = [i \in 0 .. n |-> Value(D, i)]
  BY <1>6, <1>7
<1>9. \A i \in 0 .. n : D[i] = Value(D, i)
  BY <1>8
<1>10. D[0] = <<>>
  <2>1. 0 \in 0 .. n
    BY <1>1
  <2>2. D[0] = Value(D, 0)
    BY <1>9, <2>1
  <2> QED
    BY <2>2 DEF Value
<1>11. \A i \in 1 .. n : D[i] = D[i - 1] \o X[i]
  <2> SUFFICES ASSUME NEW i \in 1 .. n PROVE D[i] = D[i - 1] \o X[i]
    OBVIOUS
  <2>1. i \in 0 .. n /\ i # 0
    BY <1>1
  <2>2. D[i] = Value(D, i)
    BY <1>9, <2>1
  <2>3. D[i] = D[i - 1] \o Escaped(text[i])
    BY <2>1, <2>2 DEF Value
  <2>4. X[i] = Escaped(text[i])
    BY <1>3
  <2> QED
    BY <2>3, <2>4
<1>12. \A i \in 0 .. n : D[i] \in Seq(Unquoted)
  <2> DEFINE T == {i \in Nat : i <= n => D[i] \in Seq(Unquoted)}
  <2>1. 0 \in T
    <3>1. <<>> \in Seq(Unquoted)
      OBVIOUS
    <3> QED
      BY <1>10, <3>1
  <2>2. ASSUME NEW i \in Nat, i \in T PROVE i + 1 \in T
    <3> SUFFICES ASSUME i + 1 <= n PROVE D[i + 1] \in Seq(Unquoted)
      OBVIOUS
    <3>1. D[i] \in Seq(Unquoted) /\ i + 1 \in 1 .. n /\ (i + 1) - 1 = i
      BY <1>1, <2>2
    <3>2. X[i + 1] \in Seq(Unquoted)
      BY <1>3, <3>1
    <3>3. D[i + 1] = D[i] \o X[i + 1]
      BY <1>11, <3>1
    <3> QED
      BY <3>1, <3>2, <3>3
  <2>3. Nat \subseteq T
    <3> HIDE DEF T
    <3> QED
      BY <2>1, <2>2, SetInduction
  <2> QED
    BY <1>1, <2>3
<1> QED
  BY <1>3, <1>8, <1>10, <1>11, <1>12 DEF Joined, D, X, n

\* Where the characters of two sequences are in the two together.
Together(u, s, t) ==
    /\ Len(s) \in Nat /\ Len(t) \in Nat /\ Len(u) = Len(s) + Len(t)
    /\ \A k \in 1 .. Len(s) : u[k] = s[k]
    /\ \A j \in 1 .. Len(t) : u[Len(s) + j] = t[j]

LEMMA Concatenated ==
    ASSUME NEW S, NEW s \in Seq(S), NEW t \in Seq(S)
    PROVE  Together(s \o t, s, t)
<1>1. Len(s) \in Nat /\ Len(t) \in Nat /\ Len(s \o t) = Len(s) + Len(t)
  OBVIOUS
<1>2. \A k \in 1 .. Len(s) + Len(t) :
          (s \o t)[k] = IF k <= Len(s) THEN s[k] ELSE t[k - Len(s)]
  BY ConcatProperties
<1>3. \A k \in 1 .. Len(s) : (s \o t)[k] = s[k]
  BY <1>1, <1>2
<1>4. \A j \in 1 .. Len(t) : (s \o t)[Len(s) + j] = t[j]
  <2> SUFFICES ASSUME NEW j \in 1 .. Len(t) PROVE (s \o t)[Len(s) + j] = t[j]
    OBVIOUS
  <2>1. Len(s) + j \in 1 .. Len(s) + Len(t) /\ ~(Len(s) + j <= Len(s)) /\ Len(s) + j - Len(s) = j
    BY <1>1
  <2> QED
    BY <1>2, <2>1
<1> QED
  BY <1>1, <1>3, <1>4 DEF Together

\* Where the pieces are in the whole.
Placed(D, X, n) ==
    \A i \in 1 .. n :
        /\ Len(D[i]) = Len(D[i - 1]) + Len(X[i]) /\ Len(D[i]) <= Len(D[n])
        /\ \A j \in 1 .. Len(X[i]) : D[n][Len(D[i - 1]) + j] = X[i][j]

\* Each piece stays at its place while others are put behind it.
LEMMA JoinedPlaced ==
    ASSUME NEW n \in Nat, NEW D, NEW X, Joined(D, X, n)
    PROVE  Placed(D, X, n)
<1> SUFFICES ASSUME NEW i \in 1 .. n
             PROVE  /\ Len(D[i]) = Len(D[i - 1]) + Len(X[i]) /\ Len(D[i]) <= Len(D[n])
                    /\ \A j \in 1 .. Len(X[i]) : D[n][Len(D[i - 1]) + j] = X[i][j]
  BY DEF Placed
<1>1. /\ \A m \in 0 .. n : D[m] \in Seq(Unquoted)
      /\ \A m \in 1 .. n : X[m] \in Seq(Unquoted) /\ D[m] = D[m - 1] \o X[m]
  BY DEF Joined
<1> DEFINE Begins(m) == /\ Len(D[i]) <= Len(D[m])
                        /\ \A k \in 1 .. Len(D[i]) : D[m][k] = D[i][k]
           T == {m \in Nat : i <= m /\ m <= n => Begins(m)}
<1>2. 0 \in T
  OBVIOUS
<1>3. ASSUME NEW m \in Nat, m \in T PROVE m + 1 \in T
  <2> SUFFICES ASSUME i <= m + 1, m + 1 <= n PROVE Begins(m + 1)
    OBVIOUS
  <2>1. CASE i = m + 1
    <3>1. D[i] \in Seq(Unquoted)
      BY <1>1
    <3>2. Len(D[i]) \in Nat
      BY <3>1
    <3> QED
      BY <2>1, <3>2
  <2>2. CASE i <= m
    <3>1. Begins(m)
      <4> HIDE DEF Begins
      <4> QED
        BY <1>3, <2>2
    <3>2. m \in 0 .. n /\ m + 1 \in 1 .. n /\ (m + 1) - 1 = m
      OBVIOUS
    <3>3. D[m] \in Seq(Unquoted) /\ X[m + 1] \in Seq(Unquoted) /\ D[m + 1] = D[m] \o X[m + 1]
      BY <1>1, <3>2
    <3>4. Together(D[m + 1], D[m], X[m + 1])
      BY <3>3, Concatenated
    <3>5. Len(D[i]) \in Nat
      BY <1>1
    <3>6. Len(D[i]) <= Len(D[m + 1])
      <4> DEFINE p == Len(D[i])
                 q == Len(D[m])
                 t == Len(X[m + 1])
      <4>1. Len(D[m]) \in Nat /\ Len(X[m + 1]) \in Nat /\ Len(D[m + 1]) = Len(D[m]) + Len(X[m + 1])
        BY <3>4 DEF Together
      <4>2. Len(D[i]) <= Len(D[m])
        BY <3>1
      <4>3. p \in Nat /\ q \in Nat /\ t \in Nat /\ p <= q
        BY <3>5, <4>1, <4>2
      <4> HIDE DEF p, q, t
      <4>4. p <= q + t
        BY <4>3
      <4> QED
        BY <4>1, <4>4 DEF p, q, t
    <3>7. ASSUME NEW k \in 1 .. Len(D[i]) PROVE D[m + 1][k] = D[i][k]
      <4>1. k \in 1 .. Len(D[m])
        BY <3>1, <3>4, <3>5 DEF Together
      <4>2. D[m + 1][k] = D[m][k]
        BY <3>4, <4>1 DEF Together
      <4> QED
        BY <3>1, <4>2
    <3> QED
      BY <3>6, <3>7
  <2> QED
    BY <2>1, <2>2
<1>4. Begins(n)
  <2>1. Nat \subseteq T
    <3> HIDE DEF T
    <3> QED
      BY <1>2, <1>3, SetInduction
  <2> HIDE DEF Begins
  <2> QED
    BY <2>1
<1>5. i - 1 \in 0 .. n /\ i \in 0 .. n
  OBVIOUS
<1>6. D[i - 1] \in Seq(Unquoted) /\ X[i] \in Seq(Unquoted) /\ D[i] = D[i - 1] \o X[i]
  BY <1>1, <1>5
<1>7. Together(D[i], D[i - 1], X[i])
  BY <1>6, Concatenated
<1> DEFINE before == Len(D[i - 1])
<1>8. ASSUME NEW j \in 1 .. Len(X[i]) PROVE D[n][before + j] = X[i][j]
  <2>1. D[i][before + j] = X[i][j]
    BY <1>7 DEF Together
  <2>2. before \in Nat /\ Len(X[i]) \in Nat /\ Len(D[i]) = before + Len(X[i])
    BY <1>7 DEF Together
  <2>3. before + j \in 1 .. Len(D[i])
    <3> HIDE DEF before
    <3> QED
      BY <2>2
  <2> HIDE DEF before
  <2> QED
    BY <1>4, <2>1, <2>3
<1> QED
  BY <1>4, <1>7, <1>8 DEF Together

\* Nothing is trimmed where nothing but the last, kept characters could be spaces.
LEMMA TrimmedWhole ==
    ASSUME NEW out \in Seq(Characters), NEW keep \in 0 .. Len(out),
           keep = Len(out) \/ out[Len(out)] # "space"
    PROVE  Trimmed(out, keep) = out
<1> DEFINE kept == {n \in keep .. Len(out) : \A i \in n + 1 .. Len(out) : out[i] = "space"}
           last == CHOOSE n \in kept : \A k \in kept : n <= k
<1>1. Len(out) \in Nat
  OBVIOUS
<1>2. Len(out) \in kept
  BY <1>1
<1>3. \A n \in kept : n = Len(out)
  <2> SUFFICES ASSUME NEW n \in keep .. Len(out), n # Len(out),
                      \A i \in n + 1 .. Len(out) : out[i] = "space"
               PROVE  FALSE
    OBVIOUS
  <2>1. Len(out) \in n + 1 .. Len(out) /\ keep # Len(out)
    BY <1>1
  <2> QED
    BY <2>1
<1>4. last = Len(out)
  <2> HIDE DEF kept
  <2> QED
    BY <1>1, <1>2, <1>3
<1>5. Trimmed(out, keep) = SubSeq(out, 1, last)
  BY DEF Trimmed
<1>6. SubSeq(out, 1, Len(out)) = out
  OBVIOUS
<1> HIDE DEF last
<1> QED
  BY <1>4, <1>5, <1>6

\* The steps of a reader that a plain text calls for.
LEMMA QuotedStep ==
    ASSUME NEW o, NEW k, NEW c, c # "quote", NEW term
    PROVE  TokenStep([mode |-> "quoted", out |-> o, keep |-> k], c, term) =
               [mode |-> "quoted", out |-> Append(o, c), keep |-> k]
  BY DEF TokenStep, Add

LEMMA QuoteStep ==
    ASSUME NEW o, NEW k, NEW term
    PROVE  TokenStep([mode |-> "quoted", out |-> o, keep |-> k], "quote", term) =
               [mode |-> "plain", out |-> o, keep |-> Len(o)]
  BY DEF TokenStep

LEMMA PlainStep ==
    ASSUME NEW m \in {"lead", "plain"}, NEW o, NEW k, NEW c \in {"letter", "bracket"}
    PROVE  TokenStep([mode |-> m, out |-> o, keep |-> k], c, {"colon"}) =
               [mode |-> "plain", out |-> Append(o, c), keep |-> k]
  BY DEF TokenStep, Add

LEMMA SpaceStep ==
    ASSUME NEW o, NEW k
    PROVE  TokenStep([mode |-> "plain", out |-> o, keep |-> k], "space", {"colon"}) =
               [mode |-> "plain", out |-> Append(o, "space"), keep |-> k]
  BY DEF TokenStep, Add

LEMMA EscapeStep ==
    ASSUME NEW m \in {"lead", "plain"}, NEW o, NEW k
    PROVE  TokenStep([mode |-> m, out |-> o, keep |-> k], "backslash", {"colon"}) =
               [mode |-> "escape", out |-> o, keep |-> k]
  BY DEF TokenStep

LEMMA EscapedStep ==
    ASSUME NEW o, NEW k, NEW c, NEW term
    PROVE  TokenStep([mode |-> "escape", out |-> o, keep |-> k], c, term) =
               [mode |-> "plain", out |-> Append(o, c), keep |-> Len(o) + 1]
  BY DEF TokenStep, AddKept, Add

\* What the graph's parser sees between the quotes comes out as it is.
LEMMA QuotedToken ==
    ASSUME NEW e \in Seq(Unquoted), NEW term, "quote" \notin term
    PROVE  GetToken(<<"quote">> \o e \o <<"quote">>, term) = [token |-> e, ended |-> TRUE]
<1> DEFINE n == Len(e)
           t == <<"quote">> \o e \o <<"quote">>
           R == TokenStates(t, term)
           Inside(k) == [mode |-> "quoted", out |-> SubSeq(e, 1, k), keep |-> 0]
<1>1. n \in Nat /\ \A k \in 1 .. n : e[k] \in Unquoted
  OBVIOUS
<1>2. /\ t \in Seq(Characters) /\ Len(t) = n + 2 /\ t[1] = "quote" /\ t[n + 2] = "quote"
      /\ \A k \in 1 .. n : t[k + 1] = e[k]
  <2>1. e \in Seq(Characters) /\ <<"quote">> \in Seq(Characters)
    BY DEF Unquoted, Characters
  <2> DEFINE q == <<"quote">>
             u == q \o e
  <2>2. q \in Seq(Characters) /\ Len(q) = 1 /\ q[1] = "quote"
    BY <2>1
  <2> HIDE DEF q
  <2>3. u \in Seq(Characters) /\ Together(u, q, e)
    BY <2>1, <2>2, Concatenated
  <2>4. t = u \o q
    BY DEF q
  <2> HIDE DEF u, t
  <2>5. t \in Seq(Characters) /\ Together(t, u, q)
    BY <2>2, <2>3, <2>4, Concatenated
  <2>6. Len(u) = 1 + n /\ u[1] = "quote" /\ \A k \in 1 .. n : u[1 + k] = e[k]
    BY <2>2, <2>3 DEF Together
  <2>7. Len(t) = n + 2 /\ t[n + 2] = "quote" /\ \A k \in 1 .. n + 1 : t[k] = u[k]
    <3>1. Len(t) = Len(u) + 1 /\ 1 \in 1 .. Len(q) /\ t[Len(u) + 1] = q[1]
      BY <2>2, <2>5 DEF Together
    <3>2. Len(u) + 1 = n + 2
      BY <1>1, <2>6
    <3>3. \A k \in 1 .. Len(u) : t[k] = u[k]
      BY <2>5 DEF Together
    <3> HIDE DEF n
    <3> QED
      BY <1>1, <2>2, <2>6, <3>1, <3>2, <3>3
  <2>8. \A k \in 1 .. n : k + 1 = 1 + k /\ k + 1 \in 1 .. n + 1
    BY <1>1
  <2>9. 1 \in 1 .. n + 1
    BY <1>1
  <2> HIDE DEF n
  <2> QED
    BY <2>5, <2>6, <2>7, <2>8, <2>9
<1> HIDE DEF n, t, R
<1>3. R[0] = TokenStart /\ \A k \in 1 .. n + 2 : R[k] = TokenStep(R[k - 1], t[k], term)
  <2>1. TokenRun(R, t, term)
    BY <1>2, TokenStatesRun DEF R
  <2> QED
    BY <1>2, <2>1 DEF TokenRun
<1>4. R[1] = Inside(0)
  <2>1. R[1] = TokenStep(TokenStart, "quote", term)
    <3>1. 1 \in 1 .. n + 2 /\ 1 - 1 = 0
      BY <1>1
    <3> QED
      BY <1>2, <1>3, <3>1
  <2>2. SubSeq(e, 1, 0) = <<>>
    OBVIOUS
  <2>3. TokenStep(TokenStart, "quote", term) = [mode |-> "quoted", out |-> <<>>, keep |-> 0]
    BY DEF TokenStep, TokenStart
  <2> QED
    BY <2>1, <2>2, <2>3
<1>5. \A k \in 0 .. n : R[k + 1] = Inside(k)
  <2> DEFINE Good(k) == R[k + 1] = Inside(k)
             T == {k \in Nat : k <= n => Good(k)}
  <2>1. 0 \in T
    BY <1>4
  <2>2. ASSUME NEW k \in Nat, k \in T PROVE k + 1 \in T
    <3> SUFFICES ASSUME k + 1 <= n PROVE Good(k + 1)
      OBVIOUS
    <3>1. k <= n /\ k + 1 \in 1 .. n /\ (k + 1) + 1 \in 1 .. n + 2 /\ ((k + 1) + 1) - 1 = k + 1
      BY <1>1
    <3>2. R[k + 1] = Inside(k)
      <4> HIDE DEF Good
      <4>1. Good(k)
        BY <2>2, <3>1
      <4> QED
        BY <4>1 DEF Good
    <3>3. R[(k + 1) + 1] = TokenStep(R[k + 1], t[(k + 1) + 1], term)
      BY <1>3, <3>1
    <3>4. t[(k + 1) + 1] = e[k + 1] /\ e[k + 1] # "quote"
      BY <1>1, <1>2, <3>1 DEF Unquoted
    <3>5. TokenStep(Inside(k), e[k + 1], term) =
              [mode |-> "quoted", out |-> Append(SubSeq(e, 1, k), e[k + 1]), keep |-> 0]
      BY <3>4, QuotedStep
    <3>6. Append(SubSeq(e, 1, k), e[k + 1]) = SubSeq(e, 1, k + 1)
      BY <3>1 DEF n
    <3> QED
      BY <3>2, <3>3, <3>4, <3>5, <3>6
  <2>3. Nat \subseteq T
    <3> HIDE DEF T
    <3> QED
      BY <2>1, <2>2, SetInduction
  <2> HIDE DEF Good
  <2>4. \A k \in 0 .. n : Good(k)
    BY <1>1, <2>3
  <2> QED
    BY <2>4 DEF Good
<1>6. R[n + 2] = [mode |-> "plain", out |-> e, keep |-> n]
  <2>1. n \in 0 .. n /\ n + 2 \in 1 .. n + 2 /\ (n + 2) - 1 = n + 1
    BY <1>1
  <2>2. R[n + 2] = TokenStep(R[n + 1], "quote", term)
    BY <1>2, <1>3, <2>1
  <2>3. R[n + 1] = Inside(n)
    BY <1>5, <2>1
  <2>4. SubSeq(e, 1, n) = e
    BY DEF n
  <2>5. TokenStep([mode |-> "quoted", out |-> e, keep |-> 0], "quote", term) =
            [mode |-> "plain", out |-> e, keep |-> n]
    BY QuoteStep DEF n
  <2> QED
    BY <2>2, <2>3, <2>4, <2>5
<1>7. Trimmed(e, n) = e
  <2>1. e \in Seq(Characters)
    BY DEF Unquoted
  <2>2. n \in 0 .. Len(e)
    BY <1>1 DEF n
  <2> QED
    BY <2>1, <2>2, TrimmedWhole DEF n
<1>8. TokenStates(t, term)[Len(t)] = [mode |-> "plain", out |-> e, keep |-> n]
  BY <1>2, <1>6 DEF R
<1>9. GetToken(t, term) = [token |-> e, ended |-> TRUE]
  <2> DEFINE last == TokenStates(t, term)[Len(t)]
  <2>1. GetToken(t, term) =
            [token |-> Trimmed(IF last.mode = "escape" THEN Append(last.out, "backslash")
                               ELSE last.out, last.keep),
             ended |-> last.mode # "excess"]
    BY DEF GetToken
  <2>2. last.mode = "plain" /\ last.out = e /\ last.keep = n
    BY <1>8
  <2> HIDE DEF last
  <2>3. (last.mode # "excess") = TRUE
    BY <2>2
  <2> QED
    BY <1>7, <2>1, <2>2, <2>3
<1> QED
  BY <1>9 DEF t

\* The pieces of a text whose colons are escaped once.
HalfPieces(text) ==
    [i \in 1 .. Len(text) |-> IF text[i] = "colon" THEN <<"backslash", "colon">> ELSE <<text[i]>>]

PlainCharacters == {"letter", "colon", "space", "bracket"}

LEMMA AppendTwo ==
    ASSUME NEW S, NEW h \in Seq(S), NEW a \in S, NEW b \in S
    PROVE  /\ h \o <<a, b>> = Append(Append(h, a), b)
           /\ Len(Append(h, a)) = Len(h) + 1
           /\ Len(Append(Append(h, a), b)) = Len(Append(h, a)) + 1
  OBVIOUS

\* The filter's options take one round of escaping off.
LEMMA OptionRead ==
    ASSUME NEW text \in Seq(PlainCharacters), text # <<>>, text[1] # "space",
           NEW D, Joined(D, EncodedPieces(text), Len(text)),
           NEW H, Joined(H, HalfPieces(text), Len(text))
    PROVE  \E k \in 0 .. Len(H[Len(text)]) :
              TokenStates(D[Len(text)], {"colon"})[Len(D[Len(text)])] =
                  [mode |-> "plain", out |-> H[Len(text)], keep |-> k]
<1> DEFINE n == Len(text)
           X == EncodedPieces(text)
           Y == HalfPieces(text)
           R == TokenStates(D[n], {"colon"})
           Start(i) == IF i = 0 THEN "lead" ELSE "plain"
           Good(i) == \E k \in 0 .. Len(H[i]) :
                         R[Len(D[i])] = [mode |-> Start(i), out |-> H[i], keep |-> k]
           T == {i \in Nat : i <= n => Good(i)}
<1>1. n \in Nat \ {0} /\ \A i \in 1 .. n : text[i] \in PlainCharacters
  OBVIOUS
<1>2. \A i \in 1 .. n : /\ X[i] = Escaped(text[i])
                        /\ Y[i] = IF text[i] = "colon" THEN <<"backslash", "colon">>
                                  ELSE <<text[i]>>
  BY DEF EncodedPieces, HalfPieces
<1>3. Placed(D, X, n) /\ Joined(D, X, n) /\ Joined(H, Y, n)
  <2> HIDE DEF X, Y, n
  <2> QED
    BY <1>1, JoinedPlaced DEF X, Y, n
<1> HIDE DEF n, X, Y
<1>4. /\ \A i \in 0 .. n : D[i] \in Seq(Unquoted) /\ H[i] \in Seq(Unquoted)
      /\ D[0] = <<>> /\ H[0] = <<>>
      /\ \A i \in 1 .. n : H[i] = H[i - 1] \o Y[i]
  BY <1>3 DEF Joined
<1>5. \A i \in 0 .. n : Len(D[i]) \in Nat /\ Len(H[i]) \in Nat
  BY <1>4
<1>6. R[0] = TokenStart /\ \A k \in 1 .. Len(D[n]) : R[k] = TokenStep(R[k - 1], D[n][k], {"colon"})
  <2>1. D[n] \in Seq(Characters)
    <3>1. n \in 0 .. n
      BY <1>1
    <3>2. D[n] \in Seq(Unquoted)
      BY <1>4, <3>1
    <3> QED
      BY <3>2 DEF Unquoted
  <2>2. TokenRun(R, D[n], {"colon"})
    BY <2>1, TokenStatesRun
  <2> QED
    BY <2>2 DEF TokenRun
<1> HIDE DEF R
<1>7. 0 \in T
  <2>1. Len(D[0]) = 0 /\ Len(H[0]) = 0
    BY <1>4
  <2>2. R[Len(D[0])] = [mode |-> Start(0), out |-> H[0], keep |-> 0]
    BY <1>4, <1>6, <2>1 DEF TokenStart
  <2>3. 0 \in 0 .. Len(H[0])
    BY <2>1
  <2> HIDE DEF Start
  <2>4. Good(0)
    BY <2>2, <2>3
  <2> HIDE DEF Good
  <2> QED
    BY <2>4
<1>8. ASSUME NEW i \in Nat, i \in T PROVE i + 1 \in T
  <2> HIDE DEF Good
  <2> SUFFICES ASSUME i + 1 <= n PROVE Good(i + 1)
    OBVIOUS
  <2> USE DEF Good
  <2> DEFINE c == text[i + 1]
             at == Len(D[i])
             next == Len(D[i + 1])
             all == Len(D[n])
             h == H[i]
             m == Start(i)
  <2>1. i <= n /\ i \in 0 .. n /\ i + 1 \in 0 .. n /\ i + 1 \in 1 .. n /\ (i + 1) - 1 = i
    BY <1>1
  <2>2. PICK k \in 0 .. Len(h) : R[at] = [mode |-> m, out |-> h, keep |-> k]
    <3> HIDE DEF Good
    <3>1. Good(i)
      BY <1>8, <2>1
    <3> QED
      BY <3>1 DEF Good
  <2>3. /\ next = at + Len(X[i + 1]) /\ next <= all
        /\ \A j \in 1 .. Len(X[i + 1]) : D[n][at + j] = X[i + 1][j]
    BY <1>3, <2>1 DEF Placed
  <2>4. h \in Seq(Unquoted) /\ H[i + 1] = h \o Y[i + 1] /\ at \in Nat /\ Len(h) \in Nat
        /\ Len(H[i + 1]) \in Nat /\ all \in Nat
    <3>1. n \in 0 .. n
      BY <1>1
    <3> QED
      BY <1>4, <1>5, <2>1, <3>1
  <2>5. /\ X[i + 1] = Escaped(c) /\ c \in PlainCharacters
        /\ Y[i + 1] = IF c = "colon" THEN <<"backslash", "colon">> ELSE <<c>>
    BY <1>1, <1>2, <2>1
  <2>6. m \in {"lead", "plain"} /\ (c # "space" \/ m = "plain")
    BY <2>1
  <2>7. Start(i + 1) = "plain"
    OBVIOUS
  <2>8. \A l \in 1 .. all : R[l] = TokenStep(R[l - 1], D[n][l], {"colon"})
    BY <1>6
  <2> HIDE DEF c, at, next, all, h, m, Start
  <2> SUFFICES \E l \in 0 .. Len(H[i + 1]) :
                   R[next] = [mode |-> "plain", out |-> H[i + 1], keep |-> l]
    BY <2>7 DEF next
  <2>9. CASE c # "colon"
    <3>1. Len(X[i + 1]) = 1 /\ X[i + 1][1] = c
      BY <2>5, <2>9 DEF Escaped
    <3>2. next = at + 1 /\ D[n][at + 1] = c
      BY <2>3, <3>1
    <3>3. at + 1 \in 1 .. all /\ (at + 1) - 1 = at
      <4>1. at \in Nat /\ all \in Nat /\ next <= all /\ next = at + 1
        BY <2>3, <2>4, <3>2
      <4> QED
        BY <4>1
    <3>4. R[at + 1] = TokenStep([mode |-> m, out |-> h, keep |-> k], c, {"colon"})
      BY <2>2, <2>8, <3>2, <3>3
    <3>5. c \in {"letter", "space", "bracket"}
      BY <2>5, <2>9 DEF PlainCharacters
    <3>6. R[at + 1] = [mode |-> "plain", out |-> Append(h, c), keep |-> k]
      <4>1. TokenStep([mode |-> m, out |-> h, keep |-> k], c, {"colon"}) =
                [mode |-> "plain", out |-> Append(h, c), keep |-> k]
        <5>1. CASE c = "space"
          BY <2>6, <5>1, SpaceStep
        <5>2. CASE c # "space"
          <6>1. c \in {"letter", "bracket"}
            BY <3>5, <5>2
          <6> QED
            BY <2>6, <6>1, PlainStep
        <5> QED
          BY <5>1, <5>2
      <4> QED
        BY <3>4, <4>1
    <3>7. Append(h, c) = H[i + 1] /\ Len(Append(h, c)) = Len(h) + 1
      BY <2>4, <2>5, <2>9
    <3>8. k \in 0 .. Len(H[i + 1])
      BY <2>4, <3>7
    <3> QED
      BY <3>2, <3>6, <3>7, <3>8
  <2>10. CASE c = "colon"
    <3> DEFINE h1 == Append(h, "backslash")
               h2 == Append(h1, "colon")
    <3>1. /\ Len(X[i + 1]) = 4 /\ X[i + 1][1] = "backslash" /\ X[i + 1][2] = "backslash"
          /\ X[i + 1][3] = "backslash" /\ X[i + 1][4] = "colon"
      BY <2>5, <2>10 DEF Escaped
    <3>2. /\ next = at + 4 /\ D[n][at + 1] = "backslash" /\ D[n][at + 2] = "backslash"
          /\ D[n][at + 3] = "backslash" /\ D[n][at + 4] = "colon"
      BY <2>3, <3>1
    <3>3. /\ at + 1 \in 1 .. all /\ (at + 1) - 1 = at
          /\ at + 2 \in 1 .. all /\ (at + 2) - 1 = at + 1
          /\ at + 3 \in 1 .. all /\ (at + 3) - 1 = at + 2
          /\ at + 4 \in 1 .. all /\ (at + 4) - 1 = at + 3
      <4>1. at \in Nat /\ all \in Nat /\ next <= all /\ next = at + 4
        BY <2>3, <2>4, <3>2
      <4> QED
        BY <4>1
    <3>4. R[at + 1] = [mode |-> "escape", out |-> h, keep |-> k]
      <4>1. R[at + 1] = TokenStep([mode |-> m, out |-> h, keep |-> k], "backslash", {"colon"})
        BY <2>2, <2>8, <3>2, <3>3
      <4> QED
        BY <2>6, <4>1, EscapeStep
    <3>5. R[at + 2] = [mode |-> "plain", out |-> h1, keep |-> Len(h) + 1]
      <4>1. R[at + 2] = TokenStep([mode |-> "escape", out |-> h, keep |-> k], "backslash",
                                  {"colon"})
        BY <2>8, <3>2, <3>3, <3>4
      <4> QED
        BY <4>1, EscapedStep
    <3> HIDE DEF h1
    <3>6. R[at + 3] = [mode |-> "escape", out |-> h1, keep |-> Len(h) + 1]
      <4>1. R[at + 3] = TokenStep([mode |-> "plain", out |-> h1, keep |-> Len(h) + 1], "backslash",
                                  {"colon"})
        BY <2>8, <3>2, <3>3, <3>5
      <4> QED
        BY <4>1, EscapeStep
    <3>7. R[at + 4] = [mode |-> "plain", out |-> h2, keep |-> Len(h1) + 1]
      <4>1. R[at + 4] = TokenStep([mode |-> "escape", out |-> h1, keep |-> Len(h) + 1], "colon",
                                  {"colon"})
        BY <2>8, <3>2, <3>3, <3>6
      <4> QED
        BY <4>1, EscapedStep
    <3>8. h2 = H[i + 1] /\ Len(h1) = Len(h) + 1 /\ Len(h2) = Len(h1) + 1
      <4>1. Y[i + 1] = <<"backslash", "colon">> /\ "backslash" \in Unquoted /\ "colon" \in Unquoted
        BY <2>5, <2>10 DEF Unquoted, Characters
      <4>2. H[i + 1] = h \o <<"backslash", "colon">>
        BY <2>4, <4>1
      <4>3. /\ h \o <<"backslash", "colon">> = h2
            /\ Len(h1) = Len(h) + 1 /\ Len(h2) = Len(h1) + 1
        BY <2>4, <4>1, AppendTwo DEF h1
      <4> QED
        BY <4>2, <4>3
    <3>9. Len(h1) + 1 \in 0 .. Len(H[i + 1])
      BY <2>4, <3>8
    <3> QED
      BY <3>2, <3>7, <3>8, <3>9
  <2> QED
    BY <2>9, <2>10
<1>9. Good(n)
  <2>1. Nat \subseteq T
    <3> HIDE DEF T
    <3> QED
      BY <1>7, <1>8, SetInduction
  <2> HIDE DEF Good
  <2> QED
    BY <1>1, <2>1
<1> QED
  BY <1>1, <1>9 DEF n, R

\* The steps of drawtext that such a text calls for.
LEMMA ExpandAdd ==
    ASSUME NEW a, NEW o, NEW c, NEW stray, NEW m
    PROVE  Add([mode |-> a, out |-> o, stray |-> stray], c, m) =
               [mode |-> m, out |-> Append(o, c), stray |-> stray]
<1> DEFINE st == [mode |-> a, out |-> o, stray |-> stray]
           p == Append(st.out, c)
           x == [st EXCEPT !.mode = m]
<1>1. Add(st, c, m) = [x EXCEPT !.out = p]
  BY DEF Add
<1>2. p = Append(o, c)
  OBVIOUS
<1>3. x = [mode |-> m, out |-> o, stray |-> stray]
  OBVIOUS
<1> HIDE DEF p, x, st
<1>4. [x EXCEPT !.out = p] = [mode |-> m, out |-> p, stray |-> stray]
  BY <1>3
<1>5. Add(st, c, m) = [mode |-> m, out |-> p, stray |-> stray]
  BY <1>1, <1>4
<1> QED
  BY <1>2, <1>5 DEF st

LEMMA ExpandSteps ==
    ASSUME NEW o
    PROVE  /\ \A c \in {"letter", "space", "bracket"} :
                 ExpandStep([mode |-> "plain", out |-> o, stray |-> FALSE], c) =
                     [mode |-> "plain", out |-> Append(o, c), stray |-> FALSE]
           /\ ExpandStep([mode |-> "plain", out |-> o, stray |-> FALSE], "backslash") =
                  [mode |-> "escape", out |-> o, stray |-> FALSE]
           /\ \A c : ExpandStep([mode |-> "escape", out |-> o, stray |-> FALSE], c) =
                         [mode |-> "plain", out |-> Append(o, c), stray |-> FALSE]
<1> DEFINE plain == [mode |-> "plain", out |-> o, stray |-> FALSE]
           escape == [mode |-> "escape", out |-> o, stray |-> FALSE]
<1>1. plain.mode = "plain" /\ escape.mode = "escape"
  OBVIOUS
<1>2. ASSUME NEW c \in {"letter", "space", "bracket"}
      PROVE  ExpandStep(plain, c) = [mode |-> "plain", out |-> Append(o, c), stray |-> FALSE]
  <2> DEFINE x == Add(plain, c, "plain")
             p == Append(o, c)
  <2>1. x = [mode |-> "plain", out |-> p, stray |-> FALSE]
    <3>1. \A s : Add([mode |-> "plain", out |-> o, stray |-> s], c, "plain") =
                     [mode |-> "plain", out |-> Append(o, c), stray |-> s]
      BY ExpandAdd
    <3> QED
      BY <3>1, Zenon
  <2>2. x.stray = FALSE
    BY <2>1
  <2> HIDE DEF x, p
  <2>3. ExpandStep(plain, c) = [x EXCEPT !.stray = x.stray \/ c = "percent"]
    <3>1. c # "backslash"
      OBVIOUS
    <3> HIDE DEF plain
    <3> QED
      BY <1>1, <3>1, Zenon DEF ExpandStep, x
  <2>4. (x.stray \/ c = "percent") = FALSE
    BY <2>2
  <2>5. \A t : [x EXCEPT !.stray = t] = [mode |-> "plain", out |-> p, stray |-> t]
    BY <2>1
  <2>6. [x EXCEPT !.stray = x.stray \/ c = "percent"] =
            [mode |-> "plain", out |-> p, stray |-> FALSE]
    BY <2>4, <2>5, Zenon
  <2>7. ExpandStep(plain, c) = [mode |-> "plain", out |-> p, stray |-> FALSE]
    BY <2>3, <2>6, Zenon
  <2> QED
    BY <2>7 DEF p
<1>3. ExpandStep(plain, "backslash") = escape
  <2>1. [plain EXCEPT !.mode = "escape"] = escape
    <3>1. \A s : [[mode |-> "plain", out |-> o, stray |-> s] EXCEPT !.mode = "escape"] =
                     [mode |-> "escape", out |-> o, stray |-> s]
      OBVIOUS
    <3> QED
      BY <3>1, Zenon
  <2> HIDE DEF plain, escape
  <2>2. ExpandStep(plain, "backslash") = [plain EXCEPT !.mode = "escape"]
    BY <1>1, Zenon DEF ExpandStep
  <2> QED
    BY <2>1, <2>2
<1>4. ASSUME NEW c
      PROVE  ExpandStep(escape, c) = [mode |-> "plain", out |-> Append(o, c), stray |-> FALSE]
  <2>1. ExpandStep(escape, c) = Add(escape, c, "plain")
    <3> HIDE DEF plain, escape
    <3> QED
      BY <1>1, Zenon DEF ExpandStep
  <2>2. Add(escape, c, "plain") = [mode |-> "plain", out |-> Append(o, c), stray |-> FALSE]
    <3>1. \A s : Add([mode |-> "escape", out |-> o, stray |-> s], c, "plain") =
                     [mode |-> "plain", out |-> Append(o, c), stray |-> s]
      BY ExpandAdd
    <3> QED
      BY <3>1, Zenon
  <2> QED
    BY <2>1, <2>2, Zenon
<1> QED
  BY <1>2, <1>3, <1>4

\* drawtext takes the second round off: what it draws is the text.
LEMMA ExpandRead ==
    ASSUME NEW text \in Seq(PlainCharacters),
           NEW H, Joined(H, HalfPieces(text), Len(text))
    PROVE  Expand(H[Len(text)]) = text
<1> DEFINE n == Len(text)
           Y == HalfPieces(text)
           R == ExpandStates(H[n])
           Good(i) == R[Len(H[i])] =
                          [mode |-> "plain", out |-> SubSeq(text, 1, i), stray |-> FALSE]
           T == {i \in Nat : i <= n => Good(i)}
<1>1. n \in Nat /\ \A i \in 1 .. n : text[i] \in PlainCharacters
  OBVIOUS
<1>2. \A i \in 1 .. n :
          Y[i] = IF text[i] = "colon" THEN <<"backslash", "colon">> ELSE <<text[i]>>
  BY DEF HalfPieces
<1>3. Placed(H, Y, n) /\ Joined(H, Y, n)
  <2> HIDE DEF Y, n
  <2> QED
    BY <1>1, JoinedPlaced DEF Y, n
<1>4. \A i \in 0 .. n : \A c : Append(SubSeq(text, 1, i), c) = SubSeq(text, 1, i) \o <<c>>
  OBVIOUS
<1>5. \A i \in 0 .. n - 1 : Append(SubSeq(text, 1, i), text[i + 1]) = SubSeq(text, 1, i + 1)
  OBVIOUS
<1>6. SubSeq(text, 1, 0) = <<>> /\ SubSeq(text, 1, n) = text
  OBVIOUS
<1> HIDE DEF n, Y
<1>7. (\A i \in 0 .. n : H[i] \in Seq(Unquoted)) /\ H[0] = <<>>
  BY <1>3 DEF Joined
<1>8. \A i \in 0 .. n : Len(H[i]) \in Nat
  BY <1>7
<1>9. R[0] = ExpandStart /\ \A k \in 1 .. Len(H[n]) : R[k] = ExpandStep(R[k - 1], H[n][k])
  <2>1. n \in 0 .. n
    BY <1>1
  <2>2. H[n] \in Seq(Unquoted)
    BY <1>7, <2>1
  <2>3. H[n] \in Seq(Characters)
    BY <2>2 DEF Unquoted
  <2>4. ExpandRun(R, H[n])
    BY <2>3, ExpandStatesRun
  <2> QED
    BY <2>4 DEF ExpandRun
<1> HIDE DEF R
<1>10. 0 \in T
  <2>1. Len(H[0]) = 0
    BY <1>7
  <2>2. Good(0)
    BY <1>6, <1>9, <2>1 DEF ExpandStart
  <2> HIDE DEF Good
  <2> QED
    BY <2>2
<1>11. ASSUME NEW i \in Nat, i \in T PROVE i + 1 \in T
  <2> HIDE DEF Good
  <2> SUFFICES ASSUME i + 1 <= n PROVE Good(i + 1)
    OBVIOUS
  <2> DEFINE c == text[i + 1]
             at == Len(H[i])
             next == Len(H[i + 1])
             all == Len(H[n])
             o == SubSeq(text, 1, i)
  <2>1. i <= n /\ i \in 0 .. n /\ i + 1 \in 0 .. n /\ i + 1 \in 1 .. n /\ (i + 1) - 1 = i
        /\ i \in 0 .. n - 1 /\ n \in 0 .. n
    BY <1>1
  <2>2. R[at] = [mode |-> "plain", out |-> o, stray |-> FALSE]
    <3>1. Good(i)
      BY <1>11, <2>1
    <3> QED
      BY <3>1 DEF Good
  <2>3. /\ next = at + Len(Y[i + 1]) /\ next <= all
        /\ \A j \in 1 .. Len(Y[i + 1]) : H[n][at + j] = Y[i + 1][j]
    BY <1>3, <2>1 DEF Placed
  <2>4. at \in Nat /\ all \in Nat
    BY <1>8, <2>1
  <2>5. /\ c \in PlainCharacters
        /\ Y[i + 1] = IF c = "colon" THEN <<"backslash", "colon">> ELSE <<c>>
    BY <1>1, <1>2, <2>1
  <2>6. Append(o, c) = SubSeq(text, 1, i + 1)
    BY <1>5, <2>1
  <2>7. \A l \in 1 .. all : R[l] = ExpandStep(R[l - 1], H[n][l])
    BY <1>9
  <2> HIDE DEF c, at, next, all, o
  <2> SUFFICES R[next] = [mode |-> "plain", out |-> Append(o, c), stray |-> FALSE]
    BY <2>6 DEF Good, next
  <2>8. CASE c # "colon"
    <3>1. Len(Y[i + 1]) = 1 /\ Y[i + 1][1] = c
      BY <2>5, <2>8
    <3>2. next = at + 1 /\ H[n][at + 1] = c
      BY <2>3, <3>1
    <3>3. at + 1 \in 1 .. all /\ (at + 1) - 1 = at
      <4>1. at \in Nat /\ all \in Nat /\ next <= all /\ next = at + 1
        BY <2>3, <2>4, <3>2
      <4> QED
        BY <4>1
    <3>4. R[at + 1] = ExpandStep([mode |-> "plain", out |-> o, stray |-> FALSE], c)
      BY <2>2, <2>7, <3>2, <3>3
    <3>5. c \in {"letter", "space", "bracket"}
      BY <2>5, <2>8 DEF PlainCharacters
    <3> QED
      BY <3>2, <3>4, <3>5, ExpandSteps
  <2>9. CASE c = "colon"
    <3>1. Len(Y[i + 1]) = 2 /\ Y[i + 1][1] = "backslash" /\ Y[i + 1][2] = "colon"
      BY <2>5, <2>9
    <3>2. next = at + 2 /\ H[n][at + 1] = "backslash" /\ H[n][at + 2] = "colon"
      BY <2>3, <3>1
    <3>3. /\ at + 1 \in 1 .. all /\ (at + 1) - 1 = at
          /\ at + 2 \in 1 .. all /\ (at + 2) - 1 = at + 1
      <4>1. at \in Nat /\ all \in Nat /\ next <= all /\ next = at + 2
        BY <2>3, <2>4, <3>2
      <4> QED
        BY <4>1
    <3>4. R[at + 1] = ExpandStep([mode |-> "plain", out |-> o, stray |-> FALSE], "backslash")
      BY <2>2, <2>7, <3>2, <3>3
    <3>5. R[at + 1] = [mode |-> "escape", out |-> o, stray |-> FALSE]
      BY <3>4, ExpandSteps
    <3>6. R[at + 2] = ExpandStep([mode |-> "escape", out |-> o, stray |-> FALSE], c)
      BY <2>7, <2>9, <3>2, <3>3, <3>5
    <3> QED
      BY <3>2, <3>6, ExpandSteps
  <2> QED
    BY <2>8, <2>9
<1>12. Good(n)
  <2>1. Nat \subseteq T
    <3> HIDE DEF T
    <3> QED
      BY <1>10, <1>11, SetInduction
  <2> HIDE DEF Good
  <2> QED
    BY <1>1, <2>1
<1>13. Expand(H[n]) = text
  <2> DEFINE last == R[Len(H[n])]
  <2>1. last.mode = "plain" /\ last.out = text /\ ~last.stray
    BY <1>6, <1>12
  <2>2. Expand(H[n]) = IF last.stray THEN Refused
                       ELSE IF last.mode = "escape" THEN Append(last.out, "backslash")
                       ELSE last.out
    BY DEF Expand, R
  <2> HIDE DEF last
  <2> QED
    BY <2>1, <2>2
<1> QED
  BY <1>13 DEF n

\* A text that does not end in a space does not either when its colons are escaped once.
LEMMA HalvesEnd ==
    ASSUME NEW text \in Seq(PlainCharacters), text # <<>>, text[Len(text)] # "space",
           NEW H, Joined(H, HalfPieces(text), Len(text))
    PROVE  H[Len(text)] \in Seq(Unquoted) /\ H[Len(text)][Len(H[Len(text)])] # "space"
<1> DEFINE n == Len(text)
           Y == HalfPieces(text)
<1>1. n \in Nat /\ n \in 1 .. n /\ n \in 0 .. n /\ n - 1 \in 0 .. n
  OBVIOUS
<1>2. Y[n] = IF text[n] = "colon" THEN <<"backslash", "colon">> ELSE <<text[n]>>
  BY <1>1 DEF HalfPieces
<1>3. Placed(H, Y, n) /\ Joined(H, Y, n)
  <2> HIDE DEF Y, n
  <2> QED
    BY <1>1, JoinedPlaced DEF Y, n
<1>4. text[n] # "space"
  OBVIOUS
<1> HIDE DEF n, Y
<1>5. H[n] \in Seq(Unquoted)
  BY <1>1, <1>3 DEF Joined
<1> DEFINE l == Len(Y[n])
<1>6. l \in {1, 2} /\ Y[n][l] # "space"
  BY <1>2, <1>4
<1>7. Len(H[n]) = Len(H[n - 1]) + l /\ \A j \in 1 .. l : H[n][Len(H[n - 1]) + j] = Y[n][j]
  BY <1>1, <1>3 DEF Placed
<1> HIDE DEF l
<1>8. l \in 1 .. l
  BY <1>6
<1>9. H[n][Len(H[n])] # "space"
  BY <1>6, <1>7, <1>8
<1> QED
  BY <1>5, <1>9 DEF n

\* A plain caption, escaped by EncodeCode and read by the graph's parser, the filter's
\* options and drawtext in turn, is drawn as it was given.
LEMMA PlainDrawn ==
    ASSUME NEW text \in Seq(Characters), Plain(text)
    PROVE  Drawn(text) = text
<1> DEFINE n == Len(text)
           D == EncodedParts(text)
           e == D[n]
<1>1. text \in Seq(PlainCharacters) /\ text # <<>> /\ text[1] # "space" /\ text[n] # "space"
  <2>1. \A i \in 1 .. Len(text) : text[i] \in PlainCharacters
    BY DEF Plain, PlainCharacters
  <2> QED
    BY <2>1 DEF Plain
<1>2. text \in Seq(Unquoted) /\ n \in Nat
  <2>1. PlainCharacters \subseteq Unquoted
    BY DEF PlainCharacters, Unquoted, Characters
  <2> QED
    BY <1>1, <2>1
<1>3. Joined(D, EncodedPieces(text), n)
  BY <1>2, EncodedJoined
<1>4. PICK H : Joined(H, HalfPieces(text), n)
  <2>1. HalfPieces(text) \in [1 .. n -> Seq(Unquoted)]
    <3>1. "backslash" \in Unquoted /\ "colon" \in Unquoted
      BY DEF Unquoted, Characters
    <3>2. \A i \in 1 .. n : text[i] \in Unquoted
      BY <1>2
    <3> QED
      BY <3>1, <3>2 DEF HalfPieces
  <2> HIDE DEF n
  <2> QED
    BY <1>2, <2>1, JoinedExists
<1> HIDE DEF D
<1>5. e \in Seq(Unquoted)
  BY <1>2, <1>3 DEF Joined
<1>6. GetToken(<<"quote">> \o e \o <<"quote">>, {"bracket"}) = [token |-> e, ended |-> TRUE]
  <2> HIDE DEF e
  <2> QED
    BY <1>5, QuotedToken
<1>7. EncodeCode(text) = e
  BY DEF EncodeCode, D
<1> HIDE DEF n
<1>8. H[n] \in Seq(Unquoted) /\ H[n][Len(H[n])] # "space"
  BY <1>1, <1>4, HalvesEnd DEF n
<1>9. PICK k \in 0 .. Len(H[n]) :
          TokenStates(e, {"colon"})[Len(e)] = [mode |-> "plain", out |-> H[n], keep |-> k]
  BY <1>1, <1>3, <1>4, OptionRead DEF n
<1>10. GetToken(e, {"colon"}) = [token |-> H[n], ended |-> TRUE]
  <2> DEFINE last == TokenStates(e, {"colon"})[Len(e)]
  <2>1. GetToken(e, {"colon"}) =
            [token |-> Trimmed(IF last.mode = "escape" THEN Append(last.out, "backslash")
                               ELSE last.out, last.keep),
             ended |-> last.mode # "excess"]
    BY DEF GetToken
  <2>2. last.mode = "plain" /\ last.out = H[n] /\ last.keep = k
    BY <1>9
  <2> HIDE DEF last
  <2>3. (last.mode # "excess") = TRUE
    BY <2>2
  <2>4. Trimmed(H[n], k) = H[n]
    <3>1. H[n] \in Seq(Characters)
      BY <1>8 DEF Unquoted
    <3> QED
      BY <1>8, <3>1, TrimmedWhole
  <2> QED
    BY <2>1, <2>2, <2>3, <2>4
<1>11. Expand(H[n]) = text
  BY <1>1, <1>4, ExpandRead DEF n
<1> HIDE DEF e
<1> QED
  BY <1>6, <1>7, <1>10, <1>11 DEF Drawn

\* Every plain caption that is asked for is drawn as it was given.
THEOREM CaptionsAreDrawn == RequestSpec => []CaptionArrives
<1>1. AnswersFit => CaptionArrives
  <2> SUFFICES ASSUME AnswersFit, Answered("caption"), Plain(request.text)
               PROVE  answer = request.text
    BY DEF CaptionArrives
  <2>1. answer = Drawn(request.text)
    BY DEF AnswersFit, Answered
  <2>2. request.text \in Seq(Characters)
    BY RequestAssumption DEF AnswersFit, Answered
  <2>3. Drawn(request.text) = request.text
    BY <2>2, PlainDrawn
  <2> QED
    BY <2>1, <2>3
<1> QED
  BY <1>1, Answers, PTL
=============================================================================
