------------------------- MODULE SliceThreadsProofs -------------------------
(***************************************************************************)
(* Proofs about SliceThreads, for any number of threads, slices and calls: *)
(* no list of the pool overflows, the border between two slices is         *)
(* filtered when both are deblocked, a picture is put together when all of *)
(* its slices are there, every failure is reported, and each slice is      *)
(* encoded once (ParallelFor).                                             *)
(*                                                                         *)
(* The invariant follows each slice of a picture from the dispatch to the  *)
(* wait: its job is in one place at a time, and the place says how far the *)
(* slice is.                                                               *)
(***************************************************************************)
EXTENDS SliceThreads, FiniteSetTheorems, SequenceTheorems, TLAPS

\* Slices of the picture that were not waited for, and the places of their jobs.
Outstanding == active \cup {s \in {awaited} : mpc \in {"search", "asleep"}}
Done == {j.arg : j \in done}
InPool == Queued \cup AtWork \cup Done

Places ==
    /\ Outstanding = Undispatched \cup InPool
    /\ Undispatched \cap InPool = {}
    /\ Queued \cap AtWork = {} /\ Done \cap (Queued \cup AtWork) = {}
    /\ \A v, w \in Workers : hand[v] = hand[w] /\ hand[v] # 0 => v = w
    /\ \A i, k \in DOMAIN run : run[i] = run[k] => i = k
    /\ \A j \in done : j.ret = Result(j.arg)

\* The pool's job structures, and the lengths of its lists.
Counts ==
    /\ uninit = Threads - Cardinality(InPool)
    /\ Len(run) = Cardinality(Queued)
    /\ IsFiniteSet(done) /\ Cardinality(done) = Cardinality(Done)

\* How far a worker's slice is.
At(w) ==
    /\ wpc[w] = "write" => hand[w] \notin written \cup failed /\ pass[hand[w]] = 0
    /\ wpc[w] = "tell1" => hand[w] \in written /\ pass[hand[w]] = 0
    /\ wpc[w] = "deblock" => hand[w] \in written
    /\ wpc[w] = "tell2" => hand[w] \in written /\ hand[w] \in deblocked
    /\ wpc[w] = "await" => hand[w] \in written /\ hand[w] \in deblocked /\ hand[w] > 1
    /\ wpc[w] = "border" => /\ hand[w] \in written /\ hand[w] \in deblocked /\ hand[w] > 1
                            /\ pass[hand[w] - 1] = 2
    /\ wpc[w] = "give_up" => hand[w] \in failed
    /\ wpc[w] = "finish" => hand[w] \in written \cup failed

Progress ==
    /\ \A s \in Undispatched \cup Queued : s \notin written \cup failed /\ pass[s] = 0
    /\ \A w \in Workers : At(w)
    /\ \A s \in Slice :
          /\ pass[s] >= 1 => s \in written \cup failed
          /\ pass[s] = 2 => s \in deblocked \cup failed

\* Where the caller is, and what it has reported.
Flow ==
    /\ mpc \in {"dispatch", "signal"} => turn \in Slice
    /\ mpc \in {"search", "asleep"} => awaited \in Slice /\ awaited \notin active
    /\ mpc = "setup" => active = {}
    /\ mpc \notin {"dispatch", "signal", "gather"} => run = <<>>
    /\ closing => mpc \in {"collect", "search", "asleep", "delete", "join", "freed"}
    /\ mpc = "merge" => Slice \subseteq written \cup failed
    /\ ~closing => reported = failed \ Outstanding

IInv == TypeOK /\ Places /\ Counts /\ Progress /\ Flow

Idle == {"top", "lock", "asleep", "gone", "signal"}
Working == {"write", "tell1", "deblock", "tell2", "await", "border", "give_up", "finish"}

-----------------------------------------------------------------------------
LEMMA Constants ==
    /\ Threads \in Nat /\ Threads > 1 /\ IsFiniteSet(Workers) /\ MaxCalls \in Nat
    /\ IsFiniteSet(Slice) /\ Cardinality(Slice) = Threads /\ Slice \subseteq Nat \ {0}
<1>1. Threads \in Nat /\ Threads > 1 /\ IsFiniteSet(Workers) /\ MaxCalls \in Nat
  BY SliceAssumption, FS_CardinalityType DEF Threads
<1>2. IsFiniteSet(1 .. Threads) /\ Cardinality(1 .. Threads) = Threads
  BY <1>1, FS_Interval
<1> QED
  BY <1>1, <1>2 DEF Slice

\* What the type invariant says of the places.
LEMMA PlacesTyped ==
    ASSUME TypeOK
    PROVE  /\ Queued \subseteq Slice /\ AtWork \subseteq Slice /\ Done \subseteq Slice
           /\ Undispatched \subseteq Slice /\ InPool \subseteq Slice
           /\ IsFiniteSet(Queued) /\ IsFiniteSet(Done) /\ IsFiniteSet(InPool)
           /\ \A w \in Workers : wpc[w] \in Working =>
                  hand[w] \in Slice /\ hand[w] \in AtWork /\ hand[w] # 0
           /\ \A w \in Workers : wpc[w] \notin Working => hand[w] = 0
<1>1. \A i \in DOMAIN run : run[i] \in Slice
  BY LenProperties, ElementOfSeq DEF TypeOK
<1>2. Queued \subseteq Slice
  BY <1>1 DEF Queued
<1>3. AtWork \subseteq Slice
  BY Constants DEF TypeOK, AtWork, Slice
<1>4. Done \subseteq Slice
  BY DEF TypeOK, Done, Job
<1>5. Undispatched \subseteq Slice
  BY DEF Undispatched
<1>6. InPool \subseteq Slice
  BY <1>2, <1>3, <1>4 DEF InPool
<1>7. IsFiniteSet(Queued) /\ IsFiniteSet(Done) /\ IsFiniteSet(InPool)
  BY <1>2, <1>4, <1>6, Constants, FS_Subset
<1>8. \A w \in Workers : wpc[w] \in Working =>
          hand[w] \in Slice /\ hand[w] \in AtWork /\ hand[w] # 0
  <2> SUFFICES ASSUME NEW w \in Workers, wpc[w] \in Working
               PROVE  hand[w] \in Slice /\ hand[w] \in AtWork /\ hand[w] # 0
    OBVIOUS
  <2>1. hand[w] # 0 /\ hand[w] \in 0 .. Threads
    BY DEF TypeOK, Working
  <2>2. hand[w] \in Slice
    BY <2>1, Constants DEF Slice
  <2> QED
    BY <2>1, <2>2 DEF AtWork
<1>9. \A w \in Workers : wpc[w] \notin Working => hand[w] = 0
  BY DEF TypeOK, Working
<1> QED
  BY <1>2, <1>3, <1>4, <1>5, <1>6, <1>7, <1>8, <1>9

\* Steps that move no job.
LEMMA StillPlaced ==
    ASSUME Places, Counts, UNCHANGED <<run, hand, done, uninit>>,
           Undispatched' = Undispatched, Outstanding' = Outstanding,
           \A s \in Done : s \in failed' <=> s \in failed
    PROVE  Places' /\ Counts'
<1>1. Queued' = Queued /\ AtWork' = AtWork /\ Done' = Done
  BY DEF Queued, AtWork, Done
<1>2. InPool' = InPool
  BY <1>1 DEF InPool
<1>3. \A j \in done : Result(j.arg)' = Result(j.arg)
  BY DEF Done, Result
<1>4. Places'
  BY <1>1, <1>2, <1>3 DEF Places
<1>5. Counts'
  BY <1>1, <1>2 DEF Counts
<1> QED
  BY <1>4, <1>5

\* Steps that leave the slices alone.
LEMMA StillProgress ==
    ASSUME Progress, UNCHANGED <<hand, pass, written, failed, deblocked>>,
           (Undispatched \cup Queued)' \subseteq Undispatched \cup Queued,
           \A w \in Workers : wpc'[w] \in Working => wpc'[w] = wpc[w]
    PROVE  Progress'
<1>1. \A w \in Workers : At(w)'
  BY DEF Progress, At, Working
<1>2. \A s \in (Undispatched \cup Queued)' : s \notin written' \cup failed' /\ pass'[s] = 0
  BY DEF Progress
<1> QED
  BY <1>1, <1>2 DEF Progress

LEMMA NotDispatching ==
    ASSUME mpc \notin {"dispatch", "signal"}, mpc' \notin {"dispatch", "signal"}
    PROVE  Undispatched' = Undispatched
  BY DEF Undispatched

\* A broadcast on cv_fill.
LEMMA WokenTyped ==
    ASSUME TypeOK, wpc' = Woken, hand' = hand
    PROVE  /\ wpc' \in [Workers -> Idle \cup Working]
           /\ \A w \in Workers : hand'[w] = 0 <=> wpc'[w] \in Idle
           /\ \A w \in Workers : wpc'[w] \in Working => wpc'[w] = wpc[w]
<1>1. \A w \in Workers : wpc'[w] = IF wpc[w] = "asleep" THEN "lock" ELSE wpc[w]
  BY DEF Woken
<1>2. \A w \in Workers : wpc'[w] \in Idle \cup Working
  BY <1>1 DEF TypeOK, Idle, Working
<1>3. wpc' \in [Workers -> Idle \cup Working]
  BY <1>2 DEF Woken
<1>4. \A w \in Workers : hand'[w] = 0 <=> wpc'[w] \in Idle
  BY <1>1 DEF TypeOK, Idle
<1>5. \A w \in Workers : wpc'[w] \in Working => wpc'[w] = wpc[w]
  BY <1>1 DEF Working
<1> QED
  BY <1>3, <1>4, <1>5

-----------------------------------------------------------------------------
LEMMA InitHolds == Init => IInv
<1> SUFFICES ASSUME Init PROVE IInv
  OBVIOUS
<1>1. Queued = {} /\ Done = {} /\ Undispatched = {} /\ Outstanding = {}
  BY DEF Init, Queued, Done, Undispatched, Outstanding
<1>2. AtWork = {}
  BY DEF Init, AtWork
<1>3. InPool = {}
  BY <1>1, <1>2 DEF InPool
<1>4. TypeOK
  <2>1. uninit \in 0 .. Threads /\ turn \in 1 .. Threads + 1 /\ awaited \in 0 .. Threads
        /\ calls \in 0 .. MaxCalls
    BY Constants DEF Init
  <2>2. hand \in [Workers -> 0 .. Threads] /\ pass \in [Slice -> 0 .. 2]
    BY Constants DEF Init
  <2> QED
    BY <2>1, <2>2, EmptySeq DEF Init, TypeOK
<1>5. Places
  BY <1>1, <1>2, <1>3 DEF Places, Init
<1>6. Counts
  <2>1. IsFiniteSet({}) /\ Cardinality({}) = 0 /\ Len(<<>>) = 0
    BY FS_EmptySet
  <2> QED
    BY <1>1, <1>3, <2>1, Constants DEF Counts, Init
<1>7. Progress
  BY <1>1 DEF Progress, At, Init
<1>8. Flow
  BY <1>1 DEF Flow, Init
<1> QED
  BY <1>4, <1>5, <1>6, <1>7, <1>8 DEF IInv

\* Steps of the caller that change nothing but where it is.
CallerMoves == Encode \/ Close \/ CollectedAll \/ NotFound \/ SetUpFails \/ Gather \/ Merge
               \/ Join \/ Delete

LEMMA CallerMovesHolds == ASSUME IInv, CallerMoves PROVE IInv'
<1>1. UNCHANGED <<turn, active, awaited, uninit, run, done, hand, pass, written, failed,
                  deblocked, reported>>
  BY DEF CallerMoves, Encode, Close, CollectedAll, NotFound, SetUpFails, Gather, Merge, Join,
         Delete, lists, picture
<1>2. /\ mpc \notin {"dispatch", "signal"} /\ mpc' \notin {"dispatch", "signal"}
      /\ mpc' \in {"search", "asleep"} <=> mpc \in {"search", "asleep"}
      /\ mpc' \in {"collect", "asleep", "delete", "setup", "out", "merge", "join", "freed"}
  BY DEF CallerMoves, Encode, Close, CollectedAll, NotFound, SetUpFails, Gather, Merge, Join,
         Delete
<1>3. Undispatched' = Undispatched
  BY <1>2, NotDispatching
<1>4. Outstanding' = Outstanding /\ Queued' = Queued
  BY <1>1, <1>2 DEF Outstanding, Queued
<1>5. /\ wpc' \in [Workers -> Idle \cup Working]
      /\ \A w \in Workers : hand'[w] = 0 <=> wpc'[w] \in Idle
      /\ \A w \in Workers : wpc'[w] \in Working => wpc'[w] = wpc[w]
  <2>1. CASE wpc' = wpc
    BY <1>1, <2>1 DEF IInv, TypeOK, Idle, Working
  <2>2. CASE wpc' = Woken
    BY <1>1, <2>2, WokenTyped DEF IInv
  <2> QED
    BY <2>1, <2>2 DEF CallerMoves, Encode, Close, CollectedAll, NotFound, SetUpFails, Gather,
                      Merge, Join, Delete
<1>6. Places' /\ Counts'
  BY <1>1, <1>3, <1>4, StillPlaced DEF IInv
<1>7. Progress'
  BY <1>1, <1>3, <1>4, <1>5, StillProgress DEF IInv
<1>8. TypeOK'
  <2>1. calls' \in 0 .. MaxCalls /\ closing' \in BOOLEAN /\ exit' \in BOOLEAN
    <3>1. CASE Encode
      BY <3>1, Constants DEF Encode, lists, IInv, TypeOK
    <3>2. CASE ~Encode
      BY <3>2 DEF CallerMoves, Close, CollectedAll, NotFound, SetUpFails, Gather, Merge, Join,
                  Delete, lists, IInv, TypeOK
    <3> QED
      BY <3>1, <3>2
  <2> QED
    BY <1>1, <1>2, <1>5, <2>1 DEF IInv, TypeOK, Idle, Working
<1>9. Flow'
  <2>1. mpc = "setup" => active = {}
    BY DEF IInv, Flow
  <2>2. mpc' = "setup" => active' = {}
    BY <1>1 DEF CallerMoves, Encode, Close, CollectedAll, NotFound, SetUpFails, Gather, Merge,
                Join, Delete
  <2>3. run' = <<>>
    <3>1. CASE Gather
      <4>1. \A s \in Queued : pass[s] = 0 /\ s \in Slice
        BY PlacesTyped DEF IInv, Progress
      <4>2. Queued = {}
        BY <3>1, <4>1 DEF Gather
      <4>3. DOMAIN run = {} /\ run \in Seq(Slice)
        BY <4>2 DEF Queued, IInv, TypeOK
      <4>4. Len(run) = 0
        BY <4>3, LenProperties
      <4> QED
        BY <1>1, <4>3, <4>4, EmptySeq
    <3>2. CASE ~Gather
      <4>1. mpc \notin {"dispatch", "signal", "gather"}
        BY <3>2 DEF CallerMoves, Encode, Close, CollectedAll, NotFound, SetUpFails, Merge, Join,
                    Delete
      <4> QED
        BY <1>1, <4>1 DEF IInv, Flow
    <3> QED
      BY <3>1, <3>2
  <2>4. mpc' = "merge" => Slice \subseteq written' \cup failed'
    <3>1. CASE Gather
      BY <1>1, <3>1 DEF Gather, IInv, Progress
    <3>2. CASE ~Gather
      BY <3>2 DEF CallerMoves, Encode, Close, CollectedAll, NotFound, SetUpFails, Merge, Join,
                  Delete
    <3> QED
      BY <3>1, <3>2
  <2>5. closing' => mpc' \in {"collect", "search", "asleep", "delete", "join", "freed"}
    BY DEF CallerMoves, Encode, Close, CollectedAll, NotFound, SetUpFails, Gather, Merge, Join,
           Delete, IInv, Flow
  <2>6. closing => closing'
    BY DEF CallerMoves, Encode, Close, CollectedAll, NotFound, SetUpFails, Gather, Merge, Join,
           Delete
  <2>7. ~closing' => reported' = (failed \ Outstanding)'
    BY <1>1, <1>4, <2>6 DEF IInv, Flow
  <2>8. mpc' \in {"search", "asleep"} => awaited' \in Slice /\ awaited' \notin active'
    BY <1>1, <1>2 DEF IInv, Flow
  <2> QED
    BY <1>2, <2>2, <2>3, <2>4, <2>5, <2>7, <2>8 DEF Flow
<1> QED
  BY <1>6, <1>7, <1>8, <1>9 DEF IInv

\* Steps of a worker, and of the system, that move no job.
QuietSteps == SpuriousWakeup \/ \E w \in Workers : Top(w) \/ TakeNothing(w) \/ SignalDone(w)

LEMMA QuietStepsHold == ASSUME IInv, QuietSteps PROVE IInv'
<1>1. /\ UNCHANGED <<calls, closing, turn, active, awaited, lists, hand, pass, picture>>
      /\ mpc' = mpc \/ (mpc = "asleep" /\ mpc' = "search")
  BY DEF QuietSteps, SpuriousWakeup, Top, TakeNothing, SignalDone, caller
<1>2. UNCHANGED <<uninit, run, done, exit, written, failed, deblocked, reported>>
  BY <1>1 DEF lists, picture
<1>3. Undispatched' = Undispatched
  BY <1>1 DEF Undispatched
<1>4. Outstanding' = Outstanding /\ Queued' = Queued
  BY <1>1, <1>2 DEF Outstanding, Queued
<1>5. /\ wpc' \in [Workers -> Idle \cup Working]
      /\ \A v \in Workers : wpc'[v] = wpc[v] \/ (wpc[v] \in Idle /\ wpc'[v] \in Idle)
  <2>1. wpc \in [Workers -> Idle \cup Working]
    BY DEF IInv, TypeOK, Idle, Working
  <2>2. CASE wpc' = wpc
    BY <2>1, <2>2
  <2>3. ASSUME NEW w \in Workers, NEW to \in Idle, wpc[w] \in Idle,
               wpc' = [wpc EXCEPT ![w] = to]
        PROVE  /\ wpc' \in [Workers -> Idle \cup Working]
               /\ \A v \in Workers : wpc'[v] = wpc[v] \/ (wpc[v] \in Idle /\ wpc'[v] \in Idle)
    BY <2>1, <2>3
  <2>4. ASSUME NEW w \in Workers, Top(w) \/ TakeNothing(w) \/ SignalDone(w) \/ Go(w, "asleep", "lock")
        PROVE  \E to \in Idle : wpc[w] \in Idle /\ wpc' = [wpc EXCEPT ![w] = to]
    BY <2>4 DEF Top, TakeNothing, SignalDone, Go, Idle
  <2> QED
    BY <2>2, <2>3, <2>4 DEF QuietSteps, SpuriousWakeup
<1>6. /\ \A w \in Workers : hand'[w] = 0 <=> wpc'[w] \in Idle
      /\ \A w \in Workers : wpc'[w] \in Working => wpc'[w] = wpc[w]
  <2>1. \A w \in Workers : hand[w] = 0 <=> wpc[w] \in Idle
    BY DEF IInv, TypeOK, Idle
  <2>2. Idle \cap Working = {}
    BY DEF Idle, Working
  <2> QED
    BY <1>1, <1>5, <2>1, <2>2
<1>7. Places' /\ Counts'
  BY <1>1, <1>2, <1>3, <1>4, StillPlaced DEF IInv
<1>8. Progress'
  BY <1>1, <1>2, <1>3, <1>4, <1>6, StillProgress DEF IInv
<1>9. TypeOK'
  BY <1>1, <1>2, <1>5, <1>6 DEF IInv, TypeOK, Idle, Working
<1>10. Flow'
  BY <1>1, <1>2, <1>4 DEF IInv, Flow
<1> QED
  BY <1>7, <1>8, <1>9, <1>10 DEF IInv

\* The steps of a job: only the worker's slice changes.
LEMMA JobStep ==
    ASSUME IInv, NEW w \in Workers, NEW to \in Working, wpc[w] \in Working,
           wpc' = [wpc EXCEPT ![w] = to], UNCHANGED <<caller, lists, hand, reported>>,
           written \subseteq written', written' \subseteq written \cup {hand[w]},
           failed \subseteq failed', failed' \subseteq failed \cup {hand[w]},
           deblocked \subseteq deblocked', deblocked' \subseteq deblocked \cup {hand[w]},
           pass' \in [Slice -> 0 .. 2], \A s \in Slice : s # hand[w] => pass'[s] = pass[s],
           pass[hand[w]] = 2 => pass'[hand[w]] = 2,
           pass'[hand[w]] >= 1 => hand[w] \in written' \cup failed',
           pass'[hand[w]] = 2 => hand[w] \in deblocked' \cup failed',
           At(w)'
    PROVE  IInv'
<1>0. /\ UNCHANGED <<mpc, calls, closing, turn, active, awaited, uninit, run, done, exit>>
      /\ Undispatched' = Undispatched /\ Outstanding' = Outstanding /\ Queued' = Queued
  BY DEF caller, lists, Undispatched, Outstanding, Queued
<1>1. hand[w] \in Slice /\ hand[w] \in AtWork /\ hand[w] # 0
  BY PlacesTyped DEF IInv
<1>2. hand[w] \notin Done /\ hand[w] \notin Undispatched \cup Queued /\ hand[w] \in Outstanding
  BY <1>1 DEF IInv, Places, InPool
<1>3. Places' /\ Counts'
  <2>1. \A s \in Done : s \in failed' <=> s \in failed
    BY <1>2
  <2> QED
    BY <1>0, <2>1, StillPlaced DEF IInv
<1>4. \A v \in Workers : wpc'[v] = IF v = w THEN to ELSE wpc[v]
  BY DEF IInv, TypeOK
<1>5. TypeOK'
  <2>1. wpc' \in [Workers -> Idle \cup Working]
    BY DEF IInv, TypeOK, Idle, Working
  <2>2. \A v \in Workers : hand'[v] = 0 <=> wpc'[v] \in Idle
    <3>1. to \notin Idle /\ wpc[w] \notin Idle
      BY DEF Idle, Working
    <3>2. \A v \in Workers : hand[v] = 0 <=> wpc[v] \in Idle
      BY DEF IInv, TypeOK, Idle
    <3> QED
      BY <1>4, <3>1, <3>2
  <2>3. written' \cup failed' \cup deblocked' \cup reported' \subseteq Slice
    BY <1>1 DEF IInv, TypeOK
  <2> QED
    BY <1>0, <2>1, <2>2, <2>3 DEF IInv, TypeOK, Idle, Working
<1>6. Progress'
  <2>1. \A s \in (Undispatched \cup Queued)' : s \notin written' \cup failed' /\ pass'[s] = 0
    <3>1. \A s \in Undispatched \cup Queued : s \in Slice /\ s # hand[w]
      BY <1>2, PlacesTyped DEF IInv
    <3>2. \A s \in Undispatched \cup Queued : s \notin written \cup failed /\ pass[s] = 0
      BY DEF IInv, Progress
    <3> QED
      BY <1>0, <3>1, <3>2
  <2>2. ASSUME NEW v \in Workers, v # w PROVE At(v)'
    <3>1. wpc'[v] = wpc[v] /\ hand'[v] = hand[v]
      BY <1>4, <2>2
    <3>2. CASE wpc[v] \in Working
      <4>1. hand[v] \in Slice /\ hand[v] # 0 /\ hand[v] # hand[w]
        BY <2>2, <3>2, PlacesTyped DEF IInv, Places
      <4>2. pass'[hand[v]] = pass[hand[v]]
        BY <4>1
      <4>3. At(v)
        BY DEF IInv, Progress
      <4>4. /\ hand[v] \in written' <=> hand[v] \in written
            /\ hand[v] \in failed' <=> hand[v] \in failed
            /\ hand[v] \in deblocked' <=> hand[v] \in deblocked
        BY <4>1
      <4>5. hand[v] > 1 /\ pass[hand[v] - 1] = 2 => pass'[hand[v] - 1] = 2
        <5> SUFFICES ASSUME hand[v] > 1, pass[hand[v] - 1] = 2 PROVE pass'[hand[v] - 1] = 2
          OBVIOUS
        <5>1. hand[v] - 1 \in Slice
          BY <4>1, Constants DEF Slice
        <5> QED
          BY <5>1
      <4> QED
        BY <3>1, <4>2, <4>3, <4>4, <4>5 DEF At
    <3>3. CASE wpc[v] \notin Working
      BY <3>1, <3>3 DEF At, Working
    <3> QED
      BY <3>2, <3>3
  <2>3. ASSUME NEW s \in Slice
        PROVE  /\ pass'[s] >= 1 => s \in written' \cup failed'
               /\ pass'[s] = 2 => s \in deblocked' \cup failed'
    BY DEF IInv, Progress
  <2> QED
    BY <2>1, <2>2, <2>3 DEF Progress
<1>7. Flow'
  <2>1. ~closing' => reported' = (failed \ Outstanding)'
    BY <1>0, <1>2 DEF IInv, Flow
  <2>2. mpc' = "merge" => Slice \subseteq written' \cup failed'
    BY <1>0 DEF IInv, Flow
  <2> QED
    BY <1>0, <2>1, <2>2 DEF IInv, Flow
<1> QED
  BY <1>3, <1>5, <1>6, <1>7 DEF IInv

LEMMA JobActionsHold ==
    ASSUME IInv, NEW w \in Workers,
           Write(w) \/ Tell1(w) \/ Deblock(w) \/ Tell2(w) \/ Await(w) \/ Border(w) \/ GiveUp(w)
    PROVE  IInv'
<1>1. /\ UNCHANGED <<caller, lists, hand, reported>> /\ pass \in [Slice -> 0 .. 2]
      /\ wpc \in [Workers -> Idle \cup Working]
  BY DEF Write, Tell1, Deblock, Tell2, Await, Border, GiveUp, picture, IInv, TypeOK, Idle, Working
<1>2. wpc[w] \in Working
  BY DEF Write, Tell1, Deblock, Tell2, Await, Border, GiveUp, Go, Working
<1>3. hand[w] \in Slice /\ hand[w] # 0 /\ hand'[w] = hand[w]
  BY <1>1, <1>2, PlacesTyped DEF IInv
<1>4. /\ At(w)
      /\ pass[hand[w]] >= 1 => hand[w] \in written \cup failed
      /\ pass[hand[w]] = 2 => hand[w] \in deblocked \cup failed
  BY <1>3 DEF IInv, Progress
<1>5. CASE Write(w)
  <2>1. hand[w] \notin written \cup failed /\ pass[hand[w]] = 0 /\ UNCHANGED <<pass, deblocked>>
    BY <1>4, <1>5 DEF At, Write, Go
  <2>2. PICK to \in {"tell1", "give_up"} :
          /\ wpc' = [wpc EXCEPT ![w] = to]
          /\ to = "tell1" => written' = written \cup {hand[w]} /\ failed' = failed
          /\ to = "give_up" => failed' = failed \cup {hand[w]} /\ written' = written
    BY <1>5 DEF Write, Go
  <2>3. to \in Working
    BY DEF Working
  <2>4. wpc'[w] = to
    BY <1>1, <2>2
  <2>5. At(w)'
    BY <1>3, <2>1, <2>2, <2>4 DEF At
  <2> QED
    BY <1>1, <1>2, <1>4, <2>1, <2>2, <2>3, <2>5, JobStep
<1>6. ASSUME NEW to \in Working, wpc' = [wpc EXCEPT ![w] = to],
             UNCHANGED <<pass, written, failed, deblocked>>, At(w)'
      PROVE  IInv'
  BY <1>1, <1>2, <1>3, <1>4, <1>6, JobStep
<1>7. ASSUME NEW to \in Working, wpc' = [wpc EXCEPT ![w] = to], NEW value \in {1, 2},
             Tell(w, value), UNCHANGED <<written, failed, deblocked>>, At(w)',
             hand[w] \in written \cup failed,
             pass[hand[w]] = 2 => value = 2,
             value = 2 => hand[w] \in deblocked \cup failed
      PROVE  IInv'
  <2>1. /\ pass' \in [Slice -> 0 .. 2] /\ pass'[hand[w]] = value
        /\ \A s \in Slice : s # hand[w] => pass'[s] = pass[s]
    BY <1>1, <1>3, <1>7 DEF Tell
  <2> QED
    BY <1>1, <1>2, <1>3, <1>7, <2>1, JobStep
<1>8. CASE Tell1(w)
  <2>1. hand[w] \in written /\ pass[hand[w]] = 0 /\ UNCHANGED <<written, failed, deblocked>>
    BY <1>4, <1>8 DEF At, Tell1, Go, picture
  <2>2. wpc' = [wpc EXCEPT ![w] = "deblock"] /\ "deblock" \in Working /\ Tell(w, 1)
    BY <1>8 DEF Tell1, Go, Working
  <2>3. wpc'[w] = "deblock"
    BY <1>1, <2>2
  <2>4. At(w)'
    BY <1>3, <2>1, <2>3 DEF At
  <2>5. hand[w] \in written \cup failed /\ pass[hand[w]] # 2 /\ 1 \in {1, 2} /\ 1 # 2
    BY <2>1
  <2> QED
    BY <1>7, <2>1, <2>2, <2>4, <2>5
<1>9. CASE Deblock(w)
  <2>1. hand[w] \in written /\ UNCHANGED <<pass, written, failed>>
        /\ deblocked' = deblocked \cup {hand[w]}
    BY <1>4, <1>9 DEF At, Deblock, Go
  <2>2. wpc' = [wpc EXCEPT ![w] = "tell2"] /\ "tell2" \in Working
    BY <1>9 DEF Deblock, Go, Working
  <2>3. wpc'[w] = "tell2"
    BY <1>1, <2>2
  <2>4. At(w)'
    BY <1>3, <2>1, <2>3 DEF At
  <2> QED
    BY <1>1, <1>2, <1>4, <2>1, <2>2, <2>4, JobStep
<1>10. CASE Tell2(w)
  <2>1. hand[w] \in written /\ hand[w] \in deblocked /\ UNCHANGED <<written, failed, deblocked>>
    BY <1>4, <1>10 DEF At, Tell2, Go, picture
  <2>2. PICK to \in {"await", "finish"} :
          wpc' = [wpc EXCEPT ![w] = to] /\ (to = "await" => hand[w] > 1)
    BY <1>10 DEF Tell2, Go
  <2>3. to \in Working /\ Tell(w, 2)
    BY <1>10 DEF Working, Tell2
  <2>4. wpc'[w] = to
    BY <1>1, <2>2
  <2>5. At(w)'
    BY <1>3, <2>1, <2>2, <2>4 DEF At
  <2> QED
    BY <1>7, <2>1, <2>2, <2>3, <2>5
<1>11. CASE Await(w)
  <2>1. hand[w] \in written /\ hand[w] \in deblocked /\ hand[w] > 1
        /\ UNCHANGED <<pass, written, failed, deblocked>>
    BY <1>4, <1>11 DEF At, Await, Go, picture
  <2>2. wpc' = [wpc EXCEPT ![w] = "border"] /\ "border" \in Working
    BY <1>11 DEF Await, Go, Working
  <2>3. wpc'[w] = "border"
    BY <1>1, <2>2
  <2>4. pass[hand[w] - 1] = 2
    <3>1. hand[w] - 1 \in Slice
      BY <1>3, <2>1, Constants DEF Slice
    <3>2. pass[hand[w] - 1] \in 0 .. 2
      BY <1>1, <3>1
    <3> QED
      BY <1>11, <3>2 DEF Await, LastPass
  <2>5. At(w)'
    BY <1>3, <2>1, <2>3, <2>4 DEF At
  <2> QED
    BY <1>6, <2>1, <2>2, <2>5
<1>12. CASE Border(w)
  <2>1. hand[w] \in written /\ UNCHANGED <<pass, written, failed, deblocked>>
    BY <1>4, <1>12 DEF At, Border, Go, picture
  <2>2. wpc' = [wpc EXCEPT ![w] = "finish"] /\ "finish" \in Working
    BY <1>12 DEF Border, Go, Working
  <2>3. wpc'[w] = "finish"
    BY <1>1, <2>2
  <2>4. At(w)'
    BY <1>3, <2>1, <2>3 DEF At
  <2> QED
    BY <1>6, <2>1, <2>2, <2>4
<1>13. CASE GiveUp(w)
  <2>1. hand[w] \in failed /\ UNCHANGED <<written, failed, deblocked>>
    BY <1>4, <1>13 DEF At, GiveUp, Go, picture
  <2>2. wpc' = [wpc EXCEPT ![w] = "finish"] /\ "finish" \in Working /\ Tell(w, 2)
    BY <1>13 DEF GiveUp, Go, Working
  <2>3. wpc'[w] = "finish"
    BY <1>1, <2>2
  <2>4. At(w)'
    BY <1>3, <2>1, <2>3 DEF At
  <2> QED
    BY <1>7, <2>1, <2>2, <2>4
<1> QED
  BY <1>5, <1>8, <1>9, <1>10, <1>11, <1>12, <1>13

\* A worker takes the first job of the list.
LEMMA TakeHolds == ASSUME IInv, NEW w \in Workers, Take(w) PROVE IInv'
<1> DEFINE head == Head(run)
<1>1. /\ UNCHANGED <<caller, uninit, done, exit, pass, picture>> /\ run # <<>> /\ run' = Tail(run)
      /\ hand' = [hand EXCEPT ![w] = head] /\ wpc[w] = "lock"
      /\ wpc' = [wpc EXCEPT ![w] = "write"]
  BY DEF Take, Go
<1>2. /\ run \in Seq(Slice) /\ hand \in [Workers -> 0 .. Threads]
      /\ wpc \in [Workers -> Idle \cup Working] /\ hand[w] = 0
  BY <1>1 DEF IInv, TypeOK, Idle, Working
<1>3. /\ Len(run) \in Nat \ {0} /\ DOMAIN run = 1 .. Len(run) /\ head = run[1] /\ head \in Slice
      /\ run' \in Seq(Slice) /\ Len(run') = Len(run) - 1 /\ DOMAIN run' = 1 .. Len(run')
      /\ \A i \in DOMAIN run' : run'[i] = run[i + 1]
  <2>1. Len(run) \in Nat \ {0} /\ DOMAIN run = 1 .. Len(run)
    BY <1>1, <1>2, EmptySeq, LenProperties
  <2>2. head = run[1] /\ head \in Slice
    BY <1>1, <1>2, HeadTailProperties
  <2>3. run' \in Seq(Slice) /\ Len(run') = Len(run) - 1
        /\ \A i \in 1 .. Len(run') : run'[i] = run[i + 1]
    BY <1>1, <1>2, HeadTailProperties
  <2>4. DOMAIN run' = 1 .. Len(run')
    BY <2>3, LenProperties
  <2> QED
    BY <2>1, <2>2, <2>3, <2>4
<1> HIDE DEF head
<1>4. head \in Queued
  BY <1>3 DEF Queued
<1>5. Queued' = Queued \ {head}
  <2>1. \A i \in DOMAIN run' : run'[i] \in Queued /\ run'[i] # head
    <3>1. \A i \in DOMAIN run' : i + 1 \in DOMAIN run /\ 1 \in DOMAIN run /\ i + 1 # 1
      BY <1>3
    <3> QED
      BY <1>3, <3>1 DEF IInv, Places, Queued
  <2>2. \A i \in DOMAIN run : run[i] # head => i - 1 \in DOMAIN run' /\ run[i] = run'[i - 1]
    <3> SUFFICES ASSUME NEW i \in DOMAIN run, run[i] # head
                 PROVE  i - 1 \in DOMAIN run' /\ run[i] = run'[i - 1]
      OBVIOUS
    <3>1. i # 1 /\ i \in 1 .. Len(run)
      BY <1>3
    <3>2. i - 1 \in 1 .. Len(run') /\ (i - 1) + 1 = i
      BY <1>3, <3>1
    <3> QED
      BY <1>3, <3>2
  <2> QED
    BY <2>1, <2>2 DEF Queued
<1>6. head \notin AtWork \cup Done /\ head # 0
  BY <1>3, <1>4, Constants DEF IInv, Places
<1>7. \A v \in Workers : /\ hand'[v] = IF v = w THEN head ELSE hand[v]
                         /\ wpc'[v] = IF v = w THEN "write" ELSE wpc[v]
  BY <1>1, <1>2
<1>8. AtWork' = AtWork \cup {head}
  BY <1>2, <1>6, <1>7 DEF AtWork
<1>9. UNCHANGED <<mpc, calls, closing, turn, active, awaited, uninit, done, exit, pass, written,
                  failed, deblocked, reported, Undispatched, Outstanding, Done>>
  BY <1>1 DEF caller, picture, Undispatched, Outstanding, Done
<1>10. InPool' = InPool
  BY <1>4, <1>5, <1>8, <1>9 DEF InPool
<1>11. Places'
  <2>1. \A v, u \in Workers : hand'[v] = hand'[u] /\ hand'[v] # 0 => v = u
    BY <1>6, <1>7 DEF IInv, Places, AtWork
  <2>2. \A i, k \in DOMAIN run' : run'[i] = run'[k] => i = k
    <3>1. \A i \in DOMAIN run' : i \in Nat /\ i + 1 \in DOMAIN run
      BY <1>3
    <3>2. \A i, k \in DOMAIN run : run[i] = run[k] => i = k
      BY DEF IInv, Places
    <3> QED
      BY <1>3, <3>1, <3>2
  <2>3. \A j \in done' : j.ret = Result(j.arg)'
    BY <1>9 DEF IInv, Places, Result
  <2>4. Queued' \cap AtWork' = {} /\ Done' \cap (Queued' \cup AtWork') = {}
    BY <1>4, <1>5, <1>6, <1>8, <1>9 DEF IInv, Places
  <2> QED
    BY <1>9, <1>10, <2>1, <2>2, <2>3, <2>4 DEF IInv, Places
<1>12. Counts'
  <2>1. IsFiniteSet(Queued)
    BY PlacesTyped DEF IInv
  <2>2. Cardinality(Queued \ {head}) = Cardinality(Queued) - 1
    BY <1>4, <2>1, FS_RemoveElement
  <2> QED
    BY <1>3, <1>5, <1>9, <1>10, <2>2 DEF IInv, Counts
<1>13. TypeOK'
  <2>1. hand' \in [Workers -> 0 .. Threads]
    BY <1>1, <1>2, <1>3, Constants DEF Slice
  <2>2. wpc' \in [Workers -> Idle \cup Working]
    BY <1>1, <1>2 DEF Working
  <2>3. \A v \in Workers : hand'[v] = 0 <=> wpc'[v] \in Idle
    BY <1>6, <1>7 DEF IInv, TypeOK, Idle
  <2> QED
    BY <1>3, <1>9, <2>1, <2>2, <2>3 DEF IInv, TypeOK, Idle, Working
<1>14. Progress'
  <2>1. \A v \in Workers : At(v)'
    BY <1>4, <1>7, <1>9 DEF IInv, Progress, At
  <2>2. \A s \in (Undispatched \cup Queued)' : s \notin written' \cup failed' /\ pass'[s] = 0
    BY <1>5, <1>9 DEF IInv, Progress
  <2> QED
    BY <1>9, <2>1, <2>2 DEF IInv, Progress
<1>15. Flow'
  <2>1. run # <<>>
    BY <1>1
  <2> QED
    BY <1>9, <2>1 DEF IInv, Flow
<1> QED
  BY <1>11, <1>12, <1>13, <1>14, <1>15 DEF IInv

\* A worker hands its job back.
LEMMA FinishHolds == ASSUME IInv, NEW w \in Workers, Finish(w) PROVE IInv'
<1> DEFINE s == hand[w]
           job == [arg |-> s, ret |-> Result(s)]
<1>1. /\ UNCHANGED <<caller, uninit, run, exit, pass, picture>> /\ done' = done \cup {job}
      /\ hand' = [hand EXCEPT ![w] = 0] /\ wpc[w] = "finish"
      /\ wpc' = [wpc EXCEPT ![w] = "signal"]
  BY DEF Finish, Go
<1>2. hand \in [Workers -> 0 .. Threads] /\ wpc \in [Workers -> Idle \cup Working]
  BY DEF IInv, TypeOK, Idle, Working
<1>3. s \in Slice /\ s \in AtWork /\ s # 0 /\ s \in written \cup failed
  <2>1. wpc[w] \in Working
    BY <1>1 DEF Working
  <2> QED
    BY <1>1, <2>1, PlacesTyped DEF IInv, Progress, At
<1>4. s \notin Done
  BY <1>3 DEF IInv, Places
<1>5. job.arg = s /\ job.ret = Result(s) /\ job \in Job
  BY <1>3 DEF Job, Result
<1> HIDE DEF s, job
<1>6. \A v \in Workers : /\ hand'[v] = IF v = w THEN 0 ELSE hand[v]
                         /\ wpc'[v] = IF v = w THEN "signal" ELSE wpc[v]
  BY <1>1, <1>2
<1>7. AtWork' = AtWork \ {s}
  <2>1. \A v \in Workers : v # w => hand[v] # s
    BY <1>3 DEF s, IInv, Places
  <2> QED
    BY <1>6, <2>1 DEF AtWork, s
<1>8. Done' = Done \cup {s}
  BY <1>1, <1>5 DEF Done
<1>9. UNCHANGED <<mpc, calls, closing, turn, active, awaited, uninit, run, exit, pass, written,
                  failed, deblocked, reported, Undispatched, Outstanding, Queued>>
  BY <1>1 DEF caller, picture, Undispatched, Outstanding, Queued
<1>10. InPool' = InPool
  BY <1>3, <1>7, <1>8, <1>9 DEF InPool
<1>11. Places'
  <2>1. \A v, u \in Workers : hand'[v] = hand'[u] /\ hand'[v] # 0 => v = u
    BY <1>6 DEF IInv, Places
  <2>2. \A j \in done' : j.ret = Result(j.arg)'
    <3>1. \A x : Result(x)' = Result(x)
      BY <1>9 DEF Result
    <3>2. \A j \in done' : j.ret = Result(j.arg)
      BY <1>1, <1>5 DEF IInv, Places
    <3> QED
      BY <1>9, <3>2 DEF Result
  <2>3. Queued' \cap AtWork' = {} /\ Done' \cap (Queued' \cup AtWork') = {}
    BY <1>3, <1>7, <1>8, <1>9 DEF IInv, Places
  <2> QED
    BY <1>9, <1>10, <2>1, <2>2, <2>3 DEF IInv, Places
<1>12. Counts'
  <2>1. job \notin done
    BY <1>4, <1>5 DEF Done
  <2>2. IsFiniteSet(done) /\ IsFiniteSet(Done)
    BY PlacesTyped DEF IInv, Counts
  <2>3. IsFiniteSet(done \cup {job}) /\ Cardinality(done \cup {job}) = Cardinality(done) + 1
    BY <2>1, <2>2, FS_AddElement
  <2>4. Cardinality(Done \cup {s}) = Cardinality(Done) + 1
    BY <1>4, <2>2, FS_AddElement
  <2> QED
    BY <1>1, <1>8, <1>9, <1>10, <2>3, <2>4 DEF IInv, Counts
<1>13. TypeOK'
  <2>1. hand' \in [Workers -> 0 .. Threads]
    BY <1>1, <1>2, Constants
  <2>2. wpc' \in [Workers -> Idle \cup Working]
    BY <1>1, <1>2 DEF Idle
  <2>3. \A v \in Workers : hand'[v] = 0 <=> wpc'[v] \in Idle
    BY <1>6 DEF IInv, TypeOK, Idle
  <2>4. done' \subseteq Job
    BY <1>1, <1>5 DEF IInv, TypeOK
  <2> QED
    BY <1>9, <2>1, <2>2, <2>3, <2>4 DEF IInv, TypeOK, Idle, Working
<1>14. Progress'
  <2>1. \A v \in Workers : At(v)'
    BY <1>6, <1>9 DEF IInv, Progress, At
  <2> QED
    BY <1>9, <2>1 DEF IInv, Progress
<1>15. Flow'
  BY <1>9 DEF IInv, Flow
<1> QED
  BY <1>11, <1>12, <1>13, <1>14, <1>15 DEF IInv

\* The caller begins to wait for a slice.
LEMMA CollectNextHolds == ASSUME IInv, CollectNext PROVE IInv'
<1>1. PICK s \in active : awaited' = s /\ active' = active \ {s}
  BY DEF CollectNext
<1>2. /\ mpc = "collect" /\ mpc' = "search"
      /\ UNCHANGED <<calls, closing, turn, wpc, uninit, run, done, exit, hand, pass, written,
                     failed, deblocked, reported>>
  BY DEF CollectNext, lists, picture
<1>3. s \in Slice
  BY DEF IInv, TypeOK
<1>4. Outstanding' = Outstanding
  BY <1>1, <1>2 DEF Outstanding
<1>5. Undispatched' = Undispatched /\ Queued' = Queued
  BY <1>2 DEF Undispatched, Queued
<1>6. Places' /\ Counts'
  BY <1>2, <1>4, <1>5, StillPlaced DEF IInv
<1>7. Progress'
  BY <1>2, <1>5, StillProgress DEF IInv
<1>8. TypeOK'
  <2>1. awaited' \in 0 .. Threads /\ active' \subseteq Slice
    BY <1>1, <1>3, Constants DEF IInv, TypeOK, Slice
  <2> QED
    BY <1>2, <2>1 DEF IInv, TypeOK
<1>9. Flow'
  BY <1>1, <1>2, <1>3, <1>4 DEF IInv, Flow
<1> QED
  BY <1>6, <1>7, <1>8, <1>9 DEF IInv

\* The caller finds the job of the slice it waits for.
LEMMA RecycleHolds == ASSUME IInv, Recycle PROVE IInv'
<1>1. PICK j \in Found :
        /\ done' = done \ {j} /\ uninit' = uninit + 1 /\ active' = active
        /\ mpc' = CASE j.ret = "ok" -> "collect"
                    [] j.ret = "error" /\ closing -> "delete"
                    [] OTHER -> "out"
        /\ reported' = IF j.ret = "error" /\ ~closing THEN reported \cup {j.arg} ELSE reported
  BY DEF Recycle, StillActive
<1>2. /\ mpc = "search" /\ uninit < Threads
      /\ UNCHANGED <<calls, closing, turn, awaited, wpc, run, exit, hand, pass, written,
                     failed, deblocked>>
  BY DEF Recycle
<1>3. j \in done /\ j.arg = awaited /\ awaited \in Slice /\ awaited \notin active
      /\ j.ret = Result(awaited)
  BY <1>1, <1>2 DEF Found, IInv, Flow, Places
<1>4. mpc' \in {"collect", "delete", "out"} /\ (closing => mpc' # "out")
  BY <1>1, <1>3 DEF Result
<1>5. Undispatched' = Undispatched /\ Undispatched = {} /\ Queued' = Queued /\ AtWork' = AtWork
  BY <1>2, <1>4 DEF Undispatched, Queued, AtWork
<1>6. Outstanding' = Outstanding \ {awaited} /\ awaited \in Outstanding
  BY <1>1, <1>2, <1>3, <1>4 DEF Outstanding
<1>7. Done' = Done \ {awaited} /\ awaited \in Done
  <2>1. \A k \in done : k.arg = awaited => k = j
    <3>1. \A k \in done : k \in Job /\ j \in Job
      BY <1>3 DEF IInv, TypeOK
    <3>2. \A k \in done : k.ret = Result(k.arg)
      BY DEF IInv, Places
    <3> QED
      BY <1>3, <3>1, <3>2 DEF Job
  <2> QED
    BY <1>1, <1>3, <2>1 DEF Done
<1>8. InPool' = InPool \ {awaited} /\ awaited \in InPool
  BY <1>5, <1>7 DEF InPool, IInv, Places
<1>9. Places'
  <2>1. \A k \in done' : k.ret = Result(k.arg)'
    <3>1. \A k \in done' : k.ret = Result(k.arg)
      BY <1>1 DEF IInv, Places
    <3> QED
      BY <1>2, <3>1 DEF Result
  <2> QED
    BY <1>2, <1>5, <1>6, <1>7, <1>8, <2>1 DEF IInv, Places
<1>10. Counts'
  <2>1. IsFiniteSet(done) /\ IsFiniteSet(Done) /\ IsFiniteSet(InPool)
    BY PlacesTyped DEF IInv, Counts
  <2>2. IsFiniteSet(done \ {j}) /\ Cardinality(done \ {j}) = Cardinality(done) - 1
    BY <1>3, <2>1, FS_RemoveElement
  <2>3. Cardinality(Done \ {awaited}) = Cardinality(Done) - 1
    BY <1>7, <2>1, FS_RemoveElement
  <2>4. Cardinality(InPool \ {awaited}) = Cardinality(InPool) - 1
    BY <1>8, <2>1, FS_RemoveElement
  <2>5. Cardinality(InPool) \in Nat
    BY <2>1, FS_CardinalityType
  <2>6. uninit + 1 = Threads - (Cardinality(InPool) - 1)
    BY <2>5, Constants DEF IInv, Counts
  <2> QED
    BY <1>1, <1>2, <1>5, <1>7, <1>8, <2>2, <2>3, <2>4, <2>6 DEF IInv, Counts
<1>11. TypeOK'
  <2>1. uninit' \in 0 .. Threads
    BY <1>1, <1>2, Constants DEF IInv, TypeOK
  <2>2. reported' \subseteq Slice
    BY <1>1, <1>3 DEF IInv, TypeOK
  <2> QED
    BY <1>1, <1>2, <1>4, <2>1, <2>2 DEF IInv, TypeOK
<1>12. Progress'
  BY <1>2, <1>5, StillProgress DEF IInv
<1>13. Flow'
  <2>1. ~closing' => reported' = (failed \ Outstanding)'
    <3>1. CASE awaited \in failed
      BY <1>1, <1>2, <1>3, <1>6, <3>1 DEF IInv, Flow, Result
    <3>2. CASE awaited \notin failed
      BY <1>1, <1>2, <1>3, <1>6, <3>2 DEF IInv, Flow, Result
    <3> QED
      BY <3>1, <3>2
  <2> QED
    BY <1>2, <1>4, <2>1 DEF IInv, Flow
<1> QED
  BY <1>9, <1>10, <1>11, <1>12, <1>13 DEF IInv

\* Before a picture is set up, no job of the last one is left.
LEMMA NothingLeft ==
    ASSUME IInv, Outstanding = {}
    PROVE  Undispatched = {} /\ Queued = {} /\ AtWork = {} /\ Done = {} /\ InPool = {}
  BY DEF IInv, Places, InPool

LEMMA SetUpHolds == ASSUME IInv, SetUp PROVE IInv'
<1>1. /\ mpc = "setup" /\ mpc' = "dispatch" /\ turn' = 1 /\ active' = Slice
      /\ pass' = [s \in Slice |-> 0]
      /\ written' = {} /\ failed' = {} /\ deblocked' = {} /\ reported' = {}
      /\ UNCHANGED <<calls, closing, awaited, wpc, uninit, run, done, exit, hand>>
  BY DEF SetUp, FirstPass, lists
<1>2. Outstanding = {} /\ ~closing
  BY <1>1 DEF IInv, Flow, Outstanding
<1>3. Queued = {} /\ AtWork = {} /\ Done = {} /\ InPool = {}
  BY <1>2, NothingLeft
<1>4. Queued' = {} /\ AtWork' = {} /\ Done' = {}
  BY <1>1, <1>3 DEF Queued, AtWork, Done
<1>5. InPool' = {}
  BY <1>4 DEF InPool
<1>6. Outstanding' = Slice
  BY <1>1 DEF Outstanding
<1>7. Undispatched' = Slice
  BY <1>1, Constants DEF Undispatched, Slice
<1>8. Places'
  <2>1. done' = {}
    BY <1>4 DEF Done
  <2> QED
    BY <1>1, <1>4, <1>5, <1>6, <1>7, <2>1 DEF IInv, Places
<1>9. Counts'
  BY <1>1, <1>3, <1>4, <1>5 DEF IInv, Counts
<1>10. TypeOK'
  <2>1. pass' \in [Slice -> 0 .. 2]
    BY <1>1
  <2>2. turn' \in 1 .. Threads + 1
    BY <1>1, Constants
  <2> QED
    BY <1>1, <2>1, <2>2 DEF IInv, TypeOK
<1>11. Progress'
  <2>1. \A w \in Workers : wpc'[w] \notin Working
    BY <1>1, <1>3, PlacesTyped DEF IInv
  <2>2. \A w \in Workers : At(w)'
    BY <2>1 DEF At, Working
  <2> QED
    BY <1>1, <1>4, <1>7, <2>2 DEF Progress
<1>12. Flow'
  <2>1. turn' \in Slice
    BY <1>1, Constants DEF Slice
  <2> QED
    BY <1>1, <1>2, <2>1 DEF IInv, Flow
<1> QED
  BY <1>8, <1>9, <1>10, <1>11, <1>12 DEF IInv

\* There are as many job structures as slices: what is not dispatched leaves one.
LEMMA RoomInPool ==
    ASSUME IInv
    PROVE  /\ Cardinality(InPool) \in 0 .. Threads
           /\ \A s \in Slice \ InPool : uninit > 0 /\ Len(run) < Threads
           /\ \A s \in InPool \ Done : Cardinality(done) < Threads
           /\ InPool # {} => uninit < Threads
<1>1. /\ InPool \subseteq Slice /\ Queued \subseteq InPool /\ Done \subseteq InPool
      /\ IsFiniteSet(InPool) /\ IsFiniteSet(Slice) /\ Cardinality(Slice) = Threads
      /\ Threads \in Nat
  BY PlacesTyped, Constants DEF IInv, InPool
<1>2. Cardinality(InPool) \in Nat /\ Cardinality(InPool) <= Threads
  BY <1>1, FS_Subset, FS_CardinalityType
<1>3. uninit = Threads - Cardinality(InPool) /\ Len(run) = Cardinality(Queued)
      /\ Cardinality(done) = Cardinality(Done)
  BY DEF IInv, Counts
<1>4. Cardinality(Queued) <= Cardinality(InPool) /\ Cardinality(Queued) \in Nat
  BY <1>1, FS_Subset, FS_CardinalityType
<1>5. ASSUME NEW s \in Slice \ InPool PROVE uninit > 0 /\ Len(run) < Threads
  <2>1. Cardinality(InPool) # Threads
    BY <1>1, FS_Subset
  <2> QED
    BY <1>1, <1>2, <1>3, <1>4, <2>1
<1>6. ASSUME NEW s \in InPool \ Done PROVE Cardinality(done) < Threads
  <2>1. Cardinality(Done) # Cardinality(InPool) /\ Cardinality(Done) <= Cardinality(InPool)
        /\ Cardinality(Done) \in Nat
    BY <1>1, FS_Subset, FS_CardinalityType
  <2> QED
    BY <1>1, <1>2, <1>3, <2>1
<1>7. ASSUME InPool # {} PROVE uninit < Threads
  <2>1. Cardinality(InPool) # 0
    BY <1>1, <1>7, FS_EmptySet
  <2> QED
    BY <1>1, <1>2, <1>3, <2>1
<1> QED
  BY <1>1, <1>2, <1>5, <1>6, <1>7

\* The caller hands the next slice to the pool.
LEMMA DispatchHolds == ASSUME IInv, Dispatch PROVE IInv'
<1>1. /\ mpc = "dispatch" /\ mpc' = "signal" /\ uninit > 0
      /\ uninit' = uninit - 1 /\ run' = Append(run, turn)
      /\ UNCHANGED <<calls, closing, turn, active, awaited, wpc, done, exit, hand, pass,
                     written, failed, deblocked, reported>>
  BY DEF Dispatch, IdleLeft, picture
<1>2. turn \in Slice /\ run \in Seq(Slice)
  BY <1>1 DEF IInv, Flow, TypeOK
<1>3. turn \in Undispatched /\ Undispatched' = Undispatched \ {turn}
  BY <1>1, <1>2, Constants DEF Undispatched, Slice
<1>4. turn \notin InPool /\ turn \notin Queued
  BY <1>3 DEF IInv, Places, InPool
<1>5. /\ Len(run) \in Nat /\ DOMAIN run = 1 .. Len(run) /\ run' \in Seq(Slice)
      /\ Len(run') = Len(run) + 1 /\ DOMAIN run' = 1 .. Len(run) + 1
      /\ \A i \in 1 .. Len(run) + 1 : run'[i] = IF i = Len(run) + 1 THEN turn ELSE run[i]
  <2>1. Len(run) \in Nat /\ DOMAIN run = 1 .. Len(run)
    BY <1>2, LenProperties
  <2>2. run' \in Seq(Slice) /\ Len(run') = Len(run) + 1
        /\ \A i \in 1 .. Len(run) + 1 : run'[i] = IF i = Len(run) + 1 THEN turn ELSE run[i]
    BY <1>1, <1>2, <2>1, AppendProperties
  <2>3. DOMAIN run' = 1 .. Len(run')
    BY <2>2, LenProperties
  <2> QED
    BY <2>1, <2>2, <2>3
<1>6. Queued' = Queued \cup {turn}
  <2>1. \A i \in DOMAIN run' : run'[i] = turn \/ (i \in DOMAIN run /\ run'[i] = run[i])
    BY <1>5
  <2>2. \A i \in DOMAIN run : i \in DOMAIN run' /\ run'[i] = run[i]
    BY <1>5
  <2>3. \E i \in DOMAIN run' : run'[i] = turn
    BY <1>5
  <2> QED
    BY <2>1, <2>2, <2>3 DEF Queued
<1>7. Done' = Done /\ AtWork' = AtWork /\ Outstanding' = Outstanding
  BY <1>1 DEF Done, AtWork, Outstanding
<1>8. InPool' = InPool \cup {turn}
  BY <1>6, <1>7 DEF InPool
<1>9. Places'
  <2>1. \A j \in done' : j.ret = Result(j.arg)'
    BY <1>1 DEF IInv, Places, Result
  <2>2. \A i, k \in DOMAIN run' : run'[i] = run'[k] => i = k
    <3>1. \A i \in DOMAIN run : run[i] # turn
      BY <1>4 DEF Queued
    <3>2. \A i, k \in DOMAIN run : run[i] = run[k] => i = k
      BY DEF IInv, Places
    <3> DEFINE last == Len(run) + 1
    <3>3. ASSUME NEW i \in DOMAIN run'
          PROVE  \/ i = last /\ run'[i] = turn
                 \/ i \in DOMAIN run /\ run'[i] = run[i]
      BY <1>5
    <3> HIDE DEF last
    <3> QED
      BY <3>1, <3>2, <3>3
  <2>3. Queued' \cap AtWork' = {} /\ Done' \cap (Queued' \cup AtWork') = {}
    BY <1>4, <1>6, <1>7 DEF IInv, Places, InPool
  <2>4. Undispatched' \cap InPool' = {} /\ Outstanding' = Undispatched' \cup InPool'
    BY <1>3, <1>7, <1>8 DEF IInv, Places
  <2> QED
    BY <1>1, <2>1, <2>2, <2>3, <2>4 DEF IInv, Places
<1>10. Counts'
  <2>1. IsFiniteSet(Queued) /\ IsFiniteSet(InPool)
    BY PlacesTyped DEF IInv
  <2>2. Cardinality(Queued \cup {turn}) = Cardinality(Queued) + 1
    BY <1>4, <2>1, FS_AddElement
  <2>3. Cardinality(InPool \cup {turn}) = Cardinality(InPool) + 1
    BY <1>4, <2>1, FS_AddElement
  <2>4. Cardinality(InPool) \in Nat
    BY <2>1, FS_CardinalityType
  <2>5. uninit' = Threads - (Cardinality(InPool) + 1)
    BY <1>1, <2>4, Constants DEF IInv, Counts
  <2> QED
    BY <1>1, <1>5, <1>6, <1>7, <1>8, <2>2, <2>3, <2>5 DEF IInv, Counts
<1>11. TypeOK'
  <2>1. uninit' \in 0 .. Threads
    BY <1>1, Constants DEF IInv, TypeOK
  <2> QED
    BY <1>1, <1>5, <2>1 DEF IInv, TypeOK
<1>12. Progress'
  <2>1. \A w \in Workers : wpc'[w] = wpc[w]
    BY <1>1
  <2>2. (Undispatched \cup Queued)' \subseteq Undispatched \cup Queued
    BY <1>3, <1>6
  <2> QED
    BY <1>1, <2>1, <2>2, StillProgress DEF IInv
<1>13. Flow'
  BY <1>1, <1>2, <1>7 DEF IInv, Flow
<1> QED
  BY <1>9, <1>10, <1>11, <1>12, <1>13 DEF IInv

\* The broadcast that follows.
LEMMA SignalRunHolds == ASSUME IInv, SignalRun PROVE IInv'
<1>1. /\ mpc = "signal" /\ mpc' = (IF turn = Threads THEN "gather" ELSE "dispatch")
      /\ turn' = turn + 1 /\ wpc' = Woken
      /\ UNCHANGED <<calls, closing, active, awaited, uninit, run, done, exit, hand, pass,
                     written, failed, deblocked, reported>>
  BY DEF SignalRun, lists, picture
<1>2. turn \in 1 .. Threads
  BY <1>1 DEF IInv, Flow, Slice
<1>3. /\ wpc' \in [Workers -> Idle \cup Working]
      /\ \A w \in Workers : hand'[w] = 0 <=> wpc'[w] \in Idle
      /\ \A w \in Workers : wpc'[w] \in Working => wpc'[w] = wpc[w]
  BY <1>1, WokenTyped DEF IInv
<1>4. Undispatched' = Undispatched
  <2>1. \A s \in Slice : s >= turn + 1 <=> s > turn
    BY <1>2, Constants DEF Slice
  <2>2. turn = Threads => \A s \in Slice : ~(s > turn)
    BY Constants DEF Slice
  <2> QED
    BY <1>1, <2>1, <2>2 DEF Undispatched
<1>5. Outstanding' = Outstanding /\ Queued' = Queued
  BY <1>1 DEF Outstanding, Queued
<1>6. Places' /\ Counts'
  BY <1>1, <1>4, <1>5, StillPlaced DEF IInv
<1>7. Progress'
  BY <1>1, <1>3, <1>4, <1>5, StillProgress DEF IInv
<1>8. TypeOK'
  <2>1. turn' \in 1 .. Threads + 1
    BY <1>1, <1>2, Constants
  <2> QED
    BY <1>1, <1>3, <2>1 DEF IInv, TypeOK, Idle, Working
<1>9. Flow'
  <2>1. mpc' = "dispatch" => turn' \in Slice
    BY <1>1, <1>2, Constants DEF Slice
  <2> QED
    BY <1>1, <1>5, <2>1 DEF IInv, Flow
<1> QED
  BY <1>6, <1>7, <1>8, <1>9 DEF IInv

LEMMA NextHolds == IInv /\ [Next]_vars => IInv'
<1> SUFFICES ASSUME IInv, [Next]_vars PROVE IInv'
  OBVIOUS
<1>1. CASE UNCHANGED vars
  <2>1. UNCHANGED <<mpc, wpc, calls, closing, turn, active, awaited, uninit, run, done, exit,
                    hand, pass, written, failed, deblocked, reported>>
    BY <1>1 DEF vars, caller, lists, picture
  <2>2. Undispatched' = Undispatched /\ Outstanding' = Outstanding /\ Queued' = Queued
    BY <2>1 DEF Undispatched, Outstanding, Queued
  <2>3. Places' /\ Counts'
    BY <2>1, <2>2, StillPlaced DEF IInv
  <2>4. Progress'
    BY <2>1, <2>2, StillProgress DEF IInv
  <2>5. TypeOK' /\ Flow'
    BY <2>1, <2>2 DEF IInv, TypeOK, Flow
  <2> QED
    BY <2>3, <2>4, <2>5 DEF IInv
<1>2. CASE CallerMoves
  BY <1>2, CallerMovesHolds
<1>3. CASE QuietSteps
  BY <1>3, QuietStepsHold
<1>4. CASE CollectNext
  BY <1>4, CollectNextHolds
<1>5. CASE Recycle
  BY <1>5, RecycleHolds
<1>6. CASE SetUp
  BY <1>6, SetUpHolds
<1>7. CASE Dispatch
  BY <1>7, DispatchHolds
<1>8. CASE SignalRun
  BY <1>8, SignalRunHolds
<1>9. ASSUME NEW w \in Workers, Take(w) PROVE IInv'
  BY <1>9, TakeHolds
<1>10. ASSUME NEW w \in Workers, Finish(w) PROVE IInv'
  BY <1>10, FinishHolds
<1>11. ASSUME NEW w \in Workers,
              Write(w) \/ Tell1(w) \/ Deblock(w) \/ Tell2(w) \/ Await(w) \/ Border(w) \/ GiveUp(w)
       PROVE  IInv'
  BY <1>11, JobActionsHold
<1> QED
  BY <1>1, <1>2, <1>3, <1>4, <1>5, <1>6, <1>7, <1>8, <1>9, <1>10, <1>11
  DEF Next, Continue, Work, CallerMoves, QuietSteps

\* IInv, the inductive invariant, holds in every state the program can be in.
THEOREM Invariance == Spec => []IInv
<1>1. Init => IInv
  BY InitHolds
<1>2. IInv /\ [Next]_vars => IInv'
  BY NextHolds
<1> QED
  BY <1>1, <1>2, PTL DEF Spec

-----------------------------------------------------------------------------
\* The variables keep their types, and a worker has a slice exactly while it
\* executes a job.
THEOREM TypeCorrect == Spec => []TypeOK
<1>1. IInv => TypeOK
  BY DEF IInv
<1> QED
  BY <1>1, Invariance, PTL

\* x264_threadpool_run, _wait and _thread never meet an empty list of job
\* structures or a full list, so x264_sync_frame_list_push never waits.
THEOREM ListsNeverFull == Spec => []QueuesNeverFull
<1>1. ASSUME IInv PROVE QueuesNeverFull
  <2>1. mpc = "dispatch" => uninit > 0 /\ Len(run) < Threads
    <3> SUFFICES ASSUME mpc = "dispatch" PROVE uninit > 0 /\ Len(run) < Threads
      OBVIOUS
    <3>1. turn \in Slice
      BY <1>1 DEF IInv, Flow
    <3>2. turn \in Undispatched
      BY <3>1, Constants DEF Undispatched, Slice
    <3>3. turn \in Slice \ InPool
      BY <1>1, <3>1, <3>2 DEF IInv, Places
    <3> QED
      BY <1>1, <3>3, RoomInPool
  <2>2. mpc = "search" /\ Found # {} => uninit < Threads
    <3>1. Found # {} => InPool # {}
      BY DEF Found, InPool, Done
    <3> QED
      BY <1>1, <3>1, RoomInPool
  <2>3. ASSUME NEW w \in Workers, wpc[w] = "finish" PROVE Cardinality(done) < Threads
    <3>1. hand[w] \in AtWork
      BY <1>1, <2>3, PlacesTyped DEF IInv, Working
    <3>2. hand[w] \in InPool \ Done
      BY <1>1, <3>1 DEF IInv, Places, InPool
    <3> QED
      BY <1>1, <3>2, RoomInPool
  <2> QED
    BY <2>1, <2>2, <2>3 DEF QueuesNeverFull
<1> QED
  BY <1>1, Invariance, PTL

\* x264_slice_write filters the border to the slice above when both sides of it
\* are deblocked.
THEOREM BordersAreDeblocked == Spec => []BoundaryIsDeblocked
<1>1. ASSUME IInv PROVE BoundaryIsDeblocked
  <2> SUFFICES ASSUME NEW w \in Workers, wpc[w] = "border"
               PROVE  {hand[w] - 1, hand[w]} \subseteq deblocked \cup failed
    BY DEF BoundaryIsDeblocked
  <2>1. /\ hand[w] \in deblocked /\ hand[w] > 1 /\ pass[hand[w] - 1] = 2 /\ hand[w] \in Slice
    BY <1>1, PlacesTyped DEF IInv, Progress, At, Working
  <2>2. hand[w] - 1 \in Slice
    BY <2>1, Constants DEF Slice
  <2> QED
    BY <1>1, <2>1, <2>2 DEF IInv, Progress
<1> QED
  BY <1>1, Invariance, PTL

\* x264_threaded_slices_write puts a picture together when all slices are there,
\* and x264_encoder_close frees no pool with a job in it.
THEOREM AllSlicesAwaited == Spec => []WaitsForEverySlice
<1>1. IInv => WaitsForEverySlice
  BY DEF IInv, Flow, TypeOK, WaitsForEverySlice
<1> QED
  BY <1>1, Invariance, PTL

\* x264_encoder_encode sets up no picture before each failed slice of the last
\* one has been reported.
THEOREM NoFailureIsLost == Spec => []FailuresAreReported
<1>1. ASSUME IInv PROVE FailuresAreReported
  <2> SUFFICES ASSUME mpc = "setup" PROVE reported = failed
    BY DEF FailuresAreReported
  <2>1. Outstanding = {} /\ ~closing
    BY <1>1 DEF IInv, Flow, Outstanding
  <2> QED
    BY <1>1, <2>1 DEF IInv, Flow
<1> QED
  BY <1>1, Invariance, PTL

-----------------------------------------------------------------------------
(* Each slice of a picture is encoded once: the steps as steps of ParallelFor. *)

\* What ParallelFor sees changes with these sets only.
Seen == <<Calling, Undispatched \cup Queued, AtWork, (written \cup failed) \ AtWork>>

LEMMA StutterMaps == UNCHANGED Seen => UNCHANGED Picture!vars
  BY DEF Seen, Picture!vars, Zero

LEMMA ZeroOf ==
    ASSUME NEW S \in SUBSET Nat, NEW s \in S
    PROVE  /\ s - 1 \in Zero(S) /\ Zero(S \ {s}) = Zero(S) \ {s - 1}
           /\ \A T : Zero(T \cup {s}) = Zero(T) \cup {s - 1}
<1>1. s - 1 \in Zero(S)
  BY DEF Zero
<1>2. \A t \in S : t - 1 = s - 1 <=> t = s
  OBVIOUS
<1>3. Zero(S \ {s}) = Zero(S) \ {s - 1}
  BY <1>2 DEF Zero
<1>4. \A T : Zero(T \cup {s}) = Zero(T) \cup {s - 1}
  BY DEF Zero
<1> QED
  BY <1>1, <1>3, <1>4

LEMMA InitMaps == Init => Picture!Init
<1> SUFFICES ASSUME Init PROVE Picture!Init
  OBVIOUS
<1>1. ~Calling
  BY DEF Init, Calling
<1>2. Undispatched \cup Queued = {} /\ (written \cup failed) \ AtWork = {}
  BY DEF Init, Undispatched, Queued
<1>3. AtWork = {}
  BY DEF Init, AtWork
<1> QED
  BY <1>1, <1>2, <1>3 DEF Picture!Init, Zero

LEMMA SetUpMaps == ASSUME IInv, IInv', SetUp PROVE Picture!Call
<1>1. /\ mpc = "setup" /\ mpc' = "dispatch" /\ turn' = 1 /\ active' = Slice
      /\ written' = {} /\ failed' = {} /\ run' = run /\ hand' = hand
  BY DEF SetUp, lists
<1>2. active = {}
  BY <1>1 DEF IInv, Flow
<1>3. Outstanding = {}
  BY <1>1, <1>2 DEF Outstanding
<1>4. AtWork = {} /\ Queued = {}
  BY <1>3, NothingLeft
<1>5. AtWork' = {} /\ Queued' = {}
  BY <1>1, <1>4 DEF AtWork, Queued
<1>6. Undispatched' = Slice
  BY <1>1, Constants DEF Undispatched, Slice
<1>7. ~Calling /\ Calling'
  BY <1>1, <1>2, Constants DEF Calling, Slice
<1>8. Zero(Undispatched' \cup Queued') = 0 .. Threads - 1
  <2>1. \A n \in 0 .. Threads - 1 : n + 1 \in Slice /\ n = (n + 1) - 1
    BY Constants DEF Slice
  <2>2. \A s \in Slice : s - 1 \in 0 .. Threads - 1
    BY Constants DEF Slice
  <2> QED
    BY <1>5, <1>6, <2>1, <2>2 DEF Zero
<1>9. Threads - 1 \in 0 .. Threads - 1
  BY Constants
<1> QED
  BY <1>1, <1>4, <1>5, <1>7, <1>8, <1>9 DEF Picture!Call, Zero

LEMMA TakeMaps == ASSUME IInv, IInv', NEW w \in Workers, Take(w) PROVE Picture!Begin
<1> DEFINE head == Head(run)
<1>1. /\ UNCHANGED <<mpc, turn, active, written, failed>> /\ run # <<>> /\ run' = Tail(run)
      /\ hand' = [hand EXCEPT ![w] = head] /\ hand \in [Workers -> 0 .. Threads]
      /\ run \in Seq(Slice) /\ hand[w] = 0
  BY DEF Take, Go, caller, picture, IInv, TypeOK
<1>2. head \in Slice /\ head = run[1] /\ 1 \in DOMAIN run
  <2>1. Len(run) \in Nat \ {0} /\ DOMAIN run = 1 .. Len(run)
    BY <1>1, EmptySeq, LenProperties
  <2> QED
    BY <1>1, <2>1, HeadTailProperties
<1> HIDE DEF head
<1>3. head \in Queued /\ head # 0
  BY <1>2, Constants DEF Queued
<1>4. AtWork' = AtWork \cup {head}
  BY <1>1, <1>3 DEF AtWork
<1>5. Queued' = Queued \ {head}
  <2>1. InPool' = InPool /\ Done' = Done
    <3>1. Done' = Done /\ Undispatched' = Undispatched /\ Outstanding' = Outstanding
      BY <1>1 DEF Take, caller, Done, Undispatched, Outstanding
    <3>2. InPool = Outstanding \ Undispatched
      BY DEF IInv, Places
    <3>3. InPool' = (Outstanding \ Undispatched)'
      BY DEF IInv, Places
    <3> QED
      BY <3>1, <3>2, <3>3
  <2> QED
    BY <1>3, <1>4, <2>1 DEF IInv, Places, InPool
<1>6. Undispatched' = Undispatched /\ Calling /\ Calling' = Calling
  <2>1. Undispatched' = Undispatched /\ Calling' = Calling
    BY <1>1 DEF Undispatched, Calling
  <2>2. Outstanding # {}
    BY <1>3 DEF IInv, Places, InPool
  <2>3. Calling
    BY <2>2 DEF Outstanding, Calling
  <2> QED
    BY <2>1, <2>3
<1>7. /\ Undispatched \cup Queued \subseteq Nat /\ head \in Undispatched \cup Queued
      /\ (Undispatched \cup Queued)' = (Undispatched \cup Queued) \ {head}
  <2>1. head \notin Undispatched
    BY <1>3 DEF IInv, Places, InPool
  <2>2. Undispatched \cup Queued \subseteq Nat
    BY PlacesTyped, Constants DEF IInv
  <2> QED
    BY <1>3, <1>5, <1>6, <2>1, <2>2
<1>8. (written' \cup failed') \ AtWork' = (written \cup failed) \ AtWork
  <2>1. head \notin written \cup failed
    BY <1>3 DEF IInv, Progress
  <2> QED
    BY <1>1, <1>4, <2>1
<1>9. /\ head - 1 \in Zero(Undispatched \cup Queued)
      /\ Zero((Undispatched \cup Queued) \ {head}) = Zero(Undispatched \cup Queued) \ {head - 1}
      /\ Zero(AtWork \cup {head}) = Zero(AtWork) \cup {head - 1}
  BY <1>7, ZeroOf
<1>10. /\ Zero((Undispatched \cup Queued)') = Zero(Undispatched \cup Queued) \ {head - 1}
       /\ Zero(AtWork') = Zero(AtWork) \cup {head - 1}
       /\ Zero((written' \cup failed') \ AtWork') = Zero((written \cup failed) \ AtWork)
  BY <1>4, <1>7, <1>8, <1>9
<1> QED
  BY <1>6, <1>9, <1>10 DEF Picture!Begin, Zero

LEMMA FinishMaps == ASSUME IInv, IInv', NEW w \in Workers, Finish(w) PROVE Picture!End
<1> DEFINE s == hand[w]
<1>1. /\ UNCHANGED <<mpc, turn, active, run, written, failed>> /\ wpc[w] = "finish"
      /\ hand' = [hand EXCEPT ![w] = 0] /\ hand \in [Workers -> 0 .. Threads]
  BY DEF Finish, Go, caller, picture, IInv, TypeOK
<1>2. s \in AtWork /\ s # 0 /\ s \in written \cup failed
  <2>1. wpc[w] \in Working
    BY <1>1 DEF Working
  <2> QED
    BY <1>1, <2>1, PlacesTyped DEF IInv, Progress, At
<1>3. \A v \in Workers : v # w => hand[v] # s
  BY <1>2 DEF IInv, Places
<1>4. AtWork' = AtWork \ {s}
  BY <1>1, <1>2, <1>3 DEF AtWork
<1> HIDE DEF s
<1>5. /\ Undispatched' = Undispatched /\ Queued' = Queued /\ Calling /\ Calling' = Calling
  <2>1. Undispatched' = Undispatched /\ Queued' = Queued /\ Calling' = Calling
    BY <1>1 DEF Undispatched, Queued, Calling
  <2>2. Outstanding # {}
    BY <1>2 DEF IInv, Places, InPool
  <2>3. Calling
    BY <2>2 DEF Outstanding, Calling
  <2> QED
    BY <2>1, <2>3
<1>6. AtWork \subseteq Nat
  BY PlacesTyped, Constants DEF IInv
<1>7. (written' \cup failed') \ AtWork' = ((written \cup failed) \ AtWork) \cup {s}
  BY <1>1, <1>2, <1>4
<1>8. /\ s - 1 \in Zero(AtWork) /\ Zero(AtWork \ {s}) = Zero(AtWork) \ {s - 1}
      /\ \A T : Zero(T \cup {s}) = Zero(T) \cup {s - 1}
  BY <1>2, <1>6, ZeroOf
<1>9. /\ Zero(AtWork') = Zero(AtWork) \ {s - 1}
      /\ Zero((written' \cup failed') \ AtWork') = Zero((written \cup failed) \ AtWork) \cup {s - 1}
  BY <1>4, <1>7, <1>8
<1> QED
  BY <1>5, <1>8, <1>9 DEF Picture!End, Zero

LEMMA RecycleMaps == ASSUME IInv, IInv', Recycle PROVE [Picture!Next]_(Picture!vars)
<1>1. /\ mpc = "search" /\ mpc' \in {"collect", "delete", "out"} /\ active' = active
      /\ UNCHANGED <<turn, run, hand, written, failed>>
  <2>1. \A j \in done : j.ret \in {"ok", "error"}
    BY DEF IInv, TypeOK, Job
  <2> QED
    BY <2>1 DEF Recycle, StillActive, Found
<1>2. awaited \in Done
  BY DEF Recycle, Found, Done
<1>3. UNCHANGED <<Undispatched, Queued, AtWork>> /\ Undispatched = {}
  BY <1>1 DEF Undispatched, Queued, AtWork
<1>4. Calling /\ (Calling' <=> active # {})
  BY <1>1 DEF Calling
<1>5. CASE active = {}
  <2>1. Outstanding = {awaited}
    BY <1>1, <1>5 DEF Outstanding
  <2>2. Queued = {} /\ AtWork = {}
    BY <1>2, <2>1 DEF IInv, Places, InPool
  <2>3. Calling' = FALSE
    BY <1>1, <1>5 DEF Calling
  <2>4. (Undispatched \cup Queued)' = Undispatched \cup Queued
        /\ ((written \cup failed) \ AtWork)' = (written \cup failed) \ AtWork /\ AtWork' = AtWork
    BY <1>1, <1>3
  <2>5. Zero(Undispatched \cup Queued) = {} /\ Zero(AtWork) = {}
    BY <1>3, <2>2 DEF Zero
  <2>6. Picture!Return
    BY <1>4, <2>3, <2>4, <2>5 DEF Picture!Return
  <2> QED
    BY <2>6 DEF Picture!Next
<1>6. CASE active # {}
  <2>1. UNCHANGED Seen
    BY <1>1, <1>3, <1>4, <1>6 DEF Seen, Calling
  <2> QED
    BY <2>1, StutterMaps
<1> QED
  BY <1>5, <1>6

LEMMA CallerMovesMap == ASSUME IInv, IInv', CallerMoves \/ CollectNext PROVE UNCHANGED Seen
<1>1. /\ mpc \notin {"dispatch", "signal"} /\ mpc' \notin {"dispatch", "signal"}
      /\ UNCHANGED <<turn, run, hand, written, failed>>
  BY DEF CallerMoves, Encode, Close, CollectNext, CollectedAll, NotFound, SetUpFails, Gather,
         Merge, Join, Delete, lists, picture
<1>2. CASE CollectNext
  <2>1. Calling' /\ Calling
    BY <1>2 DEF CollectNext, Calling
  <2>2. Calling' = Calling
    BY <2>1 DEF Calling
  <2> QED
    BY <1>1, <2>2, NotDispatching DEF Seen, Queued, AtWork
<1>3. CASE CallerMoves
  <2>1. active' = active /\ (mpc' \in {"search", "asleep"} <=> mpc \in {"search", "asleep"})
    BY <1>3 DEF CallerMoves, Encode, Close, CollectedAll, NotFound, SetUpFails, Gather, Merge,
                Join, Delete
  <2>2. Calling' = Calling
    BY <2>1 DEF Calling
  <2> QED
    BY <1>1, <2>2, NotDispatching DEF Seen, Queued, AtWork
<1> QED
  BY <1>2, <1>3

LEMMA QuietStepsMap == ASSUME QuietSteps PROVE UNCHANGED Seen
<1>1. /\ UNCHANGED <<turn, active, run, hand, written, failed>>
      /\ mpc' = mpc \/ (mpc = "asleep" /\ mpc' = "search")
  BY DEF QuietSteps, SpuriousWakeup, Top, TakeNothing, SignalDone, caller, lists, picture
<1>2. Calling' = Calling /\ Undispatched' = Undispatched
  BY <1>1 DEF Calling, Undispatched
<1> QED
  BY <1>1, <1>2 DEF Seen, Queued, AtWork

LEMMA DispatchMaps == ASSUME IInv, IInv', Dispatch \/ SignalRun PROVE UNCHANGED Seen
<1>1. /\ UNCHANGED <<active, hand, written, failed>>
      /\ mpc \in {"dispatch", "signal"} /\ mpc' \in {"dispatch", "signal", "gather"}
  BY DEF Dispatch, SignalRun, picture
<1>2. Calling' = Calling
  BY <1>1 DEF Calling
<1>3. AtWork' = AtWork /\ Done' = Done /\ Outstanding' = Outstanding
  <2>1. UNCHANGED done /\ UNCHANGED awaited
    BY DEF Dispatch, SignalRun, lists
  <2> QED
    BY <1>1, <2>1 DEF AtWork, Done, Outstanding
<1>4. (Undispatched \cup Queued)' = Undispatched \cup Queued
  BY <1>3 DEF IInv, Places, InPool
<1> QED
  BY <1>1, <1>2, <1>3, <1>4 DEF Seen

LEMMA JobActionsMap ==
    ASSUME IInv, NEW w \in Workers,
           Write(w) \/ Tell1(w) \/ Deblock(w) \/ Tell2(w) \/ Await(w) \/ Border(w) \/ GiveUp(w)
    PROVE  UNCHANGED Seen
<1>1. /\ UNCHANGED <<mpc, turn, active, run, hand>>
      /\ written' \cup failed' \in {written \cup failed, written \cup failed \cup {hand[w]}}
  BY DEF Write, Tell1, Deblock, Tell2, Await, Border, GiveUp, caller, lists, picture
<1>2. hand[w] \in AtWork
  <2>1. wpc[w] \in Working
    BY DEF Write, Tell1, Deblock, Tell2, Await, Border, GiveUp, Go, Working
  <2> QED
    BY <2>1, PlacesTyped DEF IInv
<1>3. /\ Calling' = Calling /\ Undispatched' = Undispatched /\ Queued' = Queued
      /\ AtWork' = AtWork
  BY <1>1 DEF Calling, Undispatched, Queued, AtWork
<1> QED
  BY <1>1, <1>2, <1>3 DEF Seen

LEMMA StepMaps == ASSUME IInv, IInv', [Next]_vars PROVE [Picture!Next]_(Picture!vars)
<1>1. CASE UNCHANGED vars
  <2>1. UNCHANGED Seen
    BY <1>1 DEF vars, caller, lists, picture, Seen, Calling, Undispatched, Queued, AtWork
  <2> QED
    BY <2>1, StutterMaps
<1>2. CASE CallerMoves \/ CollectNext
  BY <1>2, CallerMovesMap, StutterMaps
<1>3. CASE QuietSteps
  BY <1>3, QuietStepsMap, StutterMaps
<1>4. CASE Recycle
  BY <1>4, RecycleMaps
<1>5. CASE SetUp
  BY <1>5, SetUpMaps DEF Picture!Next
<1>6. CASE Dispatch \/ SignalRun
  BY <1>6, DispatchMaps, StutterMaps
<1>7. ASSUME NEW w \in Workers, Take(w) PROVE [Picture!Next]_(Picture!vars)
  BY <1>7, TakeMaps DEF Picture!Next
<1>8. ASSUME NEW w \in Workers, Finish(w) PROVE [Picture!Next]_(Picture!vars)
  BY <1>8, FinishMaps DEF Picture!Next
<1>9. ASSUME NEW w \in Workers,
             Write(w) \/ Tell1(w) \/ Deblock(w) \/ Tell2(w) \/ Await(w) \/ Border(w) \/ GiveUp(w)
      PROVE  [Picture!Next]_(Picture!vars)
  BY <1>9, JobActionsMap, StutterMaps
<1> QED
  BY <1>1, <1>2, <1>3, <1>4, <1>5, <1>6, <1>7, <1>8, <1>9
  DEF Next, Continue, Work, CallerMoves, QuietSteps

\* Every slice of a picture is encoded exactly once, and none is at work while the
\* next picture is set up: the slice threads implement ParallelFor.
THEOREM Refinement == Spec => EverySliceOnce
<1>1. Init => Picture!Init
  BY InitMaps
<1>2. IInv /\ IInv' /\ [Next]_vars => [Picture!Next]_(Picture!vars)
  BY StepMaps
<1>3. Spec => []IInv
  BY Invariance
<1> QED
  BY <1>1, <1>2, <1>3, PTL DEF Spec, EverySliceOnce, Picture!Spec

=============================================================================
