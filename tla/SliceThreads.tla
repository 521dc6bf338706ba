---------------------------- MODULE SliceThreads ----------------------------
(***************************************************************************)
(* The threads of x264 as the bridge uses it: tune "zerolatency" turns     *)
(* sliced threads on, so a picture is cut into as many slices as there are *)
(* threads and each slice is a job of the encoder's thread pool            *)
(* (src/x264/common/threadpool.c, encoder/encoder.c).  A call returns as   *)
(* soon as the slices' bits are there; the jobs go on, deblock and filter  *)
(* their rows, and are waited for by the next call or by the close.        *)
(*                                                                         *)
(* A critical section of a list's mutex, or of a slice's, is one action;   *)
(* the broadcast that follows a push after the mutex is free is another.   *)
(* `done' is a set: it is searched by argument, never by position.         *)
(***************************************************************************)
EXTENDS Naturals, Sequences, FiniteSets

CONSTANTS
    Workers,       \* the pool's threads: i_threads of them, and as many slices
    MaxCalls       \* bound: calls of x264_encoder_encode

ASSUME SliceAssumption ==
    /\ IsFiniteSet(Workers) /\ Cardinality(Workers) > 1
    /\ MaxCalls \in Nat

Threads == Cardinality(Workers)
Slice == 1 .. Threads

VARIABLES
    mpc, wpc,      \* where the encoder's caller and each worker are
    calls,         \* calls of x264_encoder_encode so far
    closing,       \* x264_encoder_close has begun
    turn,          \* the slice to dispatch next
    active,        \* b_thread_active: slices nobody has waited for yet
    awaited,       \* the argument x264_threadpool_wait looks for
    uninit, run, done, exit,   \* the pool: idle job structures (a number), ...
    hand,          \* the slice of the job a worker executes, or 0
    pass,          \* i_threadslice_pass of each slice
    written, failed, deblocked,    \* slices of the picture, by what was done
    reported       \* slices whose failure a call has returned

caller == <<mpc, calls, closing, turn, active, awaited>>
lists == <<uninit, run, done, exit>>
picture == <<written, failed, deblocked, reported>>
vars == <<caller, wpc, lists, hand, pass, picture>>

-----------------------------------------------------------------------------
Init ==
    /\ mpc = "out" /\ calls = 0 /\ closing = FALSE
    /\ turn = 1 /\ active = {} /\ awaited = 0
    /\ uninit = Threads /\ run = <<>> /\ done = {} /\ exit = FALSE
    /\ wpc = [w \in Workers |-> "top"] /\ hand = [w \in Workers |-> 0]
    /\ pass = [s \in Slice |-> 0]
    /\ written = {} /\ failed = {} /\ deblocked = {} /\ reported = {}

\* pthread_cond_broadcast(&pool->run.cv_fill).
Woken == [w \in Workers |-> IF wpc[w] = "asleep" THEN "lock" ELSE wpc[w]]

\* What the job of a slice returns.
Result(s) == IF s \in failed THEN "error" ELSE "ok"

-----------------------------------------------------------------------------
(* The caller: x264_encoder_encode and x264_encoder_close. *)

\* (Faulty variant: the last picture's jobs are not waited for.)
MutEncode ==
    /\ mpc = "out" /\ ~closing /\ calls < MaxCalls
    /\ calls' = calls + 1 /\ mpc' = "setup"
    /\ UNCHANGED <<closing, turn, active, awaited, wpc, lists, hand, pass, picture>>
Encode ==
    /\ mpc = "out" /\ ~closing /\ calls < MaxCalls
    /\ calls' = calls + 1 /\ mpc' = "collect"
    /\ UNCHANGED <<closing, turn, active, awaited, wpc, lists, hand, pass, picture>>

Close ==
    /\ mpc = "out" /\ ~closing
    /\ closing' = TRUE /\ mpc' = "collect"
    /\ UNCHANGED <<calls, turn, active, awaited, wpc, lists, hand, pass, picture>>

\* x264_threadpool_wait_all: the next slice in order is no longer active, ...
CollectNext ==
    /\ mpc = "collect" /\ mpc' = "search"
    /\ \E s \in active :
          /\ \A t \in active : s <= t
          /\ awaited' = s /\ active' = active \ {s}
    /\ UNCHANGED <<calls, closing, turn, wpc, lists, hand, pass, picture>>

CollectedAll ==
    /\ mpc = "collect" /\ active = {}
    /\ mpc' = IF closing THEN "delete" ELSE "setup"
    /\ UNCHANGED <<calls, closing, turn, active, awaited, wpc, lists, hand, pass, picture>>

\* ... and x264_threadpool_wait looks for its job.
Found == {j \in done : j.arg = awaited}

NotFound ==
    /\ mpc = "search" /\ Found = {}
    /\ mpc' = "asleep"
    /\ UNCHANGED <<calls, closing, turn, active, awaited, wpc, lists, hand, pass, picture>>

\* A slice that failed ends x264_threadpool_wait_all, and the encoding call
\* with it; the close ignores the result.  (Faulty variant: all is forgotten.)
MutStillActive(ret) == IF ret = "error" THEN {} ELSE active
StillActive(ret) == active

Recycle ==
    /\ mpc = "search" /\ uninit < Threads
    /\ \E j \in Found :
          /\ done' = done \ {j} /\ uninit' = uninit + 1
          /\ active' = StillActive(j.ret)
          /\ mpc' = CASE j.ret = "ok" -> "collect"
                      [] j.ret = "error" /\ closing -> "delete"
                      [] OTHER -> "out"
          /\ reported' = IF j.ret = "error" /\ ~closing THEN reported \cup {j.arg}
                                                        ELSE reported
    /\ UNCHANGED <<calls, closing, turn, awaited, wpc, run, exit, hand, pass,
                   written, failed, deblocked>>

\* Between the wait and the dispatch the picture's frames, its contexts and its
\* bitstreams are set up, which can fail at several places.
SetUpFails ==
    /\ mpc = "setup" /\ mpc' = "out"
    /\ UNCHANGED <<calls, closing, turn, active, awaited, wpc, lists, hand, pass, picture>>

\* (Faulty variant: the passes are those of the last picture.)
MutFirstPass == pass
FirstPass == [s \in Slice |-> 0]

SetUp ==
    /\ mpc = "setup" /\ mpc' = "dispatch"
    /\ turn' = 1 /\ active' = Slice /\ pass' = FirstPass
    /\ written' = {} /\ failed' = {} /\ deblocked' = {} /\ reported' = {}
    /\ UNCHANGED <<calls, closing, awaited, wpc, lists, hand>>

\* x264_threadpool_run.  (Faulty variant: with a job structure of its own.)
MutIdleLeft == uninit
IdleLeft == uninit - 1

Dispatch ==
    /\ mpc = "dispatch" /\ uninit > 0 /\ Len(run) < Threads
    /\ uninit' = IdleLeft /\ run' = Append(run, turn)
    /\ mpc' = "signal"
    /\ UNCHANGED <<calls, closing, turn, active, awaited, wpc, done, exit, hand, pass, picture>>

SignalRun ==
    /\ mpc = "signal"
    /\ wpc' = Woken
    /\ turn' = turn + 1
    /\ mpc' = IF turn = Threads THEN "gather" ELSE "dispatch"
    /\ UNCHANGED <<calls, closing, active, awaited, lists, hand, pass, picture>>

\* One wait after another: a pass never falls while the picture is encoded.
Gather ==
    /\ mpc = "gather" /\ \A s \in Slice : pass[s] >= 1
    /\ mpc' = "merge"
    /\ UNCHANGED <<calls, closing, turn, active, awaited, wpc, lists, hand, pass, picture>>

\* The slices' NAL units are put together and returned, those of a failed slice as well.
Merge ==
    /\ mpc = "merge" /\ mpc' = "out"
    /\ UNCHANGED <<calls, closing, turn, active, awaited, wpc, lists, hand, pass, picture>>

\* x264_threadpool_delete.
Delete ==
    /\ mpc = "delete" /\ mpc' = "join"
    /\ exit' = TRUE /\ wpc' = Woken
    /\ UNCHANGED <<calls, closing, turn, active, awaited, uninit, run, done, hand, pass, picture>>

Join ==
    /\ mpc = "join" /\ \A w \in Workers : wpc[w] = "gone"
    /\ mpc' = "freed"
    /\ UNCHANGED <<calls, closing, turn, active, awaited, wpc, lists, hand, pass, picture>>

-----------------------------------------------------------------------------
(* A worker: x264_threadpool_thread, and the job x264_slices_write. *)

Go(w, from, to) == wpc[w] = from /\ wpc' = [wpc EXCEPT ![w] = to]

\* The loop's condition reads `exit' without the mutex.
Top(w) ==
    /\ Go(w, "top", IF exit THEN "gone" ELSE "lock")
    /\ UNCHANGED <<caller, lists, hand, pass, picture>>

Take(w) ==
    /\ run # <<>> /\ Go(w, "lock", "write")
    /\ hand' = [hand EXCEPT ![w] = Head(run)] /\ run' = Tail(run)
    /\ UNCHANGED <<caller, uninit, done, exit, pass, picture>>

TakeNothing(w) ==
    /\ run = <<>> /\ Go(w, "lock", IF exit THEN "top" ELSE "asleep")
    /\ UNCHANGED <<caller, lists, hand, pass, picture>>

\* x264_slice_write up to its end, where it may run out of memory.
Write(w) ==
    /\ \/ Go(w, "write", "tell1") /\ written' = written \cup {hand[w]} /\ failed' = failed
       \/ Go(w, "write", "give_up") /\ failed' = failed \cup {hand[w]} /\ written' = written
    /\ UNCHANGED <<caller, lists, hand, pass, deblocked, reported>>

\* x264_threadslice_cond_broadcast.
Tell(w, value) == pass' = [pass EXCEPT ![hand[w]] = value]

Tell1(w) ==
    /\ Go(w, "tell1", "deblock") /\ Tell(w, 1)
    /\ UNCHANGED <<caller, lists, hand, picture>>

\* All of the slice's rows are deblocked, and filtered but for the first.
Deblock(w) ==
    /\ Go(w, "deblock", "tell2")
    /\ deblocked' = deblocked \cup {hand[w]}
    /\ UNCHANGED <<caller, lists, hand, pass, written, failed, reported>>

Tell2(w) ==
    /\ Go(w, "tell2", IF hand[w] > 1 THEN "await" ELSE "finish") /\ Tell(w, 2)
    /\ UNCHANGED <<caller, lists, hand, picture>>

\* (Faulty variant: the slice above need only be written.)
MutLastPass == 1
LastPass == 2

Await(w) ==
    /\ Go(w, "await", "border") /\ pass[hand[w] - 1] >= LastPass
    /\ UNCHANGED <<caller, lists, hand, pass, picture>>

\* The filter of the slice's first row reads the last rows of the slice above.
Border(w) ==
    /\ Go(w, "border", "finish")
    /\ UNCHANGED <<caller, lists, hand, pass, picture>>

\* (Faulty variant: nobody is told.)
MutGiveUp(w) ==
    /\ Go(w, "give_up", "finish")
    /\ UNCHANGED <<caller, lists, hand, pass, picture>>
GiveUp(w) ==
    /\ Go(w, "give_up", "finish") /\ Tell(w, 2)
    /\ UNCHANGED <<caller, lists, hand, picture>>

\* x264_sync_frame_list_push(&pool->done).
Finish(w) ==
    /\ Cardinality(done) < Threads /\ Go(w, "finish", "signal")
    /\ done' = done \cup {[arg |-> hand[w], ret |-> Result(hand[w])]}
    /\ hand' = [hand EXCEPT ![w] = 0]
    /\ UNCHANGED <<caller, uninit, run, exit, pass, picture>>

SignalDone(w) ==
    /\ Go(w, "signal", "top")
    /\ mpc' = IF mpc = "asleep" THEN "search" ELSE mpc
    /\ UNCHANGED <<calls, closing, turn, active, awaited, lists, hand, pass, picture>>

\* pthread_cond_wait may return without a signal.
SpuriousWakeup ==
    /\ \/ /\ \E w \in Workers : Go(w, "asleep", "lock")
          /\ mpc' = mpc
       \/ mpc = "asleep" /\ mpc' = "search" /\ wpc' = wpc
    /\ UNCHANGED <<calls, closing, turn, active, awaited, lists, hand, pass, picture>>

-----------------------------------------------------------------------------
Continue ==
    \/ CollectNext \/ CollectedAll \/ NotFound \/ Recycle \/ SetUpFails \/ SetUp
    \/ Dispatch \/ SignalRun \/ Gather \/ Merge \/ Delete \/ Join

Work(w) ==
    \/ Top(w) \/ Take(w) \/ TakeNothing(w) \/ Write(w) \/ Tell1(w) \/ Deblock(w) \/ Tell2(w)
    \/ Await(w) \/ Border(w) \/ GiveUp(w) \/ Finish(w) \/ SignalDone(w)

Next == Encode \/ Close \/ Continue \/ (\E w \in Workers : Work(w)) \/ SpuriousWakeup

Fairness == WF_vars(Continue) /\ \A w \in Workers : WF_vars(Work(w))

Spec == Init /\ [][Next]_vars /\ Fairness

-----------------------------------------------------------------------------
(* Properties. *)

Job == [arg : Slice, ret : {"ok", "error"}]

\* The variables keep their types; a worker has a slice exactly while it works on it.
TypeOK ==
    /\ mpc \in {"out", "collect", "search", "asleep", "setup", "dispatch", "signal",
                "gather", "merge", "delete", "join", "freed"}
    /\ calls \in 0 .. MaxCalls /\ closing \in BOOLEAN /\ turn \in 1 .. Threads + 1
    /\ active \subseteq Slice /\ awaited \in 0 .. Threads
    /\ uninit \in 0 .. Threads /\ run \in Seq(Slice) /\ done \subseteq Job /\ exit \in BOOLEAN
    /\ hand \in [Workers -> 0 .. Threads] /\ pass \in [Slice -> 0 .. 2]
    /\ wpc \in [Workers -> {"top", "lock", "asleep", "gone", "write", "tell1", "deblock",
                            "tell2", "await", "border", "give_up", "finish", "signal"}]
    /\ \A w \in Workers :
          hand[w] = 0 <=> wpc[w] \in {"top", "lock", "asleep", "gone", "signal"}
    /\ written \cup failed \cup deblocked \cup reported \subseteq Slice

\* Whoever takes or adds a job structure finds one, or finds room.  The wait for
\* room of x264_sync_frame_list_push would have no end: the pool takes jobs off
\* `run' and `done' without a signal on cv_empty.
QueuesNeverFull ==
    /\ mpc = "dispatch" => uninit > 0 /\ Len(run) < Threads
    /\ (mpc = "search" /\ Found # {}) => uninit < Threads
    /\ \A w \in Workers : wpc[w] = "finish" => Cardinality(done) < Threads

\* The rows on both sides of the border between two slices are deblocked when it
\* is filtered, unless their slice has failed.
BoundaryIsDeblocked ==
    \A w \in Workers :
       wpc[w] = "border" => {hand[w] - 1, hand[w]} \subseteq deblocked \cup failed

\* The call puts a picture together when each of its slices is written or has
\* failed - the passes are never the last picture's - and the pool is not
\* freed with a job in it that nobody has begun, although x264_encoder_close
\* stops waiting at the first failure.
WaitsForEverySlice ==
    /\ mpc = "merge" => written \cup failed = Slice
    /\ mpc = "freed" => run = <<>>

\* No picture is set up before a call has returned an error for each slice of the
\* last one that failed, and for no other.
FailuresAreReported == mpc = "setup" => reported = failed

\* A call that was made returns; a close ends, and all workers with it.
CallsReturn == (mpc \notin {"out", "freed"}) ~> (mpc \in {"out", "freed"})

\* A picture is what ParallelFor calls a call: from its dispatch until all slices
\* have been waited for.  Each slice is encoded once, and no slice of one picture
\* is at work while the next one is set up.
Calling == active # {} \/ mpc \in {"search", "asleep"}
Undispatched ==
    {s \in Slice : \/ mpc = "dispatch" /\ s >= turn
                   \/ mpc = "signal" /\ s > turn}
Queued == {run[i] : i \in DOMAIN run}
AtWork == {hand[w] : w \in Workers} \ {0}
Zero(S) == {s - 1 : s \in S}

Picture == INSTANCE ParallelFor WITH
    calling <- Calling,
    todo <- Zero(Undispatched \cup Queued),
    running <- Zero(AtWork),
    finished <- Zero((written \cup failed) \ AtWork)

EverySliceOnce == Picture!Spec
=============================================================================
