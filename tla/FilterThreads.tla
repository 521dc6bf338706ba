--------------------------- MODULE FilterThreads ----------------------------
(***************************************************************************)
(* The worker threads of a filter graph (src/ffmpeg/libavfilter/pthread.c):*)
(* one mutex, two conditions, and a counter of jobs that doubles as the    *)
(* count of what is finished.  The graph's own thread creates the workers, *)
(* executes batches of jobs on them and ends them.                         *)
(*                                                                         *)
(* A critical section is one action or a few under `lock'; what the code   *)
(* reads without the lock (the worker's first two lines, and the job it    *)
(* runs) is a step of its own.                                             *)
(***************************************************************************)
EXTENDS Naturals, FiniteSets

CONSTANTS
    Workers,            \* the threads that may be created: nb_threads of them
    MaxJobs,            \* bound: jobs of a batch
    MaxExecutes,        \* bound: batches
    MaxSpurious,        \* bound: wakeups that no signal caused
    ExecuteModulus,     \* current_execute is unsigned int: 2^32
    Main, Free          \* the graph's thread; the mutex without an owner

ASSUME PoolAssumption ==
    /\ IsFiniteSet(Workers) /\ Cardinality(Workers) > 1
    /\ MaxJobs \in Nat \ {0} /\ MaxExecutes \in Nat /\ MaxSpurious \in Nat
    /\ ExecuteModulus \in Nat \ {0, 1}
    /\ Main \notin Workers /\ Free \notin Workers /\ Main # Free

VARIABLES
    lock,          \* current_job_lock: its owner
    mpc, wpc,      \* where the graph's thread and each worker are
    nbThreads, nbJobs, currentJob, currentExecute, done,     \* ThreadContext
    rets,          \* how often each job of the batch has run
    ourJob, selfId, lastExecute,     \* each worker's locals
    localThreads,  \* ... and its copy of nb_threads
    executes,      \* batches so far
    spurious       \* wakeups so far that no signal caused

pool == <<nbThreads, nbJobs, currentJob, currentExecute, done>>
locals == <<ourJob, selfId, lastExecute, localThreads>>
vars == <<lock, mpc, wpc, pool, rets, locals, executes, spurious>>

-----------------------------------------------------------------------------
NbThreads == Cardinality(Workers)
Created == {w \in Workers : wpc[w] # "none"}
AllWorkers(x) == [w \in Workers |-> x]

Init ==
    /\ lock = Main /\ mpc = "creating" /\ wpc = AllWorkers("none")
    /\ nbThreads = NbThreads /\ nbJobs = 0 /\ currentJob = 0
    /\ currentExecute = 0 /\ done = FALSE
    /\ rets = [j \in {} |-> 0]
    /\ ourJob = AllWorkers(0) /\ selfId = AllWorkers(0)
    /\ lastExecute = AllWorkers(0) /\ localThreads = AllWorkers(0)
    /\ executes = 0 /\ spurious = 0

\* pthread_cond_broadcast(&current_job_cond).
Woken == [w \in Workers |-> IF wpc[w] = "waiting" THEN "awake" ELSE wpc[w]]

-----------------------------------------------------------------------------
(* The graph's thread. *)

\* thread_init_internal's loop, under the lock.
CreateWorker(w) ==
    /\ mpc = "creating" /\ wpc[w] = "none"
    /\ wpc' = [wpc EXCEPT ![w] = "created"]
    /\ mpc' = IF Created \cup {w} = Workers THEN "park" ELSE "creating"
    /\ UNCHANGED <<lock, pool, rets, locals, executes, spurious>>

\* pthread_create fails: the lock is given back first, then nb_threads is set.
CreateFails ==
    /\ mpc = "creating" /\ mpc' = "failed" /\ lock' = Free
    /\ UNCHANGED <<wpc, pool, rets, locals, executes, spurious>>

LowerNbThreads ==
    /\ mpc = "failed" /\ mpc' = "ending"
    /\ nbThreads' = Cardinality(Created)
    /\ UNCHANGED <<lock, wpc, nbJobs, currentJob, currentExecute, done, rets, locals,
                   executes, spurious>>

\* (Faulty variant: one job early.)
MutAllDone == currentJob + 1 >= nbThreads + nbJobs
AllDone == currentJob = nbThreads + nbJobs

\* slice_thread_park_workers: wait on last_job_cond until all is done.
Park ==
    /\ mpc = "park" /\ lock = Main
    /\ lock' = Free
    /\ mpc' = IF AllDone THEN "idle" ELSE "parked"
    /\ UNCHANGED <<wpc, pool, rets, locals, executes, spurious>>

Unpark ==
    /\ mpc = "unpark" /\ lock = Free
    /\ lock' = Main /\ mpc' = "park"
    /\ UNCHANGED <<wpc, pool, rets, locals, executes, spurious>>

FirstFreeJob == nbThreads

\* thread_execute up to the wait.
Execute ==
    /\ mpc = "idle" /\ lock = Free /\ executes < MaxExecutes
    /\ executes' = executes + 1
    /\ lock' = Main /\ mpc' = "park"
    /\ currentJob' = FirstFreeJob
    /\ nbJobs' \in 1 .. MaxJobs
    /\ rets' = [j \in 0 .. nbJobs' - 1 |-> 0]
    /\ currentExecute' = (currentExecute + 1) % ExecuteModulus
    /\ wpc' = Woken
    /\ UNCHANGED <<nbThreads, done, locals, spurious>>

\* (Faulty variant: nobody is told.)
MutEnd ==
    /\ mpc \in {"idle", "ending"} /\ lock = Free
    /\ done' = TRUE /\ mpc' = "joining"
    /\ UNCHANGED <<lock, wpc, nbThreads, nbJobs, currentJob, currentExecute, rets,
                   locals, executes, spurious>>

\* slice_thread_uninit: the critical section, then the joins.
End ==
    /\ mpc \in {"idle", "ending"} /\ lock = Free
    /\ done' = TRUE /\ mpc' = "joining"
    /\ wpc' = Woken
    /\ UNCHANGED <<lock, nbThreads, nbJobs, currentJob, currentExecute, rets,
                   locals, executes, spurious>>

Join ==
    /\ mpc = "joining" /\ \A w \in Created : wpc[w] = "exited"
    /\ mpc' = "freed"
    /\ UNCHANGED <<lock, wpc, pool, rets, locals, executes, spurious>>

-----------------------------------------------------------------------------
(* worker. *)

\* Its first lines, which take no lock.
Start(w) ==
    /\ wpc[w] = "created"
    /\ wpc' = [wpc EXCEPT ![w] = "enter"]
    /\ ourJob' = [ourJob EXCEPT ![w] = nbJobs]
    /\ localThreads' = [localThreads EXCEPT ![w] = nbThreads]
    /\ UNCHANGED <<lock, mpc, pool, rets, selfId, lastExecute, executes, spurious>>

Acquire(w, from, to) ==
    /\ wpc[w] = from /\ lock = Free
    /\ lock' = w
    /\ wpc' = [wpc EXCEPT ![w] = to]

Enter(w) ==
    /\ Acquire(w, "enter", "head")
    /\ selfId' = [selfId EXCEPT ![w] = currentJob]
    /\ currentJob' = currentJob + 1
    /\ UNCHANGED <<mpc, nbThreads, nbJobs, currentExecute, done, rets, ourJob,
                   lastExecute, localThreads, executes, spurious>>

\* (Faulty variant: the signal goes out one job early.)
MutSignals(w) == currentJob + 1 = localThreads[w] + nbJobs
Signals(w) == currentJob = localThreads[w] + nbJobs

\* The head of the inner loop: leave it with a job, or signal last_job_cond if
\* this was the last one.
Head(w) ==
    /\ wpc[w] = "head" /\ lock = w
    /\ IF ourJob[w] < nbJobs
       THEN /\ lock' = Free
            /\ wpc' = [wpc EXCEPT ![w] = "run"]
            /\ UNCHANGED mpc
       ELSE /\ wpc' = [wpc EXCEPT ![w] = "sleepy"]
            /\ mpc' = IF Signals(w) /\ mpc = "parked" THEN "unpark" ELSE mpc
            /\ UNCHANGED lock
    /\ UNCHANGED <<pool, rets, locals, executes, spurious>>

\* The wait for a batch this worker has not seen, or for the end.
Sleepy(w) ==
    /\ wpc[w] = "sleepy" /\ lock = w
    /\ IF lastExecute[w] = currentExecute /\ ~done
       THEN /\ lock' = Free /\ wpc' = [wpc EXCEPT ![w] = "waiting"]
            /\ UNCHANGED <<lastExecute, ourJob>>
       ELSE /\ lastExecute' = [lastExecute EXCEPT ![w] = currentExecute]
            /\ ourJob' = [ourJob EXCEPT ![w] = selfId[w]]
            /\ IF done THEN lock' = Free /\ wpc' = [wpc EXCEPT ![w] = "exited"]
                       ELSE wpc' = [wpc EXCEPT ![w] = "head"] /\ UNCHANGED lock
    /\ UNCHANGED <<mpc, pool, rets, selfId, localThreads, executes, spurious>>

Wake(w) ==
    /\ Acquire(w, "awake", "sleepy")
    /\ UNCHANGED <<mpc, pool, rets, locals, executes, spurious>>

\* The job itself and the store of its result, without the lock.
Run(w) ==
    /\ wpc[w] = "run"
    /\ wpc' = [wpc EXCEPT ![w] = "finish"]
    /\ rets' = [rets EXCEPT ![ourJob[w] % nbJobs] = @ + 1]
    /\ UNCHANGED <<lock, mpc, pool, locals, executes, spurious>>

Finish(w) ==
    /\ Acquire(w, "finish", "head")
    /\ ourJob' = [ourJob EXCEPT ![w] = currentJob]
    /\ currentJob' = currentJob + 1
    /\ UNCHANGED <<mpc, nbThreads, nbJobs, currentExecute, done, rets, selfId,
                   lastExecute, localThreads, executes, spurious>>

-----------------------------------------------------------------------------
\* POSIX lets a wait on a condition end without a signal.
SpuriousWakeup ==
    /\ spurious < MaxSpurious /\ spurious' = spurious + 1
    /\ \/ mpc = "parked" /\ mpc' = "unpark" /\ UNCHANGED wpc
       \/ /\ \E w \in Workers : /\ wpc[w] = "waiting"
                                /\ wpc' = [wpc EXCEPT ![w] = "awake"]
          /\ UNCHANGED mpc
    /\ UNCHANGED <<lock, pool, rets, locals, executes>>

\* After the pool is freed nothing happens.
Freed == mpc = "freed" /\ UNCHANGED vars

MainStep == (\E w \in Workers : CreateWorker(w)) \/ LowerNbThreads \/ Park \/ Unpark \/ Join
WorkerStep(w) == Start(w) \/ Enter(w) \/ Head(w) \/ Sleepy(w) \/ Wake(w) \/ Run(w) \/ Finish(w)

Next ==
    \/ MainStep \/ CreateFails \/ Execute \/ End
    \/ \E w \in Workers : WorkerStep(w)
    \/ SpuriousWakeup \/ Freed

\* The scheduler runs every thread that is neither blocked nor waiting.  The graph's
\* thread need not execute or end anything, except after a failed creation.
Fairness == WF_vars(MainStep \/ (mpc = "ending" /\ End)) /\ \A w \in Workers : WF_vars(WorkerStep(w))

Spec == Init /\ [][Next]_vars /\ Fairness
-----------------------------------------------------------------------------
\* What each variable holds.
TypeOK ==
    /\ lock \in Workers \cup {Main, Free}
    /\ mpc \in {"creating", "failed", "ending", "park", "parked", "unpark", "idle",
                "joining", "freed"}
    /\ wpc \in [Workers -> {"none", "created", "enter", "head", "sleepy", "waiting",
                            "awake", "run", "finish", "exited"}]
    /\ nbThreads \in 0 .. NbThreads /\ nbJobs \in 0 .. MaxJobs
    /\ currentJob \in 0 .. NbThreads + nbJobs
    /\ currentExecute \in 0 .. ExecuteModulus - 1 /\ done \in BOOLEAN
    /\ rets \in [0 .. nbJobs - 1 -> 0 .. 1]
    /\ ourJob \in [Workers -> Nat] /\ selfId \in [Workers -> Nat]
    /\ lastExecute \in [Workers -> Nat] /\ localThreads \in [Workers -> Nat]
    /\ executes \in 0 .. MaxExecutes /\ spurious \in 0 .. MaxSpurious

Calling == nbJobs > 0 /\ mpc \in {"park", "parked", "unpark"}
Running == {ourJob[w] : w \in {v \in Workers : wpc[v] = "run"}}
Finished == {j \in 0 .. nbJobs - 1 : rets[j] > 0}

\* Each batch runs every job exactly once and returns when all have run, with
\* no job of another batch in between.
Jobs == INSTANCE ParallelFor WITH
          calling <- Calling, running <- Running, finished <- Finished,
          todo <- (0 .. nbJobs - 1) \ (Running \cup Finished)
EveryJobOnce == Jobs!Spec

\* Between batches every worker is past its job: thread_execute may set the next
\* batch's function, argument and result array, which workers read unlocked.
ParkedOutsideExecute ==
    mpc \in {"idle", "joining", "freed"} =>
        \A w \in Workers : wpc[w] \notin {"run", "finish"}

\* A batch that was started returns, whichever workers slept through it.
ExecuteReturns == Calling ~> (mpc = "idle")

\* The pool ends once it has been told to, also when it could not be created.
PoolEnds == mpc \in {"failed", "joining"} ~> (mpc = "freed")
=============================================================================
