------------------------ MODULE FilterThreadsProofs -------------------------
(***************************************************************************)
(* Proofs about FilterThreads, for any number of workers, jobs, batches    *)
(* and spurious wakeups: batches run each of their jobs once and return    *)
(* when all have run (ParallelFor), and workers are past their jobs        *)
(* between batches.                                                        *)
(*                                                                         *)
(* The counter of jobs has three meanings, and the invariant says which it *)
(* has when: until the first batch it counts the workers that have entered *)
(* and hands out their numbers; in a batch it hands out the jobs from the  *)
(* number of threads on, and at the same time is ahead of that number by   *)
(* the jobs whose worker has counted them.                                 *)
(***************************************************************************)
EXTENDS FilterThreads, FiniteSetTheorems, TLAPS

Entered == {w \in Workers : wpc[w] \notin {"none", "created", "enter"}}

\* A worker has a claim to one job number: to its own number until it has
\* seen the batch, then to the one it has been given.
Active(w) == wpc[w] \in {"head", "run", "finish"}
Unseen(w) == wpc[w] \in {"waiting", "awake", "sleepy"} /\ lastExecute[w] # currentExecute
Claims(w) == Active(w) \/ Unseen(w)
Claim(w) == IF Active(w) THEN ourJob[w] ELSE selfId[w]

\* The jobs that have run and whose worker has counted them.
Counted ==
    {j \in 0 .. nbJobs - 1 :
        rets[j] = 1 /\ \A w \in Workers : wpc[w] = "finish" => ourJob[w] # j}

LockHeld ==
    /\ \A w \in Workers : wpc[w] \in {"head", "sleepy"} => lock = w
    /\ mpc \in {"creating", "park"} => lock = Main

NumbersDistinct ==
    /\ \A w \in Entered : selfId[w] < NbThreads /\ (nbJobs = 0 => selfId[w] < currentJob)
    /\ \A w, u \in Entered : w # u => selfId[w] # selfId[u]

\* Before the first batch.
Creation ==
    nbJobs = 0 =>
        /\ Cardinality(Entered) = currentJob
        /\ \A w \in Workers : wpc[w] \notin {"run", "finish"}
        /\ mpc = "idle" => currentJob = nbThreads
        /\ mpc \notin {"ending", "joining", "freed"} => nbThreads = NbThreads

\* From the first batch on.
ClaimsHold ==
    /\ \A w \in Workers : Active(w) => lastExecute[w] = currentExecute
    /\ \A w \in Workers : wpc[w] \in {"run", "finish"} => ourJob[w] < nbJobs
    /\ \A w \in Workers : Claims(w) =>
          /\ Claim(w) < currentJob
          /\ Claim(w) < nbJobs => rets[Claim(w)] = IF wpc[w] = "finish" THEN 1 ELSE 0
    /\ \A w, u \in Workers : w # u /\ Claims(w) /\ Claims(u) => Claim(w) # Claim(u)

Batch ==
    nbJobs > 0 =>
        /\ nbThreads = NbThreads /\ Entered = Workers
        /\ mpc \in {"park", "parked", "unpark", "idle", "joining", "freed"}
        /\ mpc \in {"idle", "joining", "freed"} => currentJob = nbThreads + nbJobs
        /\ NbThreads <= currentJob
        /\ Cardinality(Counted) = currentJob - nbThreads
        /\ \A j \in 0 .. nbJobs - 1 : j >= currentJob => rets[j] = 0
        /\ ClaimsHold

IInv == TypeOK /\ LockHeld /\ NumbersDistinct /\ Creation /\ Batch

-----------------------------------------------------------------------------
(* Counting. *)

LEMMA Constants ==
    /\ NbThreads \in Nat /\ IsFiniteSet(Workers)
    /\ MaxJobs \in Nat /\ MaxExecutes \in Nat /\ MaxSpurious \in Nat
    /\ ExecuteModulus \in Nat /\ ExecuteModulus > 1
    /\ Main \notin Workers /\ Free \notin Workers /\ Main # Free
  BY PoolAssumption, FS_CardinalityType DEF NbThreads

\* No more workers have entered than there are, and when as many have, all have.
LEMMA EnteredCount ==
    /\ Entered \subseteq Workers /\ IsFiniteSet(Entered)
    /\ Cardinality(Entered) \in Nat /\ Cardinality(Entered) <= NbThreads
    /\ Cardinality(Entered) = NbThreads => Entered = Workers
<1>1. Entered \subseteq Workers
  BY DEF Entered
<1>2. /\ IsFiniteSet(Entered) /\ Cardinality(Entered) <= NbThreads
      /\ Cardinality(Entered) = NbThreads => Entered = Workers
  BY <1>1, Constants, FS_Subset DEF NbThreads
<1> QED
  BY <1>1, <1>2, FS_CardinalityType

\* Likewise for the jobs that are counted.
LEMMA CountedCount ==
    ASSUME TypeOK
    PROVE  /\ IsFiniteSet(Counted) /\ Cardinality(Counted) \in Nat
           /\ Cardinality(Counted) <= nbJobs
           /\ Cardinality(Counted) = nbJobs => Counted = 0 .. nbJobs - 1
<1>0. nbJobs \in Nat
  BY Constants DEF TypeOK
<1>1. IsFiniteSet(0 .. nbJobs - 1) /\ Cardinality(0 .. nbJobs - 1) = nbJobs
  BY <1>0, FS_Interval
<1>2. Counted \subseteq 0 .. nbJobs - 1
  BY DEF Counted
<1>3. /\ IsFiniteSet(Counted) /\ Cardinality(Counted) <= nbJobs
      /\ Cardinality(Counted) = nbJobs => Counted = 0 .. nbJobs - 1
  BY <1>1, <1>2, FS_Subset
<1> QED
  BY <1>3, FS_CardinalityType

\* When the counter has reached its end, every job has run and no worker is
\* in one or has one to run.
LEMMA AllCounted ==
    ASSUME IInv, nbJobs > 0, currentJob = nbThreads + nbJobs
    PROVE  /\ \A j \in 0 .. nbJobs - 1 : rets[j] = 1
           /\ \A w \in Workers : wpc[w] \notin {"run", "finish"}
           /\ \A w \in Workers : Claims(w) => Claim(w) >= nbJobs
<1>0. TypeOK /\ Batch /\ ClaimsHold
  BY DEF IInv, Batch
<1>1. nbJobs \in Nat /\ nbThreads \in Nat /\ currentJob \in Nat
  BY <1>0, Constants DEF TypeOK
<1>2. Cardinality(Counted) = nbJobs
  BY <1>0, <1>1 DEF Batch
<1>3. Counted = 0 .. nbJobs - 1
  BY <1>0, <1>2, CountedCount
<1>4. /\ \A j \in 0 .. nbJobs - 1 : rets[j] = 1
      /\ \A j \in 0 .. nbJobs - 1 : \A w \in Workers : wpc[w] = "finish" => ourJob[w] # j
  BY <1>3 DEF Counted
<1>5. \A w \in Workers : ourJob[w] \in Nat /\ selfId[w] \in Nat /\ Claim(w) \in Nat
  BY <1>0 DEF TypeOK, Claim
<1>6. \A w \in Workers : wpc[w] # "finish"
  BY <1>0, <1>1, <1>4, <1>5 DEF ClaimsHold
<1>7. \A w \in Workers : Claims(w) => Claim(w) >= nbJobs
  BY <1>0, <1>1, <1>4, <1>5, <1>6 DEF ClaimsHold
<1>8. \A w \in Workers : wpc[w] # "run"
  BY <1>0, <1>1, <1>5, <1>7 DEF ClaimsHold, Claims, Claim, Active
<1> QED
  BY <1>4, <1>6, <1>7, <1>8

LEMMA InitHolds == Init => IInv
<1> SUFFICES ASSUME Init PROVE IInv
  OBVIOUS
<1>1. Entered = {} /\ Cardinality(Entered) = 0
  BY FS_EmptySet DEF Init, AllWorkers, Entered
<1>2. TypeOK
  <2>1. rets \in [0 .. nbJobs - 1 -> 0 .. 1]
    BY DEF Init
  <2>2. executes \in 0 .. MaxExecutes /\ spurious \in 0 .. MaxSpurious
        /\ nbJobs \in 0 .. MaxJobs /\ nbThreads \in 0 .. NbThreads
        /\ currentJob \in 0 .. NbThreads + nbJobs /\ currentExecute \in 0 .. ExecuteModulus - 1
    BY Constants DEF Init
  <2> QED
    BY <2>1, <2>2 DEF Init, AllWorkers, TypeOK
<1>3. LockHeld /\ NumbersDistinct /\ Creation /\ Batch
  BY <1>1 DEF Init, AllWorkers, LockHeld, NumbersDistinct, Creation, Batch
<1> QED
  BY <1>2, <1>3 DEF IInv

-----------------------------------------------------------------------------
(* Steps that move workers at most between the three states of the wait. *)

Asleep == {"waiting", "awake", "sleepy"}

LEMMA WaitKeepsClaims ==
    ASSUME IInv, UNCHANGED <<nbJobs, currentJob, currentExecute, rets, locals>>,
           \A w \in Workers : wpc'[w] = wpc[w] \/ {wpc[w], wpc'[w]} \subseteq Asleep
    PROVE  /\ Entered' = Entered /\ Counted' = Counted
           /\ NumbersDistinct'
           /\ \A w \in Workers : wpc'[w] \in {"run", "finish"} <=> wpc[w] \in {"run", "finish"}
           /\ nbJobs > 0 => ClaimsHold'
<1>1. /\ Entered' = Entered
      /\ \A w \in Workers : wpc'[w] = "finish" <=> wpc[w] = "finish"
      /\ \A w \in Workers : wpc'[w] \in {"run", "finish"} <=> wpc[w] \in {"run", "finish"}
      /\ \A w \in Workers : Active(w)' <=> Active(w)
      /\ \A w \in Workers : Unseen(w)' <=> Unseen(w)
  BY DEF Entered, Asleep, Active, Unseen, locals
<1>2. Counted' = Counted
  BY <1>1 DEF Counted, locals
<1>3. NumbersDistinct'
  BY <1>1 DEF IInv, NumbersDistinct, locals
<1>4. \A w \in Workers : (Claims(w)' <=> Claims(w)) /\ Claim(w)' = Claim(w)
  BY <1>1 DEF Claims, Claim, locals
<1>5. ASSUME nbJobs > 0 PROVE ClaimsHold'
  BY <1>1, <1>4, <1>5 DEF IInv, Batch, ClaimsHold, locals
<1> QED
  BY <1>1, <1>2, <1>3, <1>5

\* The steps of the graph's thread outside the creation of a worker and the
\* start of a batch, the end of a wait, and going to wait.
LEMMA MainHolds ==
    ASSUME IInv, CreateFails \/ LowerNbThreads \/ Park \/ Unpark \/ Join
    PROVE  IInv'
<1>1. /\ UNCHANGED <<wpc, nbJobs, currentJob, currentExecute, done, rets, locals>>
      /\ UNCHANGED <<executes, spurious>>
      /\ \/ UNCHANGED nbThreads
         \/ mpc = "failed" /\ mpc' = "ending" /\ nbThreads' = Cardinality(Created)
  BY DEF CreateFails, LowerNbThreads, Park, Unpark, Join, pool, locals
<1>2. /\ Entered' = Entered /\ Counted' = Counted /\ NumbersDistinct'
      /\ nbJobs > 0 => ClaimsHold'
  BY <1>1, WaitKeepsClaims
<1>3. Created \subseteq Workers /\ Cardinality(Created) \in Nat /\ Cardinality(Created) <= NbThreads
  <2>1. Created \subseteq Workers
    BY DEF Created
  <2>2. IsFiniteSet(Created) /\ Cardinality(Created) <= NbThreads
    BY <2>1, Constants, FS_Subset DEF NbThreads
  <2> QED
    BY <2>1, <2>2, FS_CardinalityType
<1>4. TypeOK'
  <2>1. nbThreads' \in 0 .. NbThreads
    BY <1>1, <1>3, Constants DEF IInv, TypeOK
  <2>2. lock' \in Workers \cup {Main, Free}
    BY DEF IInv, TypeOK, CreateFails, LowerNbThreads, Park, Unpark, Join
  <2>3. mpc' \in {"creating", "failed", "ending", "park", "parked", "unpark", "idle",
                  "joining", "freed"}
    BY DEF CreateFails, LowerNbThreads, Park, Unpark, Join
  <2> QED
    BY <1>1, <2>1, <2>2, <2>3 DEF IInv, TypeOK, locals
<1>5. LockHeld'
  BY Constants, <1>1 DEF IInv, LockHeld, CreateFails, LowerNbThreads, Park, Unpark, Join
<1>6. Creation'
  <2> SUFFICES ASSUME nbJobs = 0 PROVE Creation'
    BY <1>1 DEF Creation
  <2>1. /\ Cardinality(Entered) = currentJob
        /\ \A w \in Workers : wpc[w] \notin {"run", "finish"}
        /\ mpc \notin {"ending", "joining", "freed"} => nbThreads = NbThreads
    BY DEF IInv, Creation
  <2>2. mpc' \notin {"ending", "joining", "freed"} =>
           mpc \notin {"ending", "joining", "freed"} /\ nbThreads' = nbThreads
    BY <1>1 DEF CreateFails, LowerNbThreads, Park, Unpark, Join
  <2>3. mpc' = "idle" => currentJob = nbThreads + 0 /\ nbThreads' = nbThreads
    BY <1>1 DEF CreateFails, LowerNbThreads, Park, Unpark, Join, AllDone
  <2>4. nbThreads + 0 = nbThreads
    BY Constants DEF IInv, TypeOK
  <2> QED
    BY <1>1, <1>2, <2>1, <2>2, <2>3, <2>4 DEF Creation
<1>7. Batch'
  <2> SUFFICES ASSUME nbJobs > 0 PROVE Batch'
    BY <1>1 DEF Batch
  <2>1. Park \/ Unpark \/ Join
    BY DEF IInv, Batch, CreateFails, LowerNbThreads
  <2>2. /\ UNCHANGED nbThreads
        /\ mpc' \in {"park", "parked", "unpark", "idle", "joining", "freed"}
        /\ mpc' \in {"idle", "joining", "freed"} => currentJob = nbThreads + nbJobs
    BY <2>1 DEF IInv, Batch, Park, Unpark, Join, AllDone, pool
  <2> QED
    BY <1>1, <1>2, <2>2 DEF IInv, Batch
<1> QED
  BY <1>2, <1>4, <1>5, <1>6, <1>7 DEF IInv

LEMMA WakeHolds ==
    ASSUME IInv, End \/ SpuriousWakeup \/ \E w \in Workers : Wake(w)
    PROVE  IInv'
<1>1. /\ UNCHANGED <<nbThreads, nbJobs, currentJob, currentExecute, rets, locals, executes>>
      /\ \A w \in Workers : wpc'[w] = wpc[w] \/ {wpc[w], wpc'[w]} \subseteq Asleep
      /\ wpc' \in [Workers -> {"none", "created", "enter", "head", "sleepy", "waiting",
                               "awake", "run", "finish", "exited"}]
  <2>1. CASE End
    BY <2>1 DEF IInv, TypeOK, End, Woken, Asleep, locals
  <2>2. CASE SpuriousWakeup
    BY <2>2 DEF IInv, TypeOK, SpuriousWakeup, Asleep, pool, locals
  <2>3. ASSUME NEW w \in Workers, Wake(w)
        PROVE  <1>1!1 /\ <1>1!2 /\ <1>1!3
    BY <2>3 DEF IInv, TypeOK, Wake, Acquire, Asleep, pool, locals
  <2> QED
    BY <2>1, <2>2, <2>3
<1>2. /\ Entered' = Entered /\ Counted' = Counted /\ NumbersDistinct'
      /\ nbJobs > 0 => ClaimsHold'
      /\ \A w \in Workers : wpc'[w] \in {"run", "finish"} <=> wpc[w] \in {"run", "finish"}
  BY <1>1, WaitKeepsClaims
<1>3. \/ mpc' = mpc
      \/ mpc \in {"idle", "ending"} /\ mpc' = "joining"
      \/ mpc = "parked" /\ mpc' = "unpark"
  BY DEF End, SpuriousWakeup, Wake
<1>4. TypeOK'
  <2>1. done' \in BOOLEAN
    BY Zenon DEF IInv, TypeOK, End, SpuriousWakeup, Wake, pool
  <2>1a. spurious' \in 0 .. MaxSpurious
    BY Constants DEF IInv, TypeOK, End, SpuriousWakeup, Wake
  <2>2. lock' \in Workers \cup {Main, Free}
    BY DEF IInv, TypeOK, End, SpuriousWakeup, Wake, Acquire
  <2> QED
    BY <1>1, <1>3, <2>1, <2>1a, <2>2 DEF IInv, TypeOK, locals
<1>5. LockHeld'
  <2>1. CASE End \/ SpuriousWakeup
    <3>1. lock' = lock /\ \A w \in Workers : wpc'[w] \in {"head", "sleepy"} => wpc[w] = wpc'[w]
      BY <2>1 DEF IInv, TypeOK, End, SpuriousWakeup, Woken
    <3> QED
      BY <1>3, <3>1 DEF IInv, LockHeld
  <2>2. ASSUME NEW w \in Workers, Wake(w) PROVE LockHeld'
    BY <2>2, Constants DEF IInv, TypeOK, LockHeld, Wake, Acquire
  <2> QED
    BY <2>1, <2>2
<1>6. Creation'
  BY <1>1, <1>2, <1>3 DEF IInv, Creation
<1>7. Batch'
  BY <1>1, <1>2, <1>3 DEF IInv, Batch
<1> QED
  BY <1>2, <1>4, <1>5, <1>6, <1>7 DEF IInv

-----------------------------------------------------------------------------
(* The creation of the workers and their first steps, all before the first *)
(* batch.                                                                  *)

LEMMA CreateWorkerHolds == ASSUME IInv, NEW w \in Workers, CreateWorker(w) PROVE IInv'
<1>1. /\ UNCHANGED <<lock, pool, rets, locals, executes, spurious>>
      /\ wpc[w] = "none" /\ wpc' = [wpc EXCEPT ![w] = "created"]
      /\ mpc = "creating" /\ mpc' \in {"creating", "park"}
      /\ lock = Main /\ nbJobs = 0 /\ TypeOK
  BY Constants DEF IInv, TypeOK, LockHeld, Batch, CreateWorker
<1>2. Entered' = Entered
  BY <1>1 DEF TypeOK, Entered
<1>3. TypeOK'
  BY <1>1 DEF TypeOK, pool, locals
<1>4. LockHeld' /\ NumbersDistinct'
  BY <1>1, <1>2 DEF IInv, TypeOK, LockHeld, NumbersDistinct, pool, locals
<1>5. Creation' /\ Batch'
  BY <1>1, <1>2 DEF IInv, TypeOK, Creation, Batch, pool
<1> QED
  BY <1>3, <1>4, <1>5 DEF IInv

LEMMA StartHolds == ASSUME IInv, NEW w \in Workers, Start(w) PROVE IInv'
<1>1. /\ UNCHANGED <<lock, mpc, pool, rets, selfId, lastExecute, executes, spurious>>
      /\ wpc[w] = "created" /\ wpc' = [wpc EXCEPT ![w] = "enter"]
      /\ ourJob' = [ourJob EXCEPT ![w] = nbJobs]
      /\ localThreads' = [localThreads EXCEPT ![w] = nbThreads]
      /\ TypeOK
  BY DEF IInv, Start
<1>2. Entered' = Entered /\ w \notin Entered
  BY <1>1 DEF TypeOK, Entered
<1>3. nbJobs = 0
  BY <1>1, <1>2, Constants DEF IInv, TypeOK, Batch
<1>4. TypeOK'
  BY <1>1, Constants DEF TypeOK, pool
<1>5. LockHeld' /\ NumbersDistinct'
  BY <1>1, <1>2 DEF IInv, TypeOK, LockHeld, NumbersDistinct, pool
<1>6. Creation' /\ Batch'
  BY <1>1, <1>2, <1>3 DEF IInv, TypeOK, Creation, Batch, pool
<1> QED
  BY <1>4, <1>5, <1>6 DEF IInv

\* A worker takes the next number; the workers that have one are one more.
LEMMA EnterHolds == ASSUME IInv, NEW w \in Workers, Enter(w) PROVE IInv'
<1>1. /\ UNCHANGED <<mpc, nbThreads, nbJobs, currentExecute, done, rets, ourJob,
                     lastExecute, localThreads, executes, spurious>>
      /\ lock = Free /\ lock' = w
      /\ wpc[w] = "enter" /\ wpc' = [wpc EXCEPT ![w] = "head"]
      /\ selfId' = [selfId EXCEPT ![w] = currentJob] /\ currentJob' = currentJob + 1
      /\ TypeOK
  BY DEF IInv, Enter, Acquire
<1>2. w \notin Entered /\ Entered' = Entered \cup {w}
  BY <1>1 DEF TypeOK, Entered
<1>3. nbJobs = 0
  BY <1>1, <1>2, Constants DEF IInv, TypeOK, Batch
<1>4. Cardinality(Entered) = currentJob /\ currentJob \in Nat
  BY <1>3, EnteredCount DEF IInv, Creation
<1>5. Cardinality(Entered') = currentJob + 1
  BY <1>2, <1>4, EnteredCount, FS_AddElement
<1>6. Entered' \subseteq Workers /\ Cardinality(Entered') <= NbThreads
  <2>1. Entered' \subseteq Workers
    BY <1>2, EnteredCount
  <2> QED
    BY <2>1, Constants, FS_Subset DEF NbThreads
<1>7. currentJob' \in 0 .. NbThreads + nbJobs /\ currentJob < NbThreads
  BY <1>1, <1>3, <1>4, <1>5, <1>6, Constants
<1>8. TypeOK'
  BY <1>1, <1>4, <1>7 DEF TypeOK
<1>9. LockHeld'
  BY <1>1, Constants DEF IInv, TypeOK, LockHeld
<1>10. NumbersDistinct'
  <2>1. \A u \in Entered : selfId[u] \in Nat /\ selfId[u] < currentJob /\ selfId[u] < NbThreads
    BY <1>3, <1>1, EnteredCount DEF IInv, NumbersDistinct, TypeOK
  <2>2. \A u \in Entered : u \in Workers /\ u # w /\ selfId'[u] = selfId[u]
    BY <1>1, <1>2, EnteredCount DEF TypeOK
  <2>3. selfId'[w] = currentJob
    BY <1>1 DEF TypeOK
  <2>4. \A u \in Entered' : selfId'[u] < NbThreads /\ selfId'[u] < currentJob'
    BY <1>1, <1>2, <1>4, <1>7, <2>1, <2>2, <2>3, Constants
  <2>5. \A u, v \in Entered' : u # v => selfId'[u] # selfId'[v]
    BY <1>2, <1>4, <2>1, <2>2, <2>3 DEF IInv, NumbersDistinct
  <2> QED
    BY <2>4, <2>5 DEF NumbersDistinct
<1>11. mpc # "idle"
  BY <1>3, <1>4, <1>7 DEF IInv, Creation
<1>12. Creation'
  BY <1>1, <1>3, <1>5, <1>11 DEF IInv, TypeOK, Creation
<1>13. Batch'
  BY <1>1, <1>3 DEF Batch
<1> QED
  BY <1>8, <1>9, <1>10, <1>12, <1>13 DEF IInv

-----------------------------------------------------------------------------
(* Batches. *)

\* A batch starts with every worker asleep: those that have not seen it have
\* their own number for a claim, and nothing is counted.
LEMMA ExecuteHolds == ASSUME IInv, Execute PROVE IInv'
<1>1. /\ mpc = "idle" /\ mpc' = "park" /\ lock = Free /\ lock' = Main
      /\ executes < MaxExecutes /\ executes' = executes + 1
      /\ currentJob' = nbThreads
      /\ nbJobs' \in 1 .. MaxJobs /\ rets' = [j \in 0 .. nbJobs' - 1 |-> 0]
      /\ currentExecute' = (currentExecute + 1) % ExecuteModulus
      /\ wpc' = Woken
      /\ UNCHANGED <<nbThreads, done, locals, spurious>>
      /\ TypeOK
  BY DEF IInv, Execute, FirstFreeJob
<1>2. nbThreads = NbThreads /\ Entered = Workers
  <2>1. CASE nbJobs = 0
    BY <1>1, <2>1, EnteredCount DEF IInv, Creation
  <2>2. CASE nbJobs > 0
    BY <2>2 DEF IInv, Batch
  <2> QED
    BY <1>1, <2>1, <2>2, Constants DEF TypeOK
<1>3. \A w \in Workers : wpc[w] \notin {"run", "finish"}
  <2>1. CASE nbJobs = 0
    BY <2>1 DEF IInv, Creation
  <2>2. CASE nbJobs > 0
    BY <1>1, <2>2, AllCounted DEF IInv, Batch
  <2> QED
    BY <1>1, <2>1, <2>2, Constants DEF TypeOK
<1>4. \A w \in Workers : wpc[w] \notin {"head", "sleepy"}
  BY <1>1, Constants DEF IInv, LockHeld
<1>5. /\ wpc' \in [Workers -> {"none", "created", "enter", "head", "sleepy", "waiting",
                               "awake", "run", "finish", "exited"}]
      /\ \A w \in Workers : wpc'[w] = IF wpc[w] = "waiting" THEN "awake" ELSE wpc[w]
  BY <1>1 DEF TypeOK, Woken
<1>6. Entered' = Workers
  BY <1>2, <1>5 DEF Entered
<1>7. nbJobs' \in Nat /\ nbJobs' > 0 /\ nbThreads \in Nat
  BY <1>1, Constants DEF TypeOK
<1>8. TypeOK'
  <2>1. rets' \in [0 .. nbJobs' - 1 -> 0 .. 1]
    BY <1>1
  <2>2. currentExecute' \in 0 .. ExecuteModulus - 1
    BY <1>1, Constants DEF TypeOK
  <2>3. nbJobs' \in 0 .. MaxJobs
    BY <1>1, Constants
  <2>4. executes' \in 0 .. MaxExecutes
    BY <1>1, Constants DEF TypeOK
  <2>5. currentJob' \in 0 .. NbThreads + nbJobs'
    <3>1. currentJob' = nbThreads /\ nbThreads = NbThreads
      BY <1>1, <1>2
    <3>2. \A n, k \in Nat : n \in 0 .. n + k
      OBVIOUS
    <3>3. nbThreads \in 0 .. nbThreads + nbJobs'
      BY <3>2, <1>7
    <3> QED
      BY <3>1, <3>3
  <2> QED
    BY <1>1, <1>5, <2>1, <2>2, <2>3, <2>4, <2>5 DEF TypeOK, locals
<1>9. LockHeld'
  BY <1>1, <1>4, <1>5 DEF LockHeld
<1>10. NumbersDistinct'
  BY <1>1, <1>2, <1>6, <1>7 DEF IInv, NumbersDistinct, locals
<1>11. Counted' = {}
  BY <1>1 DEF Counted
<1>12. \A w \in Workers : ~Active(w)' /\ Claim(w)' = selfId[w]
  BY <1>1, <1>3, <1>4, <1>5 DEF Active, Claim, locals
<1>13. ClaimsHold'
  <2>1. \A w \in Workers : wpc'[w] \notin {"run", "finish"}
    BY <1>3, <1>5
  <2>2. \A w \in Workers : selfId[w] \in Nat /\ selfId[w] < nbThreads
    BY <1>1, <1>2 DEF IInv, TypeOK, NumbersDistinct
  <2>3. \A w \in Workers : Claim(w)' < currentJob'
    BY <1>1, <1>12, <2>2
  <2>4. \A w \in Workers : Claim(w)' < nbJobs' => rets'[Claim(w)'] = 0
    BY <1>1, <1>7, <1>12, <2>2
  <2>5. \A w, u \in Workers : w # u => Claim(w)' # Claim(u)'
    BY <1>2, <1>12 DEF IInv, NumbersDistinct
  <2> QED
    BY <1>12, <2>1, <2>3, <2>4, <2>5 DEF ClaimsHold
<1>14. Creation'
  BY <1>7 DEF Creation
<1>15. Batch'
  <2>1. Cardinality(Counted') = currentJob' - nbThreads'
    BY <1>1, <1>7, <1>11, FS_EmptySet
  <2>2. \A j \in 0 .. nbJobs' - 1 : rets'[j] = 0
    BY <1>1
  <2>3. NbThreads' <= currentJob' /\ nbThreads' = NbThreads'
    BY <1>1, <1>2, Constants DEF NbThreads
  <2> QED
    BY <1>1, <1>6, <1>13, <2>1, <2>2, <2>3 DEF Batch
<1> QED
  BY <1>8, <1>9, <1>10, <1>14, <1>15 DEF IInv

\* The holder of the lock is the only worker that can be at the head or about
\* to wait, and the graph's thread is then not in a section of its own.
LEMMA HolderAlone ==
    ASSUME IInv, NEW w \in Workers, lock = w
    PROVE  /\ \A u \in Workers : wpc[u] \in {"head", "sleepy"} => u = w
           /\ mpc \notin {"creating", "park"}
  BY Constants DEF IInv, LockHeld

\* What a batch's claims and counts need of a step of one worker by which it
\* keeps or drops its claim.
LEMMA ClaimKept ==
    ASSUME IInv, NEW w \in Workers, wpc[w] \in {"head", "sleepy"},
           NEW to \in {"run", "head", "sleepy", "exited"},
           wpc' = [wpc EXCEPT ![w] = to],
           UNCHANGED <<nbJobs, currentJob, currentExecute, rets, selfId>>,
           \A u \in Workers \ {w} : ourJob'[u] = ourJob[u] /\ lastExecute'[u] = lastExecute[u],
           to = "run" => ourJob'[w] < nbJobs,
           nbJobs > 0 => /\ Active(w)' => lastExecute'[w] = currentExecute
                         /\ Claims(w)' => Claims(w) /\ Claim(w)' = Claim(w)
    PROVE  /\ Entered' = Entered /\ Counted' = Counted
           /\ NumbersDistinct'
           /\ nbJobs > 0 => ClaimsHold'
<1>0. TypeOK
  BY DEF IInv
<1>1. Entered' = Entered
  BY <1>0 DEF TypeOK, Entered
<1>2. Counted' = Counted
  <2>1. \A u \in Workers : /\ wpc'[u] = "finish" <=> wpc[u] = "finish"
                           /\ wpc[u] = "finish" => ourJob'[u] = ourJob[u]
    BY <1>0 DEF TypeOK
  <2> QED
    BY <2>1 DEF Counted
<1>3. NumbersDistinct'
  BY <1>1 DEF IInv, NumbersDistinct
<1>4. ASSUME nbJobs > 0 PROVE ClaimsHold'
  <2>0. ClaimsHold
    BY <1>4 DEF IInv, Batch
  <2>1. \A u \in Workers \ {w} : /\ wpc'[u] = wpc[u] /\ (Active(u)' <=> Active(u))
                                 /\ (Claims(u)' <=> Claims(u)) /\ Claim(u)' = Claim(u)
    BY <1>0 DEF TypeOK, Active, Unseen, Claims, Claim
  <2>2. wpc'[w] = to /\ wpc[w] # "finish" /\ to # "finish"
    BY <1>0 DEF TypeOK
  <2>3. \A u \in Workers : Active(u)' => lastExecute'[u] = currentExecute
    BY <1>4, <2>0, <2>1 DEF ClaimsHold
  <2>4. \A u \in Workers : wpc'[u] \in {"run", "finish"} => ourJob'[u] < nbJobs
    BY <2>0, <2>1, <2>2 DEF ClaimsHold
  <2>5. \A u \in Workers : Claims(u)' =>
           /\ Claims(u) /\ Claim(u)' = Claim(u)
           /\ wpc'[u] = "finish" <=> wpc[u] = "finish"
    BY <1>4, <2>1, <2>2
  <2>6. \A u \in Workers : Claims(u)' =>
           /\ Claim(u)' < currentJob
           /\ Claim(u)' < nbJobs => rets[Claim(u)'] = IF wpc'[u] = "finish" THEN 1 ELSE 0
    BY <2>0, <2>5 DEF ClaimsHold
  <2>7. \A u, v \in Workers : u # v /\ Claims(u)' /\ Claims(v)' => Claim(u)' # Claim(v)'
    BY <2>0, <2>5 DEF ClaimsHold
  <2> QED
    BY <2>3, <2>4, <2>6, <2>7 DEF ClaimsHold
<1> QED
  BY <1>1, <1>2, <1>3, <1>4

LEMMA HeadHolds == ASSUME IInv, NEW w \in Workers, Head(w) PROVE IInv'
<1>1. /\ UNCHANGED <<pool, rets, locals, executes, spurious>>
      /\ lock = w /\ wpc[w] = "head" /\ TypeOK
      /\ \/ /\ wpc' = [wpc EXCEPT ![w] = "run"] /\ ourJob[w] < nbJobs
            /\ lock' = Free /\ mpc' = mpc
         \/ /\ wpc' = [wpc EXCEPT ![w] = "sleepy"] /\ ~(ourJob[w] < nbJobs)
            /\ lock' = lock
            /\ mpc' = mpc \/ (mpc = "parked" /\ mpc' = "unpark")
  BY DEF IInv, Head
<1>2. PICK to \in {"run", "sleepy"} :
          wpc' = [wpc EXCEPT ![w] = to] /\ (to = "run" => ourJob[w] < nbJobs)
  BY <1>1
<1>3. nbJobs > 0 => lastExecute[w] = currentExecute /\ Claims(w)
  BY <1>1 DEF IInv, Batch, ClaimsHold, Active, Claims
<1>4. wpc'[w] = to
  BY <1>1, <1>2 DEF TypeOK
<1>5. nbJobs > 0 => /\ Active(w)' => lastExecute'[w] = currentExecute
                    /\ Claims(w)' => Claims(w) /\ Claim(w)' = Claim(w)
  BY <1>1, <1>2, <1>3, <1>4 DEF Claims, Claim, Active, Unseen, pool, locals
<1>6. /\ Entered' = Entered /\ Counted' = Counted /\ NumbersDistinct'
      /\ nbJobs > 0 => ClaimsHold'
  <2>1. /\ UNCHANGED <<nbJobs, currentJob, currentExecute, rets, selfId>>
        /\ \A u \in Workers \ {w} : ourJob'[u] = ourJob[u] /\ lastExecute'[u] = lastExecute[u]
        /\ to = "run" => ourJob'[w] < nbJobs
    BY <1>1, <1>2 DEF pool, locals
  <2>2. wpc[w] \in {"head", "sleepy"} /\ to \in {"run", "head", "sleepy", "exited"}
    BY <1>1, <1>2
  <2> QED
    BY <1>2, <1>5, <2>1, <2>2, ClaimKept
<1>7. TypeOK'
  BY <1>1 DEF TypeOK, pool, locals
<1>8. LockHeld'
  BY <1>1, HolderAlone DEF TypeOK, LockHeld
<1>9. Creation'
  <2>1. nbJobs = 0 => /\ to = "sleepy"
                      /\ mpc' = "idle" => mpc = "idle"
                      /\ mpc' \notin {"ending", "joining", "freed"} =>
                            mpc \notin {"ending", "joining", "freed"}
    BY <1>1, <1>2 DEF TypeOK
  <2> QED
    BY <1>1, <1>2, <1>6, <2>1 DEF IInv, Creation, TypeOK, pool
<1>10. Batch'
  BY <1>1, <1>6 DEF IInv, Batch, pool
<1> QED
  BY <1>6, <1>7, <1>8, <1>9, <1>10 DEF IInv

\* A worker goes to wait, or takes its own number for the batch it has not
\* seen, or ends.
LEMMA SleepyHolds == ASSUME IInv, NEW w \in Workers, Sleepy(w) PROVE IInv'
<1>1. /\ UNCHANGED <<mpc, pool, rets, selfId, localThreads, executes, spurious>>
      /\ lock = w /\ wpc[w] = "sleepy" /\ TypeOK
      /\ \/ /\ lastExecute[w] = currentExecute
            /\ lock' = Free /\ wpc' = [wpc EXCEPT ![w] = "waiting"]
            /\ UNCHANGED <<lastExecute, ourJob>>
         \/ /\ lastExecute' = [lastExecute EXCEPT ![w] = currentExecute]
            /\ ourJob' = [ourJob EXCEPT ![w] = selfId[w]]
            /\ \/ lock' = Free /\ wpc' = [wpc EXCEPT ![w] = "exited"]
               \/ /\ lastExecute[w] # currentExecute
                  /\ wpc' = [wpc EXCEPT ![w] = "head"] /\ lock' = lock
  BY DEF IInv, Sleepy
<1>2. TypeOK'
  <2>1. currentExecute \in Nat
    BY <1>1, Constants DEF TypeOK
  <2>2. lastExecute' \in [Workers -> Nat] /\ ourJob' \in [Workers -> Nat]
    BY <1>1, <2>1 DEF TypeOK
  <2>3. lock' \in Workers \cup {Main, Free}
    BY <1>1
  <2>4. wpc' \in [Workers -> {"none", "created", "enter", "head", "sleepy", "waiting",
                             "awake", "run", "finish", "exited"}]
    BY <1>1 DEF TypeOK
  <2> QED
    BY <1>1, <2>2, <2>3, <2>4 DEF TypeOK, pool
<1>3. LockHeld'
  BY <1>1, HolderAlone DEF TypeOK, LockHeld
<1>4. /\ Entered' = Entered /\ Counted' = Counted /\ NumbersDistinct'
      /\ nbJobs > 0 => ClaimsHold'
      /\ \A u \in Workers : wpc'[u] \in {"run", "finish"} <=> wpc[u] \in {"run", "finish"}
  <2>1. CASE wpc' = [wpc EXCEPT ![w] = "waiting"]
    <3>1. wpc'[w] = "waiting" /\ \A u \in Workers \ {w} : wpc'[u] = wpc[u]
      BY <1>1, <2>1 DEF TypeOK
    <3>2. \A u \in Workers : wpc'[u] = wpc[u] \/ {wpc[u], wpc'[u]} \subseteq Asleep
      BY <1>1, <3>1 DEF Asleep
    <3>3. UNCHANGED <<nbJobs, currentJob, currentExecute, rets, locals>>
      BY <1>1, <3>1 DEF TypeOK, pool, locals
    <3> QED
      BY <3>2, <3>3, WaitKeepsClaims
  <2>2. ASSUME NEW to \in {"exited", "head"}, wpc' = [wpc EXCEPT ![w] = to]
        PROVE  <1>4
    <3>1. wpc'[w] = to /\ \A u \in Workers \ {w} : wpc'[u] = wpc[u]
      BY <1>1, <2>2 DEF TypeOK
    <3>2. /\ lastExecute' = [lastExecute EXCEPT ![w] = currentExecute]
          /\ ourJob' = [ourJob EXCEPT ![w] = selfId[w]]
          /\ to = "head" => lastExecute[w] # currentExecute
      BY <1>1, <3>1 DEF TypeOK
    <3>3. /\ lastExecute'[w] = currentExecute /\ ourJob'[w] = selfId[w]
          /\ \A u \in Workers \ {w} : ourJob'[u] = ourJob[u] /\ lastExecute'[u] = lastExecute[u]
      BY <1>1, <3>2 DEF TypeOK
    <3>4. Claims(w)' => Claims(w) /\ Claim(w)' = Claim(w)
      BY <1>1, <3>1, <3>2, <3>3 DEF Claims, Claim, Active, Unseen, pool
    <3>5. UNCHANGED <<nbJobs, currentJob, currentExecute, rets, selfId>>
      BY <1>1 DEF pool
    <3>6. /\ Entered' = Entered /\ Counted' = Counted /\ NumbersDistinct'
          /\ nbJobs > 0 => ClaimsHold'
      BY <1>1, <2>2, <3>3, <3>4, <3>5, ClaimKept
    <3> QED
      BY <1>1, <3>1, <3>6
  <2> QED
    BY <1>1, <2>1, <2>2
<1>5. Creation' /\ Batch'
  BY <1>1, <1>4 DEF IInv, Creation, Batch, TypeOK, pool
<1> QED
  BY <1>2, <1>3, <1>4, <1>5 DEF IInv

\* A job's number is its place in the results: it is smaller than their number.
LEMMA Remainder == \A a, b \in Nat : a < b => a % b = a
  OBVIOUS

\* The job has run and is not yet counted.
LEMMA RunHolds == ASSUME IInv, NEW w \in Workers, Run(w) PROVE IInv'
<1>1. /\ UNCHANGED <<lock, mpc, pool, locals, executes, spurious>>
      /\ wpc[w] = "run" /\ wpc' = [wpc EXCEPT ![w] = "finish"]
      /\ rets' = [rets EXCEPT ![ourJob[w] % nbJobs] = @ + 1]
      /\ TypeOK
  BY DEF IInv, Run
<1>2. nbJobs > 0 /\ ClaimsHold
  <2>1. nbJobs # 0
    BY <1>1 DEF IInv, Creation
  <2>2. nbJobs \in Nat
    BY <1>1, Constants DEF TypeOK
  <2> QED
    BY <2>1, <2>2 DEF IInv, Batch
<1>3. ourJob[w] \in Nat /\ nbJobs \in Nat /\ ourJob[w] < nbJobs /\ ourJob[w] % nbJobs = ourJob[w]
  BY <1>1, <1>2, Remainder, Constants DEF TypeOK, ClaimsHold
<1> DEFINE job == ourJob[w]
<1>4. job \in 0 .. nbJobs - 1 /\ rets[job] = 0 /\ job < currentJob
  BY <1>1, <1>2, <1>3 DEF ClaimsHold, Claims, Claim, Active
<1>5. /\ rets' \in [0 .. nbJobs - 1 -> 0 .. 1] /\ rets'[job] = 1
      /\ \A j \in 0 .. nbJobs - 1 : j # job => rets'[j] = rets[j]
  BY <1>1, <1>3, <1>4 DEF TypeOK
<1>6. TypeOK'
  BY <1>1, <1>5 DEF TypeOK, pool, locals
<1>7. wpc'[w] = "finish" /\ \A u \in Workers \ {w} : wpc'[u] = wpc[u]
  BY <1>1 DEF TypeOK
<1>8. Entered' = Entered
  BY <1>1, <1>7 DEF Entered
<1>9. LockHeld' /\ NumbersDistinct'
  BY <1>1, <1>7, <1>8 DEF IInv, LockHeld, NumbersDistinct, pool, locals
<1>10. Counted' = Counted
  <2>1. job \notin Counted /\ job \notin Counted'
    BY <1>1, <1>4, <1>7 DEF Counted, locals
  <2>2. \A j \in 0 .. nbJobs - 1 : j # job => (j \in Counted' <=> j \in Counted)
    BY <1>1, <1>5, <1>7 DEF Counted, pool, locals
  <2> QED
    BY <1>1, <2>1, <2>2 DEF Counted, pool
<1>11. \A u \in Workers : (Active(u)' <=> Active(u)) /\ (Claims(u)' <=> Claims(u)) /\ Claim(u)' = Claim(u)
  BY <1>1, <1>7 DEF Active, Unseen, Claims, Claim, pool, locals
<1>12. \A u \in Workers : Claims(u) /\ u # w => Claim(u) # job
  BY <1>1, <1>2 DEF ClaimsHold, Claims, Claim, Active
<1>13. \A u \in Workers : Claim(u) \in Nat
  BY <1>1 DEF TypeOK, Claim
<1>14. ClaimsHold'
  <2>1. \A u \in Workers : Claims(u)' /\ Claim(u)' < nbJobs =>
           rets'[Claim(u)'] = IF wpc'[u] = "finish" THEN 1 ELSE 0
    <3> SUFFICES ASSUME NEW u \in Workers, Claims(u), Claim(u) < nbJobs
                 PROVE  rets'[Claim(u)] = IF wpc'[u] = "finish" THEN 1 ELSE 0
      BY <1>11
    <3>1. CASE u = w
      BY <1>1, <1>5, <1>7, <3>1 DEF Claim, Active
    <3>2. CASE u # w
      BY <1>2, <1>3, <1>5, <1>7, <1>12, <1>13, <3>2 DEF ClaimsHold
    <3> QED
      BY <3>1, <3>2
  <2>2. \A u \in Workers : Active(u)' => lastExecute'[u] = currentExecute'
    BY <1>1, <1>2, <1>11 DEF ClaimsHold, pool, locals
  <2>3. \A u \in Workers : wpc'[u] \in {"run", "finish"} => ourJob'[u] < nbJobs'
    BY <1>1, <1>2, <1>7 DEF ClaimsHold, pool, locals
  <2>4. \A u \in Workers : Claims(u)' => Claim(u)' < currentJob'
    BY <1>1, <1>2, <1>11 DEF ClaimsHold, pool
  <2>5. \A u, v \in Workers : u # v /\ Claims(u)' /\ Claims(v)' => Claim(u)' # Claim(v)'
    BY <1>2, <1>11 DEF ClaimsHold
  <2>6. nbJobs' = nbJobs
    BY <1>1 DEF pool
  <2> QED
    BY <2>1, <2>2, <2>3, <2>4, <2>5, <2>6 DEF ClaimsHold
<1>15. Creation'
  BY <1>1, <1>2, <1>3 DEF Creation, pool
<1>16. \A j \in 0 .. nbJobs - 1 : j >= currentJob => rets'[j] = 0
  BY <1>1, <1>2, <1>3, <1>4, <1>5 DEF IInv, Batch, TypeOK
<1>17. Batch'
  BY <1>1, <1>2, <1>8, <1>10, <1>14, <1>16 DEF IInv, Batch, pool
<1> QED
  BY <1>6, <1>9, <1>15, <1>17 DEF IInv

\* The job is counted, and its worker claims the number the counter had: one
\* nobody has claimed.
LEMMA FinishHolds == ASSUME IInv, NEW w \in Workers, Finish(w) PROVE IInv'
<1>1. /\ UNCHANGED <<mpc, nbThreads, nbJobs, currentExecute, done, rets, selfId,
                     lastExecute, localThreads, executes, spurious>>
      /\ lock = Free /\ lock' = w
      /\ wpc[w] = "finish" /\ wpc' = [wpc EXCEPT ![w] = "head"]
      /\ ourJob' = [ourJob EXCEPT ![w] = currentJob] /\ currentJob' = currentJob + 1
      /\ TypeOK
  BY DEF IInv, Finish, Acquire
<1>2. nbJobs > 0 /\ ClaimsHold /\ nbThreads = NbThreads /\ NbThreads <= currentJob
  <2>1. nbJobs # 0
    BY <1>1 DEF IInv, Creation
  <2>2. nbJobs \in Nat
    BY <1>1, Constants DEF TypeOK
  <2> QED
    BY <2>1, <2>2 DEF IInv, Batch
<1>3. nbJobs \in Nat /\ currentJob \in Nat /\ nbThreads \in Nat
  BY <1>1, Constants DEF TypeOK
<1> DEFINE job == ourJob[w]
<1>4. job \in Nat /\ job \in 0 .. nbJobs - 1 /\ rets[job] = 1
  <2>1. job \in Nat /\ job < nbJobs /\ Claims(w) /\ Claim(w) = job
    BY <1>1, <1>2 DEF TypeOK, ClaimsHold, Claims, Claim, Active
  <2> QED
    BY <1>1, <1>2, <1>3, <2>1 DEF ClaimsHold
<1>5. /\ wpc'[w] = "head" /\ ourJob'[w] = currentJob
      /\ \A u \in Workers \ {w} : wpc'[u] = wpc[u] /\ ourJob'[u] = ourJob[u]
  BY <1>1 DEF TypeOK
<1>6. \A u \in Workers \ {w} : wpc[u] = "finish" => ourJob[u] # job
  BY <1>1, <1>2 DEF ClaimsHold, Claims, Claim, Active
<1>7. job \notin Counted /\ Counted' = Counted \cup {job}
  <2>1. job \notin Counted
    BY <1>1 DEF Counted
  <2>2. job \in Counted'
    BY <1>1, <1>4, <1>5, <1>6 DEF Counted
  <2>3. \A j \in 0 .. nbJobs - 1 : j # job => (j \in Counted' <=> j \in Counted)
    BY <1>1, <1>5 DEF Counted
  <2>4. Counted \subseteq 0 .. nbJobs - 1 /\ Counted' \subseteq 0 .. nbJobs - 1
    BY <1>1 DEF Counted
  <2> QED
    BY <2>1, <2>2, <2>3, <2>4, <1>4
<1>8. /\ Cardinality(Counted) = currentJob - nbThreads
      /\ Cardinality(Counted') = currentJob + 1 - nbThreads
      /\ currentJob + 1 <= nbThreads + nbJobs
  <2>1. Cardinality(Counted) = currentJob - nbThreads
    BY <1>2 DEF IInv, Batch
  <2>2. Cardinality(Counted') = Cardinality(Counted) + 1
    BY <1>1, <1>7, CountedCount, FS_AddElement
  <2>3. Cardinality(Counted') <= nbJobs
    <3>1. Counted' \subseteq 0 .. nbJobs - 1
      BY <1>1 DEF Counted
    <3>2. IsFiniteSet(0 .. nbJobs - 1) /\ Cardinality(0 .. nbJobs - 1) = nbJobs
      BY <1>3, FS_Interval
    <3> QED
      BY <3>1, <3>2, FS_Subset
  <2> QED
    BY <1>3, <2>1, <2>2, <2>3
<1>9. TypeOK'
  <2>1. currentJob' \in 0 .. NbThreads + nbJobs
    BY <1>1, <1>2, <1>3, <1>8
  <2>2. ourJob' \in [Workers -> Nat]
    BY <1>1, <1>3 DEF TypeOK
  <2> QED
    BY <1>1, <2>1, <2>2 DEF TypeOK
<1>10. Entered' = Entered
  BY <1>1, <1>5 DEF Entered
<1>11. LockHeld'
  BY <1>1, <1>5, Constants DEF IInv, TypeOK, LockHeld
<1>12. NumbersDistinct'
  BY <1>1, <1>2, <1>10 DEF IInv, NumbersDistinct
<1>13. \A u \in Workers \ {w} :
          (Active(u)' <=> Active(u)) /\ (Claims(u)' <=> Claims(u)) /\ Claim(u)' = Claim(u)
  BY <1>1, <1>5 DEF Active, Unseen, Claims, Claim
<1>14. Active(w)' /\ Claim(w)' = currentJob
  BY <1>5 DEF Active, Claim
<1>15. \A j \in 0 .. nbJobs - 1 : j >= currentJob => rets[j] = 0
  BY <1>2 DEF IInv, Batch
<1>16. \A u \in Workers : Claim(u) \in Nat
  BY <1>1 DEF TypeOK, Claim
<1>17. ClaimsHold'
  <2>1. \A u \in Workers : Active(u)' => lastExecute'[u] = currentExecute'
    BY <1>1, <1>2, <1>13 DEF ClaimsHold, Active
  <2>2. \A u \in Workers : wpc'[u] \in {"run", "finish"} => ourJob'[u] < nbJobs'
    BY <1>1, <1>2, <1>5 DEF ClaimsHold
  <2>3. \A u \in Workers : Claims(u)' => Claim(u)' < currentJob'
    BY <1>1, <1>2, <1>3, <1>13, <1>14, <1>16 DEF ClaimsHold
  <2>4. \A u \in Workers : Claims(u)' /\ Claim(u)' < nbJobs' =>
           rets'[Claim(u)'] = IF wpc'[u] = "finish" THEN 1 ELSE 0
    <3>1. currentJob < nbJobs => rets[currentJob] = 0
      BY <1>3, <1>15
    <3>2. \A u \in Workers \ {w} : Claims(u) /\ Claim(u) < nbJobs =>
             rets[Claim(u)] = IF wpc[u] = "finish" THEN 1 ELSE 0
      BY <1>2 DEF ClaimsHold
    <3> QED
      BY <1>1, <1>5, <1>13, <1>14, <3>1, <3>2
  <2>5. \A u \in Workers \ {w} : Claims(u)' => Claim(u)' # Claim(w)'
    BY <1>2, <1>3, <1>13, <1>14, <1>16 DEF ClaimsHold
  <2>6. \A u, v \in Workers : u # v /\ Claims(u)' /\ Claims(v)' => Claim(u)' # Claim(v)'
    BY <1>2, <1>13, <2>5 DEF ClaimsHold
  <2> QED
    BY <2>1, <2>2, <2>3, <2>4, <2>6 DEF ClaimsHold
<1>18. mpc \notin {"idle", "joining", "freed"}
  BY <1>2, <1>3, <1>8 DEF IInv, Batch
<1>19. Creation'
  BY <1>1, <1>2, <1>3 DEF Creation
<1>20. Batch'
  <2>1. nbThreads' = NbThreads' /\ NbThreads' <= currentJob'
    BY <1>1, <1>2, <1>3 DEF NbThreads
  <2>2. Cardinality(Counted') = currentJob' - nbThreads'
    <3>1. currentJob' = currentJob + 1 /\ nbThreads' = nbThreads
      BY <1>1
    <3>2. currentJob' - nbThreads' = currentJob + 1 - nbThreads
      BY <1>3, <3>1, SMT
    <3> QED
      BY <1>8, <3>2, Zenon
  <2>3. \A j \in 0 .. nbJobs' - 1 : j >= currentJob' => rets'[j] = 0
    BY <1>1, <1>3, <1>15
  <2>4. Entered' = Workers /\ mpc' \in {"park", "parked", "unpark"}
    BY <1>1, <1>2, <1>10, <1>18 DEF IInv, Batch
  <2> QED
    BY <1>17, <2>1, <2>2, <2>3, <2>4 DEF Batch
<1> QED
  BY <1>9, <1>11, <1>12, <1>19, <1>20 DEF IInv

LEMMA NextHolds == IInv /\ [Next]_vars => IInv'
<1> SUFFICES ASSUME IInv, [Next]_vars PROVE IInv'
  OBVIOUS
<1>1. CASE UNCHANGED vars
  <2>1. /\ \A w \in Workers : wpc'[w] = wpc[w]
        /\ UNCHANGED <<nbJobs, currentJob, currentExecute, rets, locals>>
    BY <1>1 DEF vars, pool
  <2>2. Entered' = Entered /\ Counted' = Counted /\ NumbersDistinct' /\ (nbJobs > 0 => ClaimsHold')
    BY <2>1, WaitKeepsClaims
  <2> QED
    BY <1>1, <2>2 DEF IInv, TypeOK, LockHeld, Creation, Batch, vars, pool, locals
<1>2. CASE MainStep \/ CreateFails
  BY <1>2, MainHolds, CreateWorkerHolds DEF MainStep
<1>3. CASE Execute \/ End \/ SpuriousWakeup
  BY <1>3, ExecuteHolds, WakeHolds
<1>4. ASSUME NEW w \in Workers, WorkerStep(w) PROVE IInv'
  BY <1>4, StartHolds, EnterHolds, HeadHolds, SleepyHolds, WakeHolds, RunHolds, FinishHolds
     DEF WorkerStep
<1> QED
  BY <1>1, <1>2, <1>3, <1>4 DEF Next, Freed

\* Every reachable state satisfies the invariant: what each variable holds, where
\* the claims of the workers are, and what the counter counts.
THEOREM Invariance == Spec => []IInv
<1>1. Init => IInv
  BY InitHolds
<1>2. IInv /\ [Next]_vars => IInv'
  BY NextHolds
<1> QED
  BY <1>1, <1>2, PTL DEF Spec

\* ThreadContext and the workers' locals keep their types; in particular a job's
\* result is stored at most once in a batch, and the counter stays at or below the
\* number of threads and jobs.
THEOREM TypeCorrect == Spec => []TypeOK
<1>1. IInv => TypeOK
  BY DEF IInv
<1> QED
  BY <1>1, Invariance, PTL

\* slice_thread_execute and slice_thread_uninit find no worker in a job or with
\* a result to store, whatever the number of workers and jobs.
THEOREM WorkersAreParked == Spec => []ParkedOutsideExecute
<1>1. IInv => ParkedOutsideExecute
  <2> SUFFICES ASSUME IInv, mpc \in {"idle", "joining", "freed"}
               PROVE  \A w \in Workers : wpc[w] \notin {"run", "finish"}
    BY DEF ParkedOutsideExecute
  <2>1. CASE nbJobs = 0
    BY <2>1 DEF IInv, Creation
  <2>2. CASE nbJobs > 0
    BY <2>2, AllCounted DEF IInv, Batch
  <2>3. nbJobs \in Nat
    BY Constants DEF IInv, TypeOK
  <2> QED
    BY <2>1, <2>2, <2>3
<1> QED
  BY <1>1, Invariance, PTL

-----------------------------------------------------------------------------
(* Every step of the pool is a step of ParallelFor or leaves its state alone. *)

ToDo == (0 .. nbJobs - 1) \ (Running \cup Finished)
JobState == <<Calling, ToDo, Running, Finished>>

\* What a worker is running or about to run is a job of the batch, its own, with
\* no result yet.
LEMMA RunningJobs ==
    ASSUME IInv, NEW w \in Workers,
           wpc[w] = "run" \/ (wpc[w] = "head" /\ ourJob[w] < nbJobs)
    PROVE  /\ nbJobs > 0 /\ ourJob[w] \in 0 .. nbJobs - 1 /\ rets[ourJob[w]] = 0
           /\ \A u \in Workers \ {w} : wpc[u] = "run" => ourJob[u] # ourJob[w]
           /\ Calling
<1>1. TypeOK /\ nbJobs \in Nat /\ ourJob[w] \in Nat
  BY Constants DEF IInv, TypeOK
<1>2. nbJobs > 0
  BY <1>1 DEF IInv, Creation, TypeOK
<1>3. ClaimsHold /\ mpc \in {"park", "parked", "unpark", "idle", "joining", "freed"}
  BY <1>2 DEF IInv, Batch
<1>4. Active(w) /\ Claims(w) /\ Claim(w) = ourJob[w] /\ ourJob[w] \in Nat /\ ourJob[w] < nbJobs
  BY <1>1, <1>3 DEF Active, Claims, Claim, ClaimsHold, TypeOK
<1>5. ourJob[w] \in 0 .. nbJobs - 1 /\ rets[ourJob[w]] = 0
  BY <1>1, <1>3, <1>4 DEF ClaimsHold
<1>6. \A u \in Workers \ {w} : wpc[u] = "run" => ourJob[u] # ourJob[w]
  BY <1>3, <1>4 DEF Active, Claims, Claim, ClaimsHold
<1>7. mpc \notin {"idle", "joining", "freed"}
  <2>1. mpc \in {"idle", "joining", "freed"} => currentJob = nbThreads + nbJobs
    BY <1>2 DEF IInv, Batch
  <2>2. mpc \in {"idle", "joining", "freed"} => ourJob[w] >= nbJobs
    BY <1>2, <1>4, <2>1, AllCounted
  <2> QED
    BY <1>1, <1>4, <2>2
<1> QED
  BY <1>2, <1>3, <1>5, <1>6, <1>7 DEF Calling

\* A step that starts and ends no job changes only whether a call is in progress.
LEMMA JobsUntouched ==
    ASSUME IInv, UNCHANGED <<nbJobs, rets, ourJob>>,
           \A w \in Workers : (wpc'[w] = "run") <=> (wpc[w] = "run")
    PROVE  Running' = Running /\ Finished' = Finished /\ ToDo' = ToDo
<1>1. {v \in Workers : wpc'[v] = "run"} = {v \in Workers : wpc[v] = "run"}
  OBVIOUS
<1>2. Running' = Running /\ Finished' = Finished
  BY <1>1 DEF Running, Finished
<1> QED
  BY <1>2 DEF ToDo

\* The jobs at the step that starts one.
LEMMA HeadRefines == ASSUME IInv, NEW w \in Workers, Head(w) PROVE [Jobs!Next]_JobState
<1>1. /\ UNCHANGED <<pool, rets, locals, executes, spurious>> /\ TypeOK
      /\ wpc[w] = "head" /\ mpc' \in {mpc, "unpark"} /\ (mpc' # mpc => mpc = "parked")
  BY DEF IInv, Head
<1>2. Calling' = Calling
  BY <1>1 DEF Calling, pool
<1>3. CASE ~(ourJob[w] < nbJobs)
  <2>1. wpc' = [wpc EXCEPT ![w] = "sleepy"]
    BY <1>3 DEF Head
  <2>2. \A v \in Workers : (wpc'[v] = "run") <=> (wpc[v] = "run")
    BY <1>1, <2>1 DEF TypeOK
  <2> QED
    BY <1>1, <1>2, <2>2, JobsUntouched DEF JobState, pool, locals
<1>4. CASE ourJob[w] < nbJobs
  <2> DEFINE job == ourJob[w]
  <2>1. wpc' = [wpc EXCEPT ![w] = "run"] /\ job \in Nat /\ nbJobs \in Nat /\ nbJobs > 0
    BY <1>1, <1>4, Constants DEF Head, TypeOK
  <2>2. wpc'[w] = "run" /\ \A v \in Workers \ {w} : wpc'[v] = wpc[v]
    BY <1>1, <2>1 DEF TypeOK
  <2>3. /\ Calling /\ job \in 0 .. nbJobs - 1 /\ rets[job] = 0
        /\ \A v \in Workers \ {w} : wpc[v] = "run" => ourJob[v] # job
    BY <1>1, <1>4, RunningJobs
  <2>4. Running' = Running \cup {job}
    BY <1>1, <2>2 DEF Running, locals
  <2>5. job \notin Running
    BY <1>1, <2>3 DEF Running
  <2>6. Finished' = Finished /\ job \notin Finished
    BY <1>1, <2>3 DEF Finished, pool
  <2>7. job \in ToDo /\ ToDo' = ToDo \ {job}
    BY <1>1, <2>3, <2>4, <2>5, <2>6 DEF ToDo, pool
  <2> QED
    BY <1>2, <2>3, <2>4, <2>6, <2>7 DEF Jobs!Next, Jobs!Begin, ToDo
<1> QED
  BY <1>3, <1>4

\* ... and at the step that ends one.
LEMMA RunRefines == ASSUME IInv, NEW w \in Workers, Run(w) PROVE [Jobs!Next]_JobState
<1> DEFINE job == ourJob[w]
<1>1. /\ UNCHANGED <<lock, mpc, pool, locals, executes, spurious>> /\ TypeOK
      /\ wpc[w] = "run" /\ wpc' = [wpc EXCEPT ![w] = "finish"]
      /\ rets' = [rets EXCEPT ![job % nbJobs] = @ + 1]
  BY DEF IInv, Run
<1>2. /\ nbJobs > 0 /\ job \in 0 .. nbJobs - 1 /\ rets[job] = 0 /\ Calling
      /\ \A v \in Workers \ {w} : wpc[v] = "run" => ourJob[v] # job
  BY <1>1, RunningJobs
<1>3. nbJobs \in Nat /\ job \in Nat /\ job < nbJobs /\ job % nbJobs = job
  <2>1. nbJobs \in Nat /\ job \in Nat /\ job < nbJobs
    BY <1>1, <1>2, Constants DEF TypeOK
  <2> QED
    BY <2>1, Remainder
<1>4. rets'[job] = 1 /\ \A j \in 0 .. nbJobs - 1 : j # job => rets'[j] = rets[j]
  BY <1>1, <1>2, <1>3 DEF TypeOK
<1>5. wpc'[w] = "finish" /\ \A v \in Workers \ {w} : wpc'[v] = wpc[v]
  BY <1>1 DEF TypeOK
<1>6. job \in Running /\ Running' = Running \ {job}
  BY <1>1, <1>2, <1>5 DEF Running, locals
<1>7. Finished' = Finished \cup {job}
  BY <1>1, <1>2, <1>3, <1>4 DEF Finished, pool
<1>8. ToDo' = ToDo /\ Calling'
  BY <1>1, <1>2, <1>6, <1>7 DEF ToDo, Calling, pool
<1> QED
  BY <1>2, <1>6, <1>7, <1>8 DEF Jobs!Next, Jobs!End, ToDo

\* A batch is a call: it starts while nobody runs a job.
LEMMA ExecuteRefines == ASSUME IInv, Execute PROVE [Jobs!Next]_JobState
<1>1. /\ mpc = "idle" /\ mpc' = "park" /\ wpc' = Woken /\ nbJobs' \in 1 .. MaxJobs
      /\ rets' = [j \in 0 .. nbJobs' - 1 |-> 0] /\ UNCHANGED locals /\ TypeOK
  BY DEF IInv, Execute
<1>2. nbJobs' \in Nat /\ nbJobs' > 0
  BY <1>1, Constants
<1>3. ~Calling /\ Calling'
  BY <1>1, <1>2 DEF Calling
<1>4. \A w \in Workers : wpc[w] # "run" /\ wpc'[w] # "run"
  BY <1>1, <1>3, RunningJobs DEF Woken
<1>5. Running = {} /\ Running' = {}
  BY <1>4 DEF Running
<1>6. Finished' = {}
  BY <1>1 DEF Finished
<1>7. ToDo' = 0 .. nbJobs' - 1
  BY <1>5, <1>6 DEF ToDo
<1>8. nbJobs' - 1 \in ToDo' /\ ToDo' = 0 .. (nbJobs' - 1)
  <2>1. \A n \in Nat : n > 0 => n - 1 \in 0 .. (n - 1)
    OBVIOUS
  <2> QED
    BY <1>2, <1>7, <2>1
<1> QED
  BY <1>3, <1>5, <1>6, <1>8 DEF Jobs!Next, Jobs!Call, ToDo

\* The call returns when all of its jobs have run.
LEMMA ParkRefines == ASSUME IInv, Park PROVE [Jobs!Next]_JobState
<1>1. /\ UNCHANGED <<wpc, pool, rets, locals, executes, spurious>> /\ TypeOK
      /\ mpc = "park" /\ mpc' = IF AllDone THEN "idle" ELSE "parked"
  BY DEF IInv, Park
<1>2. Running' = Running /\ Finished' = Finished /\ ToDo' = ToDo
  BY <1>1, JobsUntouched DEF pool, locals
<1>3. CASE ~(nbJobs > 0 /\ AllDone)
  <2>1. Calling' = Calling
    BY <1>1, <1>3 DEF Calling, pool
  <2> QED
    BY <1>2, <2>1 DEF JobState
<1>4. CASE nbJobs > 0 /\ AllDone
  <2>1. /\ \A j \in 0 .. nbJobs - 1 : rets[j] = 1
        /\ \A w \in Workers : wpc[w] \notin {"run", "finish"}
    BY <1>4, AllCounted DEF AllDone
  <2>2. Running = {} /\ Finished = 0 .. nbJobs - 1 /\ ToDo = {}
    BY <2>1 DEF Running, Finished, ToDo
  <2>3. Calling /\ ~Calling'
    BY <1>1, <1>4 DEF Calling
  <2> QED
    BY <1>2, <2>2, <2>3 DEF Jobs!Next, Jobs!Return, ToDo
<1> QED
  BY <1>3, <1>4

\* The other steps.
LEMMA OthersStutter ==
    ASSUME IInv,
           \/ LowerNbThreads \/ Unpark \/ Join \/ CreateFails \/ End \/ SpuriousWakeup
           \/ \E w \in Workers : CreateWorker(w)
    PROVE  UNCHANGED JobState
<1>1. /\ UNCHANGED <<nbJobs, rets, ourJob>> /\ Calling' = Calling
      /\ \A v \in Workers : (wpc'[v] = "run") <=> (wpc[v] = "run")
  <2>1. CASE \E w \in Workers : CreateWorker(w)
    <3>1. PICK w \in Workers : CreateWorker(w)
      BY <2>1
    <3>2. /\ UNCHANGED <<nbJobs, rets, ourJob>> /\ wpc[w] = "none" /\ mpc = "creating"
          /\ wpc' = [wpc EXCEPT ![w] = "created"] /\ mpc' \in {"park", "creating"}
      BY <3>1 DEF CreateWorker, pool, locals
    <3>3. nbJobs = 0
      BY <3>2, Constants DEF IInv, TypeOK, Batch
    <3> QED
      BY <3>2, <3>3 DEF Calling, IInv, TypeOK
  <2>2. CASE SpuriousWakeup
    BY <2>2 DEF SpuriousWakeup, Calling, IInv, TypeOK, pool, locals
  <2>3. CASE End
    BY <2>3 DEF End, Woken, Calling, IInv, TypeOK, locals
  <2>4. CASE LowerNbThreads \/ Unpark \/ Join \/ CreateFails
    BY <2>4 DEF LowerNbThreads, Unpark, Join, CreateFails, Calling, pool, locals
  <2> QED
    BY <2>1, <2>2, <2>3, <2>4
<1> QED
  BY <1>1, JobsUntouched DEF JobState

LEMMA WorkersStutter ==
    ASSUME IInv, NEW w \in Workers, Start(w) \/ Enter(w) \/ Sleepy(w) \/ Wake(w) \/ Finish(w)
    PROVE  UNCHANGED JobState
<1>1. /\ UNCHANGED <<nbJobs, rets, mpc>> /\ wpc[w] # "run"
  BY DEF Start, Enter, Sleepy, Wake, Finish, Acquire, pool
<1>2. wpc'[w] # "run" /\ \A v \in Workers \ {w} : wpc'[v] = wpc[v] /\ ourJob'[v] = ourJob[v]
  <2>1. CASE Start(w) \/ Enter(w) \/ Wake(w) \/ Finish(w)
    BY <2>1 DEF IInv, TypeOK, Start, Enter, Wake, Finish, Acquire, locals
  <2>2. CASE Sleepy(w)
    BY <2>2 DEF IInv, TypeOK, Sleepy
  <2> QED
    BY <2>1, <2>2
<1>3. Running' = Running
  BY <1>1, <1>2 DEF Running
<1> QED
  BY <1>1, <1>3 DEF JobState, ToDo, Finished, Calling

\* AVFilterGraph.execute as the filters rely on it: each batch runs every job once
\* and returns when all have run, with no job of another batch in between.
THEOREM Refinement == Spec => EveryJobOnce
<1>1. Init => Jobs!Init
  BY DEF Init, AllWorkers, Jobs!Init, Calling, Running, Finished
<1>2. IInv /\ [Next]_vars => [Jobs!Next]_Jobs!vars
  <2> SUFFICES ASSUME IInv, [Next]_vars PROVE [Jobs!Next]_JobState
    BY DEF Jobs!vars, JobState, ToDo
  <2>1. CASE UNCHANGED vars
    BY <2>1 DEF vars, pool, locals, JobState, ToDo, Calling, Running, Finished
  <2>2. CASE MainStep \/ CreateFails \/ Execute \/ End \/ SpuriousWakeup
    BY <2>2, OthersStutter, ExecuteRefines, ParkRefines DEF MainStep
  <2>3. ASSUME NEW w \in Workers, WorkerStep(w) PROVE [Jobs!Next]_JobState
    BY <2>3, WorkersStutter, HeadRefines, RunRefines DEF WorkerStep
  <2> QED
    BY <2>1, <2>2, <2>3 DEF Next, Freed
<1> QED
  BY <1>1, <1>2, Invariance, PTL DEF Spec, EveryJobOnce, Jobs!Spec
=============================================================================
