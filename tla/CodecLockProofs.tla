--------------------------- MODULE CodecLockProofs --------------------------
(***************************************************************************)
(* Safety of the lock around avcodec_open2, for any set of threads.        *)
(* Exclusion is not inductive by itself: one needs that the mutex never    *)
(* changes once it is set (a thread between its test and its swap has a    *)
(* mutex other than the one in place), that whoever is behind the lock     *)
(* owns that mutex, and that counter and flag are up exactly while someone *)
(* is between Count and Unlock.                                            *)
(***************************************************************************)
EXTENDS CodecLock, TLAPS

\* A thread past the test has a mutex to wait for, as has one that takes the
\* lock again; one before the swap has its own, not the one in place.
MutexInPlace ==
    \A t \in Threads :
        /\ pc[t] = "obtain" \/ pc[t] \in Held => mutex # NoMutex
        /\ pc[t] = "test" /\ errand[t] # "open" => mutex # NoMutex
        /\ pc[t] = "swap" => t # mutex /\ t \in made

OwnerBehind == \A t \in Threads : pc[t] \in Held => owner[mutex] = t

\* The counter and the flag are up while a thread is inside, and only then.
CountsInside ==
    /\ mutex = NoMutex \/ owner[mutex] = Nobody => entangled = 0 /\ ~locked
    /\ \A t \in Threads :
          /\ pc[t] \in {"count", "release"} => entangled = 0 /\ ~locked
          /\ pc[t] \in {"inside", "unlock"} => entangled = 1 /\ locked

IInv == TypeOK /\ MutexInPlace /\ OwnerBehind /\ CountsInside /\ OneMutex

-----------------------------------------------------------------------------
LEMMA InitIInv == Init => IInv
<1> SUFFICES ASSUME Init PROVE IInv
  OBVIOUS
<1>1. 0 \in 0 .. MaxOpens /\ 0 \in 0 .. 1
  BY LockAssumption
<1>1a. TypeOK
  BY <1>1 DEF Init, TypeOK, Places, Errands
<1>2. MutexInPlace /\ OwnerBehind /\ CountsInside /\ OneMutex
  BY DEF Init, MutexInPlace, OwnerBehind, CountsInside, OneMutex, Held
<1> QED
  BY <1>1a, <1>2 DEF IInv

\* Exclusion follows from the ownership of the one mutex.
LEMMA Exclusion == IInv => OneInside
  BY DEF IInv, OwnerBehind, OneInside

\* The assertions follow from what counter and flag say.
LEMMA Assertions == IInv => AssertsHold
  BY DEF IInv, CountsInside, AssertsHold

LEMMA OpenHolds == ASSUME IInv, NEW t \in Threads, OpenUnlocked(t) \/ Open(t) PROVE IInv'
<1>1. TypeOK'
  BY LockAssumption DEF IInv, TypeOK, OpenUnlocked, Open, Goto, Places, Errands
<1>2. MutexInPlace' /\ OneMutex'
  BY DEF IInv, TypeOK, MutexInPlace, OneMutex, OpenUnlocked, Open, Goto, Held
<1>3. OwnerBehind' /\ CountsInside'
  BY DEF IInv, TypeOK, OwnerBehind, CountsInside, OpenUnlocked, Open, Goto, Held
<1> QED
  BY <1>1, <1>2, <1>3 DEF IInv

\* The test and the swap.
LEMMA MakeHolds ==
    ASSUME IInv, NEW t \in Threads, TestSet(t) \/ TestMake(t) \/ TestFails(t) \/ Swap(t)
    PROVE  IInv'
<1>1. CASE TestSet(t)
  <2>1. TypeOK'
    BY <1>1 DEF IInv, TypeOK, TestSet, Goto, Places
  <2>2. MutexInPlace' /\ OneMutex'
    BY <1>1 DEF IInv, TypeOK, MutexInPlace, OneMutex, TestSet, Goto, Held
  <2>3. OwnerBehind' /\ CountsInside'
    BY <1>1 DEF IInv, TypeOK, OwnerBehind, CountsInside, TestSet, Goto, Held
  <2> QED
    BY <2>1, <2>2, <2>3 DEF IInv
<1>2. CASE TestMake(t)
  <2>1. TypeOK'
    BY <1>2 DEF IInv, TypeOK, TestMake, Goto, Places
  <2>2. MutexInPlace' /\ OneMutex'
    BY <1>2, LockAssumption DEF IInv, TypeOK, MutexInPlace, OneMutex, TestMake, Goto, Held
  <2>3. OwnerBehind' /\ CountsInside'
    BY <1>2 DEF IInv, TypeOK, OwnerBehind, CountsInside, MutexInPlace, TestMake, Goto, Held
  <2> QED
    BY <2>1, <2>2, <2>3 DEF IInv
<1>3. CASE TestFails(t)
  <2>0. /\ mutex = NoMutex /\ errand[t] = "open"
        /\ pc' = [pc EXCEPT ![t] = "out"] /\ errand' = errand
        /\ UNCHANGED <<mutex, owner, made, entangled, locked, opens>>
    BY <1>3 DEF TestFails, GiveUp, Goto, IInv, TypeOK, MutexInPlace
  <2>1. TypeOK'
    BY <2>0 DEF IInv, TypeOK, Places
  <2>2. MutexInPlace' /\ OneMutex'
    BY <1>3, <2>0 DEF IInv, TypeOK, MutexInPlace, OneMutex, TestFails, Held
  <2>3. OwnerBehind' /\ CountsInside'
    BY <2>0 DEF IInv, TypeOK, OwnerBehind, CountsInside, Held
  <2> QED
    BY <2>1, <2>2, <2>3 DEF IInv
<1>4. CASE Swap(t)
  <2>1. TypeOK'
    BY <1>4 DEF IInv, TypeOK, Swap, Goto, Places
  <2>2. MutexInPlace' /\ OneMutex'
    BY <1>4, LockAssumption DEF IInv, TypeOK, MutexInPlace, OneMutex, Swap, Goto, Held
  <2>3. OwnerBehind' /\ CountsInside'
    BY <1>4 DEF IInv, TypeOK, OwnerBehind, CountsInside, MutexInPlace, Swap, Goto, Held
  <2> QED
    BY <2>1, <2>2, <2>3 DEF IInv
<1> QED
  BY <1>1, <1>2, <1>3, <1>4

LEMMA ObtainHolds == ASSUME IInv, NEW t \in Threads, Obtain(t) PROVE IInv'
<1>1. /\ mutex # NoMutex /\ mutex \in Threads /\ owner[mutex] = Nobody
      /\ \A u \in Threads : pc[u] \notin Held
  BY LockAssumption DEF IInv, TypeOK, MutexInPlace, OwnerBehind, Obtain
<1>2. TypeOK'
  BY <1>1 DEF IInv, TypeOK, Obtain, Goto, Places
<1>3. MutexInPlace' /\ OneMutex'
  BY <1>1 DEF IInv, TypeOK, MutexInPlace, OneMutex, Obtain, Goto, Held
<1>4. OwnerBehind' /\ CountsInside'
  BY <1>1, LockAssumption DEF IInv, TypeOK, OwnerBehind, CountsInside, Obtain, Goto, Held
<1> QED
  BY <1>2, <1>3, <1>4 DEF IInv

\* Count never refuses; from here on only the thread itself is behind the lock.
LEMMA BehindHolds ==
    ASSUME IInv, NEW t \in Threads, Count(t) \/ Inside(t) \/ Unlock(t)
    PROVE  IInv'
<1>1. \A u \in Threads : pc[u] \in Held => u = t
  BY Exclusion DEF OneInside, Count, Inside, Unlock, Held
<1>2. /\ mutex \in Threads /\ owner[mutex] = t /\ t # Nobody /\ mutex # NoMutex
      /\ owner' = owner /\ UNCHANGED <<mutex, made, errand, opens>>
  BY LockAssumption
     DEF IInv, TypeOK, MutexInPlace, OwnerBehind, CountsInside, Count, Inside, Unlock, Held
<1>3. \/ /\ pc' = [pc EXCEPT ![t] = "inside"] /\ entangled' = 1 /\ locked' = TRUE
      \/ /\ pc' = [pc EXCEPT ![t] = "unlock"] /\ entangled' = 1 /\ locked' = TRUE
      \/ /\ pc' = [pc EXCEPT ![t] = "release"] /\ entangled' = 0 /\ locked' = FALSE
  BY DEF IInv, TypeOK, CountsInside, Count, Inside, Unlock, Goto
<1>4. /\ pc' \in [Threads -> Places] /\ entangled' \in 0 .. 1 /\ locked' \in BOOLEAN
      /\ \A u \in Threads : pc[u] = "swap" <=> pc'[u] = "swap"
      /\ \A u \in Threads : u # t => pc'[u] = pc[u]
  <2>1. pc[t] # "swap" /\ \E to \in Places \ {"swap"} : pc' = [pc EXCEPT ![t] = to]
    BY <1>3 DEF Places, Count, Inside, Unlock
  <2>2. entangled' = 0 \/ entangled' = 1
    BY <1>3
  <2>3. locked' \in BOOLEAN
    BY <1>3, Zenon
  <2> QED
    BY <2>1, <2>2, <2>3 DEF IInv, TypeOK
<1>5. TypeOK'
  BY <1>2, <1>4 DEF IInv, TypeOK
<1>6. OneMutex'
  BY <1>2, <1>4 DEF IInv, TypeOK, OneMutex
<1>7. MutexInPlace'
  BY <1>2, <1>4 DEF IInv, MutexInPlace
<1>8. OwnerBehind' /\ CountsInside'
  BY <1>1, <1>2, <1>3 DEF IInv, TypeOK, OwnerBehind, CountsInside, Held
<1> QED
  BY <1>5, <1>6, <1>7, <1>8 DEF IInv

\* The three ways to go on once the counter is lowered.
LEMMA ReleaseHolds ==
    ASSUME IInv, NEW t \in Threads, Leave(t) \/ OpenHelper(t) \/ Relock(t)
    PROVE  IInv'
<1>1. /\ pc[t] = "release" /\ \A u \in Threads : pc[u] \in Held => u = t
      /\ entangled = 0 /\ ~locked
  BY Exclusion DEF OneInside, IInv, CountsInside, Leave, OpenHelper, Relock, Held
<1>2. mutex \in Threads /\ mutex # NoMutex
  BY <1>1 DEF IInv, TypeOK, MutexInPlace, Held
<1>3. /\ owner' = [owner EXCEPT ![mutex] = Nobody]
      /\ UNCHANGED <<mutex, made, entangled, locked>>
      /\ \/ pc' = [pc EXCEPT ![t] = "out"]
         \/ pc' = [pc EXCEPT ![t] = "test"]
  BY DEF Leave, OpenHelper, Relock, Goto, Released
<1>4. /\ errand' \in [Threads -> Errands] /\ opens' \in [Threads -> 0 .. MaxOpens]
  BY LockAssumption DEF IInv, TypeOK, Leave, OpenHelper, Relock, Errands
<1>5. pc' \in [Threads -> Places] /\ owner' \in [Threads -> Threads \cup {Nobody}]
  BY <1>2, <1>3 DEF IInv, TypeOK, Places
<1>6. TypeOK'
  BY <1>3, <1>4, <1>5 DEF IInv, TypeOK
<1>7. \A u \in Threads : pc'[u] = "swap" => pc[u] = "swap"
  BY <1>3 DEF IInv, TypeOK
<1>8. \A u \in Threads : pc[u] = "swap" => pc'[u] = "swap"
  BY <1>1, <1>3 DEF IInv, TypeOK
<1>9. OneMutex'
  BY <1>3, <1>8 DEF IInv, TypeOK, OneMutex
<1>10. MutexInPlace'
  BY <1>2, <1>3, <1>7 DEF IInv, MutexInPlace
<1>11. OwnerBehind' /\ CountsInside'
  BY <1>1, <1>2, <1>3 DEF IInv, TypeOK, OwnerBehind, CountsInside, Held
<1> QED
  BY <1>6, <1>9, <1>10, <1>11 DEF IInv

-----------------------------------------------------------------------------
\* IInv, the inductive invariant, holds at every moment of every interleaving.
THEOREM Invariance == Spec => []IInv
<1>1. IInv /\ [Next]_vars => IInv'
  <2> SUFFICES ASSUME IInv, [Next]_vars PROVE IInv'
    OBVIOUS
  <2>1. CASE UNCHANGED vars
    BY <2>1 DEF vars, IInv, TypeOK, MutexInPlace, OwnerBehind, CountsInside, OneMutex
  <2>2. ASSUME NEW t \in Threads, OpenUnlocked(t) \/ Open(t) \/ Lock(t) \/ GiveBack(t)
        PROVE  IInv'
    BY <2>2, OpenHolds, MakeHolds, ObtainHolds, BehindHolds, ReleaseHolds DEF Lock, GiveBack
  <2> QED
    BY <2>1, <2>2 DEF Next
<1> QED
  BY InitIInv, <1>1, PTL DEF Spec

\* The variables keep their types.
THEOREM TypeCorrect == Spec => []TypeOK
<1>1. IInv => TypeOK
  BY DEF IInv
<1> QED
  BY <1>1, Invariance, PTL

\* At most one thread is between ff_lock_avcodec and ff_unlock_avcodec.
THEOREM LockExcludes == Spec => []OneInside
<1>1. IInv => OneInside
  BY Exclusion
<1> QED
  BY <1>1, Invariance, PTL

\* The assertions of ff_lock_avcodec and ff_unlock_avcodec hold, and "Insufficient
\* thread locking" is never reported.
THEOREM AssertionsHold == Spec => []AssertsHold
<1>1. IInv => AssertsHold
  BY Assertions
<1> QED
  BY <1>1, Invariance, PTL

\* Of the mutexes that default_lockmgr_cb makes in a race, one stays.
THEOREM MutexIsOne == Spec => []OneMutex
<1>1. IInv => OneMutex
  BY DEF IInv
<1> QED
  BY <1>1, Invariance, PTL
=============================================================================
