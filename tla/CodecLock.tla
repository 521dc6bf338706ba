------------------------------ MODULE CodecLock -----------------------------
(***************************************************************************)
(* The lock around avcodec_open2 (src/ffmpeg/libavcodec/utils.c):          *)
(* ff_lock_avcodec, ff_unlock_avcodec and default_lockmgr_cb, which makes  *)
(* its mutex when the first thread needs it.  A codec whose initialisation *)
(* is thread safe takes no lock; an encoder gives the lock back in the     *)
(* middle of its open, so that the helpers it may run on frame threads can *)
(* take it for their own opens, and takes it again.                        *)
(***************************************************************************)
EXTENDS Naturals, FiniteSets

CONSTANTS
    Threads,
    MaxOpens,      \* bound: codecs a thread opens, helpers included
    NoMutex, Nobody

ASSUME LockAssumption ==
    /\ NoMutex \notin Threads /\ Nobody \notin Threads
    /\ MaxOpens \in Nat

VARIABLES
    mutex,         \* codec_mutex: NoMutex, or the mutex of the thread that made it
    owner,         \* of each mutex, by the thread that made it
    made,          \* threads whose mutex exists: tmp, from av_malloc to av_free
    entangled,     \* entangled_thread_counter
    locked,        \* ff_avcodec_locked
    pc,            \* where each thread is
    errand,        \* what it takes the lock for: an open, a helper's, or its relock
    opens          \* codecs each thread has opened

vars == <<mutex, owner, made, entangled, locked, pc, errand, opens>>

Places == {"out", "test", "swap", "obtain", "count", "inside", "unlock", "release"}
Errands == {"open", "helper", "relock"}

-----------------------------------------------------------------------------
Init ==
    /\ mutex = NoMutex /\ owner = [t \in Threads |-> Nobody] /\ made = {}
    /\ entangled = 0 /\ locked = FALSE
    /\ pc = [t \in Threads |-> "out"]
    /\ errand = [t \in Threads |-> "open"] /\ opens = [t \in Threads |-> 0]

Goto(t, to) == pc' = [pc EXCEPT ![t] = to]

\* ff_lock_avcodec has failed: the open ends, a helper's failure leads to the
\* relock, and nobody looks at what the relock returned.
GiveUp(t) ==
    /\ Goto(t, CASE errand[t] = "open" -> "out"
                 [] errand[t] = "helper" -> "test"
                 [] errand[t] = "relock" -> "inside")
    /\ errand' = [errand EXCEPT ![t] = IF @ = "helper" THEN "relock" ELSE @]

\* The early returns for a codec that is thread safe or has no init: such an
\* open touches nothing here, whoever holds the lock.
OpenUnlocked(t) ==
    /\ pc[t] = "out" /\ opens[t] < MaxOpens
    /\ opens' = [opens EXCEPT ![t] = @ + 1]
    /\ UNCHANGED <<mutex, owner, made, entangled, locked, pc, errand>>

Open(t) ==
    /\ pc[t] = "out" /\ opens[t] < MaxOpens
    /\ opens' = [opens EXCEPT ![t] = @ + 1]
    /\ errand' = [errand EXCEPT ![t] = "open"]
    /\ Goto(t, "test")
    /\ UNCHANGED <<mutex, owner, made, entangled, locked>>

-----------------------------------------------------------------------------
(* default_lockmgr_cb(AV_LOCK_OBTAIN). *)

\* if (!*mutex): a thread that finds none makes one of its own, or fails to.
TestSet(t) ==
    /\ pc[t] = "test" /\ mutex # NoMutex
    /\ Goto(t, "obtain")
    /\ UNCHANGED <<mutex, owner, made, entangled, locked, errand, opens>>

TestMake(t) ==
    /\ pc[t] = "test" /\ mutex = NoMutex
    /\ made' = made \cup {t} /\ owner' = [owner EXCEPT ![t] = Nobody]
    /\ Goto(t, "swap")
    /\ UNCHANGED <<mutex, entangled, locked, errand, opens>>

TestFails(t) ==
    /\ pc[t] = "test" /\ mutex = NoMutex
    /\ GiveUp(t)
    /\ UNCHANGED <<mutex, owner, made, entangled, locked, opens>>

\* (Faulty variant: a plain store instead of the compare and swap.)
MutSwap(t) ==
    /\ pc[t] = "swap" /\ Goto(t, "obtain")
    /\ mutex' = t
    /\ UNCHANGED <<owner, made, entangled, locked, errand, opens>>

\* avpriv_atomic_ptr_cas: the thread that comes second destroys its own.
Swap(t) ==
    /\ pc[t] = "swap" /\ Goto(t, "obtain")
    /\ mutex' = IF mutex = NoMutex THEN t ELSE mutex
    /\ made' = IF mutex = NoMutex THEN made ELSE made \ {t}
    /\ UNCHANGED <<owner, entangled, locked, errand, opens>>

\* pthread_mutex_lock(*mutex).
Obtain(t) ==
    /\ pc[t] = "obtain" /\ owner[mutex] = Nobody
    /\ owner' = [owner EXCEPT ![mutex] = t]
    /\ Goto(t, "count")
    /\ UNCHANGED <<mutex, made, entangled, locked, errand, opens>>

-----------------------------------------------------------------------------
(* ff_lock_avcodec behind the mutex, and ff_unlock_avcodec. *)

\* (Faulty variant: the mutex stays locked.)
MutReleased == owner

\* pthread_mutex_unlock(*mutex).
Released == [owner EXCEPT ![mutex] = Nobody]

\* Finding another thread there ("Insufficient thread locking") it unlocks,
\* which leaves the counter as it was, and gives up.
Count(t) ==
    /\ pc[t] = "count"
    /\ IF entangled = 0
       THEN /\ entangled' = 1 /\ locked' = TRUE
            /\ Goto(t, "inside")
            /\ UNCHANGED <<owner, errand>>
       ELSE /\ locked' = FALSE /\ owner' = Released
            /\ GiveUp(t)
            /\ UNCHANGED entangled
    /\ UNCHANGED <<mutex, made, opens>>

\* What avcodec_open2 does with the lock held, up to the next unlock.
Inside(t) ==
    /\ pc[t] = "inside" /\ Goto(t, "unlock")
    /\ UNCHANGED <<mutex, owner, made, entangled, locked, errand, opens>>

\* (Faulty variant: the counter is not lowered.)
MutUnlock(t) ==
    /\ pc[t] = "unlock" /\ Goto(t, "release")
    /\ locked' = FALSE
    /\ UNCHANGED <<mutex, owner, made, entangled, errand, opens>>

\* ff_unlock_avcodec up to the mutex.
Unlock(t) ==
    /\ pc[t] = "unlock" /\ Goto(t, "release")
    /\ locked' = FALSE
    /\ entangled' = entangled - 1
    /\ UNCHANGED <<mutex, owner, made, errand, opens>>

\* The open, whether it went well or not, ends with the unlock at "end:".
Leave(t) ==
    /\ pc[t] = "release" /\ errand[t] # "helper"
    /\ owner' = Released
    /\ Goto(t, "out")
    /\ UNCHANGED <<mutex, made, entangled, locked, errand, opens>>

\* Any encoder unlocks, once; one on frame threads opens its helpers there.
OpenHelper(t) ==
    /\ pc[t] = "release" /\ errand[t] # "relock" /\ opens[t] < MaxOpens
    /\ owner' = Released
    /\ opens' = [opens EXCEPT ![t] = @ + 1]
    /\ errand' = [errand EXCEPT ![t] = "helper"]
    /\ Goto(t, "test")
    /\ UNCHANGED <<mutex, made, entangled, locked>>

Relock(t) ==
    /\ pc[t] = "release" /\ errand[t] # "relock"
    /\ owner' = Released
    /\ errand' = [errand EXCEPT ![t] = "relock"]
    /\ Goto(t, "test")
    /\ UNCHANGED <<mutex, made, entangled, locked, opens>>

-----------------------------------------------------------------------------
Lock(t) == TestSet(t) \/ TestMake(t) \/ TestFails(t) \/ Swap(t) \/ Obtain(t)
           \/ Count(t)
GiveBack(t) == Inside(t) \/ Unlock(t) \/ Leave(t) \/ OpenHelper(t) \/ Relock(t)

Next == \E t \in Threads : OpenUnlocked(t) \/ Open(t) \/ Lock(t) \/ GiveBack(t)

Spec == Init /\ [][Next]_vars

\* Every thread that can take its next step of an open takes it; whether it
\* opens anything is its own affair.
FairSpec == Spec /\ \A t \in Threads : WF_vars(Lock(t)) /\ WF_vars(GiveBack(t))

-----------------------------------------------------------------------------
TypeOK ==
    /\ mutex \in Threads \cup {NoMutex} /\ owner \in [Threads -> Threads \cup {Nobody}]
    /\ made \in SUBSET Threads
    /\ entangled \in 0 .. 1 /\ locked \in BOOLEAN
    /\ pc \in [Threads -> Places] /\ errand \in [Threads -> Errands]
    /\ opens \in [Threads -> 0 .. MaxOpens]

Held == {"count", "inside", "unlock", "release"}

\* Two threads are never both behind the lock, however they raced to make its
\* mutex (ff_lock_avcodec with default_lockmgr_cb).
OneInside ==
    \A t, u \in Threads : pc[t] \in Held /\ pc[u] \in Held => t = u

\* A thread behind the mutex finds the counter at zero and the flag clear, so
\* an open is never refused for "Insufficient thread locking" and a relock,
\* whose result nobody reads, has succeeded; a thread that unlocks finds the
\* flag set.  These are the two assertions of the code.
AssertsHold ==
    \A t \in Threads :
        /\ pc[t] = "count" => entangled = 0 /\ ~locked
        /\ pc[t] \in {"inside", "unlock"} => locked

\* Only one mutex outlives the race to make it, and a thread waits for no
\* other (default_lockmgr_cb's compare and swap).
OneMutex ==
    /\ mutex # NoMutex => mutex \in made
    /\ \A t \in made : t = mutex \/ pc[t] = "swap"

\* Every open that has begun returns (avcodec_open2).
OpensReturn == \A t \in Threads : pc[t] = "test" ~> pc[t] = "out"
=============================================================================
