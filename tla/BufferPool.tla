----------------------------- MODULE BufferPool -----------------------------
(***************************************************************************)
(* Reference-counted buffers and the pools they return to                  *)
(* (src/ffmpeg/libavutil/buffer.c): the frames that decoder, encoder and   *)
(* caption graph pass between threads.                                     *)
(*                                                                         *)
(* A step is one atomic operation on a counter, one critical section half  *)
(* of the pool's mutex, or one access to the data.  What is private to a   *)
(* thread between two of them is folded into one of its neighbours.        *)
(***************************************************************************)
EXTENDS Naturals, FiniteSets

CONSTANTS
    Thread,          \* threads that hold references
    Client,          \* the one whose pool it is: FramePool of a codec context
    Slot, Owner,     \* AVBufferRef pointers, and the thread each belongs to
    Buffer, Block,   \* addresses of AVBuffer structures, and of their data
    Pool,            \* addresses of AVBufferPool structures
    Value,           \* what data may be
    Fresh(_),        \* the allocator: which of these addresses it may return
    Nothing          \* NULL

ASSUME BufferAssumption ==
    /\ IsFiniteSet(Thread) /\ IsFiniteSet(Slot) /\ IsFiniteSet(Buffer)
    /\ Client \in Thread /\ Owner \in [Slot -> Thread]
    /\ Slot \cap Thread = {} /\ Buffer \cap Thread = {}
    /\ \A S \in (SUBSET Buffer) \cup (SUBSET Block) : Fresh(S) \subseteq S
    /\ Nothing \notin UNION {Thread, Slot, Buffer, Block, Pool, Value}

VARIABLES
    data,       \* AVBuffer.data; Nothing: no such structure is allocated
    refcount,   \* AVBuffer.refcount
    opaque,     \* the pool of the entry AVBuffer.opaque, Nothing if not pooled
    resizable,  \* BUFFER_FLAG_REALLOCATABLE
    content,    \* what a block of data holds; Nothing: it is not allocated
    ref,        \* buffer of each slot, and of each thread's local variable
    live,       \* the pools that are allocated
    users,      \* AVBufferPool.refcount
    free,       \* AVBufferPool.pool, the list of entries that wait for reuse
    mutex,      \* AVBufferPool.mutex: its owner
    current,    \* the client's pointer to its pool
    pc, slot, at, seen   \* each thread: where it is; its locals

buffers == <<data, refcount, opaque, resizable>>
pools == <<live, users, free, mutex>>
locals == <<slot, at, seen>>
vars == <<buffers, content, ref, pools, current, pc, locals>>

Holder == Slot \cup Thread
Pcs == {"idle", "write", "copy", "enlarge", "dec", "free", "push", "leave",
        "destroy", "get", "count"}

Init ==
    /\ data = [b \in Buffer |-> Nothing] /\ refcount = [b \in Buffer |-> 0]
    /\ opaque = [b \in Buffer |-> Nothing] /\ resizable = [b \in Buffer |-> FALSE]
    /\ content = [k \in Block |-> Nothing]
    /\ ref = [h \in Holder |-> Nothing]
    /\ live = {} /\ users = [p \in Pool |-> 0]
    /\ free = [p \in Pool |-> {}] /\ mutex = [p \in Pool |-> Nothing]
    /\ current = Nothing
    /\ pc = [t \in Thread |-> "idle"] /\ slot = [t \in Thread |-> Nothing]
    /\ at = [t \in Thread |-> Nothing] /\ seen = [t \in Thread |-> {}]

-----------------------------------------------------------------------------
Goto(t, l) == pc' = [pc EXCEPT ![t] = l]
Mine(t) == {s \in Slot : Owner[s] = t}
Allocated(b) == data[b] # Nothing

\* A thread between calls holds slot s, or may fill it.
Holds(t, s) == pc[t] = "idle" /\ s \in Mine(t) /\ ref[s] # Nothing
Empty(s) == ref[s] = Nothing /\ slot[Owner[s]] # s

\* av_buffer_create on block k: one reference, held by h.
NewBuffer(b, k, p, re) ==
    /\ b \in Fresh({c \in Buffer : ~Allocated(c)})
    /\ data' = [data EXCEPT ![b] = k]
    /\ refcount' = [refcount EXCEPT ![b] = 1]
    /\ opaque' = [opaque EXCEPT ![b] = p]
    /\ resizable' = [resizable EXCEPT ![b] = re]

\* av_malloc of data: what it holds is whatever was there.
Unused == Fresh({k \in Block : content[k] = Nothing})
NewBlock(k, v) == /\ k \in Unused
                  /\ content' = [content EXCEPT ![k] = v]

\* av_freep of the structure.
FreeBuffer(b) == /\ data' = [data EXCEPT ![b] = Nothing]
                 /\ opaque' = [opaque EXCEPT ![b] = Nothing]
                 /\ resizable' = [resizable EXCEPT ![b] = FALSE]
                 /\ UNCHANGED refcount

-----------------------------------------------------------------------------
(* References. *)

\* av_buffer_alloc, and av_buffer_realloc of no buffer (which marks it).  A
\* failed allocation changes nothing.
Alloc(t, s) ==
    /\ pc[t] = "idle" /\ s \in Mine(t) /\ Empty(s)
    /\ \E b \in Buffer, k \in Block, v \in Value, re \in BOOLEAN :
          /\ NewBuffer(b, k, Nothing, re) /\ NewBlock(k, v)
          /\ ref' = [ref EXCEPT ![s] = b]
    /\ UNCHANGED <<pools, current, pc, locals>>

\* av_buffer_ref, into a slot of the same thread or handed to another.
Ref(t, s, d) ==
    /\ Holds(t, s) /\ d \in Slot /\ Empty(d)
    /\ ref' = [ref EXCEPT ![d] = ref[s]]
    /\ refcount' = [refcount EXCEPT ![ref[s]] = @ + 1]
    /\ UNCHANGED <<data, opaque, resizable, content, pools, current, pc, locals>>

\* av_buffer_unref: the pointer is cleared before the count is lowered.
Unref(t, s) ==
    /\ Holds(t, s)
    /\ ref' = [ref EXCEPT ![s] = Nothing, ![t] = ref[s]]
    /\ Goto(t, "dec")
    /\ UNCHANGED <<buffers, content, pools, current, locals>>

\* av_buffer_is_writable, under av_buffer_make_writable.
\* (Faulty variant: two references are one too many to be noticed.)
MutIsWritable(b) == refcount[b] < 3
IsWritable(b) == refcount[b] = 1

MakeWritable(t, s) ==
    /\ Holds(t, s)
    /\ slot' = [slot EXCEPT ![t] = s]
    /\ Goto(t, IF IsWritable(ref[s]) THEN "write" ELSE "copy")
    /\ UNCHANGED <<buffers, content, ref, pools, current, at, seen>>

Write(t) ==
    /\ pc[t] = "write" /\ Goto(t, "idle")
    /\ \E v \in Value : content' = [content EXCEPT ![data[ref[slot[t]]]] = v]
    /\ slot' = [slot EXCEPT ![t] = Nothing]
    /\ UNCHANGED <<buffers, ref, pools, current, at, seen>>

\* The rest of av_buffer_make_writable and of av_buffer_realloc: a new buffer,
\* the data copied, and buffer_replace; or ENOMEM.
Copy(t) ==
    /\ pc[t] \in {"copy", "enlarge"}
    /\ \E b \in Buffer, k \in Block :
          /\ NewBuffer(b, k, Nothing, pc[t] = "enlarge")
          /\ NewBlock(k, content[data[ref[slot[t]]]])
          /\ ref' = [ref EXCEPT ![slot[t]] = b, ![t] = ref[slot[t]]]
    /\ Goto(t, "dec")
    /\ slot' = [slot EXCEPT ![t] = Nothing]
    /\ UNCHANGED <<pools, current, at, seen>>

CopyFails(t) ==
    /\ pc[t] \in {"copy", "enlarge"} /\ Goto(t, "idle")
    /\ slot' = [slot EXCEPT ![t] = Nothing]
    /\ UNCHANGED <<buffers, content, ref, pools, current, at, seen>>

\* av_buffer_realloc to another size: av_realloc may move the data of a buffer
\* that is resizable and has one reference.
Resize(t, s) ==
    /\ Holds(t, s)
    /\ IF resizable[ref[s]] /\ IsWritable(ref[s])
       THEN /\ \E k \in Unused :
                  /\ content' = [content EXCEPT ![k] = content[data[ref[s]]],
                                                ![data[ref[s]]] = Nothing]
                  /\ data' = [data EXCEPT ![ref[s]] = k]
            /\ UNCHANGED <<pc, slot>>
       ELSE /\ Goto(t, "enlarge") /\ slot' = [slot EXCEPT ![t] = s]
            /\ UNCHANGED <<data, content>>
    /\ UNCHANGED <<refcount, opaque, resizable, ref, pools, current, at, seen>>

\* buffer_replace's fetch_add, and what its result decides.
\* (Faulty variant: the old value is taken for the new one.)
MutIsLast(n) == n = 0
IsLast(n) == n = 1

DecRefcount(t) ==
    /\ pc[t] = "dec"
    /\ refcount' = [refcount EXCEPT ![ref[t]] = @ - 1]
    /\ IF IsLast(refcount[ref[t]])
       THEN Goto(t, "free") /\ UNCHANGED ref
       ELSE Goto(t, "idle") /\ ref' = [ref EXCEPT ![t] = Nothing]
    /\ UNCHANGED <<data, opaque, resizable, content, pools, current, locals>>

\* b->free of a buffer without a pool: av_buffer_default_free.
FreeData(t) ==
    /\ pc[t] = "free" /\ opaque[ref[t]] = Nothing /\ Goto(t, "idle")
    /\ content' = [content EXCEPT ![data[ref[t]]] = Nothing]
    /\ FreeBuffer(ref[t])
    /\ ref' = [ref EXCEPT ![t] = Nothing]
    /\ UNCHANGED <<pools, current, locals>>

-----------------------------------------------------------------------------
(* Pools. *)

PoolInit(p) ==
    /\ pc[Client] = "idle" /\ current = Nothing /\ p \notin live
    /\ live' = live \cup {p} /\ users' = [users EXCEPT ![p] = 1]
    /\ current' = p
    /\ UNCHANGED <<buffers, content, ref, free, mutex, pc, locals>>

\* av_buffer_pool_uninit: the client's own reference goes.
PoolUninit ==
    /\ pc[Client] = "idle" /\ current # Nothing
    /\ current' = Nothing
    /\ at' = [at EXCEPT ![Client] = current] /\ Goto(Client, "leave")
    /\ UNCHANGED <<buffers, content, ref, pools, slot, seen>>

\* ff_mutex_lock and the first read of pool->pool.
\* (Faulty variant: without the mutex.)
MutLock(t, p) ==
    /\ mutex' = [mutex EXCEPT ![p] = t]
    /\ seen' = [seen EXCEPT ![t] = free[p]]
Lock(t, p) ==
    /\ mutex[p] = Nothing /\ mutex' = [mutex EXCEPT ![p] = t]
    /\ seen' = [seen EXCEPT ![t] = free[p]]

\* The list is written and ff_mutex_unlock.
Unlock(t, p, entries) ==
    /\ free' = [free EXCEPT ![p] = entries]
    /\ mutex' = [mutex EXCEPT ![p] = Nothing]
    /\ seen' = [seen EXCEPT ![t] = {}]

\* av_buffer_pool_get, the client's, into slot s.
GetLock(s) ==
    /\ pc[Client] = "idle" /\ current # Nothing
    /\ s \in Mine(Client) /\ Empty(s)
    /\ slot' = [slot EXCEPT ![Client] = s]
    /\ Lock(Client, current) /\ Goto(Client, "get")
    /\ UNCHANGED <<buffers, content, ref, live, users, free, current, at>>

\* An entry of the list, or pool_alloc_buffer.
GetBuffer ==
    /\ pc[Client] = "get"
    /\ \E b \in Buffer, k \in Block :
          /\ NewBuffer(b, k, current, FALSE)
          /\ IF seen[Client] # {}
             THEN k \in seen[Client] /\ UNCHANGED content
             ELSE \E v \in Value : NewBlock(k, v)
          /\ Unlock(Client, current, seen[Client] \ {k})
          /\ ref' = [ref EXCEPT ![Client] = b]
    /\ Goto(Client, "count")
    /\ UNCHANGED <<live, users, current, slot, at>>

GetFails ==
    /\ pc[Client] = "get" /\ Goto(Client, "idle")
    /\ Unlock(Client, current, seen[Client])
    /\ slot' = [slot EXCEPT ![Client] = Nothing]
    /\ UNCHANGED <<buffers, content, ref, live, users, current, at>>

\* The pool's count is raised after the mutex is given back.
\* (Faulty variant: it is not.)
MutGetCount ==
    /\ pc[Client] = "count" /\ Goto(Client, "idle")
    /\ ref' = [ref EXCEPT ![slot[Client]] = ref[Client], ![Client] = Nothing]
    /\ slot' = [slot EXCEPT ![Client] = Nothing]
    /\ UNCHANGED <<buffers, content, pools, current, at, seen>>
GetCount ==
    /\ pc[Client] = "count" /\ Goto(Client, "idle")
    /\ users' = [users EXCEPT ![current] = @ + 1]
    /\ ref' = [ref EXCEPT ![slot[Client]] = ref[Client], ![Client] = Nothing]
    /\ slot' = [slot EXCEPT ![Client] = Nothing]
    /\ UNCHANGED <<buffers, content, live, free, mutex, current, at, seen>>

\* pool_release_buffer, the free callback of a pooled buffer.
ReleaseLock(t) ==
    /\ pc[t] = "free" /\ opaque[ref[t]] # Nothing
    /\ Lock(t, opaque[ref[t]]) /\ Goto(t, "push")
    /\ at' = [at EXCEPT ![t] = opaque[ref[t]]]
    /\ UNCHANGED <<buffers, content, ref, live, users, free, current, slot>>

\* The entry joins the list; av_freep of the structure, which nobody else sees
\* any more, is folded in here.
ReleasePush(t) ==
    /\ pc[t] = "push" /\ Goto(t, "leave")
    /\ Unlock(t, at[t], seen[t] \cup {data[ref[t]]})
    /\ FreeBuffer(ref[t])
    /\ ref' = [ref EXCEPT ![t] = Nothing]
    /\ UNCHANGED <<content, live, users, current, slot, at>>

\* The fetch_add at the end of pool_release_buffer and of pool_uninit.
Leave(t) ==
    /\ pc[t] = "leave"
    /\ users' = [users EXCEPT ![at[t]] = @ - 1]
    /\ IF IsLast(users[at[t]])
       THEN Goto(t, "destroy") /\ UNCHANGED at
       ELSE Goto(t, "idle") /\ at' = [at EXCEPT ![t] = Nothing]
    /\ UNCHANGED <<buffers, content, ref, live, free, mutex, current, slot, seen>>

\* buffer_pool_free, without the mutex.
\* (Faulty variant: the entries are forgotten.)
MutDestroy(t) ==
    /\ pc[t] = "destroy" /\ Goto(t, "idle")
    /\ free' = [free EXCEPT ![at[t]] = {}]
    /\ live' = live \ {at[t]}
    /\ at' = [at EXCEPT ![t] = Nothing]
    /\ UNCHANGED <<buffers, content, ref, users, mutex, current, slot, seen>>
Destroy(t) ==
    /\ pc[t] = "destroy" /\ Goto(t, "idle")
    /\ content' = [k \in Block |-> IF k \in free[at[t]] THEN Nothing ELSE content[k]]
    /\ free' = [free EXCEPT ![at[t]] = {}]
    /\ live' = live \ {at[t]}
    /\ at' = [at EXCEPT ![t] = Nothing]
    /\ UNCHANGED <<buffers, ref, users, mutex, current, slot, seen>>
-----------------------------------------------------------------------------
\* What a caller may start, and what a started call goes on with.
Begin(t) ==
    \/ \E s \in Slot : Alloc(t, s) \/ Unref(t, s) \/ MakeWritable(t, s) \/ Resize(t, s)
    \/ \E s, d \in Slot : Ref(t, s, d)

Continue(t) ==
    \/ Write(t) \/ Copy(t) \/ CopyFails(t) \/ DecRefcount(t) \/ FreeData(t)
    \/ ReleaseLock(t) \/ ReleasePush(t) \/ Leave(t) \/ Destroy(t)

ClientBegins == PoolUninit \/ (\E s \in Slot : GetLock(s)) \/ \E p \in Pool : PoolInit(p)
ClientContinues == GetBuffer \/ GetFails \/ GetCount

Next == ClientBegins \/ ClientContinues \/ \E t \in Thread : Begin(t) \/ Continue(t)

Spec == Init /\ [][Next]_vars

\* A call, once begun, goes on.
FairSpec == /\ Spec /\ WF_vars(ClientContinues)
            /\ \A t \in Thread : WF_vars(Continue(t))

-----------------------------------------------------------------------------
(* Properties. *)

TypeOK ==
    /\ data \in [Buffer -> Block \cup {Nothing}] /\ refcount \in [Buffer -> Nat]
    /\ opaque \in [Buffer -> Pool \cup {Nothing}] /\ resizable \in [Buffer -> BOOLEAN]
    /\ content \in [Block -> Value \cup {Nothing}]
    /\ ref \in [Holder -> Buffer \cup {Nothing}]
    /\ live \subseteq Pool /\ users \in [Pool -> Nat]
    /\ free \in [Pool -> SUBSET Block] /\ mutex \in [Pool -> Thread \cup {Nothing}]
    /\ current \in Pool \cup {Nothing}
    /\ pc \in [Thread -> Pcs] /\ slot \in [Thread -> Slot \cup {Nothing}]
    /\ at \in [Thread -> Pool \cup {Nothing}] /\ seen \in [Thread -> SUBSET Block]

\* No reference outlives its buffer, no buffer its data, and no block of data is
\* in two buffers, in two pools, or in a buffer and in the list of a pool.
NothingDangles ==
    /\ \A h \in Holder : ref[h] # Nothing => Allocated(ref[h])
    /\ \A b \in Buffer : Allocated(b) =>
          /\ content[data[b]] # Nothing
          /\ \A c \in Buffer \ {b} : data[c] # data[b]
          /\ \A p \in Pool : data[b] \notin free[p]
    /\ \A p \in Pool : \A k \in free[p] :
          content[k] # Nothing /\ \A q \in Pool \ {p} : k \notin free[q]

\* A pool that is uninitialised while buffers are out stays until the last is
\* back, and whoever destroys it is the only one who still knows it.
PoolOutlivesBuffers ==
    /\ \A b \in Buffer : opaque[b] # Nothing => opaque[b] \in live
    /\ \A t \in Thread : at[t] # Nothing => at[t] \in live
    /\ current # Nothing => current \in live
    /\ \A t \in Thread : pc[t] = "destroy" =>
          /\ current # at[t] /\ mutex[at[t]] = Nothing
          /\ \A b \in Buffer : opaque[b] # at[t]
          /\ \A u \in Thread \ {t} : at[u] # at[t]

\* Every buffer is held by someone, every block of data by a buffer or by the
\* list of a pool that will still be destroyed.
NothingIsLost ==
    /\ \A b \in Buffer : Allocated(b) => \E h \in Holder : ref[h] = b
    /\ \A k \in Block : content[k] # Nothing =>
          \/ \E b \in Buffer : data[b] = k
          \/ \E p \in live : k \in free[p]
    /\ \A p \in live : users[p] > 0 \/ \E t \in Thread : pc[t] = "destroy" /\ at[t] = p

\* What a slot sees is changed by the holder of that slot only.
Sees(s) == IF ref[s] = Nothing THEN Nothing ELSE content[data[ref[s]]]
Copies == INSTANCE PrivateCopies WITH val <- [s \in Slot |-> Sees(s)]
SharingIsInvisible == Copies!Spec

\* A pool its client has given up, none of whose buffers is referenced, is freed.
GivenUp(p) == /\ p \in live /\ current # p
              /\ \A s \in Slot : ref[s] # Nothing => opaque[ref[s]] # p
PoolIsFreed == \A p \in Pool : GivenUp(p) ~> p \notin live
=============================================================================
