-------------------------- MODULE BufferPoolProofs --------------------------
(***************************************************************************)
(* Proofs about the reference-counted buffers, for any threads, slots,     *)
(* buffers and pools.  IInv has five layers, each preserved with the help  *)
(* of those before it: what a thread's locals are for (Shapes), what a     *)
(* buffer's count counts (Counted), what a pool's count counts (Pools), who *)
(* has a pool's mutex (Locked), and where a block of data is (Blocks).     *)
(***************************************************************************)
EXTENDS BufferPool, Integers, FiniteSetTheorems, TLAPS

\* Nothing is nothing else.
LEMMA NothingFacts ==
    /\ Nothing \notin Thread /\ Nothing \notin Slot /\ Nothing \notin Buffer
    /\ Nothing \notin Block /\ Nothing \notin Pool /\ Nothing \notin Value
    /\ Nothing \notin Holder
<1> DEFINE U == UNION {Thread, Slot, Buffer, Block, Pool, Value}
<1>1. Nothing \notin U BY BufferAssumption
<1>2. /\ Thread \subseteq U /\ Slot \subseteq U /\ Buffer \subseteq U
      /\ Block \subseteq U /\ Pool \subseteq U /\ Value \subseteq U
  OBVIOUS
<1> HIDE DEF U
<1> QED BY <1>1, <1>2 DEF Holder

\* The allocator returns what is free.
LEMMA AllocatorFacts ==
    /\ \A b \in Fresh({c \in Buffer : ~Allocated(c)}) : b \in Buffer /\ ~Allocated(b)
    /\ \A k \in Unused : k \in Block /\ content[k] = Nothing
<1>1. {c \in Buffer : ~Allocated(c)} \in SUBSET Buffer OBVIOUS
<1>2. {k \in Block : content[k] = Nothing} \in SUBSET Block OBVIOUS
<1>3. Fresh({c \in Buffer : ~Allocated(c)}) \subseteq {c \in Buffer : ~Allocated(c)}
  BY <1>1, BufferAssumption
<1>4. Fresh({k \in Block : content[k] = Nothing}) \subseteq {k \in Block : content[k] = Nothing}
  BY <1>2, BufferAssumption
<1> QED BY <1>3, <1>4 DEF Unused
-----------------------------------------------------------------------------
(* What a thread's locals are for. *)

Typed ==
    /\ data \in [Buffer -> Block \cup {Nothing}] /\ refcount \in [Buffer -> Int]
    /\ opaque \in [Buffer -> Pool \cup {Nothing}] /\ resizable \in [Buffer -> BOOLEAN]
    /\ ref \in [Holder -> Buffer \cup {Nothing}]
    /\ mutex \in [Pool -> Thread \cup {Nothing}]
    /\ current \in Pool \cup {Nothing}
    /\ pc \in [Thread -> Pcs] /\ slot \in [Thread -> Slot \cup {Nothing}]
    /\ at \in [Thread -> Pool \cup {Nothing}]

Writing == {"write", "copy", "enlarge"}
Getting == {"get", "count"}

\* A thread's own reference, its pool and its slot, and when it has them.
Shape(t) ==
    /\ pc[t] \in {"dec", "free", "push", "count"} <=> ref[t] # Nothing
    /\ pc[t] \in {"push", "leave", "destroy"} <=> at[t] # Nothing
    /\ pc[t] \in Writing \cup Getting <=> slot[t] # Nothing
    /\ pc[t] \in Writing \cup Getting => slot[t] \in Mine(t)
    /\ pc[t] \in Writing => ref[slot[t]] # Nothing
    /\ pc[t] \in Getting => t = Client /\ current # Nothing /\ ref[slot[t]] = Nothing
Shapes == \A t \in Thread : Shape(t)

LEMMA LocalsInit == Init => Typed /\ Shapes
<1> SUFFICES ASSUME Init PROVE Typed /\ Shapes OBVIOUS
<1> USE DEF Init
<1>1. Typed BY NothingFacts DEF Typed, Pcs
<1>2. Shapes BY DEF Shapes, Shape, Writing, Getting, Holder
<1> QED BY <1>1, <1>2

LEMMA LocalsBegin ==
    ASSUME Typed, Shapes, NEW t \in Thread, Begin(t)
    PROVE  Typed' /\ Shapes'
<1> USE NothingFacts, BufferAssumption
<1>1. ASSUME NEW s \in Slot, Alloc(t, s) PROVE Typed' /\ Shapes'
  <2> USE <1>1 DEF Alloc, NewBuffer, pools, locals
  <2>1. PICK b \in Buffer : data[b] = Nothing /\ ref' = [ref EXCEPT ![s] = b]
    BY AllocatorFacts DEF Allocated
  <2>2. Typed'
    BY <2>1 DEF Typed, Holder
  <2>3. Shapes'
    BY <2>1 DEF Typed, Shapes, Shape, Writing, Getting, Empty, Mine, Holder
  <2> QED BY <2>2, <2>3
<1>2. ASSUME NEW s \in Slot, Unref(t, s) PROVE Typed' /\ Shapes'
  <2> USE <1>2 DEF Unref, Holds, Goto, buffers, pools, locals
  <2>1. Typed'
    BY DEF Typed, Holder, Pcs
  <2>2. Shapes'
    BY DEF Typed, Shapes, Shape, Writing, Getting, Mine, Holder
  <2> QED BY <2>1, <2>2
<1>3. ASSUME NEW s \in Slot, MakeWritable(t, s) PROVE Typed' /\ Shapes'
  <2> USE <1>3 DEF MakeWritable, Holds, Goto, buffers, pools
  <2>1. Typed'
    BY DEF Typed, Pcs
  <2>2. Shapes'
    BY DEF Typed, Shapes, Shape, Writing, Getting, Mine
  <2> QED BY <2>1, <2>2
<1>4. ASSUME NEW s \in Slot, Resize(t, s) PROVE Typed' /\ Shapes'
  <2> USE <1>4 DEF Resize, Holds, Goto, pools
  <2>1. Typed'
    BY AllocatorFacts DEF Typed, Pcs, Holder
  <2>2. Shapes'
    BY DEF Typed, Shapes, Shape, Writing, Getting, Mine
  <2> QED BY <2>1, <2>2
<1>5. ASSUME NEW s \in Slot, NEW d \in Slot, Ref(t, s, d) PROVE Typed' /\ Shapes'
  <2> USE <1>5 DEF Ref, Holds, pools, locals
  <2>1. Typed'
    BY DEF Typed, Holder
  <2>2. Shapes'
    BY DEF Typed, Shapes, Shape, Writing, Getting, Empty, Mine, Holder
  <2> QED BY <2>1, <2>2
<1> QED BY <1>1, <1>2, <1>3, <1>4, <1>5 DEF Begin

LEMMA LocalsContinue ==
    ASSUME Typed, Shapes, NEW t \in Thread, Continue(t)
    PROVE  Typed' /\ Shapes'
<1> USE NothingFacts, BufferAssumption
<1>1. CASE Write(t) \/ CopyFails(t)
  <2> USE <1>1 DEF Write, CopyFails, Goto, buffers, pools
  <2>1. Typed'
    BY DEF Typed, Pcs
  <2>2. Shapes'
    BY DEF Typed, Shapes, Shape, Writing, Getting, Mine
  <2> QED BY <2>1, <2>2
<1>2. CASE Copy(t)
  <2> USE <1>2 DEF Copy, NewBuffer, Goto, pools
  <2>1. PICK b \in Buffer : /\ b \in Buffer
                            /\ ref' = [ref EXCEPT ![slot[t]] = b, ![t] = ref[slot[t]]]
    OBVIOUS
  <2>2. slot[t] \in Mine(t) /\ slot[t] \in Slot /\ ref[slot[t]] \in Buffer
    BY DEF Typed, Shapes, Shape, Writing, Mine, Holder
  <2>3. Typed'
    BY <2>1, <2>2 DEF Typed, Holder, Pcs
  <2>4. Shapes'
    BY <2>1, <2>2 DEF Typed, Shapes, Shape, Writing, Getting, Mine, Holder
  <2> QED BY <2>3, <2>4
<1>3. CASE DecRefcount(t)
  <2> USE <1>3 DEF DecRefcount, Goto, pools, locals
  <2>1. Typed'
    <3>1. ref[t] \in Buffer /\ refcount \in [Buffer -> Int]
      BY DEF Typed, Shapes, Shape, Holder
    <3>2. refcount' \in [Buffer -> Int]
      BY <3>1
    <3>3. CASE IsLast(refcount[ref[t]])
      BY <3>2, <3>3 DEF Typed, Pcs
    <3>4. CASE ~IsLast(refcount[ref[t]])
      BY <3>2, <3>4 DEF Typed, Pcs, Holder
    <3> QED BY <3>3, <3>4
  <2>2. Shapes'
    BY DEF Typed, Shapes, Shape, Writing, Getting, Mine, Holder
  <2> QED BY <2>1, <2>2
<1>4. CASE FreeData(t)
  <2> USE <1>4 DEF FreeData, FreeBuffer, Goto, pools, locals
  <2>1. Typed'
    BY DEF Typed, Holder, Pcs
  <2>2. Shapes'
    BY DEF Typed, Shapes, Shape, Writing, Getting, Mine, Holder
  <2> QED BY <2>1, <2>2
<1>5. CASE ReleaseLock(t)
  <2> USE <1>5 DEF ReleaseLock, Lock, Goto, buffers
  <2>1. ref[t] \in Buffer /\ opaque[ref[t]] \in Pool
    BY DEF Typed, Shapes, Shape, Holder
  <2>2. Typed'
    BY <2>1 DEF Typed, Pcs
  <2>3. Shapes'
    BY <2>1 DEF Typed, Shapes, Shape, Writing, Getting, Mine
  <2> QED BY <2>2, <2>3
<1>6. CASE ReleasePush(t)
  <2> USE <1>6 DEF ReleasePush, Unlock, FreeBuffer, Goto
  <2>1. Typed'
    BY DEF Typed, Holder, Pcs
  <2>2. Shapes'
    BY DEF Typed, Shapes, Shape, Writing, Getting, Mine, Holder
  <2> QED BY <2>1, <2>2
<1>7. CASE Leave(t)
  <2> USE <1>7 DEF Leave, Goto, buffers
  <2>1. Typed'
    BY DEF Typed, Pcs
  <2>2. Shapes'
    BY DEF Typed, Shapes, Shape, Writing, Getting, Mine
  <2> QED BY <2>1, <2>2
<1>8. CASE Destroy(t)
  <2> USE <1>8 DEF Destroy, Goto, buffers
  <2>1. Typed'
    BY DEF Typed, Pcs
  <2>2. Shapes'
    BY DEF Typed, Shapes, Shape, Writing, Getting, Mine
  <2> QED BY <2>1, <2>2
<1> QED BY <1>1, <1>2, <1>3, <1>4, <1>5, <1>6, <1>7, <1>8 DEF Continue

LEMMA LocalsClient ==
    ASSUME Typed, Shapes, ClientBegins \/ ClientContinues
    PROVE  Typed' /\ Shapes'
<1> USE NothingFacts, BufferAssumption
<1>1. ASSUME NEW p \in Pool, PoolInit(p) PROVE Typed' /\ Shapes'
  <2> USE <1>1 DEF PoolInit, buffers, locals
  <2>1. Typed'
    BY DEF Typed
  <2>2. Shapes'
    BY DEF Typed, Shapes, Shape, Writing, Getting, Mine
  <2> QED BY <2>1, <2>2
<1>2. CASE PoolUninit
  <2> USE <1>2 DEF PoolUninit, Goto, buffers, pools
  <2>1. Typed'
    BY DEF Typed, Pcs
  <2>2. Shapes'
    BY DEF Typed, Shapes, Shape, Writing, Getting, Mine
  <2> QED BY <2>1, <2>2
<1>3. ASSUME NEW s \in Slot, GetLock(s) PROVE Typed' /\ Shapes'
  <2> USE <1>3 DEF GetLock, Lock, Goto, buffers
  <2>1. Typed'
    BY DEF Typed, Pcs
  <2>2. Shapes'
    BY DEF Typed, Shapes, Shape, Writing, Getting, Mine, Empty
  <2> QED BY <2>1, <2>2
<1>4. CASE GetBuffer
  <2> USE <1>4 DEF GetBuffer, NewBuffer, Unlock, Goto
  <2>1. PICK b \in Buffer, k \in Block :
           /\ data' = [data EXCEPT ![b] = k] /\ refcount' = [refcount EXCEPT ![b] = 1]
           /\ opaque' = [opaque EXCEPT ![b] = current]
           /\ resizable' = [resizable EXCEPT ![b] = FALSE]
           /\ mutex' = [mutex EXCEPT ![current] = Nothing]
           /\ ref' = [ref EXCEPT ![Client] = b]
    OBVIOUS
  <2>2. Typed'
    <3>1. data' \in [Buffer -> Block \cup {Nothing}] /\ refcount' \in [Buffer -> Int]
      BY <2>1 DEF Typed
    <3>2. /\ opaque' \in [Buffer -> Pool \cup {Nothing}]
          /\ mutex' \in [Pool -> Thread \cup {Nothing}]
      BY <2>1 DEF Typed
    <3>3. resizable' \in [Buffer -> BOOLEAN]
      BY <2>1 DEF Typed
    <3>4. ref' \in [Holder -> Buffer \cup {Nothing}] /\ pc' \in [Thread -> Pcs]
      BY <2>1 DEF Typed, Holder, Pcs
    <3> QED BY <3>1, <3>2, <3>3, <3>4 DEF Typed
  <2>3. Shapes'
    BY <2>1 DEF Typed, Shapes, Shape, Writing, Getting, Mine, Holder
  <2> QED BY <2>2, <2>3
<1>5. CASE GetFails
  <2> USE <1>5 DEF GetFails, Unlock, Goto, buffers
  <2>1. Typed'
    BY DEF Typed, Pcs
  <2>2. Shapes'
    BY DEF Typed, Shapes, Shape, Writing, Getting, Mine
  <2> QED BY <2>1, <2>2
<1>6. CASE GetCount
  <2> USE <1>6 DEF GetCount, Goto, buffers
  <2>1. slot[Client] \in Slot /\ Owner[slot[Client]] = Client /\ ref[Client] \in Buffer
    BY DEF Typed, Shapes, Shape, Getting, Mine, Holder
  <2>2. Typed'
    BY <2>1 DEF Typed, Holder, Pcs
  <2>3. Shapes'
    BY <2>1 DEF Typed, Shapes, Shape, Writing, Getting, Mine, Holder
  <2> QED BY <2>2, <2>3
<1> QED BY <1>1, <1>2, <1>3, <1>4, <1>5, <1>6 DEF ClientBegins, ClientContinues

LEMMA LocalsStutter ==
    ASSUME Typed, Shapes, UNCHANGED vars
    PROVE  Typed' /\ Shapes'
  BY DEF vars, buffers, pools, locals, Typed, Shapes, Shape, Mine
-----------------------------------------------------------------------------
(* The count of a buffer is the number of its references, those not included *)
(* whose holder has given its own up and frees the buffer.                   *)

Freeing == {"free", "push"}
Counts(h) == h \in Thread => pc[h] \notin Freeing
References(b) == {h \in Holder : ref[h] = b /\ Counts(h)}

\* Whoever frees a buffer, or has found it writable, is the only one who knows it.
Counted ==
    /\ \A h \in Holder : ref[h] # Nothing => Allocated(ref[h])
    /\ \A b \in Buffer : Allocated(b) => /\ refcount[b] = Cardinality(References(b))
                                         /\ \E h \in Holder : ref[h] = b
    /\ \A t \in Thread : pc[t] \in Freeing => \A h \in Holder \ {t} : ref[h] # ref[t]
    /\ \A t \in Thread : pc[t] = "write" =>
          \A h \in Holder \ {slot[t]} : ref[h] # ref[slot[t]]

\* No thread starts or ends freeing, none finds a buffer writable.
SamePlaces ==
    \A u \in Thread : /\ pc'[u] \in Freeing <=> pc[u] \in Freeing
                      /\ pc'[u] = "write" => pc[u] = "write" /\ slot'[u] = slot[u]

LEMMA ReferencesFinite == \A b : IsFiniteSet(References(b))
<1>1. IsFiniteSet(Holder) BY BufferAssumption, FS_Union DEF Holder
<1> QED BY <1>1, FS_Subset DEF References

LEMMA WritersSlot ==
    ASSUME Typed, Shapes, NEW u \in Thread, pc[u] = "write"
    PROVE  slot[u] \in Slot /\ slot[u] \in Holder /\ Owner[slot[u]] = u /\ ref[slot[u]] \in Buffer
  BY NothingFacts DEF Typed, Shapes, Shape, Writing, Mine, Holder

LEMMA CountedInit == Init => Counted
  BY DEF Init, Counted, Allocated, Freeing, Holder

\* A new buffer has one reference.
LEMMA CountedNew ==
    ASSUME Typed, Shapes, Counted, SamePlaces,
           NEW h \in Holder, NEW b \in Buffer, NEW k \in Block,
           ref[h] = Nothing, Counts(h), ~Allocated(b),
           data' = [data EXCEPT ![b] = k], refcount' = [refcount EXCEPT ![b] = 1],
           ref' = [ref EXCEPT ![h] = b]
    PROVE  Counted'
<1> USE NothingFacts
<1>1. \A g \in Holder : ref[g] # b
  BY DEF Counted
<1>2. ref \in [Holder -> Buffer \cup {Nothing}] /\ data \in [Buffer -> Block \cup {Nothing}]
      /\ refcount \in [Buffer -> Int]
  BY DEF Typed
<1>3. \A g \in Holder : Counts(g)' <=> Counts(g)
  BY DEF SamePlaces, Counts
<1>4. References(b)' = {h}
  BY <1>1, <1>2, <1>3 DEF References
<1>5. Cardinality({h}) = 1
  BY FS_Singleton
<1>6. \A c \in Buffer \ {b} : References(c)' = References(c)
  BY <1>2, <1>3 DEF References
<1>7. \A g \in Holder : ref'[g] # Nothing => Allocated(ref[g])' 
  BY <1>2 DEF Counted, Allocated
<1>8. ASSUME NEW c \in Buffer, Allocated(c)'
      PROVE  refcount'[c] = Cardinality(References(c)') /\ \E g \in Holder : ref'[g] = c
  <2>1. CASE c = b
    <3>1. refcount'[b] = 1 /\ ref'[h] = b BY <1>2
    <3> QED BY <2>1, <1>4, <1>5, <3>1
  <2>2. CASE c # b
    <3>1. Allocated(c) /\ refcount'[c] = refcount[c]
      BY <2>2, <1>2, <1>8 DEF Allocated
    <3>2. PICK g \in Holder : ref[g] = c
      BY <3>1 DEF Counted
    <3>3. ref'[g] = c BY <3>2, <1>2
    <3> QED BY <3>1, <3>3, <2>2, <1>6 DEF Counted
  <2> QED BY <2>1, <2>2
<1>9. ASSUME NEW u \in Thread, pc'[u] \in Freeing, NEW g \in Holder \ {u}
      PROVE  ref'[g] # ref'[u]
  <2>1. pc[u] \in Freeing /\ u # h /\ u \in Holder
    BY <1>9 DEF SamePlaces, Counts, Holder
  <2>2. ref'[u] = ref[u] /\ ref[u] # b /\ ref[g] # ref[u]
    BY <2>1, <1>1, <1>2 DEF Counted
  <2> QED BY <2>2, <1>2
<1>10. ASSUME NEW u \in Thread, pc'[u] = "write", NEW g \in Holder \ {slot'[u]}
       PROVE  ref'[g] # ref'[slot'[u]]
  <2>1. pc[u] = "write" /\ slot'[u] = slot[u]
    BY <1>10 DEF SamePlaces
  <2>2. slot[u] \in Holder /\ ref[slot[u]] \in Buffer
    BY <2>1, WritersSlot
  <2>3. ref'[slot[u]] = ref[slot[u]] /\ ref[slot[u]] # b
    BY <2>2, <1>1, <1>2
  <2>4. ref[g] # ref[slot[u]] BY <2>1, <1>10 DEF Counted
  <2> QED BY <2>1, <2>3, <2>4, <1>2
<1> QED BY <1>7, <1>8, <1>9, <1>10 DEF Counted

\* A reference that moves counts the same.
LEMMA CountedMove ==
    ASSUME Typed, Shapes, Counted, SamePlaces,
           NEW h \in Holder, NEW g \in Holder,
           ref[h] # Nothing, ref[g] = Nothing, Counts(h), Counts(g),
           \A u \in Thread : pc[u] = "write" => slot[u] # h,
           UNCHANGED <<data, refcount>>, ref' = [ref EXCEPT ![h] = Nothing, ![g] = ref[h]]
    PROVE  Counted'
<1> USE NothingFacts
<1>0. PICK b \in Buffer : b = ref[h]
  BY NothingFacts DEF Typed, Holder
<1>1. ref \in [Holder -> Buffer \cup {Nothing}] /\ b \in Buffer /\ h # g
  BY DEF Typed
<1>2. \A f \in Holder : Counts(f)' <=> Counts(f)
  BY DEF SamePlaces, Counts
<1>3. \A f \in Holder : ref'[f] = IF f = g THEN b ELSE IF f = h THEN Nothing ELSE ref[f]
  BY <1>0, <1>1
<1>4. References(b)' = (References(b) \ {h}) \cup {g}
  BY <1>0, <1>2, <1>3 DEF References
<1>5. h \in References(b) /\ g \notin References(b) \ {h}
  BY <1>0, <1>1 DEF References
<1>6. Cardinality(References(b)') = Cardinality(References(b))
  <2>1. IsFiniteSet(References(b)) /\ IsFiniteSet(References(b) \ {h})
    BY ReferencesFinite, FS_Subset
  <2>2. Cardinality(References(b) \ {h}) = Cardinality(References(b)) - 1
    BY <1>0, <2>1, <1>5, FS_RemoveElement
  <2>3. Cardinality(References(b)') = Cardinality(References(b) \ {h}) + 1
    BY <1>0, <2>1, <1>4, <1>5, FS_AddElement
  <2>4. Cardinality(References(b)) \in Nat
    BY <1>0, <2>1, FS_CardinalityType
  <2> QED BY <1>0, <2>2, <2>3, <2>4
<1>7. \A c \in Buffer \ {b} : References(c)' = References(c)
  BY <1>0, <1>2, <1>3, <1>1 DEF References
<1>8. \A f \in Holder : ref'[f] # Nothing => Allocated(ref[f])'
  BY <1>0, <1>1, <1>3 DEF Counted, Allocated
<1>9. ASSUME NEW c \in Buffer, Allocated(c)'
      PROVE  refcount'[c] = Cardinality(References(c)') /\ \E f \in Holder : ref'[f] = c
  <2>1. Allocated(c) /\ refcount'[c] = refcount[c]
    BY <1>0, <1>9 DEF Allocated
  <2>2. PICK f \in Holder : ref[f] = c
    BY <2>1 DEF Counted
  <2>3. ref'[IF c = b THEN g ELSE f] = c
    BY <2>2, <1>0, <1>1, <1>3
  <2> QED BY <2>1, <2>3, <1>6, <1>7 DEF Counted
<1>10. ASSUME NEW u \in Thread, pc'[u] \in Freeing, NEW f \in Holder \ {u}
       PROVE  ref'[f] # ref'[u]
  <2>1. pc[u] \in Freeing /\ u # h /\ u # g /\ u \in Holder
    BY <1>0, <1>10 DEF SamePlaces, Counts, Holder
  <2>2. ref'[u] = ref[u] /\ ref[u] # b /\ ref[f] # ref[u] /\ ref[u] # Nothing
    BY <1>0, <2>1, <1>1, <1>3 DEF Counted, Shapes, Shape, Freeing
  <2> QED BY <1>0, <2>2, <1>3
<1>11. ASSUME NEW u \in Thread, pc'[u] = "write", NEW f \in Holder \ {slot'[u]}
       PROVE  ref'[f] # ref'[slot'[u]]
  <2>1. pc[u] = "write" /\ slot'[u] = slot[u] /\ slot[u] # h
    BY <1>0, <1>11 DEF SamePlaces
  <2>2. slot[u] \in Holder /\ ref[slot[u]] \in Buffer
    BY <1>0, <2>1, WritersSlot
  <2>3. ref'[slot[u]] = ref[slot[u]] /\ ref[slot[u]] # b
    BY <1>0, <2>1, <2>2, <1>1, <1>3 DEF Counted
  <2>4. ref[f] # ref[slot[u]] BY <1>0, <2>1, <1>11 DEF Counted
  <2> QED BY <1>0, <2>1, <2>2, <2>3, <2>4, <1>3
<1> QED BY <1>0, <1>8, <1>9, <1>10, <1>11 DEF Counted

\* Another reference to a buffer that neither is freed nor was found writable.
LEMMA CountedShare ==
    ASSUME Typed, Shapes, Counted, SamePlaces,
           NEW h \in Slot, NEW g \in Slot, ref[h] # Nothing, ref[g] = Nothing,
           \A u \in Thread : pc[u] = "write" => slot[u] # h,
           data' = data, refcount' = [refcount EXCEPT ![ref[h]] = @ + 1],
           ref' = [ref EXCEPT ![g] = ref[h]]
    PROVE  Counted'
<1> USE NothingFacts
<1>0. PICK b \in Buffer : b = ref[h]
  BY NothingFacts DEF Typed, Holder
<1>1. ref \in [Holder -> Buffer \cup {Nothing}] /\ b \in Buffer /\ h \in Holder /\ g \in Holder
      /\ refcount \in [Buffer -> Int] /\ Counts(h) /\ Counts(g)
  BY BufferAssumption DEF Typed, Holder, Counts
<1>2. \A f \in Holder : Counts(f)' <=> Counts(f)
  BY DEF SamePlaces, Counts
<1>3. \A f \in Holder : ref'[f] = IF f = g THEN b ELSE ref[f]
  BY <1>0, <1>1
<1>4. References(b)' = References(b) \cup {g}
  BY <1>0, <1>1, <1>2, <1>3 DEF References
<1>5. Cardinality(References(b)') = Cardinality(References(b)) + 1
  <2>1. g \notin References(b) BY <1>0, <1>1 DEF References
  <2>2. IsFiniteSet(References(b)) BY ReferencesFinite
  <2> QED BY <1>0, <2>1, <2>2, <1>4, FS_AddElement
<1>6. \A c \in Buffer \ {b} : References(c)' = References(c)
  BY <1>0, <1>1, <1>2, <1>3 DEF References
<1>7. \A f \in Holder : ref'[f] # Nothing => Allocated(ref[f])'
  BY <1>0, <1>1, <1>3 DEF Counted, Allocated
<1>8. ASSUME NEW c \in Buffer, Allocated(c)'
      PROVE  refcount'[c] = Cardinality(References(c)') /\ \E f \in Holder : ref'[f] = c
  <2>1. Allocated(c) /\ refcount'[c] = IF c = b THEN refcount[c] + 1 ELSE refcount[c]
    BY <1>0, <1>8, <1>1 DEF Allocated
  <2>2. PICK f \in Holder : ref[f] = c
    BY <1>0, <2>1 DEF Counted
  <2>3. ref'[f] = c
    BY <1>0, <2>2, <1>1, <1>3
  <2> QED BY <1>0, <2>1, <2>3, <1>5, <1>6 DEF Counted
<1>9. ASSUME NEW u \in Thread, pc'[u] \in Freeing, NEW f \in Holder \ {u}
       PROVE  ref'[f] # ref'[u]
  <2>1. pc[u] \in Freeing /\ u # h /\ u # g /\ u \in Holder
    BY <1>0, <1>9, BufferAssumption DEF SamePlaces, Holder
  <2>2. ref'[u] = ref[u] /\ ref[u] # b /\ ref[f] # ref[u]
    BY <1>0, <2>1, <1>1, <1>3 DEF Counted
  <2> QED BY <1>0, <2>2, <1>3
<1>10. ASSUME NEW u \in Thread, pc'[u] = "write", NEW f \in Holder \ {slot'[u]}
       PROVE  ref'[f] # ref'[slot'[u]]
  <2>1. pc[u] = "write" /\ slot'[u] = slot[u] /\ slot[u] # h
    BY <1>0, <1>10 DEF SamePlaces
  <2>2. slot[u] \in Holder /\ ref[slot[u]] \in Buffer
    BY <1>0, <2>1, WritersSlot
  <2>3. ref'[slot[u]] = ref[slot[u]] /\ ref[slot[u]] # b
    BY <1>0, <2>1, <2>2, <1>1, <1>3 DEF Counted
  <2>4. ref[f] # ref[slot[u]] BY <1>0, <2>1, <1>10 DEF Counted
  <2> QED BY <1>0, <2>1, <2>2, <2>3, <2>4, <1>3
<1> QED BY <1>0, <1>7, <1>8, <1>9, <1>10 DEF Counted

LEMMA CountedSame ==
    ASSUME Typed, Counted, SamePlaces, UNCHANGED <<refcount, ref>>,
           \A b \in Buffer : Allocated(b)' <=> Allocated(b)
    PROVE  Counted'
<1>1. \A f \in Holder : Counts(f)' <=> Counts(f)
  BY DEF SamePlaces, Counts
<1>2. \A c \in Buffer : References(c)' = References(c)
  BY <1>1 DEF References
<1> QED BY <1>2, NothingFacts DEF Counted, SamePlaces, Typed

\* A count that is lowered to nothing, and a count that is not.
LEMMA CountedDrop ==
    ASSUME Typed, Shapes, Counted, NEW t \in Thread, DecRefcount(t)
    PROVE  Counted'
<1> USE NothingFacts DEF DecRefcount, IsLast, Goto, locals
<1>0. PICK b \in Buffer : b = ref[t]
  BY DEF Typed, Shapes, Shape, Holder
<1>1. ref \in [Holder -> Buffer \cup {Nothing}] /\ t \in Holder /\ Counts(t) /\ Allocated(b)
      /\ refcount \in [Buffer -> Int] /\ pc \in [Thread -> Pcs]
  BY <1>0 DEF Typed, Holder, Counts, Counted, Freeing
<1>2. \A f \in Holder : /\ f # t => ref'[f] = ref[f] /\ (Counts(f)' <=> Counts(f))
                        /\ ref'[t] \in {b, Nothing}
                        /\ ref'[t] = b => ~Counts(t)'
  BY <1>0, <1>1 DEF Counts, Freeing
<1>3. References(b)' = References(b) \ {t}
  BY <1>0, <1>1, <1>2 DEF References
<1>4. /\ IsFiniteSet(References(b)) /\ Cardinality(References(b)) \in Nat
      /\ Cardinality(References(b)') = Cardinality(References(b)) - 1
  <2>1. t \in References(b) BY <1>0, <1>1 DEF References
  <2>2. IsFiniteSet(References(b)) BY ReferencesFinite
  <2>3. Cardinality(References(b) \ {t}) = Cardinality(References(b)) - 1
    BY <2>1, <2>2, FS_RemoveElement
  <2> QED BY <1>3, <2>2, <2>3, FS_CardinalityType
<1>5. \A c \in Buffer \ {b} : References(c)' = References(c)
  BY <1>0, <1>1, <1>2 DEF References
<1>6. refcount[b] = Cardinality(References(b))
  BY <1>1 DEF Counted
\* Nobody who frees a buffer frees this one.
<1>7. \A u \in Thread : pc[u] \in Freeing => u # t /\ ref[u] # b
  BY <1>0, <1>1 DEF Counted, Counts
<1>8. \A f \in Holder : ref[f] = b => f \in References(b)
  BY <1>7 DEF References, Counts
<1>9. \A f \in Holder : ref'[f] # Nothing => Allocated(ref[f])'
  BY <1>0, <1>1, <1>2 DEF Counted, Allocated
<1>10. ASSUME NEW c \in Buffer, Allocated(c)'
       PROVE  refcount'[c] = Cardinality(References(c)') /\ \E f \in Holder : ref'[f] = c
  <2>1. Allocated(c) BY <1>10 DEF Allocated
  <2>2. CASE c # b
    <3>1. refcount'[c] = refcount[c] BY <2>2, <1>0, <1>1
    <3>2. PICK f \in Holder : ref[f] = c BY <2>1 DEF Counted
    <3>3. f # t BY <3>2, <2>2, <1>0
    <3>4. ref'[f] = c BY <3>2, <3>3, <1>2
    <3> QED BY <3>1, <3>4, <2>1, <2>2, <1>5 DEF Counted
  <2>3. CASE c = b
    <3>1. refcount'[c] = Cardinality(References(c)')
      BY <2>3, <1>0, <1>1, <1>4, <1>6
    <3>2. CASE refcount[b] = 1
      BY <3>1, <3>2, <2>3, <1>0, <1>1
    <3>3. CASE refcount[b] # 1
      <4>1. Cardinality(References(b)') # 0
        BY <3>3, <1>4, <1>6
      <4>2. References(b)' # {}
        BY <4>1, FS_EmptySet
      <4>3. PICK f \in References(b)' : TRUE
        BY <4>2
      <4> QED BY <4>3, <3>1, <2>3 DEF References
    <3> QED BY <3>2, <3>3
  <2> QED BY <2>2, <2>3
<1>11. ASSUME NEW u \in Thread, pc'[u] \in Freeing, NEW f \in Holder \ {u}
       PROVE  ref'[f] # ref'[u]
  <2>1. CASE u # t
    <3>1. pc[u] \in Freeing /\ u \in Holder /\ ref'[u] = ref[u] /\ ref[u] # b /\ ref[f] # ref[u]
          /\ ref[u] # Nothing
      BY <2>1, <1>11, <1>1, <1>2, <1>7 DEF Counted, Holder, Freeing, Shapes, Shape
    <3>2. CASE f = t
      BY <3>1, <3>2, <1>2
    <3>3. CASE f # t
      BY <3>1, <3>3, <1>2
    <3> QED BY <3>2, <3>3
  <2>2. CASE u = t
    <3>1. refcount[b] = 1 /\ ref' = ref
      BY <2>2, <1>11, <1>0, <1>1 DEF Freeing
    <3>2. Cardinality(References(b) \ {t}) = 0 /\ IsFiniteSet(References(b) \ {t})
      BY <3>1, <1>3, <1>4, <1>6, FS_Subset
    <3>3. References(b) \ {t} = {}
      BY <3>2, FS_EmptySet
    <3> QED BY <3>1, <3>3, <2>2, <1>8, <1>0
  <2> QED BY <2>1, <2>2
<1>12. ASSUME NEW u \in Thread, pc'[u] = "write", NEW f \in Holder \ {slot'[u]}
       PROVE  ref'[f] # ref'[slot'[u]]
  <2>1. pc[u] = "write" /\ slot'[u] = slot[u]
    BY <1>12, <1>1
  <2>2. slot[u] \in Holder /\ slot[u] \in Slot /\ ref[slot[u]] \in Buffer
    BY <2>1, WritersSlot
  <2>3. slot[u] # t
    BY <2>2, BufferAssumption
  <2>4. ref[f] # ref[slot[u]] /\ ref[slot[u]] # b
    BY <2>1, <2>3, <1>0, <1>1, <1>12 DEF Counted
  <2>5. ref'[slot[u]] = ref[slot[u]]
    BY <2>2, <2>3, <1>2
  <2> QED BY <2>1, <2>2, <2>4, <2>5, <1>2
<1> QED BY <1>9, <1>10, <1>11, <1>12 DEF Counted

\* A buffer that is freed goes with its last reference.
LEMMA CountedFree ==
    ASSUME Typed, Shapes, Counted, NEW t \in Thread, FreeData(t) \/ ReleasePush(t)
    PROVE  Counted'
<1> USE NothingFacts DEF FreeData, ReleasePush, FreeBuffer, Goto, locals
<1>0. PICK b \in Buffer : b = ref[t] /\ pc[t] \in Freeing
  BY DEF Typed, Shapes, Shape, Holder, Freeing
<1>1. ref \in [Holder -> Buffer \cup {Nothing}] /\ t \in Holder /\ data \in [Buffer -> Block \cup {Nothing}]
      /\ pc \in [Thread -> Pcs] /\ slot \in [Thread -> Slot \cup {Nothing}]
  BY DEF Typed, Holder
<1>2. /\ ref' = [ref EXCEPT ![t] = Nothing] /\ data' = [data EXCEPT ![b] = Nothing]
      /\ refcount' = refcount /\ slot' = slot
      /\ pc'[t] \notin Freeing \cup {"write"} /\ \A u \in Thread \ {t} : pc'[u] = pc[u]
  BY <1>0, <1>1 DEF Freeing
<1>3. \A f \in Holder \ {t} : ref[f] # b
  BY <1>0 DEF Counted
<1>4. \A c \in Buffer \ {b} : References(c)' = References(c)
  BY <1>0, <1>1, <1>2 DEF References, Counts
<1>5. \A f \in Holder : ref'[f] # Nothing => Allocated(ref[f])'
  BY <1>1, <1>2, <1>3 DEF Counted, Allocated
<1>6. ASSUME NEW c \in Buffer, Allocated(c)'
       PROVE  refcount'[c] = Cardinality(References(c)') /\ \E f \in Holder : ref'[f] = c
  <2>1. c # b /\ Allocated(c)
    BY <1>6, <1>1, <1>2 DEF Allocated
  <2>2. PICK f \in Holder : ref[f] = c
    BY <2>1 DEF Counted
  <2>3. ref'[f] = c
    BY <2>1, <2>2, <1>0, <1>1, <1>2
  <2> QED BY <2>1, <2>3, <1>2, <1>4 DEF Counted
<1>7. ASSUME NEW u \in Thread, pc'[u] \in Freeing, NEW f \in Holder \ {u}
       PROVE  ref'[f] # ref'[u]
  <2>1. u # t /\ pc[u] \in Freeing /\ u \in Holder
    BY <1>7, <1>2 DEF Holder
  <2>2. ref[f] # ref[u] /\ ref[u] # Nothing
    BY <2>1 DEF Counted, Shapes, Shape, Freeing
  <2> QED BY <2>1, <2>2, <1>1, <1>2
<1>8. ASSUME NEW u \in Thread, pc'[u] = "write", NEW f \in Holder \ {slot'[u]}
       PROVE  ref'[f] # ref'[slot'[u]]
  <2>1. pc[u] = "write" /\ slot'[u] = slot[u]
    BY <1>8, <1>2
  <2>2. slot[u] \in Holder /\ slot[u] \in Slot /\ ref[slot[u]] \in Buffer
    BY <2>1, WritersSlot
  <2>3. slot[u] # t /\ ref[f] # ref[slot[u]]
    BY <2>1, <2>2, <1>8, BufferAssumption DEF Counted
  <2> QED BY <2>1, <2>2, <2>3, <1>1, <1>2
<1> QED BY <1>5, <1>6, <1>7, <1>8 DEF Counted

\* One reference is the writer's own.
LEMMA CountedWritable ==
    ASSUME Typed, Shapes, Counted, NEW t \in Thread, NEW s \in Slot, MakeWritable(t, s)
    PROVE  Counted'
<1> USE NothingFacts DEF MakeWritable, IsWritable, Holds, Goto, buffers
<1>0. PICK b \in Buffer : b = ref[s]
  BY DEF Typed, Holder
<1>1. s \in Holder /\ Counts(s) /\ Allocated(b) /\ pc \in [Thread -> Pcs]
      /\ slot \in [Thread -> Slot \cup {Nothing}]
  BY <1>0, BufferAssumption DEF Typed, Holder, Counts, Counted
<1>2. CASE refcount[b] = 1
  <2>1. References(b) \ {s} = {}
    <3>1. s \in References(b) BY <1>0, <1>1 DEF References
    <3>2. IsFiniteSet(References(b)) /\ IsFiniteSet(References(b) \ {s})
      BY ReferencesFinite, FS_Subset
    <3>3. Cardinality(References(b) \ {s}) = Cardinality(References(b)) - 1
      BY <3>1, <3>2, FS_RemoveElement
    <3>4. Cardinality(References(b)) = 1
      BY <1>1, <1>2 DEF Counted
    <3>5. Cardinality(References(b) \ {s}) = 0
      BY <3>3, <3>4
    <3> QED BY <3>2, <3>5, FS_EmptySet
  <2>2. \A u \in Thread : pc[u] \in Freeing => ref[u] # b
    BY <1>0, <1>1, BufferAssumption DEF Counted, Counts
  <2>3. \A f \in Holder \ {s} : ref[f] # b
    BY <2>1, <2>2 DEF References, Counts
  <2>4. \A f \in Holder : Counts(f)' <=> Counts(f)
    BY <1>1 DEF Counts, Freeing
  <2>5. \A c \in Buffer : References(c)' = References(c)
    BY <2>4 DEF References
  <2>6. \A u \in Thread : pc'[u] \in Freeing => pc[u] \in Freeing
    BY <1>1 DEF Freeing
  <2>7. ASSUME NEW u \in Thread, pc'[u] = "write"
        PROVE  slot'[u] = s \/ (pc[u] = "write" /\ slot'[u] = slot[u])
    <3>1. CASE u = t BY <3>1, <1>1
    <3>2. CASE u # t BY <3>2, <2>7, <1>1
    <3> QED BY <3>1, <3>2
  <2>8. ref' = ref /\ data' = data /\ refcount' = refcount
    OBVIOUS
  <2>9. \A u \in Thread : pc'[u] = "write" =>
           \A f \in Holder \ {slot'[u]} : ref'[f] # ref'[slot'[u]]
    BY <2>3, <2>7, <2>8, <1>0 DEF Counted
  <2> QED BY <2>5, <2>6, <2>8, <2>9 DEF Counted, Allocated
<1>3. CASE refcount[b] # 1
  <2>1. SamePlaces
    BY <1>0, <1>1, <1>3 DEF SamePlaces, Freeing
  <2> QED BY <2>1, CountedSame DEF Allocated
<1> QED BY <1>2, <1>3

\* The copy gets the slot's reference, the thread's own takes that to the original.
LEMMA CountedCopy ==
    ASSUME Typed, Shapes, Counted, NEW t \in Thread, Copy(t)
    PROVE  Counted'
<1> USE NothingFacts DEF Copy, NewBuffer, Goto
<1>0. PICK s \in Slot, o \in Buffer : s = slot[t] /\ o = ref[s] /\ Owner[s] = t
  BY DEF Typed, Shapes, Shape, Writing, Mine, Holder
<1>1. PICK b \in Buffer, k \in Block :
         /\ ~Allocated(b)
         /\ data' = [data EXCEPT ![b] = k] /\ refcount' = [refcount EXCEPT ![b] = 1]
         /\ ref' = [ref EXCEPT ![s] = b, ![t] = o]
  BY <1>0, AllocatorFacts
<1>2. /\ ref \in [Holder -> Buffer \cup {Nothing}] /\ s \in Holder /\ t \in Holder /\ s # t
      /\ data \in [Buffer -> Block \cup {Nothing}] /\ refcount \in [Buffer -> Int]
      /\ pc \in [Thread -> Pcs] /\ slot \in [Thread -> Slot \cup {Nothing}]
      /\ ref[t] = Nothing /\ Counts(s) /\ Counts(t) /\ o # b
  BY <1>0, <1>1, BufferAssumption DEF Typed, Shapes, Shape, Holder, Counts, Counted, Freeing
<1>3. SamePlaces
  BY <1>2 DEF SamePlaces, Freeing
<1>4. \A f \in Holder : Counts(f)' <=> Counts(f)
  BY <1>3 DEF SamePlaces, Counts
<1>5. \A f \in Holder : ref'[f] = IF f = s THEN b ELSE IF f = t THEN o ELSE ref[f]
  BY <1>1, <1>2
<1>6. \A f \in Holder : ref[f] # b
  BY <1>1 DEF Counted
<1>7. References(b)' = {s} /\ Cardinality({s}) = 1
  <2>1. References(b)' = {s}
    BY <1>2, <1>4, <1>5, <1>6 DEF References
  <2> QED BY <2>1, FS_Singleton
<1>8. References(o)' = (References(o) \ {s}) \cup {t}
  BY <1>0, <1>2, <1>4, <1>5 DEF References
<1>9. Cardinality(References(o)') = Cardinality(References(o))
  <2>1. s \in References(o) /\ t \notin References(o) \ {s}
    BY <1>0, <1>2 DEF References
  <2>2. IsFiniteSet(References(o)) /\ IsFiniteSet(References(o) \ {s})
    BY ReferencesFinite, FS_Subset
  <2>3. Cardinality(References(o) \ {s}) = Cardinality(References(o)) - 1
    BY <2>1, <2>2, FS_RemoveElement
  <2>4. Cardinality(References(o)') = Cardinality(References(o) \ {s}) + 1
    BY <2>1, <2>2, <1>8, FS_AddElement
  <2>5. Cardinality(References(o)) \in Nat
    BY <2>2, FS_CardinalityType
  <2> QED BY <2>3, <2>4, <2>5
<1>10. \A c \in Buffer \ {b, o} : References(c)' = References(c)
  BY <1>0, <1>2, <1>4, <1>5 DEF References
<1>11. \A f \in Holder : ref'[f] # Nothing => Allocated(ref[f])'
  BY <1>0, <1>1, <1>2, <1>5 DEF Counted, Allocated
<1>12. ASSUME NEW c \in Buffer, Allocated(c)'
       PROVE  refcount'[c] = Cardinality(References(c)') /\ \E f \in Holder : ref'[f] = c
  <2>1. CASE c = b
    BY <2>1, <1>1, <1>2, <1>5, <1>7
  <2>2. CASE c # b
    <3>1. Allocated(c) /\ refcount'[c] = refcount[c]
      BY <2>2, <1>12, <1>1, <1>2 DEF Allocated
    <3>2. PICK f \in Holder : ref[f] = c
      BY <3>1 DEF Counted
    <3>3. ref'[IF c = o THEN t ELSE f] = c
      BY <3>2, <1>0, <1>2, <1>5
    <3>4. (IF c = o THEN t ELSE f) \in Holder
      BY <3>2, <1>2
    <3> QED BY <3>1, <3>3, <3>4, <2>2, <1>9, <1>10 DEF Counted
  <2> QED BY <2>1, <2>2
<1>13. ASSUME NEW u \in Thread, pc'[u] \in Freeing, NEW f \in Holder \ {u}
       PROVE  ref'[f] # ref'[u]
  <2>1. pc[u] \in Freeing /\ u # t /\ u # s /\ u \in Holder
    BY <1>13, <1>2 DEF SamePlaces, Counts, Holder, Freeing
  <2>2. ref'[u] = ref[u] /\ ref[u] # o /\ ref[u] # b /\ ref[f] # ref[u]
    BY <2>1, <1>0, <1>2, <1>5, <1>6 DEF Counted
  <2> QED BY <2>2, <1>5
<1>14. ASSUME NEW u \in Thread, pc'[u] = "write", NEW f \in Holder \ {slot'[u]}
       PROVE  ref'[f] # ref'[slot'[u]]
  <2>1. pc[u] = "write" /\ slot'[u] = slot[u] /\ u # t
    BY <1>14, <1>2, <1>3 DEF SamePlaces
  <2>2. slot[u] \in Holder /\ ref[slot[u]] \in Buffer /\ slot[u] # s /\ slot[u] # t
    BY <2>1, <1>0, WritersSlot, BufferAssumption
  <2>3. ref'[slot[u]] = ref[slot[u]] /\ ref[slot[u]] # b
    BY <2>2, <1>5, <1>6
  <2>4. ref[f] # ref[slot[u]] /\ ref[slot[u]] # o
    BY <2>1, <2>2, <1>0, <1>2, <1>14 DEF Counted
  <2> QED BY <2>1, <2>2, <2>3, <2>4, <1>5
<1> QED BY <1>11, <1>12, <1>13, <1>14 DEF Counted

LEMMA CountedStep ==
    ASSUME Typed, Shapes, Counted, [Next]_vars
    PROVE  Counted'
<1> USE NothingFacts, BufferAssumption
<1>1. ASSUME NEW t \in Thread, NEW s \in Slot, Alloc(t, s) PROVE Counted'
  <2>1. PICK b \in Buffer, k \in Block :
           /\ ~Allocated(b) /\ data' = [data EXCEPT ![b] = k]
           /\ refcount' = [refcount EXCEPT ![b] = 1] /\ ref' = [ref EXCEPT ![s] = b]
    BY <1>1, AllocatorFacts DEF Alloc, NewBuffer
  <2>2. SamePlaces /\ s \in Holder /\ ref[s] = Nothing /\ Counts(s)
    BY <1>1 DEF Alloc, SamePlaces, locals, Holder, Empty, Counts
  <2> QED BY <2>1, <2>2, CountedNew
<1>2. ASSUME NEW t \in Thread, NEW s \in Slot, Unref(t, s) PROVE Counted'
  <2> USE <1>2 DEF Unref, Holds, Goto, buffers, locals
  <2>1. SamePlaces
    BY DEF SamePlaces, Freeing, Typed
  <2>2. s \in Holder /\ t \in Holder /\ ref[s] # Nothing /\ ref[t] = Nothing
        /\ Counts(s) /\ Counts(t)
    BY DEF Holder, Counts, Freeing, Shapes, Shape
  <2>3. \A u \in Thread : pc[u] = "write" => slot[u] # s
    BY WritersSlot DEF Mine
  <2>4. UNCHANGED <<data, refcount>> /\ ref' = [ref EXCEPT ![s] = Nothing, ![t] = ref[s]]
    OBVIOUS
  <2> QED BY <2>1, <2>2, <2>3, <2>4, CountedMove
<1>3. ASSUME NEW t \in Thread, NEW s \in Slot, Resize(t, s) PROVE Counted'
  <2> USE <1>3 DEF Resize, Holds, Goto
  <2>1. SamePlaces
    BY DEF SamePlaces, Freeing, Typed
  <2>2. ref[s] \in Buffer /\ data[ref[s]] # Nothing
    BY DEF Typed, Holder, Counted, Allocated
  <2>3. \A b \in Buffer : Allocated(b)' <=> Allocated(b)
    BY <2>2, AllocatorFacts DEF Allocated, Typed
  <2> QED BY <2>1, <2>3, CountedSame
<1>4. ASSUME NEW t \in Thread, NEW s \in Slot, NEW d \in Slot, Ref(t, s, d) PROVE Counted'
  <2> USE <1>4 DEF Ref, Holds, locals
  <2>1. SamePlaces
    BY DEF SamePlaces
  <2>2. \A u \in Thread : pc[u] = "write" => slot[u] # s
    BY WritersSlot DEF Mine
  <2>3. /\ ref[s] # Nothing /\ ref[d] = Nothing /\ data' = data
        /\ refcount' = [refcount EXCEPT ![ref[s]] = @ + 1] /\ ref' = [ref EXCEPT ![d] = ref[s]]
    BY DEF Empty
  <2> QED BY <2>1, <2>2, <2>3, CountedShare
<1>5. ASSUME NEW t \in Thread, Begin(t) PROVE Counted'
  BY <1>1, <1>2, <1>3, <1>4, <1>5, CountedWritable DEF Begin
<1>6. ASSUME NEW t \in Thread,
             Write(t) \/ CopyFails(t) \/ ReleaseLock(t) \/ Leave(t) \/ Destroy(t)
      PROVE  Counted'
  <2> USE <1>6 DEF Write, CopyFails, ReleaseLock, Leave, Destroy, Goto, Lock, buffers, locals
  <2>1. SamePlaces
    BY DEF SamePlaces, Freeing, Typed
  <2>2. data' = data /\ UNCHANGED <<refcount, ref>>
    OBVIOUS
  <2> QED BY <2>1, <2>2, CountedSame DEF Allocated
<1>7. ASSUME NEW t \in Thread, Continue(t) PROVE Counted'
  BY <1>6, <1>7, CountedCopy, CountedDrop, CountedFree DEF Continue
<1>8. ASSUME PoolUninit \/ GetFails \/ (\E s \in Slot : GetLock(s)) \/ (\E p \in Pool : PoolInit(p))
      PROVE  Counted'
  <2> USE <1>8 DEF PoolUninit, GetFails, GetLock, PoolInit, Goto, Lock, Unlock, buffers, locals
  <2>1. SamePlaces
    BY DEF SamePlaces, Freeing, Typed
  <2>2. data' = data /\ UNCHANGED <<refcount, ref>>
    OBVIOUS
  <2> QED BY <2>1, <2>2, CountedSame DEF Allocated
<1>9. CASE GetBuffer
  <2>1. PICK b \in Buffer, k \in Block :
           /\ ~Allocated(b) /\ data' = [data EXCEPT ![b] = k]
           /\ refcount' = [refcount EXCEPT ![b] = 1] /\ ref' = [ref EXCEPT ![Client] = b]
    BY <1>9, AllocatorFacts DEF GetBuffer, NewBuffer
  <2>2. SamePlaces /\ Client \in Holder /\ ref[Client] = Nothing /\ Counts(Client)
    BY <1>9 DEF GetBuffer, Goto, Typed, Shapes, Shape, SamePlaces, Holder, Counts, Freeing
  <2> QED BY <2>1, <2>2, CountedNew
<1>10. CASE GetCount
  <2> USE <1>10 DEF GetCount, Goto, buffers
  <2> DEFINE s == slot[Client]
  <2>1. SamePlaces
    BY DEF SamePlaces, Freeing, Typed
  <2>2. s \in Slot /\ Owner[s] = Client /\ s \in Holder /\ Client \in Holder
        /\ ref[Client] # Nothing /\ ref[s] = Nothing /\ Counts(s) /\ Counts(Client)
    BY DEF Typed, Shapes, Shape, Getting, Mine, Holder, Counts, Freeing
  <2>3. \A u \in Thread : pc[u] = "write" => slot[u] # Client
    BY WritersSlot
  <2>4. UNCHANGED <<data, refcount>>
        /\ ref' = [ref EXCEPT ![Client] = Nothing, ![s] = ref[Client]]
    BY <2>2 DEF Typed
  <2> HIDE DEF s
  <2> QED BY <2>1, <2>2, <2>3, <2>4, CountedMove
<1>11. CASE UNCHANGED vars
  <2>1. SamePlaces /\ data' = data /\ UNCHANGED <<refcount, ref>>
    BY <1>11 DEF vars, buffers, locals, SamePlaces
  <2> QED BY <2>1, CountedSame DEF Allocated
<1> QED BY <1>5, <1>7, <1>8, <1>9, <1>10, <1>11 DEF Next, ClientBegins, ClientContinues

-----------------------------------------------------------------------------
(* The count of a pool is the number of its users: buffers that are out, but  *)
(* for one that is not counted yet, threads that have put a buffer back or    *)
(* uninitialised the pool and are about to leave it, and the client, for which *)
(* Nothing stands.                                                            *)

Pending(b) == pc[Client] = "count" /\ ref[Client] = b
Uses(x, p) == \/ x \in Buffer /\ opaque[x] = p /\ ~Pending(x)
              \/ x \in Thread /\ pc[x] = "leave" /\ at[x] = p
              \/ x = Nothing /\ current = p
Users(p) == {x \in Buffer \cup Thread \cup {Nothing} : Uses(x, p)}

Pools ==
    /\ live \subseteq Pool /\ users \in [Pool -> Int]
    /\ \A b \in Buffer : opaque[b] # Nothing => Allocated(b) /\ opaque[b] \in live
    /\ \A t \in Thread : at[t] # Nothing => at[t] \in live
    /\ current # Nothing => current \in live
    /\ \A t \in Thread : pc[t] = "push" => opaque[ref[t]] = at[t]
    /\ pc[Client] = "count" => opaque[ref[Client]] = current
    /\ \A p \in live : /\ users[p] = Cardinality(Users(p))
                       /\ Users(p) # {} \/ \E t \in Thread : pc[t] = "destroy" /\ at[t] = p
    /\ \A t \in Thread : pc[t] = "destroy" =>
          /\ Users(at[t]) = {}
          /\ \A u \in Thread \ {t} : pc[u] = "destroy" => at[u] # at[t]

LEMMA UsersFinite == \A p : IsFiniteSet(Users(p))
<1>1. IsFiniteSet(Buffer \cup Thread) BY BufferAssumption, FS_Union
<1>2. IsFiniteSet(Buffer \cup Thread \cup {Nothing}) BY <1>1, FS_Singleton, FS_Union
<1> QED BY <1>2, FS_Subset DEF Users

LEMMA PoolsInit == Init => Pools
<1> SUFFICES ASSUME Init PROVE Pools OBVIOUS
<1> QED BY BufferAssumption DEF Init, Pools

\* The first owner of a buffer's pool, its threads and its client stay.
LEMMA PoolsSame ==
    ASSUME Typed, Shapes, Pools, UNCHANGED <<live, users, current>>,
           \A b \in Buffer : opaque'[b] = opaque[b] /\ (opaque[b] # Nothing => Allocated(b)'),
           \A t \in Thread : /\ at'[t] = at[t]
                             /\ pc'[t] = "leave" <=> pc[t] = "leave"
                             /\ pc'[t] = "destroy" <=> pc[t] = "destroy"
                             /\ pc'[t] = "push" => pc[t] = "push" /\ ref'[t] = ref[t],
           pc'[Client] = "count" <=> pc[Client] = "count",
           pc[Client] = "count" => ref'[Client] = ref[Client]
    PROVE  Pools'
<1> USE NothingFacts, BufferAssumption
<1>1. \A p, x : x \in Buffer \cup Thread \cup {Nothing} => (Uses(x, p)' <=> Uses(x, p))
  BY DEF Uses, Pending
<1>2. \A p : Users(p)' = Users(p)
  BY <1>1 DEF Users
<1>3. \A t \in Thread : pc[t] \in {"push", "count"} => ref[t] \in Buffer
  BY DEF Typed, Shapes, Shape, Holder
<1>4. live' \subseteq Pool /\ users' \in [Pool -> Int]
  BY DEF Pools
<1>5. /\ \A b \in Buffer : opaque'[b] # Nothing => Allocated(b)' /\ opaque'[b] \in live'
      /\ \A t \in Thread : at'[t] # Nothing => at'[t] \in live'
      /\ current' # Nothing => current' \in live'
  BY DEF Pools
<1>6. /\ \A t \in Thread : pc'[t] = "push" => opaque'[ref'[t]] = at'[t]
      /\ pc'[Client] = "count" => opaque'[ref'[Client]] = current'
  BY <1>3 DEF Pools
<1>7. ASSUME NEW p \in live'
      PROVE  /\ users'[p] = Cardinality(Users(p)')
             /\ Users(p)' # {} \/ \E t \in Thread : pc'[t] = "destroy" /\ at'[t] = p
  BY <1>2 DEF Pools
<1>8. ASSUME NEW t \in Thread, pc'[t] = "destroy"
      PROVE  /\ Users(at[t])' = {}
             /\ \A u \in Thread \ {t} : pc'[u] = "destroy" => at'[u] # at'[t]
  <2>1. Users(at[t]) = {} /\ at'[t] = at[t]
    BY <1>8 DEF Pools
  <2>2. \A u \in Thread \ {t} : pc'[u] = "destroy" => at'[u] # at'[t]
    BY <1>8 DEF Pools
  <2>3. \A p : p = at[t] => Users(p)' = {}
    BY <2>1, <1>2
  <2>4. \A p : p = at'[t] => Users(p)' = {}
    BY <2>1, <2>3
  <2> QED BY <2>2, <2>4
<1> QED BY <1>4, <1>5, <1>6, <1>7, <1>8 DEF Pools

\* One element for another leaves a set as large as it was.
LEMMA SwapElement ==
    ASSUME NEW S, IsFiniteSet(S), NEW x \in S, NEW y, y \notin S
    PROVE  Cardinality((S \ {x}) \cup {y}) = Cardinality(S)
<1>1. IsFiniteSet(S \ {x}) /\ Cardinality(S \ {x}) = Cardinality(S) - 1
  BY FS_RemoveElement
<1>2. Cardinality((S \ {x}) \cup {y}) = Cardinality(S \ {x}) + 1
  BY <1>1, FS_AddElement
<1>3. Cardinality(S) \in Nat
  BY FS_CardinalityType
<1> QED BY <1>1, <1>2, <1>3

\* A buffer that has just been taken from the pool is not counted.
LEMMA PoolsGet ==
    ASSUME Typed, Shapes, Pools, GetBuffer
    PROVE  Pools'
<1> USE NothingFacts, BufferAssumption DEF GetBuffer, NewBuffer, Unlock, Goto
<1>1. PICK b \in Buffer, k \in Block :
         /\ ~Allocated(b) /\ data' = [data EXCEPT ![b] = k]
         /\ opaque' = [opaque EXCEPT ![b] = current] /\ ref' = [ref EXCEPT ![Client] = b]
  BY AllocatorFacts
<1>2. /\ pc' = [pc EXCEPT ![Client] = "count"] /\ pc[Client] = "get"
      /\ UNCHANGED <<live, users, current, at>> /\ current \in Pool
      /\ opaque \in [Buffer -> Pool \cup {Nothing}] /\ ref \in [Holder -> Buffer \cup {Nothing}]
      /\ data \in [Buffer -> Block \cup {Nothing}] /\ pc \in [Thread -> Pcs]
      /\ opaque[b] = Nothing /\ Client \in Holder
  BY <1>1 DEF Typed, Shapes, Shape, Getting, Pools, Holder
<1>3. \A p \in Pool : \A x : x \in Buffer \cup Thread \cup {Nothing} => (Uses(x, p)' <=> Uses(x, p))
  <2>1. \A c \in Buffer : ~Pending(c) /\ (Pending(c)' <=> c = b)
    BY <1>1, <1>2 DEF Pending
  <2>2. \A p \in Pool, c \in Buffer :
           (opaque'[c] = p /\ ~Pending(c)') <=> (opaque[c] = p /\ ~Pending(c))
    BY <2>1, <1>1, <1>2
  <2>3. \A p \in Pool, u \in Thread :
           (pc'[u] = "leave" /\ at'[u] = p) <=> (pc[u] = "leave" /\ at[u] = p)
    BY <1>2
  <2> QED BY <2>2, <2>3, <1>2 DEF Uses
<1>4. \A p \in Pool : Users(p)' = Users(p)
  BY <1>3 DEF Users
<1>5. \A t \in Thread : /\ pc'[t] = "push" => pc[t] = "push" /\ t # Client
                        /\ pc'[t] = "destroy" => pc[t] = "destroy"
                        /\ pc[t] = "destroy" => pc'[t] = "destroy"
  BY <1>2
<1>6. /\ live' \subseteq Pool /\ users' \in [Pool -> Int]
      /\ \A c \in Buffer : opaque'[c] # Nothing => Allocated(c)' /\ opaque'[c] \in live'
      /\ \A t \in Thread : at'[t] # Nothing => at'[t] \in live'
      /\ current' # Nothing => current' \in live'
  BY <1>1, <1>2 DEF Pools, Allocated
<1>7. /\ \A t \in Thread : pc'[t] = "push" => opaque'[ref'[t]] = at'[t]
      /\ pc'[Client] = "count" => opaque'[ref'[Client]] = current'
  <2>1. ASSUME NEW t \in Thread, pc'[t] = "push"
        PROVE  opaque'[ref'[t]] = at'[t]
    <3>1. pc[t] = "push" /\ ref'[t] = ref[t] /\ ref[t] \in Buffer /\ at[t] # Nothing
      BY <1>1, <1>2, <1>5, <2>1 DEF Typed, Shapes, Shape, Holder
    <3>2. opaque[ref[t]] = at[t]
      BY <3>1 DEF Pools
    <3> QED BY <3>1, <3>2, <1>1, <1>2
  <2> QED BY <2>1, <1>1, <1>2
<1>8. \A p \in live' : /\ users'[p] = Cardinality(Users(p)')
                       /\ Users(p)' # {} \/ \E t \in Thread : pc'[t] = "destroy" /\ at'[t] = p
  BY <1>2, <1>4, <1>5 DEF Pools
<1>9. ASSUME NEW t \in Thread, pc'[t] = "destroy"
      PROVE  Users(at[t])' = {} /\ \A u \in Thread \ {t} : pc'[u] = "destroy" => at'[u] # at'[t]
  <2>1. Users(at[t]) = {} /\ at[t] \in Pool
    BY <1>5, <1>9 DEF Pools, Typed, Shapes, Shape
  <2>2. \A p \in Pool : p = at[t] => Users(p)' = {}
    BY <2>1, <1>4
  <2>3. \A p : p = at'[t] => Users(p)' = {}
    BY <2>1, <2>2, <1>2
  <2> QED BY <2>3, <1>2, <1>5, <1>9 DEF Pools
<1> QED BY <1>6, <1>7, <1>8, <1>9 DEF Pools

\* The pool counts the buffer that has just been taken from it.
LEMMA PoolsCount ==
    ASSUME Typed, Shapes, Counted, Pools, GetCount
    PROVE  Pools'
<1> USE NothingFacts, BufferAssumption DEF GetCount, Goto
<1>1. PICK b \in Buffer, q \in live : b = ref[Client] /\ q = current
  BY DEF Typed, Shapes, Shape, Pools, Getting, Holder
<1>2. /\ pc' = [pc EXCEPT ![Client] = "idle"] /\ pc[Client] = "count" /\ opaque[b] = q
      /\ UNCHANGED <<data, opaque, live, current, at>> /\ q \in Pool
      /\ users' = [users EXCEPT ![q] = @ + 1] /\ users \in [Pool -> Int] /\ pc \in [Thread -> Pcs]
  BY <1>1 DEF Typed, Pools, buffers
<1>3. \A c \in Buffer : ~Pending(c)' /\ (Pending(c) <=> c = b)
  BY <1>1, <1>2 DEF Pending
<1>4. \A u \in Thread : /\ pc'[u] = "leave" <=> pc[u] = "leave"
                        /\ pc'[u] = "destroy" <=> pc[u] = "destroy"
                        /\ pc'[u] = "push" => pc[u] = "push" /\ u # Client
  BY <1>2
<1>5. \A p \in Pool : \A x : x \in Buffer \cup Thread \cup {Nothing} =>
         (Uses(x, p)' <=> Uses(x, p) \/ (x = b /\ p = q))
  BY <1>2, <1>3, <1>4 DEF Uses
<1>6. \A p \in Pool \ {q} : Users(p)' = Users(p)
  BY <1>5 DEF Users
<1>7. Users(q)' = Users(q) \cup {b} /\ b \notin Users(q)
  BY <1>2, <1>3, <1>5 DEF Users, Uses
<1>8. Cardinality(Users(q)') = Cardinality(Users(q)) + 1
  BY <1>7, UsersFinite, FS_AddElement
<1>9. /\ live' \subseteq Pool /\ users' \in [Pool -> Int]
      /\ \A c \in Buffer : opaque'[c] # Nothing => Allocated(c)' /\ opaque'[c] \in live'
      /\ \A t \in Thread : at'[t] # Nothing => at'[t] \in live'
      /\ current' # Nothing => current' \in live'
      /\ pc'[Client] # "count"
  BY <1>2 DEF Pools, Allocated
<1>10. ASSUME NEW t \in Thread, pc'[t] = "push"
       PROVE  opaque'[ref'[t]] = at'[t]
  <2>1. slot[Client] \in Slot
    BY <1>2 DEF Typed, Shapes, Shape, Getting, Mine
  <2>2. ref'[t] = ref[t] /\ pc[t] = "push"
    BY <2>1, <1>4, <1>10 DEF Typed, Holder
  <2>3. opaque[ref[t]] = at[t]
    BY <2>2 DEF Pools
  <2> QED BY <2>2, <2>3, <1>2
<1>11. ASSUME NEW p \in live'
       PROVE  /\ users'[p] = Cardinality(Users(p)')
              /\ Users(p)' # {} \/ \E t \in Thread : pc'[t] = "destroy" /\ at'[t] = p
  <2>1. CASE p = q
    BY <2>1, <1>2, <1>7, <1>8 DEF Pools
  <2>2. CASE p # q
    BY <2>2, <1>2, <1>4, <1>6, <1>9 DEF Pools
  <2> QED BY <2>1, <2>2
<1>12. ASSUME NEW t \in Thread, pc'[t] = "destroy"
       PROVE  Users(at[t])' = {} /\ \A u \in Thread \ {t} : pc'[u] = "destroy" => at'[u] # at'[t]
  <2>1. Users(at[t]) = {} /\ at[t] \in Pool
    BY <1>4, <1>12 DEF Pools, Typed, Shapes, Shape
  <2>2. Nothing \in Users(q)
    BY <1>1 DEF Users, Uses
  <2>3. \A p \in Pool : p = at[t] => Users(p)' = {}
    BY <2>1, <2>2, <1>6
  <2>4. \A p : p = at'[t] => Users(p)' = {}
    BY <2>1, <2>3, <1>2
  <2> QED BY <2>4, <1>2, <1>4, <1>12 DEF Pools
<1> QED BY <1>9, <1>10, <1>11, <1>12 DEF Pools

\* Back to the pool: the buffer's place among its users is taken by the thread.
LEMMA PoolsPush ==
    ASSUME Typed, Shapes, Counted, Pools, NEW t \in Thread, ReleasePush(t)
    PROVE  Pools'
<1> USE NothingFacts, BufferAssumption DEF ReleasePush, Unlock, FreeBuffer, Goto
<1>1. PICK b \in Buffer, q \in live : b = ref[t] /\ q = at[t] /\ q = opaque[b]
  BY DEF Typed, Shapes, Shape, Pools, Holder
<1>2. /\ pc' = [pc EXCEPT ![t] = "leave"] /\ pc[t] = "push" /\ q \in Pool
      /\ data' = [data EXCEPT ![b] = Nothing] /\ opaque' = [opaque EXCEPT ![b] = Nothing]
      /\ ref' = [ref EXCEPT ![t] = Nothing] /\ UNCHANGED <<live, users, current, at>>
      /\ pc \in [Thread -> Pcs] /\ opaque \in [Buffer -> Pool \cup {Nothing}]
      /\ ref \in [Holder -> Buffer \cup {Nothing}] /\ data \in [Buffer -> Block \cup {Nothing}]
  BY <1>1 DEF Typed, Pools
<1>3. \A u \in Thread \ {t} : ref[u] # b
  BY <1>1, <1>2 DEF Counted, Freeing, Holder
<1>4. \A c \in Buffer : /\ Pending(c)' <=> Pending(c)
                        /\ ~Pending(b)
  BY <1>1, <1>2, <1>3 DEF Pending, Holder
<1>5. \A u \in Thread : /\ pc'[u] = "leave" <=> (pc[u] = "leave" \/ u = t)
                        /\ pc'[u] = "destroy" <=> pc[u] = "destroy"
                        /\ pc'[u] \in {"push", "count"} => pc'[u] = pc[u] /\ u # t
  BY <1>2
<1>6. \A p \in Pool : \A x : x \in Buffer \cup Thread \cup {Nothing} =>
         (Uses(x, p)' <=> (Uses(x, p) /\ x # b) \/ (x = t /\ p = q))
  <2>1. ASSUME NEW p \in Pool, NEW c \in Buffer
        PROVE  (opaque'[c] = p /\ ~Pending(c)') <=> (opaque[c] = p /\ ~Pending(c) /\ c # b)
    <3>1. opaque'[c] = IF c = b THEN Nothing ELSE opaque[c]
      BY <1>2
    <3> QED BY <3>1, <1>4
  <2>2. ASSUME NEW p \in Pool, NEW u \in Thread
        PROVE  (pc'[u] = "leave" /\ at'[u] = p)
                  <=> ((pc[u] = "leave" /\ at[u] = p) \/ (u = t /\ p = q))
    BY <1>1, <1>2, <1>5
  <2>3. ASSUME NEW p \in Pool
        PROVE  (current' = p) <=> (current = p)
    BY <1>2
  <2> QED BY <2>1, <2>2, <2>3 DEF Uses
<1>7. b \in Users(q) /\ t \notin Users(q) /\ b # t
  BY <1>1, <1>2, <1>4 DEF Users, Uses
<1>8. \A p \in Pool \ {q} : Users(p)' = Users(p)
  <2>1. \A p \in Pool \ {q} : ~Uses(b, p)
    BY <1>1 DEF Uses
  <2> QED BY <2>1, <1>6 DEF Users
<1>9. Users(q)' = (Users(q) \ {b}) \cup {t}
  BY <1>6, <1>7, <1>2 DEF Users
<1>10. Cardinality(Users(q)') = Cardinality(Users(q))
  BY <1>7, <1>9, UsersFinite, SwapElement
<1>11. /\ live' \subseteq Pool /\ users' \in [Pool -> Int]
       /\ \A c \in Buffer : opaque'[c] # Nothing => Allocated(c)' /\ opaque'[c] \in live'
       /\ \A u \in Thread : at'[u] # Nothing => at'[u] \in live'
       /\ current' # Nothing => current' \in live'
  BY <1>2 DEF Pools, Allocated
<1>12. /\ \A u \in Thread : pc'[u] = "push" => opaque'[ref'[u]] = at'[u]
       /\ pc'[Client] = "count" => opaque'[ref'[Client]] = current'
  <2>1. ASSUME NEW u \in Thread, pc'[u] \in {"push", "count"}
        PROVE  ref'[u] = ref[u] /\ opaque'[ref[u]] = opaque[ref[u]] /\ pc[u] = pc'[u]
    <3>1. pc[u] \in {"push", "count"} /\ u # t /\ ref[u] \in Buffer
      BY <1>5, <2>1 DEF Typed, Shapes, Shape, Holder
    <3> QED BY <3>1, <1>2, <1>3, <1>5, <2>1 DEF Holder
  <2> QED BY <2>1, <1>2 DEF Pools
<1>13. ASSUME NEW p \in live'
       PROVE  /\ users'[p] = Cardinality(Users(p)')
              /\ Users(p)' # {} \/ \E u \in Thread : pc'[u] = "destroy" /\ at'[u] = p
  <2>1. CASE p = q
    BY <2>1, <1>2, <1>9, <1>10 DEF Pools
  <2>2. CASE p # q
    BY <2>2, <1>2, <1>5, <1>8, <1>11 DEF Pools
  <2> QED BY <2>1, <2>2
<1>14. ASSUME NEW u \in Thread, pc'[u] = "destroy"
       PROVE  Users(at[u])' = {} /\ \A w \in Thread \ {u} : pc'[w] = "destroy" => at'[w] # at'[u]
  <2>1. Users(at[u]) = {} /\ at[u] \in Pool
    BY <1>5, <1>14 DEF Pools, Typed, Shapes, Shape
  <2>2. \A p \in Pool : p = at[u] => Users(p)' = {}
    BY <2>1, <1>7, <1>8
  <2>3. \A p : p = at'[u] => Users(p)' = {}
    BY <2>1, <2>2, <1>2
  <2> QED BY <2>3, <1>2, <1>5, <1>14 DEF Pools
<1> QED BY <1>11, <1>12, <1>13, <1>14 DEF Pools

\* The last user of a pool destroys it.
LEMMA PoolsLeave ==
    ASSUME Typed, Shapes, Pools, NEW t \in Thread, Leave(t)
    PROVE  Pools'
<1> USE NothingFacts, BufferAssumption DEF Leave, Goto
<1>1. PICK q \in live : q = at[t]
  BY DEF Typed, Shapes, Shape, Pools
<1>2. /\ q \in Pool /\ users' = [users EXCEPT ![q] = @ - 1] /\ users \in [Pool -> Int]
      /\ UNCHANGED <<data, opaque, ref, live, current>> /\ pc[t] = "leave"
      /\ pc \in [Thread -> Pcs] /\ at \in [Thread -> Pool \cup {Nothing}]
      /\ users[q] = Cardinality(Users(q))
  BY <1>1 DEF Typed, Pools, buffers
<1>3. /\ \A u \in Thread \ {t} : pc'[u] = pc[u] /\ at'[u] = at[u]
      /\ \/ users[q] = 1 /\ pc'[t] = "destroy" /\ at'[t] = q
         \/ users[q] # 1 /\ pc'[t] = "idle" /\ at'[t] = Nothing
  BY <1>1, <1>2 DEF IsLast
<1>4. \A c \in Buffer : Pending(c)' <=> Pending(c)
  BY <1>2, <1>3 DEF Pending
<1>5. \A p \in Pool : \A x : x \in Buffer \cup Thread \cup {Nothing} =>
         (Uses(x, p)' <=> (Uses(x, p) /\ x # t))
  BY <1>2, <1>3, <1>4 DEF Uses
<1>6. t \in Users(q)
  BY <1>1, <1>2 DEF Users, Uses
<1>7. Users(q)' = Users(q) \ {t}
  BY <1>2, <1>5 DEF Users
<1>8. \A p \in Pool \ {q} : Users(p)' = Users(p)
  <2>1. \A p \in Pool \ {q} : ~Uses(t, p)
    BY <1>1 DEF Uses
  <2> QED BY <2>1, <1>5 DEF Users
<1>9. Cardinality(Users(q)') = users[q] - 1 /\ IsFiniteSet(Users(q)')
  BY <1>2, <1>6, <1>7, UsersFinite, FS_RemoveElement
<1>10. /\ Users(q)' = {} => users[q] = 1
       /\ users[q] = 1 => Users(q)' = {}
  <2>1. Users(q)' = {} => Cardinality(Users(q)') = 0
    BY FS_EmptySet
  <2>2. Cardinality(Users(q)') = 0 => Users(q)' = {}
    BY <1>9, FS_EmptySet
  <2> QED BY <2>1, <2>2, <1>2, <1>9
<1>11. /\ live' \subseteq Pool /\ users' \in [Pool -> Int]
       /\ \A c \in Buffer : opaque'[c] # Nothing => Allocated(c)' /\ opaque'[c] \in live'
       /\ \A u \in Thread : at'[u] # Nothing => at'[u] \in live'
       /\ current' # Nothing => current' \in live'
  BY <1>1, <1>2, <1>3 DEF Pools, Allocated
<1>12. /\ \A u \in Thread : pc'[u] = "push" => opaque'[ref'[u]] = at'[u]
       /\ pc'[Client] = "count" => opaque'[ref'[Client]] = current'
  BY <1>2, <1>3 DEF Pools
<1>13. ASSUME NEW p \in live'
       PROVE  /\ users'[p] = Cardinality(Users(p)')
              /\ Users(p)' # {} \/ \E u \in Thread : pc'[u] = "destroy" /\ at'[u] = p
  <2>1. CASE p = q
    BY <2>1, <1>2, <1>3, <1>9, <1>10
  <2>2. CASE p # q
    <3>1. p \in Pool \ {q} /\ p \in live /\ users'[p] = users[p]
      BY <2>2, <1>2, <1>11
    <3>2. \A u \in Thread : pc[u] = "destroy" => pc'[u] = "destroy" /\ at'[u] = at[u]
      BY <1>2, <1>3
    <3> QED BY <3>1, <3>2, <1>8 DEF Pools
  <2> QED BY <2>1, <2>2
<1>14. \A u \in Thread : pc[u] = "destroy" => at[u] # q
  BY <1>6 DEF Pools
<1>15. ASSUME NEW u \in Thread, pc'[u] = "destroy"
       PROVE  Users(at[u])' = {} /\ \A w \in Thread \ {u} : pc'[w] = "destroy" => at'[w] # at'[u]
  <2>1. PICK p \in Pool : p = at'[u]
    BY <1>1, <1>2, <1>3, <1>15 DEF Typed, Shapes, Shape
  <2>2. CASE u = t
    <3>1. p = q /\ Users(q)' = {}
      BY <2>1, <2>2, <1>3, <1>10, <1>15
    <3>2. \A w \in Thread \ {u} : pc'[w] = "destroy" => at'[w] # at'[u]
      BY <2>1, <2>2, <3>1, <1>3, <1>14
    <3> QED BY <2>1, <3>1, <3>2
  <2>3. CASE u # t
    <3>1. pc[u] = "destroy" /\ p = at[u] /\ p # q /\ Users(p) = {}
      BY <2>1, <2>3, <1>3, <1>14, <1>15 DEF Pools
    <3>2. Users(p)' = {}
      BY <3>1, <1>8
    <3>3. \A w \in Thread \ {u} : pc'[w] = "destroy" => at'[w] # p
      BY <3>1, <1>3, <1>15 DEF Pools
    <3> QED BY <2>1, <3>2, <3>3
  <2> QED BY <2>2, <2>3
<1> QED BY <1>11, <1>12, <1>13, <1>15 DEF Pools

\* Nobody has a pool that is destroyed.
LEMMA DestroyersPool ==
    ASSUME Typed, Shapes, Counted, Pools, NEW t \in Thread, pc[t] = "destroy"
    PROVE  /\ at[t] \in live /\ at[t] \in Pool /\ current # at[t]
           /\ \A b \in Buffer : opaque[b] # at[t]
           /\ \A u \in Thread \ {t} : at[u] # at[t]
<1> USE NothingFacts, BufferAssumption
<1>1. PICK q \in Pool : q = at[t] /\ q \in live
  BY DEF Typed, Shapes, Shape, Pools
<1>2. Users(q) = {}
  BY <1>1 DEF Pools
<1>3. current # q
  BY <1>2 DEF Users, Uses
<1>4. \A b \in Buffer : opaque[b] # q
  <2>1. SUFFICES ASSUME NEW b \in Buffer, opaque[b] = q PROVE FALSE
    OBVIOUS
  <2>2. Pending(b)
    BY <2>1, <1>2 DEF Users, Uses
  <2> QED BY <2>1, <2>2, <1>3 DEF Pending, Pools
<1>5. ASSUME NEW u \in Thread \ {t}, at[u] = q PROVE FALSE
  <2>1. pc[u] \in {"push", "leave", "destroy"}
    BY <1>1, <1>5 DEF Shapes, Shape
  <2>2. CASE pc[u] = "push"
    <3>1. ref[u] \in Buffer /\ opaque[ref[u]] = q
      BY <2>2, <1>5 DEF Typed, Shapes, Shape, Pools, Holder
    <3> QED BY <3>1, <1>4
  <2>3. CASE pc[u] = "leave"
    BY <2>3, <1>2, <1>5 DEF Users, Uses
  <2>4. CASE pc[u] = "destroy"
    BY <2>4, <1>1, <1>5 DEF Pools
  <2> QED BY <2>1, <2>2, <2>3, <2>4
<1> QED BY <1>1, <1>3, <1>4, <1>5

LEMMA PoolsDestroy ==
    ASSUME Typed, Shapes, Counted, Pools, NEW t \in Thread, Destroy(t)
    PROVE  Pools'
<1> USE NothingFacts, BufferAssumption DEF Destroy, Goto
<1>1. PICK q \in live : /\ q = at[t] /\ q \in Pool /\ current # q
                        /\ \A b \in Buffer : opaque[b] # q
                        /\ \A u \in Thread \ {t} : at[u] # q
  BY DestroyersPool
<1>2. /\ UNCHANGED <<data, opaque, ref, users, current>> /\ live' = live \ {q} /\ pc[t] = "destroy"
      /\ pc'[t] = "idle" /\ at'[t] = Nothing
      /\ \A u \in Thread \ {t} : pc'[u] = pc[u] /\ at'[u] = at[u]
  BY <1>1 DEF Typed, buffers
<1>3. \A c \in Buffer : Pending(c)' <=> Pending(c)
  BY <1>2 DEF Pending
<1>4. \A p \in Pool : \A x : x \in Buffer \cup Thread \cup {Nothing} => (Uses(x, p)' <=> Uses(x, p))
  BY <1>2, <1>3 DEF Uses
<1>5. \A p \in Pool : Users(p)' = Users(p)
  BY <1>4 DEF Users
<1>6. /\ live' \subseteq Pool /\ users' \in [Pool -> Int]
      /\ \A c \in Buffer : opaque'[c] # Nothing => Allocated(c)' /\ opaque'[c] \in live'
      /\ \A u \in Thread : at'[u] # Nothing => at'[u] \in live'
      /\ current' # Nothing => current' \in live'
  BY <1>1, <1>2 DEF Pools, Allocated
<1>7. /\ \A u \in Thread : pc'[u] = "push" => opaque'[ref'[u]] = at'[u]
      /\ pc'[Client] = "count" => opaque'[ref'[Client]] = current'
  BY <1>2 DEF Pools
<1>8. ASSUME NEW p \in live'
      PROVE  /\ users'[p] = Cardinality(Users(p)')
             /\ Users(p)' # {} \/ \E u \in Thread : pc'[u] = "destroy" /\ at'[u] = p
  <2>1. p \in Pool /\ p \in live /\ p # q
    BY <1>2, <1>6
  <2>2. \A u \in Thread : at[u] = p => pc'[u] = pc[u] /\ at'[u] = at[u]
    BY <2>1, <1>1, <1>2
  <2> QED BY <2>1, <2>2, <1>2, <1>5 DEF Pools
<1>9. ASSUME NEW u \in Thread, pc'[u] = "destroy"
      PROVE  Users(at[u])' = {} /\ \A w \in Thread \ {u} : pc'[w] = "destroy" => at'[w] # at'[u]
  <2>1. u # t /\ pc[u] = "destroy" /\ at'[u] = at[u]
    BY <1>2, <1>9
  <2>2. PICK p \in Pool : p = at[u] /\ Users(p) = {}
    BY <2>1 DEF Typed, Shapes, Shape, Pools
  <2>3. Users(p)' = {}
    BY <2>2, <1>5
  <2>4. \A w \in Thread \ {u} : pc'[w] = "destroy" => at'[w] # p
    BY <2>1, <2>2, <1>2 DEF Pools
  <2> QED BY <2>1, <2>2, <2>3, <2>4
<1> QED BY <1>6, <1>7, <1>8, <1>9 DEF Pools

LEMMA PoolsLock ==
    ASSUME Typed, Shapes, Pools, NEW t \in Thread, ReleaseLock(t)
    PROVE  Pools'
<1> USE NothingFacts, BufferAssumption DEF ReleaseLock, Lock, Goto
<1>1. PICK q \in live : q = opaque[ref[t]] /\ ref[t] \in Buffer
  BY DEF Typed, Shapes, Shape, Pools, Holder
<1>2. /\ UNCHANGED <<data, opaque, ref, live, users, current>> /\ pc[t] = "free"
      /\ pc'[t] = "push" /\ at'[t] = q
      /\ \A u \in Thread \ {t} : pc'[u] = pc[u] /\ at'[u] = at[u]
  BY <1>1 DEF Typed, buffers
<1>3. \A c \in Buffer : Pending(c)' <=> Pending(c)
  BY <1>2 DEF Pending
<1>4. \A p \in Pool : \A x : x \in Buffer \cup Thread \cup {Nothing} => (Uses(x, p)' <=> Uses(x, p))
  BY <1>2, <1>3 DEF Uses
<1>5. \A p \in Pool : Users(p)' = Users(p)
  BY <1>4 DEF Users
<1>6. /\ live' \subseteq Pool /\ users' \in [Pool -> Int]
      /\ \A c \in Buffer : opaque'[c] # Nothing => Allocated(c)' /\ opaque'[c] \in live'
      /\ \A u \in Thread : at'[u] # Nothing => at'[u] \in live'
      /\ current' # Nothing => current' \in live'
  BY <1>2 DEF Pools, Allocated
<1>7. /\ \A u \in Thread : pc'[u] = "push" => opaque'[ref'[u]] = at'[u]
      /\ pc'[Client] = "count" => opaque'[ref'[Client]] = current'
  BY <1>1, <1>2 DEF Pools
<1>8. ASSUME NEW p \in live'
      PROVE  /\ users'[p] = Cardinality(Users(p)')
             /\ Users(p)' # {} \/ \E u \in Thread : pc'[u] = "destroy" /\ at'[u] = p
  <2>1. \A u \in Thread : pc[u] = "destroy" => pc'[u] = pc[u] /\ at'[u] = at[u]
    BY <1>2
  <2> QED BY <2>1, <1>2, <1>5, <1>6 DEF Pools
<1>9. ASSUME NEW u \in Thread, pc'[u] = "destroy"
      PROVE  Users(at[u])' = {} /\ \A w \in Thread \ {u} : pc'[w] = "destroy" => at'[w] # at'[u]
  <2>1. u # t /\ pc[u] = "destroy" /\ at'[u] = at[u]
    BY <1>2, <1>9
  <2>2. PICK p \in Pool : p = at[u] /\ Users(p) = {}
    BY <2>1 DEF Typed, Shapes, Shape, Pools
  <2>3. Users(p)' = {}
    BY <2>2, <1>5
  <2>4. \A w \in Thread \ {u} : pc'[w] = "destroy" => at'[w] # p
    BY <2>1, <2>2, <1>2 DEF Pools
  <2> QED BY <2>1, <2>2, <2>3, <2>4
<1> QED BY <1>6, <1>7, <1>8, <1>9 DEF Pools

\* A new pool has one user, its client.
LEMMA PoolsNew ==
    ASSUME Typed, Shapes, Pools, NEW q \in Pool, PoolInit(q)
    PROVE  Pools'
<1> USE NothingFacts, BufferAssumption DEF PoolInit
<1>1. /\ UNCHANGED <<data, opaque, ref, pc, at>> /\ live' = live \cup {q} /\ q \notin live
      /\ current = Nothing /\ current' = q /\ users' = [users EXCEPT ![q] = 1]
      /\ users \in [Pool -> Int] /\ pc[Client] = "idle"
  BY DEF Pools, buffers, locals
<1>2. \A c \in Buffer : Pending(c)' <=> Pending(c)
  BY <1>1 DEF Pending
<1>3. \A p \in Pool : \A x : x \in Buffer \cup Thread \cup {Nothing} =>
         (Uses(x, p)' <=> Uses(x, p) \/ (x = Nothing /\ p = q))
  BY <1>1, <1>2 DEF Uses
<1>4. \A p \in Pool \ {q} : Users(p)' = Users(p)
  BY <1>3 DEF Users
<1>5. \A x \in Buffer \cup Thread \cup {Nothing} : ~Uses(x, q)
  BY <1>1 DEF Uses, Pools
<1>6. Users(q)' = {Nothing}
  BY <1>3, <1>5 DEF Users
<1>7. Cardinality(Users(q)') = 1
  BY <1>6, FS_Singleton
<1>8. /\ live' \subseteq Pool /\ users' \in [Pool -> Int]
      /\ \A c \in Buffer : opaque'[c] # Nothing => Allocated(c)' /\ opaque'[c] \in live'
      /\ \A u \in Thread : at'[u] # Nothing => at'[u] \in live'
      /\ current' # Nothing => current' \in live'
  BY <1>1 DEF Pools, Allocated
<1>9. /\ \A u \in Thread : pc'[u] = "push" => opaque'[ref'[u]] = at'[u]
      /\ pc'[Client] = "count" => opaque'[ref'[Client]] = current'
  BY <1>1 DEF Pools
<1>10. ASSUME NEW p \in live'
       PROVE  /\ users'[p] = Cardinality(Users(p)')
              /\ Users(p)' # {} \/ \E u \in Thread : pc'[u] = "destroy" /\ at'[u] = p
  <2>1. CASE p = q
    BY <2>1, <1>1, <1>6, <1>7
  <2>2. CASE p # q
    BY <2>2, <1>1, <1>4, <1>8 DEF Pools
  <2> QED BY <2>1, <2>2
<1>11. ASSUME NEW u \in Thread, pc'[u] = "destroy"
       PROVE  Users(at[u])' = {} /\ \A w \in Thread \ {u} : pc'[w] = "destroy" => at'[w] # at'[u]
  <2>1. PICK p \in Pool : p = at[u] /\ p \in live /\ Users(p) = {}
    BY <1>1, <1>11 DEF Typed, Shapes, Shape, Pools
  <2>2. Users(p)' = {}
    BY <2>1, <1>1, <1>4
  <2>3. \A w \in Thread \ {u} : pc'[w] = "destroy" => at'[w] # p
    BY <2>1, <1>1, <1>11 DEF Pools
  <2> QED BY <2>1, <2>2, <2>3, <1>1
<1> QED BY <1>8, <1>9, <1>10, <1>11 DEF Pools

\* The client's place among the users of its pool is taken by its thread.
LEMMA PoolsUninit ==
    ASSUME Typed, Shapes, Pools, PoolUninit
    PROVE  Pools'
<1> USE NothingFacts, BufferAssumption DEF PoolUninit, Goto, pools
<1>1. PICK q \in live : q = current /\ q \in Pool
  BY DEF Typed, Pools
<1>2. /\ UNCHANGED <<data, opaque, ref, live, users>> /\ pc[Client] = "idle" /\ current' = Nothing
      /\ pc'[Client] = "leave" /\ at'[Client] = q
      /\ \A u \in Thread \ {Client} : pc'[u] = pc[u] /\ at'[u] = at[u]
  BY <1>1 DEF Typed, buffers
<1>3. \A c \in Buffer : Pending(c)' <=> Pending(c)
  BY <1>2 DEF Pending
<1>4. \A p \in Pool : \A x : x \in Buffer \cup Thread \cup {Nothing} =>
         (Uses(x, p)' <=> (Uses(x, p) /\ x # Nothing) \/ (x = Client /\ p = q))
  BY <1>2, <1>3 DEF Uses
<1>5. \A p \in Pool \ {q} : Users(p)' = Users(p)
  <2>1. \A p \in Pool \ {q} : ~Uses(Nothing, p)
    BY <1>1 DEF Uses
  <2> QED BY <2>1, <1>4 DEF Users
<1>6. Nothing \in Users(q) /\ Client \notin Users(q)
  BY <1>1, <1>2 DEF Users, Uses
<1>7. Users(q)' = (Users(q) \ {Nothing}) \cup {Client}
  BY <1>4, <1>6, <1>1 DEF Users
<1>8. Cardinality(Users(q)') = Cardinality(Users(q))
  BY <1>6, <1>7, UsersFinite, SwapElement
<1>9. /\ live' \subseteq Pool /\ users' \in [Pool -> Int]
      /\ \A c \in Buffer : opaque'[c] # Nothing => Allocated(c)' /\ opaque'[c] \in live'
      /\ \A u \in Thread : at'[u] # Nothing => at'[u] \in live'
      /\ current' # Nothing => current' \in live'
  BY <1>1, <1>2 DEF Pools, Allocated
<1>10. /\ \A u \in Thread : pc'[u] = "push" => opaque'[ref'[u]] = at'[u]
       /\ pc'[Client] = "count" => opaque'[ref'[Client]] = current'
  BY <1>2 DEF Pools
<1>11. ASSUME NEW p \in live'
       PROVE  /\ users'[p] = Cardinality(Users(p)')
              /\ Users(p)' # {} \/ \E u \in Thread : pc'[u] = "destroy" /\ at'[u] = p
  <2>1. CASE p = q
    BY <2>1, <1>2, <1>7, <1>8 DEF Pools
  <2>2. CASE p # q
    <3>1. \A u \in Thread : pc[u] = "destroy" => pc'[u] = pc[u] /\ at'[u] = at[u]
      BY <1>2
    <3> QED BY <3>1, <2>2, <1>2, <1>5, <1>9 DEF Pools
  <2> QED BY <2>1, <2>2
<1>12. ASSUME NEW u \in Thread, pc'[u] = "destroy"
       PROVE  Users(at[u])' = {} /\ \A w \in Thread \ {u} : pc'[w] = "destroy" => at'[w] # at'[u]
  <2>1. u # Client /\ pc[u] = "destroy" /\ at'[u] = at[u]
    BY <1>2, <1>12
  <2>2. PICK p \in Pool : p = at[u] /\ Users(p) = {}
    BY <2>1 DEF Typed, Shapes, Shape, Pools
  <2>3. Users(p)' = {}
    BY <2>2, <1>5, <1>6
  <2>4. \A w \in Thread \ {u} : pc'[w] = "destroy" => at'[w] # p
    BY <2>1, <2>2, <1>2 DEF Pools
  <2> QED BY <2>1, <2>2, <2>3, <2>4
<1> QED BY <1>9, <1>10, <1>11, <1>12 DEF Pools

LEMMA PoolsStep ==
    ASSUME Typed, Shapes, Counted, Pools, [Next]_vars
    PROVE  Pools'
<1> USE NothingFacts, BufferAssumption
<1> DEFINE SameAt(t) == /\ at'[t] = at[t]
                        /\ pc'[t] = "leave" <=> pc[t] = "leave"
                        /\ pc'[t] = "destroy" <=> pc[t] = "destroy"
                        /\ pc'[t] = "push" => pc[t] = "push" /\ ref'[t] = ref[t]
                        /\ pc'[t] = "count" <=> pc[t] = "count"
                        /\ pc[t] = "count" => ref'[t] = ref[t]
           SameUsers == UNCHANGED <<live, users, current>> /\ \A t \in Thread : SameAt(t)
<1>0. ASSUME SameUsers,
             \A b \in Buffer : opaque'[b] = opaque[b] /\ (opaque[b] # Nothing => Allocated(b)')
      PROVE  Pools'
  BY <1>0, PoolsSame
<1>1. /\ \A b \in Buffer : opaque[b] # Nothing => Allocated(b)
      /\ data \in [Buffer -> Block \cup {Nothing}] /\ opaque \in [Buffer -> Pool \cup {Nothing}]
      /\ ref \in [Holder -> Buffer \cup {Nothing}] /\ pc \in [Thread -> Pcs]
      /\ \A s \in Slot : s \in Holder /\ s \notin Thread
  BY DEF Pools, Typed, Holder
<1>2. ASSUME NEW t \in Thread, NEW s \in Slot, Alloc(t, s) PROVE Pools'
  <2>1. PICK b \in Buffer, k \in Block :
           /\ ~Allocated(b) /\ data' = [data EXCEPT ![b] = k]
           /\ opaque' = [opaque EXCEPT ![b] = Nothing] /\ ref' = [ref EXCEPT ![s] = b]
    BY <1>2, AllocatorFacts DEF Alloc, NewBuffer
  <2>2. SameUsers
    BY <2>1, <1>1, <1>2 DEF Alloc, locals, pools, Holder
  <2>3. \A c \in Buffer : opaque'[c] = opaque[c] /\ (opaque[c] # Nothing => Allocated(c)')
    BY <2>1, <1>1 DEF Allocated
  <2> QED BY <2>2, <2>3, <1>0
<1>3. ASSUME NEW t \in Thread, NEW s \in Slot,
             Unref(t, s) \/ MakeWritable(t, s) \/ (\E d \in Slot : Ref(t, s, d))
      PROVE  Pools'
  <2>1. data' = data /\ opaque' = opaque
    BY <1>3 DEF Unref, MakeWritable, Ref, buffers
  <2>2. SameUsers
    BY <1>1, <1>3 DEF Unref, MakeWritable, Ref, Holds, Goto, locals, pools, Holder
  <2> QED BY <2>1, <2>2, <1>0, <1>1 DEF Allocated
<1>4. ASSUME NEW t \in Thread, NEW s \in Slot, Resize(t, s) PROVE Pools'
  <2> USE <1>4 DEF Resize, Holds, Goto, pools
  <2>1. opaque' = opaque /\ SameUsers
    BY <1>1
  <2>2. ref[s] \in Buffer /\ data[ref[s]] # Nothing
    BY DEF Typed, Holder, Counted, Allocated
  <2>3. \A b \in Buffer : Allocated(b) => Allocated(b)'
    BY <2>2, <1>1, AllocatorFacts DEF Allocated
  <2> QED BY <2>1, <2>3, <1>0, <1>1
<1>5. ASSUME NEW t \in Thread, Copy(t) PROVE Pools'
  <2>1. PICK b \in Buffer, k \in Block :
           /\ ~Allocated(b) /\ data' = [data EXCEPT ![b] = k]
           /\ opaque' = [opaque EXCEPT ![b] = Nothing]
           /\ ref' = [ref EXCEPT ![slot[t]] = b, ![t] = ref[slot[t]]]
    BY <1>5, AllocatorFacts DEF Copy, NewBuffer
  <2>2. slot[t] \in Slot
    BY <1>5 DEF Copy, Typed, Shapes, Shape, Writing, Mine
  <2>3. SameUsers
    BY <2>1, <2>2, <1>1, <1>5 DEF Copy, Goto, pools, Holder
  <2>4. \A c \in Buffer : opaque'[c] = opaque[c] /\ (opaque[c] # Nothing => Allocated(c)')
    BY <2>1, <1>1 DEF Allocated
  <2> QED BY <2>3, <2>4, <1>0
<1>6. ASSUME NEW t \in Thread, Write(t) \/ CopyFails(t) \/ DecRefcount(t) PROVE Pools'
  <2>1. data' = data /\ opaque' = opaque
    BY <1>6 DEF Write, CopyFails, DecRefcount, buffers
  <2>2. SameUsers
    <3>1. CASE Write(t) \/ CopyFails(t)
      BY <3>1, <1>1 DEF Write, CopyFails, Goto, pools
    <3>2. CASE DecRefcount(t)
      BY <3>2, <1>1 DEF DecRefcount, Goto, pools, locals, Holder
    <3> QED BY <3>1, <3>2, <1>6
  <2> QED BY <2>1, <2>2, <1>0, <1>1 DEF Allocated
<1>7. ASSUME NEW t \in Thread, FreeData(t) PROVE Pools'
  <2> USE <1>7 DEF FreeData, FreeBuffer, Goto, pools, locals
  <2>1. PICK b \in Buffer : b = ref[t] /\ opaque[b] = Nothing
    BY DEF Typed, Shapes, Shape, Holder
  <2>2. \A c \in Buffer : opaque'[c] = opaque[c] /\ (opaque[c] # Nothing => Allocated(c)')
    BY <2>1, <1>1 DEF Allocated
  <2>3. SameUsers
    BY <1>1 DEF Holder
  <2> QED BY <2>2, <2>3, <1>0
<1>8. ASSUME NEW t \in Thread, Begin(t) \/ Continue(t) PROVE Pools'
  BY <1>2, <1>3, <1>4, <1>5, <1>6, <1>7, <1>8, PoolsLock, PoolsPush, PoolsLeave, PoolsDestroy
     DEF Begin, Continue
<1>9. ASSUME GetFails \/ \E s \in Slot : GetLock(s) PROVE Pools'
  <2>1. data' = data /\ opaque' = opaque
    BY <1>9 DEF GetFails, GetLock, buffers
  <2>2. SameUsers
    BY <1>1, <1>9 DEF GetFails, GetLock, Lock, Unlock, Goto
  <2> QED BY <2>1, <2>2, <1>0, <1>1 DEF Allocated
<1>10. CASE UNCHANGED vars
  <2>1. SameUsers /\ data' = data /\ opaque' = opaque
    BY <1>10 DEF vars, buffers, pools, locals
  <2> QED BY <2>1, <1>0, <1>1 DEF Allocated
<1> QED BY <1>8, <1>9, <1>10, PoolsGet, PoolsCount, PoolsNew, PoolsUninit
           DEF Next, ClientBegins, ClientContinues
-----------------------------------------------------------------------------
(* The mutex of a pool: whoever has it is about to write what it has read of *)
(* the list.                                                                 *)

InGet(t, p) == t = Client /\ pc[t] = "get" /\ current = p
InPush(t, p) == pc[t] = "push" /\ at[t] = p

Locked ==
    /\ free \in [Pool -> SUBSET Block] /\ seen \in [Thread -> SUBSET Block]
    /\ \A t \in Thread, p \in Pool : /\ mutex[p] = t <=> InGet(t, p) \/ InPush(t, p)
                                     /\ mutex[p] = t => seen[t] = free[p]
    /\ \A p \in Pool : free[p] # {} => p \in live

LEMMA LockedInit == Init => Locked
  BY NothingFacts DEF Init, Locked, InGet, InPush

LEMMA LockedSame ==
    ASSUME Locked, UNCHANGED <<free, seen, mutex>>, live \subseteq live',
           \A t \in Thread, p \in Pool : /\ InGet(t, p)' <=> InGet(t, p)
                                         /\ InPush(t, p)' <=> InPush(t, p)
    PROVE  Locked'
<1>1. free' \in [Pool -> SUBSET Block] /\ seen' \in [Thread -> SUBSET Block]
  BY DEF Locked
<1>2. ASSUME NEW t \in Thread, NEW p \in Pool
      PROVE  /\ mutex'[p] = t <=> InGet(t, p)' \/ InPush(t, p)'
             /\ mutex'[p] = t => seen'[t] = free'[p]
  BY DEF Locked
<1>3. \A p \in Pool : free'[p] # {} => p \in live'
  BY DEF Locked
<1> QED BY <1>1, <1>2, <1>3 DEF Locked

\* Thread t gets the mutex of pool q.
LEMMA LockedLock ==
    ASSUME Typed, Locked, NEW t \in Thread, NEW q \in Pool, Lock(t, q),
           free' = free, live' = live, InGet(t, q)' \/ InPush(t, q)',
           \A p \in Pool : ~InGet(t, p) /\ ~InPush(t, p),
           \A p \in Pool \ {q} : ~InGet(t, p)' /\ ~InPush(t, p)',
           \A u \in Thread \ {t}, p \in Pool : /\ InGet(u, p)' <=> InGet(u, p)
                                               /\ InPush(u, p)' <=> InPush(u, p)
    PROVE  Locked'
<1> USE NothingFacts DEF Lock
<1>1. /\ mutex \in [Pool -> Thread \cup {Nothing}] /\ seen \in [Thread -> SUBSET Block]
      /\ free \in [Pool -> SUBSET Block] /\ mutex[q] = Nothing
      /\ mutex' = [mutex EXCEPT ![q] = t] /\ seen' = [seen EXCEPT ![t] = free[q]]
  BY DEF Typed, Locked
<1>2. free' \in [Pool -> SUBSET Block] /\ seen' \in [Thread -> SUBSET Block]
  BY <1>1
<1>3. ASSUME NEW u \in Thread, NEW p \in Pool
      PROVE  /\ mutex'[p] = u <=> InGet(u, p)' \/ InPush(u, p)'
             /\ mutex'[p] = u => seen'[u] = free'[p]
  <2>1. CASE p = q
    <3>1. mutex'[p] = t /\ seen'[t] = free'[p]
      BY <2>1, <1>1
    <3>2. u # t => ~InGet(u, p) /\ ~InPush(u, p)
      BY <2>1, <1>1 DEF Locked
    <3> QED BY <3>1, <3>2, <2>1
  <2>2. CASE p # q
    <3>1. mutex'[p] = mutex[p] /\ free'[p] = free[p] /\ mutex[p] # t
      BY <2>2, <1>1 DEF Locked
    <3>2. u # t => seen'[u] = seen[u]
      BY <1>1
    <3> QED BY <3>1, <3>2, <2>2 DEF Locked
  <2> QED BY <2>1, <2>2
<1>4. \A p \in Pool : free'[p] # {} => p \in live'
  BY DEF Locked
<1> QED BY <1>2, <1>3, <1>4 DEF Locked

\* Thread t writes the list of pool q and gives the mutex back.
LEMMA LockedUnlock ==
    ASSUME Typed, Locked, NEW t \in Thread, NEW q \in live, q \in Pool,
           NEW entries \in SUBSET Block, Unlock(t, q, entries),
           live' = live, InGet(t, q) \/ InPush(t, q),
           \A p \in Pool \ {q} : ~InGet(t, p) /\ ~InPush(t, p),
           \A p \in Pool : ~InGet(t, p)' /\ ~InPush(t, p)',
           \A u \in Thread \ {t}, p \in Pool : /\ InGet(u, p)' <=> InGet(u, p)
                                               /\ InPush(u, p)' <=> InPush(u, p)
    PROVE  Locked'
<1> USE NothingFacts DEF Unlock
<1>1. /\ mutex \in [Pool -> Thread \cup {Nothing}] /\ seen \in [Thread -> SUBSET Block]
      /\ free \in [Pool -> SUBSET Block] /\ mutex[q] = t
      /\ mutex' = [mutex EXCEPT ![q] = Nothing] /\ seen' = [seen EXCEPT ![t] = {}]
      /\ free' = [free EXCEPT ![q] = entries]
  BY DEF Typed, Locked
<1>2. free' \in [Pool -> SUBSET Block] /\ seen' \in [Thread -> SUBSET Block]
  BY <1>1
<1>3. ASSUME NEW u \in Thread, NEW p \in Pool
      PROVE  /\ mutex'[p] = u <=> InGet(u, p)' \/ InPush(u, p)'
             /\ mutex'[p] = u => seen'[u] = free'[p]
  <2>1. CASE p = q
    <3>1. mutex'[p] = Nothing
      BY <2>1, <1>1
    <3>2. u # t => ~InGet(u, p) /\ ~InPush(u, p)
      BY <2>1, <1>1 DEF Locked
    <3> QED BY <3>1, <3>2
  <2>2. CASE p # q
    <3>1. mutex'[p] = mutex[p] /\ free'[p] = free[p] /\ mutex[p] # t
      BY <2>2, <1>1 DEF Locked
    <3>2. u # t => seen'[u] = seen[u]
      BY <1>1
    <3> QED BY <3>1, <3>2, <2>2 DEF Locked
  <2> QED BY <2>1, <2>2
<1>4. \A p \in Pool : free'[p] # {} => p \in live'
  BY <1>1 DEF Locked
<1> QED BY <1>2, <1>3, <1>4 DEF Locked

LEMMA LockedStep ==
    ASSUME Typed, Shapes, Counted, Pools, Locked, [Next]_vars
    PROVE  Locked'
<1> USE NothingFacts, BufferAssumption
<1> DEFINE SameLocks == /\ UNCHANGED <<free, seen, mutex>> /\ live \subseteq live'
                        /\ \A t \in Thread, p \in Pool : /\ InGet(t, p)' <=> InGet(t, p)
                                                         /\ InPush(t, p)' <=> InPush(t, p)
<1>0. SameLocks => Locked'
  BY LockedSame
<1>1. /\ pc \in [Thread -> Pcs] /\ at \in [Thread -> Pool \cup {Nothing}]
      /\ current \in Pool \cup {Nothing}
      /\ free \in [Pool -> SUBSET Block] /\ seen \in [Thread -> SUBSET Block]
  BY DEF Typed, Locked
<1>2. ASSUME NEW t \in Thread, Begin(t) PROVE Locked'
  <2>1. SameLocks
    BY <1>1, <1>2 DEF Begin, Alloc, Unref, MakeWritable, Resize, Ref, Holds, Goto, pools, locals,
                      InGet, InPush
  <2> QED BY <2>1, <1>0
<1>3. ASSUME NEW t \in Thread,
             Write(t) \/ Copy(t) \/ CopyFails(t) \/ DecRefcount(t) \/ FreeData(t) \/ Leave(t)
      PROVE  Locked'
  <2>1. SameLocks
    BY <1>1, <1>3 DEF Write, Copy, CopyFails, DecRefcount, FreeData, Leave, Goto, pools, locals,
                      InGet, InPush
  <2> QED BY <2>1, <1>0
<1>4. ASSUME PoolUninit \/ GetCount \/ (\E p \in Pool : PoolInit(p)) \/ UNCHANGED vars
      PROVE  Locked'
  <2>1. SameLocks
    BY <1>1, <1>4 DEF PoolUninit, GetCount, PoolInit, Goto, vars, pools, locals, InGet, InPush
  <2> QED BY <2>1, <1>0
<1>5. ASSUME NEW s \in Slot, GetLock(s) PROVE Locked'
  <2>1. /\ Lock(Client, current) /\ current \in Pool /\ free' = free /\ live' = live
        /\ UNCHANGED <<current, at>> /\ pc[Client] = "idle" /\ pc' = [pc EXCEPT ![Client] = "get"]
    BY <1>1, <1>5 DEF GetLock, Goto
  <2> QED BY <2>1, <1>1, LockedLock DEF InGet, InPush
<1>6. ASSUME NEW t \in Thread, ReleaseLock(t) PROVE Locked'
  <2>1. PICK q \in Pool : q = opaque[ref[t]]
    BY <1>6 DEF ReleaseLock, Typed, Shapes, Shape, Holder
  <2>2. /\ Lock(t, q) /\ free' = free /\ live' = live /\ current' = current
        /\ pc[t] = "free" /\ pc' = [pc EXCEPT ![t] = "push"] /\ at' = [at EXCEPT ![t] = q]
    BY <1>6, <2>1 DEF ReleaseLock, Goto
  <2> QED BY <2>1, <2>2, <1>1, LockedLock DEF InGet, InPush
<1>7. CASE GetBuffer \/ GetFails
  <2>1. PICK q \in Pool : q = current /\ q \in live
    BY <1>1, <1>7 DEF GetBuffer, GetFails, Shapes, Shape, Getting, Pools
  <2>2. PICK entries \in SUBSET Block : Unlock(Client, q, entries)
    BY <1>1, <1>7, <2>1 DEF GetBuffer, GetFails
  <2>3. /\ live' = live /\ UNCHANGED <<current, at>> /\ pc[Client] = "get"
        /\ \/ pc' = [pc EXCEPT ![Client] = "idle"]
           \/ pc' = [pc EXCEPT ![Client] = "count"]
    BY <1>7 DEF GetBuffer, GetFails, Goto
  <2> QED BY <2>1, <2>2, <2>3, <1>1, LockedUnlock DEF InGet, InPush
<1>8. ASSUME NEW t \in Thread, ReleasePush(t) PROVE Locked'
  <2>1. PICK q \in Pool : q = at[t] /\ q \in live
    BY <1>1, <1>8 DEF ReleasePush, Shapes, Shape, Pools
  <2>2. ref[t] \in Buffer /\ data[ref[t]] \in Block
    BY <1>8 DEF ReleasePush, Typed, Shapes, Shape, Holder, Counted, Allocated
  <2>3. PICK entries \in SUBSET Block : Unlock(t, q, entries)
    BY <1>1, <1>8, <2>1, <2>2 DEF ReleasePush
  <2>4. /\ live' = live /\ UNCHANGED <<current, at>> /\ pc[t] = "push"
        /\ pc' = [pc EXCEPT ![t] = "leave"]
    BY <1>8 DEF ReleasePush, Goto
  <2> QED BY <2>1, <2>3, <2>4, <1>1, LockedUnlock DEF InGet, InPush
<1>9. ASSUME NEW t \in Thread, Destroy(t) PROVE Locked'
  <2> USE <1>9 DEF Destroy, Goto
  <2>1. PICK q \in Pool : /\ q = at[t] /\ current # q
                          /\ \A u \in Thread \ {t} : at[u] # q
    BY DestroyersPool
  <2>2. /\ free' = [free EXCEPT ![q] = {}] /\ live' = live \ {q} /\ UNCHANGED <<seen, mutex, current>>
        /\ pc[t] = "destroy" /\ pc' = [pc EXCEPT ![t] = "idle"] /\ at' = [at EXCEPT ![t] = Nothing]
    BY <2>1
  <2>3. \A u \in Thread, p \in Pool : /\ InGet(u, p)' <=> InGet(u, p)
                                      /\ InPush(u, p)' <=> InPush(u, p)
                                      /\ ~InGet(u, q) /\ ~InPush(u, q)
    BY <2>1, <2>2, <1>1 DEF InGet, InPush
  <2>4. ASSUME NEW u \in Thread, NEW p \in Pool
        PROVE  /\ mutex'[p] = u <=> InGet(u, p)' \/ InPush(u, p)'
               /\ mutex'[p] = u => seen'[u] = free'[p]
    <3>1. mutex[p] = u => p # q
      BY <2>3 DEF Locked
    <3>2. p # q => free'[p] = free[p]
      BY <2>2, <1>1
    <3> QED BY <3>1, <3>2, <2>2, <2>3 DEF Locked
  <2>5. free' \in [Pool -> SUBSET Block] /\ seen' \in [Thread -> SUBSET Block]
    BY <2>2, <1>1
  <2>6. ASSUME NEW p \in Pool, free'[p] # {}
        PROVE  p \in live'
    <3>1. p # q /\ free'[p] = free[p]
      BY <2>2, <2>6, <1>1
    <3> QED BY <3>1, <2>2, <2>6 DEF Locked
  <2> QED BY <2>4, <2>5, <2>6 DEF Locked
<1> QED BY <1>2, <1>3, <1>4, <1>5, <1>6, <1>7, <1>8, <1>9
        DEF Next, ClientBegins, ClientContinues, Continue
-----------------------------------------------------------------------------
(* Each block of data that is allocated has one place: a buffer, or the list *)
(* of a pool.                                                                *)

InBuffer(k, b) == b \in Buffer /\ data[b] = k
InList(k, p) == p \in Pool /\ k \in free[p]

Blocks ==
    /\ content \in [Block -> Value \cup {Nothing}]
    /\ \A k \in Block : content[k] # Nothing => (\E b : InBuffer(k, b)) \/ \E p : InList(k, p)
    /\ \A k \in Block : \A x : InBuffer(k, x) \/ InList(k, x) => content[k] # Nothing
    /\ \A k \in Block : \A b, c : InBuffer(k, b) /\ InBuffer(k, c) => b = c
    /\ \A k \in Block : \A p, q : InList(k, p) /\ InList(k, q) => p = q
    /\ \A k \in Block : \A b, p : ~(InBuffer(k, b) /\ InList(k, p))

LEMMA BlocksInit == Init => Blocks
  BY NothingFacts DEF Init, Blocks, InBuffer, InList

\* What is written into a block leaves it where it is.
LEMMA BlocksSame ==
    ASSUME Blocks, UNCHANGED <<data, free>>, content' \in [Block -> Value \cup {Nothing}],
           \A k \in Block : content'[k] # Nothing <=> content[k] # Nothing
    PROVE  Blocks'
<1>1. \A k \in Block : \A x : /\ InBuffer(k, x)' <=> InBuffer(k, x)
                              /\ InList(k, x)' <=> InList(k, x)
  BY DEF InBuffer, InList
<1> QED BY <1>1 DEF Blocks

\* A new block for a new buffer.
LEMMA BlocksNew ==
    ASSUME Typed, Blocks, NEW b \in Buffer, NEW k \in Block, NEW v \in Value,
           ~Allocated(b), content[k] = Nothing, free' = free,
           data' = [data EXCEPT ![b] = k], content' = [content EXCEPT ![k] = v]
    PROVE  Blocks'
<1> USE NothingFacts
<1>1. /\ data \in [Buffer -> Block \cup {Nothing}] /\ data[b] = Nothing
      /\ content \in [Block -> Value \cup {Nothing}]
      /\ \A x : ~InBuffer(k, x) /\ ~InList(k, x)
  BY DEF Typed, Allocated, Blocks
<1>2. \A j \in Block : \A x : /\ InBuffer(j, x)' <=> InBuffer(j, x) \/ (j = k /\ x = b)
                              /\ InList(j, x)' <=> InList(j, x)
  BY <1>1 DEF InBuffer, InList
<1>3. content' \in [Block -> Value \cup {Nothing}]
      /\ \A j \in Block : content'[j] # Nothing <=> content[j] # Nothing \/ j = k
  BY <1>1
<1> QED BY <1>1, <1>2, <1>3 DEF Blocks

\* A block of the list for a new buffer.
LEMMA BlocksReuse ==
    ASSUME Typed, Blocks, NEW b \in Buffer, NEW q \in Pool, NEW k \in free[q],
           free \in [Pool -> SUBSET Block], ~Allocated(b), content' = content,
           data' = [data EXCEPT ![b] = k], free' = [free EXCEPT ![q] = free[q] \ {k}]
    PROVE  Blocks'
<1> USE NothingFacts
<1>1. /\ data \in [Buffer -> Block \cup {Nothing}] /\ data[b] = Nothing /\ k \in Block
      /\ \A x : ~InBuffer(k, x)
      /\ \A x : InList(k, x) <=> x = q
  BY DEF Typed, Allocated, Blocks, InList
<1>2. \A j \in Block : \A x : /\ InBuffer(j, x)' <=> InBuffer(j, x) \/ (j = k /\ x = b)
                              /\ InList(j, x)' <=> InList(j, x) /\ j # k
  BY <1>1 DEF InBuffer, InList
<1> QED BY <1>1, <1>2 DEF Blocks

\* The block of a buffer that is freed joins a list.
LEMMA BlocksReturn ==
    ASSUME Typed, Blocks, NEW b \in Buffer, NEW q \in Pool, Allocated(b),
           free \in [Pool -> SUBSET Block], content' = content,
           data' = [data EXCEPT ![b] = Nothing], free' = [free EXCEPT ![q] = free[q] \cup {data[b]}]
    PROVE  Blocks'
<1> USE NothingFacts
<1>1. PICK k \in Block : k = data[b]
  BY DEF Typed, Allocated
<1>2. /\ data \in [Buffer -> Block \cup {Nothing}] /\ content[k] # Nothing
      /\ \A x : InBuffer(k, x) <=> x = b
      /\ \A x : ~InList(k, x)
  BY <1>1 DEF Typed, Blocks, InBuffer
<1>3. \A j \in Block : \A x : /\ InBuffer(j, x)' <=> InBuffer(j, x) /\ j # k
                              /\ InList(j, x)' <=> InList(j, x) \/ (j = k /\ x = q)
  BY <1>1, <1>2 DEF InBuffer, InList
<1> QED BY <1>2, <1>3 DEF Blocks

\* The block of a buffer that is freed is freed too.
LEMMA BlocksFree ==
    ASSUME Typed, Blocks, NEW b \in Buffer, Allocated(b), free' = free,
           data' = [data EXCEPT ![b] = Nothing], content' = [content EXCEPT ![data[b]] = Nothing]
    PROVE  Blocks'
<1> USE NothingFacts
<1>1. PICK k \in Block : k = data[b]
  BY DEF Typed, Allocated
<1>2. /\ data \in [Buffer -> Block \cup {Nothing}] /\ content \in [Block -> Value \cup {Nothing}]
      /\ \A x : InBuffer(k, x) <=> x = b
      /\ \A x : ~InList(k, x)
  BY <1>1 DEF Typed, Blocks, InBuffer
<1>3. \A j \in Block : \A x : /\ InBuffer(j, x)' <=> InBuffer(j, x) /\ j # k
                              /\ InList(j, x)' <=> InList(j, x)
  BY <1>1, <1>2 DEF InBuffer, InList
<1>4. content' \in [Block -> Value \cup {Nothing}]
      /\ \A j \in Block : content'[j] # Nothing <=> content[j] # Nothing /\ j # k
  BY <1>1, <1>2
<1> QED BY <1>2, <1>3, <1>4 DEF Blocks

\* av_realloc has moved the data of a buffer.
LEMMA BlocksMove ==
    ASSUME Typed, Blocks, NEW b \in Buffer, NEW k \in Block, Allocated(b),
           content[k] = Nothing, free' = free, data' = [data EXCEPT ![b] = k],
           content' = [content EXCEPT ![k] = content[data[b]], ![data[b]] = Nothing]
    PROVE  Blocks'
<1> USE NothingFacts
<1>1. PICK i \in Block : i = data[b]
  BY DEF Typed, Allocated
<1>2. /\ data \in [Buffer -> Block \cup {Nothing}] /\ content \in [Block -> Value \cup {Nothing}]
      /\ content[i] # Nothing /\ i # k
      /\ \A x : InBuffer(i, x) <=> x = b
      /\ \A x : ~InList(i, x) /\ ~InBuffer(k, x) /\ ~InList(k, x)
  BY <1>1 DEF Typed, Blocks, InBuffer
<1>3. \A j \in Block : \A x : /\ InBuffer(j, x)' <=> (InBuffer(j, x) /\ j # i) \/ (j = k /\ x = b)
                              /\ InList(j, x)' <=> InList(j, x)
  BY <1>1, <1>2 DEF InBuffer, InList
<1>4. content' \in [Block -> Value \cup {Nothing}]
      /\ \A j \in Block : content'[j] # Nothing <=> (content[j] # Nothing /\ j # i) \/ j = k
  BY <1>1, <1>2
<1> QED BY <1>2, <1>3, <1>4 DEF Blocks

\* The list of a pool is freed with it.
LEMMA BlocksDestroy ==
    ASSUME Blocks, NEW q \in Pool, free \in [Pool -> SUBSET Block], data' = data,
           content' = [k \in Block |-> IF k \in free[q] THEN Nothing ELSE content[k]],
           free' = [free EXCEPT ![q] = {}]
    PROVE  Blocks'
<1> USE NothingFacts
<1>1. \A j \in Block : \A x : /\ InBuffer(j, x)' <=> InBuffer(j, x)
                              /\ InList(j, x)' <=> InList(j, x) /\ x # q
  BY DEF InBuffer, InList
<1>2. content' \in [Block -> Value \cup {Nothing}]
      /\ \A j \in Block : content'[j] # Nothing <=> content[j] # Nothing /\ ~InList(j, q)
  BY DEF Blocks, InList
<1> QED BY <1>1, <1>2 DEF Blocks

LEMMA BlocksStep ==
    ASSUME Typed, Shapes, Counted, Pools, Locked, Blocks, [Next]_vars
    PROVE  Blocks'
<1> USE NothingFacts, BufferAssumption
<1>1. /\ data \in [Buffer -> Block \cup {Nothing}] /\ free \in [Pool -> SUBSET Block]
      /\ content \in [Block -> Value \cup {Nothing}]
      /\ \A b \in Buffer : Allocated(b) => data[b] \in Block /\ content[data[b]] \in Value
  BY DEF Typed, Locked, Blocks, Allocated, InBuffer
<1>2. ASSUME UNCHANGED <<data, content, free>> PROVE Blocks'
  BY <1>1, <1>2, BlocksSame
<1>3. ASSUME NEW t \in Thread, NEW s \in Slot, Alloc(t, s) PROVE Blocks'
  <2>1. PICK b \in Buffer, k \in Block, v \in Value :
           /\ ~Allocated(b) /\ data' = [data EXCEPT ![b] = k]
           /\ content[k] = Nothing /\ content' = [content EXCEPT ![k] = v]
    BY <1>3, AllocatorFacts DEF Alloc, NewBuffer, NewBlock
  <2>2. free' = free
    BY <1>3 DEF Alloc, pools
  <2> QED BY <2>1, <2>2, BlocksNew
<1>4. ASSUME NEW t \in Thread, NEW s \in Slot, Resize(t, s) PROVE Blocks'
  <2>1. PICK b \in Buffer : b = ref[s] /\ Allocated(b)
    BY <1>4 DEF Resize, Holds, Typed, Holder, Counted
  <2>2. CASE resizable[b] /\ IsWritable(b)
    <3>1. PICK k \in Block : /\ content[k] = Nothing /\ data' = [data EXCEPT ![b] = k]
                             /\ content' = [content EXCEPT ![k] = content[data[b]],
                                                           ![data[b]] = Nothing]
      BY <1>4, <2>1, <2>2, AllocatorFacts DEF Resize
    <3>2. free' = free
      BY <1>4 DEF Resize, pools
    <3> QED BY <2>1, <3>1, <3>2, BlocksMove
  <2>3. CASE ~(resizable[b] /\ IsWritable(b))
    BY <1>2, <1>4, <2>1, <2>3 DEF Resize, pools
  <2> QED BY <2>2, <2>3
<1>5. ASSUME NEW t \in Thread, Begin(t) PROVE Blocks'
  BY <1>2, <1>3, <1>4, <1>5 DEF Begin, Unref, MakeWritable, Ref, buffers, pools
<1>6. ASSUME NEW t \in Thread, Write(t) PROVE Blocks'
  <2>1. PICK b \in Buffer : b = ref[slot[t]] /\ Allocated(b)
    BY <1>6, WritersSlot DEF Write, Counted
  <2>2. PICK k \in Block, v \in Value : k = data[b] /\ content' = [content EXCEPT ![k] = v]
    BY <1>1, <1>6, <2>1 DEF Write
  <2>3. UNCHANGED <<data, free>> /\ content[k] \in Value
    BY <1>1, <1>6, <2>1, <2>2 DEF Write, buffers, pools
  <2> QED BY <1>1, <2>2, <2>3, BlocksSame
<1>7. ASSUME NEW t \in Thread, Copy(t) PROVE Blocks'
  <2>1. PICK o \in Buffer : o = ref[slot[t]] /\ Allocated(o)
    BY <1>7 DEF Copy, Typed, Shapes, Shape, Writing, Mine, Holder, Counted
  <2>2. PICK v \in Value : v = content[data[o]]
    BY <1>1, <2>1
  <2>3. PICK b \in Buffer, k \in Block :
           /\ ~Allocated(b) /\ data' = [data EXCEPT ![b] = k]
           /\ content[k] = Nothing /\ content' = [content EXCEPT ![k] = v]
    BY <1>7, <2>1, <2>2, AllocatorFacts DEF Copy, NewBuffer, NewBlock
  <2>4. free' = free
    BY <1>7 DEF Copy, pools
  <2> QED BY <2>3, <2>4, BlocksNew
<1>8. ASSUME NEW t \in Thread, CopyFails(t) \/ DecRefcount(t) \/ ReleaseLock(t) \/ Leave(t)
      PROVE  Blocks'
  BY <1>2, <1>8 DEF CopyFails, DecRefcount, ReleaseLock, Leave, buffers, pools
<1>9. ASSUME NEW t \in Thread, FreeData(t) PROVE Blocks'
  <2>1. PICK b \in Buffer : b = ref[t] /\ Allocated(b)
    BY <1>9 DEF FreeData, Typed, Shapes, Shape, Holder, Counted
  <2>2. /\ free' = free /\ data' = [data EXCEPT ![b] = Nothing]
        /\ content' = [content EXCEPT ![data[b]] = Nothing]
    BY <1>9, <2>1 DEF FreeData, FreeBuffer, pools
  <2> QED BY <2>1, <2>2, BlocksFree
<1>10. ASSUME NEW t \in Thread, ReleasePush(t) PROVE Blocks'
  <2>1. PICK b \in Buffer : b = ref[t] /\ Allocated(b)
    BY <1>10 DEF ReleasePush, Typed, Shapes, Shape, Holder, Counted
  <2>2. PICK q \in Pool : q = at[t]
    BY <1>10 DEF ReleasePush, Typed, Shapes, Shape
  <2>3. seen[t] = free[q]
    BY <1>10, <2>2 DEF ReleasePush, Locked, InPush
  <2>4. /\ content' = content /\ data' = [data EXCEPT ![b] = Nothing]
        /\ free' = [free EXCEPT ![q] = free[q] \cup {data[b]}]
    BY <1>10, <2>1, <2>2, <2>3 DEF ReleasePush, FreeBuffer, Unlock
  <2> QED BY <1>1, <2>1, <2>4, BlocksReturn
<1>11. ASSUME NEW t \in Thread, Destroy(t) PROVE Blocks'
  <2>1. PICK q \in Pool : q = at[t]
    BY <1>11 DEF Destroy, Typed, Shapes, Shape
  <2>2. /\ data' = data /\ free' = [free EXCEPT ![q] = {}]
        /\ content' = [k \in Block |-> IF k \in free[q] THEN Nothing ELSE content[k]]
    BY <1>11, <2>1 DEF Destroy, buffers
  <2> QED BY <1>1, <2>2, BlocksDestroy
<1>12. CASE GetBuffer \/ GetFails
  <2>1. PICK q \in Pool : q = current /\ seen[Client] = free[q]
    <3>1. pc[Client] = "get"
      BY <1>12 DEF GetBuffer, GetFails
    <3>2. current \in Pool
      BY <3>1 DEF Typed, Shapes, Shape, Getting
    <3> QED BY <3>1, <3>2 DEF Typed, Locked, InGet
  <2>2. CASE GetBuffer
    <3>1. PICK b \in Buffer, k \in Block :
             /\ ~Allocated(b) /\ data' = [data EXCEPT ![b] = k]
             /\ IF free[q] # {}
                THEN k \in free[q] /\ content' = content
                ELSE \E v \in Value : NewBlock(k, v)
             /\ free' = [free EXCEPT ![q] = free[q] \ {k}]
      BY <2>1, <2>2, AllocatorFacts DEF GetBuffer, NewBuffer, Unlock
    <3>2. CASE free[q] # {}
      BY <1>1, <3>1, <3>2, BlocksReuse
    <3>3. CASE free[q] = {}
      <4>1. free' = free
        BY <1>1, <3>1, <3>3
      <4>2. PICK v \in Value : content[k] = Nothing /\ content' = [content EXCEPT ![k] = v]
        BY <3>1, <3>3, AllocatorFacts DEF NewBlock
      <4> QED BY <3>1, <4>1, <4>2, BlocksNew
    <3> QED BY <3>2, <3>3
  <2>3. CASE GetFails
    <3>1. UNCHANGED <<data, content>> /\ free' = [free EXCEPT ![q] = free[q]]
      BY <2>1, <2>3 DEF GetFails, Unlock, buffers
    <3>2. free' = free
      BY <1>1, <3>1
    <3> QED BY <1>2, <3>1, <3>2
  <2> QED BY <1>12, <2>2, <2>3
<1>13. ASSUME PoolUninit \/ GetCount \/ (\E p \in Pool : PoolInit(p)) \/ UNCHANGED vars
              \/ \E s \in Slot : GetLock(s)
       PROVE  Blocks'
  BY <1>2, <1>13 DEF PoolUninit, GetCount, PoolInit, GetLock, vars, buffers, pools
<1> QED BY <1>5, <1>6, <1>7, <1>8, <1>9, <1>10, <1>11, <1>12, <1>13
           DEF Next, ClientBegins, ClientContinues, Continue
-----------------------------------------------------------------------------
(* The inductive invariant, and what follows from it. *)

IInv == Typed /\ Shapes /\ Counted /\ Pools /\ Locked /\ Blocks

LEMMA Invariant == Spec => []IInv
<1>1. Init => IInv
  BY LocalsInit, CountedInit, PoolsInit, LockedInit, BlocksInit DEF IInv
<1>2. IInv /\ [Next]_vars => IInv'
  <2> SUFFICES ASSUME IInv, [Next]_vars PROVE IInv' OBVIOUS
  <2>1. Typed' /\ Shapes'
    BY LocalsBegin, LocalsContinue, LocalsClient, LocalsStutter DEF IInv, Next
  <2> QED BY <2>1, CountedStep, PoolsStep, LockedStep, BlocksStep DEF IInv
<1> QED BY <1>1, <1>2, PTL DEF Spec

\* A counter that is lowered was at least one.
Natural == refcount \in [Buffer -> Nat] /\ users \in [Pool -> Nat]

LEMMA NaturalStep ==
    ASSUME IInv, Natural, [Next]_vars
    PROVE  Natural'
<1> USE DEF IInv, Natural
<1>1. ASSUME NEW t \in Thread, DecRefcount(t) PROVE Natural'
  <2>1. PICK b \in Buffer : b = ref[t] /\ Allocated(b) /\ t \in References(b)
    BY <1>1, NothingFacts DEF DecRefcount, Typed, Shapes, Shape, Holder, Counted, References, Counts,
                              Freeing
  <2>2. refcount[b] = Cardinality(References(b)) /\ IsFiniteSet(References(b))
    BY <2>1, ReferencesFinite DEF Counted
  <2>3. Cardinality(References(b)) # 0
    BY <2>1, <2>2, FS_EmptySet
  <2>4. refcount' = [refcount EXCEPT ![b] = @ - 1] /\ users' = users
    BY <1>1, <2>1 DEF DecRefcount, pools
  <2> QED BY <2>2, <2>3, <2>4
<1>2. ASSUME NEW t \in Thread, Leave(t) PROVE Natural'
  <2>1. PICK q \in Pool : q = at[t] /\ q \in live /\ t \in Users(q)
    BY <1>2, NothingFacts DEF Leave, Typed, Shapes, Shape, Pools, Users, Uses
  <2>2. users[q] = Cardinality(Users(q)) /\ IsFiniteSet(Users(q))
    BY <2>1, UsersFinite DEF Pools
  <2>3. Cardinality(Users(q)) # 0
    BY <2>1, <2>2, FS_EmptySet
  <2>4. users' = [users EXCEPT ![q] = @ - 1] /\ refcount' = refcount
    BY <1>2, <2>1 DEF Leave, buffers
  <2> QED BY <2>2, <2>3, <2>4
<1> DEFINE Grows(b) == refcount' = [refcount EXCEPT ![b] = @ + 1]
           Starts(b) == refcount' = [refcount EXCEPT ![b] = 1]
<1>3. ASSUME users' = users,
             refcount' = refcount \/ (\E b \in Buffer : Grows(b)) \/ (\E b \in Buffer : Starts(b))
      PROVE  Natural'
  BY <1>3
<1>4. ASSUME NEW t \in Thread, Begin(t) PROVE Natural'
  <2>1. users' = users
    BY <1>4 DEF Begin, Alloc, Unref, MakeWritable, Resize, Ref, pools
  <2>2. ASSUME NEW s \in Slot, NEW d \in Slot, Ref(t, s, d) PROVE \E b \in Buffer : Grows(b)
    BY <2>2 DEF Ref, Holds, Typed, Holder
  <2>3. ASSUME NEW s \in Slot, Alloc(t, s) PROVE \E b \in Buffer : Starts(b)
    BY <2>3 DEF Alloc, NewBuffer
  <2>4. ASSUME NEW s \in Slot, Unref(t, s) \/ MakeWritable(t, s) \/ Resize(t, s)
        PROVE  refcount' = refcount
    BY <2>4 DEF Unref, MakeWritable, Resize, buffers
  <2> QED BY <1>3, <1>4, <2>1, <2>2, <2>3, <2>4 DEF Begin
<1>5. ASSUME NEW t \in Thread, Copy(t) PROVE Natural'
  <2>1. users' = users /\ \E b \in Buffer : Starts(b)
    BY <1>5 DEF Copy, NewBuffer, pools
  <2> QED BY <1>3, <2>1
<1>6. ASSUME NEW t \in Thread,
             \/ Write(t) \/ CopyFails(t) \/ FreeData(t)
             \/ ReleaseLock(t) \/ ReleasePush(t) \/ Destroy(t)
      PROVE  Natural'
  <2>1. UNCHANGED <<refcount, users>>
    BY <1>6 DEF Write, CopyFails, FreeData, ReleaseLock, ReleasePush, Destroy, FreeBuffer, buffers,
                pools
  <2> QED BY <1>3, <2>1
<1>7. ASSUME PoolUninit \/ GetFails \/ (\E s \in Slot : GetLock(s)) \/ UNCHANGED vars
      PROVE  Natural'
  <2>1. UNCHANGED <<refcount, users>>
    BY <1>7 DEF PoolUninit, GetFails, GetLock, buffers, pools, vars
  <2> QED BY <1>3, <2>1
<1>8. CASE GetBuffer
  <2>1. users' = users /\ \E b \in Buffer : Starts(b)
    BY <1>8 DEF GetBuffer, NewBuffer
  <2> QED BY <1>3, <2>1
<1>9. CASE GetCount
  <2>1. PICK p \in Pool : p = current
    BY <1>9, BufferAssumption DEF GetCount, Typed, Shapes, Shape, Getting
  <2>2. refcount' = refcount /\ users' = [users EXCEPT ![p] = @ + 1]
    BY <1>9, <2>1 DEF GetCount, buffers
  <2> QED BY <2>2
<1>10. ASSUME NEW p \in Pool, PoolInit(p) PROVE Natural'
  <2>1. refcount' = refcount /\ users' = [users EXCEPT ![p] = 1]
    BY <1>10 DEF PoolInit, buffers
  <2> QED BY <2>1
<1> QED BY <1>1, <1>2, <1>4, <1>5, <1>6, <1>7, <1>8, <1>9, <1>10
           DEF Next, Continue, ClientBegins, ClientContinues

\* The counters of buffers and pools never fall below zero, and every pointer is
\* to a structure of its kind, or NULL.
THEOREM TypeCorrect == Spec => []TypeOK
<1>1. Init => Natural
  BY DEF Init, Natural
<1>2. IInv /\ Natural /\ [Next]_vars => Natural'
  BY NaturalStep
<1>3. IInv /\ Natural => TypeOK
  BY DEF IInv, Natural, Typed, Pools, Locked, Blocks, TypeOK
<1> QED BY <1>1, <1>2, <1>3, Invariant, PTL DEF Spec

\* av_buffer_unref frees a buffer when its last reference goes and never before,
\* and a block of data is in one buffer or one pool's list: nothing is used after
\* it is freed, freed twice, or handed out twice.
THEOREM ReferencesAreSafe == Spec => []NothingDangles
<1>1. IInv => NothingDangles
  <2> SUFFICES ASSUME IInv PROVE NothingDangles OBVIOUS
  <2>1. \A h \in Holder : ref[h] # Nothing => Allocated(ref[h])
    BY DEF IInv, Counted
  <2>2. ASSUME NEW b \in Buffer, Allocated(b)
        PROVE  /\ content[data[b]] # Nothing
               /\ \A c \in Buffer \ {b} : data[c] # data[b]
               /\ \A p \in Pool : data[b] \notin free[p]
    <3>1. PICK k \in Block : k = data[b] /\ InBuffer(k, b)
      BY <2>2 DEF IInv, Typed, Allocated, InBuffer
    <3> QED BY <3>1 DEF IInv, Blocks, InBuffer, InList
  <2>3. ASSUME NEW p \in Pool, NEW k \in free[p]
        PROVE  content[k] # Nothing /\ \A q \in Pool \ {p} : k \notin free[q]
    <3>1. k \in Block /\ InList(k, p)
      BY DEF IInv, Locked, InList
    <3> QED BY <3>1 DEF IInv, Blocks, InList
  <2> QED BY <2>1, <2>2, <2>3 DEF NothingDangles
<1> QED BY <1>1, Invariant, PTL

\* A pool that av_buffer_pool_uninit has given up stays until its last buffer is
\* back, and is destroyed by the one thread that still knows it.
THEOREM PoolsAreSafe == Spec => []PoolOutlivesBuffers
<1>1. IInv => PoolOutlivesBuffers
  <2> SUFFICES ASSUME IInv PROVE PoolOutlivesBuffers OBVIOUS
  <2>1. /\ \A b \in Buffer : opaque[b] # Nothing => opaque[b] \in live
        /\ \A t \in Thread : at[t] # Nothing => at[t] \in live
        /\ current # Nothing => current \in live
    BY DEF IInv, Pools
  <2>2. ASSUME NEW t \in Thread, pc[t] = "destroy"
        PROVE  /\ current # at[t] /\ mutex[at[t]] = Nothing
               /\ \A b \in Buffer : opaque[b] # at[t]
               /\ \A u \in Thread \ {t} : at[u] # at[t]
    <3>1. /\ at[t] \in Pool /\ current # at[t]
          /\ \A b \in Buffer : opaque[b] # at[t]
          /\ \A u \in Thread \ {t} : at[u] # at[t]
      BY <2>2, DestroyersPool DEF IInv
    <3>2. \A u \in Thread : ~InGet(u, at[t]) /\ ~InPush(u, at[t])
      BY <2>2, <3>1 DEF InGet, InPush
    <3>3. mutex[at[t]] = Nothing
      BY <3>1, <3>2 DEF IInv, Locked, Typed
    <3> QED BY <3>1, <3>3
  <2> QED BY <2>1, <2>2 DEF PoolOutlivesBuffers
<1> QED BY <1>1, Invariant, PTL

\* Nothing leaks: a buffer has a holder, a block of data a buffer or a pool that
\* will be destroyed, and such a pool a user that will destroy it.
THEOREM NothingLeaks == Spec => []NothingIsLost
<1>1. IInv => NothingIsLost
  <2> SUFFICES ASSUME IInv PROVE NothingIsLost OBVIOUS
  <2>1. \A b \in Buffer : Allocated(b) => \E h \in Holder : ref[h] = b
    BY DEF IInv, Counted
  <2>2. \A k \in Block : content[k] # Nothing =>
           \/ \E b \in Buffer : data[b] = k
           \/ \E p \in live : k \in free[p]
    BY DEF IInv, Blocks, Locked, InBuffer, InList
  <2>3. ASSUME NEW p \in live, ~ \E t \in Thread : pc[t] = "destroy" /\ at[t] = p
        PROVE  users[p] > 0
    <3>1. users[p] = Cardinality(Users(p)) /\ Users(p) # {}
      BY <2>3 DEF IInv, Pools
    <3>2. Cardinality(Users(p)) # 0 /\ Cardinality(Users(p)) \in Nat
      BY <3>1, UsersFinite, FS_EmptySet, FS_CardinalityType
    <3> QED BY <3>1, <3>2
  <2> QED BY <2>1, <2>2, <2>3 DEF NothingIsLost
<1> QED BY <1>1, Invariant, PTL
-----------------------------------------------------------------------------
(* What a slot sees is changed by its holder only: the buffers implement     *)
(* private copies.                                                           *)

View == [s \in Slot |-> Sees(s)]

\* A slot's buffer, if it has one, is allocated and holds a value.
LEMMA SlotsBuffer ==
    ASSUME IInv, NEW h \in Holder, ref[h] # Nothing
    PROVE  /\ ref[h] \in Buffer /\ data[ref[h]] \in Block /\ content[data[ref[h]]] \in Value
           /\ Allocated(ref[h])
           /\ \A c \in Buffer : data[c] = data[ref[h]] => c = ref[h]
           /\ \A p \in Pool : data[ref[h]] \notin free[p]
<1>1. PICK b \in Buffer : b = ref[h] /\ Allocated(b)
  BY DEF IInv, Typed, Counted
<1>2. PICK k \in Block : k = data[b]
  BY <1>1 DEF IInv, Typed, Allocated
<1>3. InBuffer(k, b)
  BY <1>2 DEF InBuffer
<1>4. content[k] \in Value
  BY <1>3 DEF IInv, Blocks
<1>5. \A c \in Buffer : data[c] = k => c = b
  BY <1>3 DEF IInv, Blocks, InBuffer
<1>6. \A p \in Pool : k \notin free[p]
  BY <1>3 DEF IInv, Blocks, InList
<1> QED BY <1>1, <1>2, <1>4, <1>5, <1>6

\* A step that changes what one slot sees is a step of that slot's holder.
LEMMA OneChanges ==
    ASSUME IInv, NEW s \in Slot, NEW v \in Value \cup {Nothing}, Sees(s)' = v,
           \A u \in Slot \ {s} : Sees(u)' = Sees(u)
    PROVE  Copies!Next
<1>1. View' = [View EXCEPT ![s] = v]
  BY DEF View
<1>2. CASE v = Nothing
  BY <1>1, <1>2 DEF View, Copies!Next, Copies!Drop
<1>3. CASE v \in Value /\ Sees(s) = Nothing
  <2>1. Copies!Obtain(s)
    BY <1>1, <1>3 DEF View, Copies!Obtain
  <2> QED BY <2>1 DEF Copies!Next
<1>4. CASE v \in Value /\ Sees(s) # Nothing
  <2>1. Copies!Write(s)
    BY <1>1, <1>4 DEF View, Copies!Write
  <2> QED BY <2>1 DEF Copies!Next
<1> QED BY <1>2, <1>3, <1>4

\* A slot that keeps its buffer, whose data and content stay, sees what it saw.
LEMMA SeesOn ==
    ASSUME NEW u \in Slot, ref'[u] = ref[u],
           ref[u] # Nothing => /\ data'[ref[u]] = data[ref[u]]
                               /\ content'[data[ref[u]]] = content[data[ref[u]]]
    PROVE  Sees(u)' = Sees(u)
  BY DEF Sees

LEMMA BeginRefines ==
    ASSUME IInv, NEW t \in Thread, Begin(t)
    PROVE  [Copies!Next]_View
<1> USE NothingFacts, BufferAssumption
<1>0. /\ ref \in [Holder -> Buffer \cup {Nothing}] /\ data \in [Buffer -> Block \cup {Nothing}]
      /\ content \in [Block -> Value \cup {Nothing}] /\ Slot \subseteq Holder /\ t \in Holder
  BY DEF IInv, Typed, Blocks, Holder
<1>1. ASSUME NEW s \in Slot, Alloc(t, s) PROVE Copies!Next
  <2>1. PICK b \in Buffer, k \in Block, v \in Value :
           /\ ~Allocated(b) /\ data' = [data EXCEPT ![b] = k] /\ ref' = [ref EXCEPT ![s] = b]
           /\ content[k] = Nothing /\ content' = [content EXCEPT ![k] = v]
    BY <1>1, AllocatorFacts DEF Alloc, NewBuffer, NewBlock
  <2>2. Sees(s)' = v
    BY <2>1, <1>0 DEF Sees
  <2>3. ASSUME NEW u \in Slot \ {s} PROVE Sees(u)' = Sees(u)
    <3>1. ref'[u] = ref[u]
      BY <2>1, <1>0
    <3>2. ASSUME ref[u] # Nothing
          PROVE  data'[ref[u]] = data[ref[u]] /\ content'[data[ref[u]]] = content[data[ref[u]]]
      BY <2>1, <3>2, <1>0, SlotsBuffer
    <3> QED BY <3>1, <3>2, SeesOn
  <2> QED BY <2>2, <2>3, OneChanges
<1>2. ASSUME NEW s \in Slot, Unref(t, s) PROVE Copies!Next
  <2>1. /\ ref' = [ref EXCEPT ![s] = Nothing, ![t] = ref[s]] /\ UNCHANGED <<data, content>>
        /\ s # t /\ \A u \in Slot : u # t
    BY <1>2 DEF Unref, buffers
  <2>2. Sees(s)' = Nothing
    BY <2>1, <1>0 DEF Sees
  <2>3. \A u \in Slot \ {s} : Sees(u)' = Sees(u)
    BY <2>1, <1>0 DEF Sees
  <2> QED BY <2>2, <2>3, OneChanges
<1>3. ASSUME NEW s \in Slot, MakeWritable(t, s) PROVE View' = View
  BY <1>3 DEF MakeWritable, View, Sees, buffers
<1>4. ASSUME NEW s \in Slot, Resize(t, s) PROVE View' = View
  <2>1. PICK b \in Buffer : b = ref[s]
    BY <1>0, <1>4 DEF Resize, Holds
  <2>2. CASE resizable[b] /\ IsWritable(b)
    <3>1. PICK k \in Block : /\ content[k] = Nothing /\ data' = [data EXCEPT ![b] = k]
                             /\ content' = [content EXCEPT ![k] = content[data[b]],
                                                           ![data[b]] = Nothing]
      BY <1>4, <2>1, <2>2, AllocatorFacts DEF Resize
    <3>2. ref' = ref
      BY <1>4 DEF Resize
    <3>3. PICK i \in Block : i = data[b] /\ content[i] \in Value /\ i # k
      BY <2>1, <1>0, <3>1, SlotsBuffer
    <3>4. ASSUME NEW u \in Slot PROVE Sees(u)' = Sees(u)
      <4>1. CASE ref[u] = Nothing
        BY <4>1, <3>2 DEF Sees
      <4>2. CASE ref[u] = b
        BY <4>2, <3>1, <3>2, <3>3, <1>0 DEF Sees
      <4>3. CASE ref[u] # Nothing /\ ref[u] # b
        <5>1. /\ ref[u] \in Buffer /\ data[ref[u]] \in Block /\ data[ref[u]] # k
              /\ data[ref[u]] # i
          BY <4>3, <3>1, <3>3, <1>0, SlotsBuffer
        <5>2. data'[ref[u]] = data[ref[u]] /\ content'[data[ref[u]]] = content[data[ref[u]]]
          BY <5>1, <4>3, <3>1, <3>3, <1>0
        <5> QED BY <5>2, <3>2, SeesOn
      <4> QED BY <4>1, <4>2, <4>3
    <3> QED BY <3>4 DEF View
  <2>3. CASE ~(resizable[b] /\ IsWritable(b))
    BY <1>4, <2>1, <2>3 DEF Resize, View, Sees
  <2> QED BY <2>2, <2>3
<1>5. ASSUME NEW s \in Slot, NEW d \in Slot, Ref(t, s, d) PROVE Copies!Next
  <2>1. /\ ref' = [ref EXCEPT ![d] = ref[s]] /\ UNCHANGED <<data, content>> /\ ref[s] # Nothing
    BY <1>5 DEF Ref, Holds
  <2>2. PICK v \in Value : v = content[data[ref[s]]]
    BY <2>1, <1>0, SlotsBuffer
  <2>3. Sees(d)' = v
    BY <2>1, <2>2, <1>0 DEF Sees
  <2>4. \A u \in Slot \ {d} : Sees(u)' = Sees(u)
    BY <2>1, <1>0 DEF Sees
  <2> QED BY <2>3, <2>4, OneChanges
<1> QED BY <1>1, <1>2, <1>3, <1>4, <1>5 DEF Begin

\* Whoever frees a buffer takes its data from nobody.
LEMMA FreeRefines ==
    ASSUME IInv, NEW t \in Thread, FreeData(t) \/ ReleasePush(t)
    PROVE  View' = View
<1> USE NothingFacts, BufferAssumption DEF FreeData, ReleasePush, FreeBuffer
<1>0. /\ ref \in [Holder -> Buffer \cup {Nothing}] /\ data \in [Buffer -> Block \cup {Nothing}]
      /\ content \in [Block -> Value \cup {Nothing}] /\ Slot \subseteq Holder /\ t \in Holder
      /\ \A u \in Slot : u # t
  BY DEF IInv, Typed, Blocks, Holder
<1>1. PICK b \in Buffer : b = ref[t] /\ \A u \in Slot : ref[u] # b
  BY <1>0 DEF IInv, Typed, Shapes, Shape, Counted, Freeing
<1>2. PICK k \in Block : k = data[b] /\ \A c \in Buffer : data[c] = k => c = b
  BY <1>0, <1>1, SlotsBuffer
<1>3. /\ ref' = [ref EXCEPT ![t] = Nothing] /\ data' = [data EXCEPT ![b] = Nothing]
      /\ content' = content \/ content' = [content EXCEPT ![k] = Nothing]
  BY <1>1, <1>2
<1>4. ASSUME NEW u \in Slot PROVE Sees(u)' = Sees(u)
  <2>1. ref'[u] = ref[u]
    BY <1>0, <1>3
  <2>2. ASSUME ref[u] # Nothing
        PROVE  data'[ref[u]] = data[ref[u]] /\ content'[data[ref[u]]] = content[data[ref[u]]]
    <3>1. ref[u] \in Buffer /\ ref[u] # b /\ data[ref[u]] # k /\ data[ref[u]] \in Block
      BY <2>2, <1>0, <1>1, <1>2, SlotsBuffer
    <3> QED BY <3>1, <1>0, <1>3
  <2> QED BY <2>1, <2>2, SeesOn
<1> QED BY <1>4 DEF View

LEMMA ContinueRefines ==
    ASSUME IInv, NEW t \in Thread, Continue(t)
    PROVE  [Copies!Next]_View
<1> USE NothingFacts, BufferAssumption
<1>0. /\ ref \in [Holder -> Buffer \cup {Nothing}] /\ data \in [Buffer -> Block \cup {Nothing}]
      /\ content \in [Block -> Value \cup {Nothing}] /\ Slot \subseteq Holder /\ t \in Holder
      /\ \A u \in Slot : u # t
  BY DEF IInv, Typed, Blocks, Holder
<1>1. CASE Write(t)
  <2>1. PICK s \in Slot : /\ s = slot[t] /\ ref[s] # Nothing
                          /\ \A u \in Slot \ {s} : ref[u] # ref[s]
    BY <1>0, <1>1, WritersSlot DEF Write, IInv, Counted
  <2>2. PICK k \in Block : /\ k = data[ref[s]]
                           /\ \A c \in Buffer : data[c] = k => c = ref[s]
    BY <1>0, <2>1, SlotsBuffer
  <2>3. PICK v \in Value : content' = [content EXCEPT ![k] = v]
    BY <1>1, <2>1, <2>2 DEF Write
  <2>4. UNCHANGED <<ref, data>>
    BY <1>1 DEF Write, buffers
  <2>5. Sees(s)' = v
    BY <2>1, <2>2, <2>3, <2>4, <1>0 DEF Sees
  <2>6. ASSUME NEW u \in Slot \ {s} PROVE Sees(u)' = Sees(u)
    <3>1. ASSUME ref[u] # Nothing
          PROVE  content'[data[ref[u]]] = content[data[ref[u]]]
      <4>1. data[ref[u]] # k /\ data[ref[u]] \in Block
        BY <3>1, <2>1, <2>2, <1>0, SlotsBuffer
      <4> QED BY <4>1, <2>3, <1>0
    <3> QED BY <3>1, <2>4, SeesOn
  <2> QED BY <2>5, <2>6, OneChanges
<1>2. CASE Copy(t)
  <2>1. PICK s \in Slot, o \in Buffer : s = slot[t] /\ o = ref[s]
    BY <1>0, <1>2 DEF Copy, IInv, Typed, Shapes, Shape, Writing, Mine
  <2>2. PICK v \in Value : v = content[data[o]]
    BY <2>1, <1>0, SlotsBuffer
  <2>3. PICK b \in Buffer, k \in Block :
           /\ ~Allocated(b) /\ data' = [data EXCEPT ![b] = k]
           /\ content[k] = Nothing /\ content' = [content EXCEPT ![k] = v]
           /\ ref' = [ref EXCEPT ![s] = b, ![t] = o]
    BY <1>2, <2>1, <2>2, AllocatorFacts DEF Copy, NewBuffer, NewBlock
  <2>4. ASSUME NEW u \in Slot PROVE Sees(u)' = Sees(u)
    <3>1. CASE u = s
      <4>1. Sees(s) = v
        BY <2>1, <2>2 DEF Sees
      <4>2. Sees(s)' = v
        BY <2>1, <2>3, <1>0 DEF Sees
      <4> QED BY <3>1, <4>1, <4>2
    <3>2. CASE u # s
      <4>1. ref'[u] = ref[u]
        BY <3>2, <2>3, <1>0
      <4>2. ASSUME ref[u] # Nothing
            PROVE  data'[ref[u]] = data[ref[u]] /\ content'[data[ref[u]]] = content[data[ref[u]]]
        BY <4>2, <2>3, <1>0, SlotsBuffer
      <4> QED BY <4>1, <4>2, SeesOn
    <3> QED BY <3>1, <3>2
  <2> QED BY <2>4 DEF View
<1>3. CASE DecRefcount(t)
  <2>1. UNCHANGED <<data, content>> /\ \A u \in Slot : ref'[u] = ref[u]
    BY <1>0, <1>3 DEF DecRefcount
  <2> QED BY <2>1 DEF View, Sees
<1>4. CASE CopyFails(t) \/ ReleaseLock(t) \/ Leave(t)
  BY <1>4 DEF CopyFails, ReleaseLock, Leave, buffers, View, Sees
<1>5. CASE Destroy(t)
  <2>1. PICK q \in Pool : q = at[t]
    BY <1>5 DEF Destroy, IInv, Typed, Shapes, Shape
  <2>2. /\ UNCHANGED <<ref, data>>
        /\ content' = [k \in Block |-> IF k \in free[q] THEN Nothing ELSE content[k]]
    BY <1>5, <2>1 DEF Destroy, buffers
  <2>3. ASSUME NEW u \in Slot PROVE Sees(u)' = Sees(u)
    <3>1. ASSUME ref[u] # Nothing
          PROVE  content'[data[ref[u]]] = content[data[ref[u]]]
      BY <3>1, <2>2, <1>0, SlotsBuffer
    <3> QED BY <3>1, <2>2, SeesOn
  <2> QED BY <2>3 DEF View
<1> QED BY <1>1, <1>2, <1>3, <1>4, <1>5, FreeRefines DEF Continue

LEMMA ClientRefines ==
    ASSUME IInv, ClientBegins \/ ClientContinues
    PROVE  [Copies!Next]_View
<1> USE NothingFacts, BufferAssumption
<1>0. /\ ref \in [Holder -> Buffer \cup {Nothing}] /\ data \in [Buffer -> Block \cup {Nothing}]
      /\ content \in [Block -> Value \cup {Nothing}] /\ Slot \subseteq Holder /\ Client \in Holder
      /\ \A u \in Slot : u # Client
  BY DEF IInv, Typed, Blocks, Holder
<1>1. CASE ClientBegins \/ GetFails
  BY <1>1 DEF ClientBegins, PoolUninit, GetLock, PoolInit, GetFails, buffers, View, Sees
<1>2. CASE GetBuffer
  <2>1. PICK b \in Buffer, k \in Block :
           /\ ~Allocated(b) /\ data' = [data EXCEPT ![b] = k]
           /\ ref' = [ref EXCEPT ![Client] = b]
           /\ \/ content' = content
              \/ \E v \in Value : content[k] = Nothing /\ content' = [content EXCEPT ![k] = v]
    BY <1>2, AllocatorFacts DEF GetBuffer, NewBuffer, NewBlock
  <2>2. ASSUME NEW u \in Slot PROVE Sees(u)' = Sees(u)
    <3>1. ref'[u] = ref[u]
      BY <2>1, <1>0
    <3>2. ASSUME ref[u] # Nothing
          PROVE  data'[ref[u]] = data[ref[u]] /\ content'[data[ref[u]]] = content[data[ref[u]]]
      BY <3>2, <2>1, <1>0, SlotsBuffer
    <3> QED BY <3>1, <3>2, SeesOn
  <2> QED BY <2>2 DEF View
<1>3. CASE GetCount
  <2>1. PICK s \in Slot, b \in Buffer : s = slot[Client] /\ b = ref[Client]
    BY <1>0, <1>3 DEF GetCount, IInv, Typed, Shapes, Shape, Getting, Mine
  <2>2. PICK v \in Value : v = content[data[b]]
    BY <2>1, <1>0, SlotsBuffer
  <2>3. /\ UNCHANGED <<data, content>> /\ ref' = [ref EXCEPT ![s] = b, ![Client] = Nothing]
    BY <1>3, <2>1 DEF GetCount, buffers
  <2>4. Sees(s)' = v
    BY <2>1, <2>2, <2>3, <1>0 DEF Sees
  <2>5. \A u \in Slot \ {s} : Sees(u)' = Sees(u)
    BY <2>3, <1>0 DEF Sees
  <2> QED BY <2>4, <2>5, OneChanges
<1> QED BY <1>1, <1>2, <1>3 DEF ClientContinues

\* Whoever has a reference sees a value that only its holder changes: sharing,
\* copying on write and the reuse of pooled buffers are invisible.
THEOREM Refinement == Spec => SharingIsInvisible
<1>1. Init => Copies!Init
  BY DEF Init, Copies!Init, Sees, Holder
<1>2. IInv /\ [Next]_vars => [Copies!Next]_View
  <2> SUFFICES ASSUME IInv, [Next]_vars PROVE [Copies!Next]_View OBVIOUS
  <2>1. CASE UNCHANGED vars
    BY <2>1 DEF vars, buffers, View, Sees
  <2> QED BY <2>1, BeginRefines, ContinueRefines, ClientRefines DEF Next
<1> QED
  BY <1>1, <1>2, Invariant, PTL DEF Spec, SharingIsInvisible, Copies!Spec, View
=============================================================================
