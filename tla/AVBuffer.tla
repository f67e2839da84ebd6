------------------------------ MODULE AVBuffer ------------------------------
(***************************************************************************)
(* Reference-counted data and pools of it (libavutil/buffer.c), under      *)
(* threads that create, share, pass on, write and release references.      *)
(* Packets and frames travel through the decoder threads and the player as *)
(* such references.                                                        *)
(*                                                                         *)
(* A reference (AVBufferRef) belongs to one thread at a time; an AVBuffer  *)
(* is shared.  Each change of a counter is one step, so is the section     *)
(* under AVBufferPool::mutex.  Between a counter that reached zero and the *)
(* release of what it counted, any other thread may run.                   *)
(***************************************************************************)
EXTENDS Naturals, Sequences, FiniteSets

CONSTANTS
  Thread, Ref, Buffer, Data, Pool,   \* what there can be at one time
  None

ASSUME AVBufferAssumption ==
  /\ IsFiniteSet(Ref) /\ IsFiniteSet(Buffer)
  /\ None \notin Thread \cup Ref \cup Buffer \cup Data \cup Pool

VARIABLES
  refs,      \* AVBufferRef: holder (None: unused), buffer, data
  buffers,   \* AVBuffer: live, refcount, data, entry of a pool, flags
  memory,    \* the data allocated
  pools,     \* AVBufferPool: live, refcount, list
  current,   \* the application's pointer to a pool (FramePool::pools)
  lock,      \* the mutex under which an application uses `current`
  th         \* where each thread is, and what it works on

vars == <<refs, buffers, memory, pools, current, lock, th>>

NoRef == [holder |-> None, buffer |-> None, data |-> None]

NoEntry == [pool |-> None, data |-> None]

NoBuffer == [live |-> FALSE, refcount |-> 0, data |-> None, entry |-> NoEntry, flags |-> {}]

NoPool == [live |-> FALSE, refcount |-> 0, list |-> <<>>]

Idle == [pc |-> "ready", ret |-> "ready", buffer |-> None, pool |-> None, ref |-> None]

Init ==
  /\ refs = [r \in Ref |-> NoRef]
  /\ buffers = [b \in Buffer |-> NoBuffer]
  /\ memory = {}
  /\ pools = [p \in Pool |-> NoPool]
  /\ current = None
  /\ lock = None
  /\ th = [t \in Thread |-> Idle]

-----------------------------------------------------------------------------
Ready(t) == th[t].pc = "ready"

Holds(t, r) == refs[r].holder = t

Unused(r) == refs[r].holder = None

(* av_buffer_create() of data d: the buffer and its first reference.       *)
NewBuffer(d, entry, flags) ==
  [live |-> TRUE, refcount |-> 1, data |-> d, entry |-> entry, flags |-> flags]

NewRef(t, b, d) == [holder |-> t, buffer |-> b, data |-> d]

(* The end of buffer_replace(): the old buffer loses a reference, and who  *)
(* takes the last one releases it and goes on at `ret`.                    *)
Release(t, b, ret, r) ==
  th' = [th EXCEPT ![t] =
           IF buffers[b].refcount = 1
           THEN [Idle EXCEPT !.pc = "free", !.ret = ret, !.buffer = b, !.ref = r]
           ELSE [Idle EXCEPT !.pc = ret, !.ref = r]]

(* av_buffer_alloc(), av_buffer_create()                                   *)
Create(t) ==
  /\ Ready(t)
  /\ \E r \in Ref, b \in Buffer, d \in Data \ memory, flags \in {{}, {"readonly"}} :
       /\ Unused(r) /\ ~buffers[b].live
       /\ refs' = [refs EXCEPT ![r] = NewRef(t, b, d)]
       /\ buffers' = [buffers EXCEPT ![b] = NewBuffer(d, NoEntry, flags)]
       /\ memory' = memory \cup {d}
  /\ UNCHANGED <<pools, current, lock, th>>

(* Mutant: the new reference is not counted.                               *)
AddUncounted(t) ==
  /\ Ready(t)
  /\ \E r, s \in Ref :
       /\ Holds(t, r) /\ Unused(s)
       /\ refs' = [refs EXCEPT ![s] = refs[r]]
  /\ UNCHANGED <<buffers, memory, pools, current, lock, th>>

(* av_buffer_ref()                                                         *)
Add(t) ==
  /\ Ready(t)
  /\ \E r, s \in Ref :
       /\ Holds(t, r) /\ Unused(s)
       /\ refs' = [refs EXCEPT ![s] = refs[r]]
       /\ buffers' = [buffers EXCEPT ![refs[r].buffer].refcount = @ + 1]
  /\ UNCHANGED <<memory, pools, current, lock, th>>

(* An application hands a reference to another thread.                     *)
Pass(t) ==
  /\ Ready(t)
  /\ \E r \in Ref, u \in Thread \ {t} :
       /\ Holds(t, r)
       /\ refs' = [refs EXCEPT ![r].holder = u]
  /\ UNCHANGED <<buffers, memory, pools, current, lock, th>>

(* av_buffer_unref()                                                       *)
Unref(t) ==
  /\ Ready(t)
  /\ \E r \in Ref :
       /\ Holds(t, r)
       /\ refs' = [refs EXCEPT ![r] = NoRef]
       /\ buffers' = [buffers EXCEPT ![refs[r].buffer].refcount = @ - 1]
       /\ Release(t, refs[r].buffer, "ready", None)
  /\ UNCHANGED <<memory, pools, current, lock>>

-----------------------------------------------------------------------------
(* b->free() and what follows.                                             *)

(* av_buffer_default_free()                                                *)
FreeData(t) ==
  LET b == buffers[th[t].buffer] IN
  /\ th[t].pc = "free" /\ b.entry = NoEntry
  /\ memory' = memory \ {b.data}
  /\ th' = [th EXCEPT ![t].pc = "freeBuffer"]
  /\ UNCHANGED <<refs, buffers, pools, current, lock>>

(* pool_release_buffer(): under the mutex, then the counter.               *)
ReturnToPool(t) ==
  LET e == buffers[th[t].buffer].entry IN
  /\ th[t].pc = "free" /\ e # NoEntry
  /\ pools' = [pools EXCEPT ![e.pool].list = <<e.data>> \o @]
  /\ th' = [th EXCEPT ![t].pc = "leavePool", ![t].pool = e.pool]
  /\ UNCHANGED <<refs, buffers, memory, current, lock>>

(* Mutant: the end is seen only when the counter was zero before.          *)
LastOutLate(p) == pools[p].refcount = 0

(* The decrement takes the last reference to the pool.                     *)
LastOut(p) == pools[p].refcount = 1

LeavePool(t) ==
  LET p == th[t].pool IN
  /\ th[t].pc = "leavePool"
  /\ pools' = [pools EXCEPT ![p].refcount = @ - 1]
  /\ th' = [th EXCEPT ![t].pc = IF LastOut(p) THEN "freePool" ELSE "freeBuffer"]
  /\ UNCHANGED <<refs, buffers, memory, current, lock>>

(* buffer_pool_free(), called from a release or from uninit.               *)
FreePool(t) ==
  LET p == th[t].pool IN
  /\ th[t].pc = "freePool"
  /\ memory' = memory \ {pools[p].list[n] : n \in 1 .. Len(pools[p].list)}
  /\ pools' = [pools EXCEPT ![p] = NoPool]
  /\ th' = [th EXCEPT ![t] =
              IF th[t].buffer = None THEN Idle ELSE [th[t] EXCEPT !.pc = "freeBuffer"]]
  /\ UNCHANGED <<refs, buffers, current, lock>>

FreeBuffer(t) ==
  /\ th[t].pc = "freeBuffer"
  /\ buffers' = [buffers EXCEPT ![th[t].buffer] = NoBuffer]
  /\ th' = [th EXCEPT ![t] = [Idle EXCEPT !.pc = th[t].ret, !.ref = th[t].ref]]
  /\ UNCHANGED <<refs, memory, pools, current, lock>>

-----------------------------------------------------------------------------
(* Writing.                                                                *)

(* Mutant: one other reference is overlooked.                              *)
AlmostWritable(b) == "readonly" \notin buffers[b].flags /\ buffers[b].refcount <= 2

(* av_buffer_is_writable()                                                 *)
Writable(b) == "readonly" \notin buffers[b].flags /\ buffers[b].refcount = 1

(* The reference r moves to a new buffer with a copy of the data.          *)
Replace(t, r, flags, ret) ==
  LET old == refs[r].buffer IN
  /\ \E b \in Buffer, d \in Data \ memory :
       /\ ~buffers[b].live
       /\ refs' = [refs EXCEPT ![r] = NewRef(t, b, d)]
       /\ buffers' = [buffers EXCEPT ![b] = NewBuffer(d, NoEntry, flags),
                                     ![old].refcount = @ - 1]
       /\ memory' = memory \cup {d}
  /\ Release(t, old, ret, r)

(* av_buffer_make_writable(); the caller then writes.                      *)
MakeWritable(t) ==
  /\ Ready(t)
  /\ \E r \in Ref :
       /\ Holds(t, r)
       /\ IF Writable(refs[r].buffer)
          THEN /\ th' = [th EXCEPT ![t].pc = "write", ![t].ref = r]
               /\ UNCHANGED <<refs, buffers, memory>>
          ELSE Replace(t, r, {}, "write")
  /\ UNCHANGED <<pools, current, lock>>

Written(t) ==
  /\ th[t].pc = "write"
  /\ th' = [th EXCEPT ![t] = Idle]
  /\ UNCHANGED <<refs, buffers, memory, pools, current, lock>>

(* av_buffer_realloc(): of nothing, in place, or into a new buffer.        *)
InPlace(r) ==
  LET b == refs[r].buffer IN
  /\ "reallocatable" \in buffers[b].flags
  /\ Writable(b)
  /\ refs[r].data = buffers[b].data

Realloc(t) ==
  /\ Ready(t)
  /\ \/ \E r \in Ref, b \in Buffer, d \in Data \ memory :
          /\ Unused(r) /\ ~buffers[b].live
          /\ refs' = [refs EXCEPT ![r] = NewRef(t, b, d)]
          /\ buffers' = [buffers EXCEPT ![b] = NewBuffer(d, NoEntry, {"reallocatable"})]
          /\ memory' = memory \cup {d}
          /\ UNCHANGED th
     \/ \E r \in Ref, d \in Data \ memory :
          /\ Holds(t, r) /\ InPlace(r)
          /\ refs' = [refs EXCEPT ![r].data = d]
          /\ buffers' = [buffers EXCEPT ![refs[r].buffer].data = d]
          /\ memory' = (memory \ {refs[r].data}) \cup {d}
          /\ UNCHANGED th
     \/ \E r \in Ref :
          /\ Holds(t, r) /\ ~InPlace(r)
          /\ Replace(t, r, {"reallocatable"}, "ready")
  /\ UNCHANGED <<pools, current, lock>>

-----------------------------------------------------------------------------
(* Pools.  Their pointer is used by one thread at a time: decoder threads  *)
(* get buffers, and replace the pool when the format changes, under        *)
(* buffer_mutex (module FrameThreads).                                     *)

(* av_buffer_pool_init()                                                   *)
PoolInit(t) ==
  /\ Ready(t) /\ lock = None /\ current = None
  /\ \E p \in Pool :
       /\ ~pools[p].live
       /\ pools' = [pools EXCEPT ![p] = [live |-> TRUE, refcount |-> 1, list |-> <<>>]]
       /\ current' = p
  /\ UNCHANGED <<refs, buffers, memory, lock, th>>

(* av_buffer_pool_uninit()                                                 *)
PoolUninit(t) ==
  /\ Ready(t) /\ lock = None /\ current # None
  /\ current' = None
  /\ pools' = [pools EXCEPT ![current].refcount = @ - 1]
  /\ th' = IF LastOut(current)
           THEN [th EXCEPT ![t] = [Idle EXCEPT !.pc = "freePool", !.pool = current]]
           ELSE th
  /\ UNCHANGED <<refs, buffers, memory, lock>>

(* av_buffer_pool_get(): an entry of the list or a new one, under the      *)
(* mutex of the pool; counted afterwards.                                  *)
PoolGet(t) ==
  /\ Ready(t) /\ lock = None /\ current # None
  /\ \E r \in Ref, b \in Buffer, d \in Data :
       /\ Unused(r) /\ ~buffers[b].live
       /\ IF pools[current].list = <<>>
          THEN /\ d \notin memory
               /\ memory' = memory \cup {d}
               /\ UNCHANGED pools
          ELSE /\ d = Head(pools[current].list)
               /\ pools' = [pools EXCEPT ![current].list = Tail(@)]
               /\ UNCHANGED memory
       /\ refs' = [refs EXCEPT ![r] = NewRef(t, b, d)]
       /\ buffers' = [buffers EXCEPT
            ![b] = NewBuffer(d, [pool |-> current, data |-> d], {})]
  /\ lock' = t
  /\ th' = [th EXCEPT ![t] = [Idle EXCEPT !.pc = "enterPool", !.pool = current]]
  /\ UNCHANGED current

(* Mutant: the count of the pool is forgotten.                             *)
EnterUncounted(t) ==
  /\ th[t].pc = "enterPool"
  /\ lock' = None
  /\ th' = [th EXCEPT ![t] = Idle]
  /\ UNCHANGED <<refs, buffers, memory, pools, current>>

EnterPool(t) ==
  /\ th[t].pc = "enterPool"
  /\ pools' = [pools EXCEPT ![th[t].pool].refcount = @ + 1]
  /\ lock' = None
  /\ th' = [th EXCEPT ![t] = Idle]
  /\ UNCHANGED <<refs, buffers, memory, current>>

-----------------------------------------------------------------------------
Next ==
  \E t \in Thread :
    \/ Create(t) \/ Add(t) \/ Pass(t) \/ Unref(t)
    \/ FreeData(t) \/ ReturnToPool(t) \/ LeavePool(t) \/ FreePool(t) \/ FreeBuffer(t)
    \/ MakeWritable(t) \/ Written(t) \/ Realloc(t)
    \/ PoolInit(t) \/ PoolUninit(t) \/ PoolGet(t) \/ EnterPool(t)

Spec == Init /\ [][Next]_vars

-----------------------------------------------------------------------------
TypeOK ==
  /\ refs \in [Ref -> [holder : Thread \cup {None}, buffer : Buffer \cup {None},
                       data : Data \cup {None}]]
  /\ buffers \in [Buffer ->
       [live : BOOLEAN, refcount : Nat, data : Data \cup {None},
        entry : [pool : Pool \cup {None}, data : Data \cup {None}],
        flags : SUBSET {"readonly", "reallocatable"}]]
  /\ memory \subseteq Data
  /\ pools \in [Pool -> [live : BOOLEAN, refcount : Nat, list : Seq(Data)]]
  /\ current \in Pool \cup {None}
  /\ lock \in Thread \cup {None}
  /\ th \in [Thread ->
       [pc : {"ready", "free", "leavePool", "freePool", "freeBuffer", "write", "enterPool"},
        ret : {"ready", "write"}, buffer : Buffer \cup {None},
        pool : Pool \cup {None}, ref : Ref \cup {None}]]

RefsTo(b) == {r \in Ref : refs[r].holder # None /\ refs[r].buffer = b}

Listed(p) == {pools[p].list[n] : n \in 1 .. Len(pools[p].list)}

(* What a reference leads to has not been released: the buffer, its data,  *)
(* and a pool's data is not waiting there for the next user.               *)
NoDangling ==
  \A r \in Ref : ~Unused(r) =>
    /\ buffers[refs[r].buffer].live
    /\ refs[r].data \in memory
    /\ \A p \in Pool : refs[r].data \notin Listed(p)

(* The counter is the number of references, whoever holds them.            *)
CountsReferences ==
  \A b \in Buffer : buffers[b].refcount = Cardinality(RefsTo(b))

(* Who may write is alone with the data: no other reference, of any        *)
(* thread, leads there.                                                    *)
WriterIsAlone ==
  \A t \in Thread : th[t].pc = "write" =>
    \A r \in Ref \ {th[t].ref} : ~Unused(r) => refs[r].data # refs[th[t].ref].data

(* A pool is there as long as a buffer taken from it is not back, and no   *)
(* data is in a list twice.                                                *)
PoolOutlivesBuffers ==
  /\ \A r \in Ref : ~Unused(r) =>
       LET p == buffers[refs[r].buffer].entry.pool IN p # None => pools[p].live
  /\ \A t \in Thread : th[t].pc \in {"leavePool", "enterPool", "freePool"} =>
       pools[th[t].pool].live
  /\ \A p \in Pool : Cardinality(Listed(p)) = Len(pools[p].list)

(* When every call has returned nothing is left over: a buffer has a       *)
(* reference, data is in a buffer or in a pool, a pool is in use.          *)
NothingLeaks ==
  (\A t \in Thread : Ready(t)) =>
    /\ \A b \in Buffer : buffers[b].live => RefsTo(b) # {}
    /\ \A d \in memory :
         \/ \E r \in Ref : refs[r].data = d
         \/ \E p \in Pool : pools[p].live /\ d \in Listed(p)
    /\ \A p \in Pool : pools[p].live =>
         p = current \/ \E b \in Buffer : buffers[b].live /\ buffers[b].entry.pool = p

=============================================================================
