--------------------------- MODULE AVBufferProofs ---------------------------
(***************************************************************************)
(* Proofs about AVBuffer, for any number of threads, references, buffers,  *)
(* pieces of data and pools: every step keeps IInv, and the five           *)
(* invariants of the run, with the types, follow from it.                  *)
(*                                                                         *)
(* First the inductive invariant, which says who is answerable for what at *)
(* every moment between two steps of a release, and what every proof about *)
(* it needs: what is counted, the types, what the steps leave alone.       *)
(***************************************************************************)
EXTENDS AVBuffer, FiniteSetTheorems, TLAPS

(* The thread that took the last reference has not yet given up the data.  *)
HasData(b) ==
  /\ buffers[b].live
  /\ \A t \in Thread : th[t].buffer = b => th[t].pc = "free"

(* The buffers a pool counts: taken from it, and their release has not yet *)
(* reached the counter.                                                    *)
Counted(p) ==
  {b \in Buffer :
     /\ buffers[b].live /\ buffers[b].entry.pool = p
     /\ \A t \in Thread : th[t].buffer = b => th[t].pc \in {"free", "leavePool"}}

(* The references of t that are its own business until it is ready again.  *)
OwnWork(t) ==
  /\ th[t].pc = "enterPool" =>
       \E r \in Ref : Holds(t, r) /\ buffers[refs[r].buffer].entry.pool = th[t].pool
  /\ (th[t].pc = "write" \/ (th[t].buffer # None /\ th[t].ret = "write")) =>
       /\ th[t].ref \in Ref
       /\ Holds(t, th[t].ref)
       /\ \A s \in Ref : ~Unused(s) /\ s # th[t].ref =>
            refs[s].buffer # refs[th[t].ref].buffer

(* What a program counter says of the other fields.                        *)
Fields(t) ==
  /\ th[t].pc \in {"ready", "write", "enterPool"} => th[t].buffer = None
  /\ th[t].pc \in {"free", "leavePool", "freeBuffer"} => th[t].buffer # None
  /\ th[t].pc \in {"leavePool", "freePool", "enterPool"} => th[t].pool # None
  /\ th[t].pc = "leavePool" => buffers[th[t].buffer].entry.pool = th[t].pool
  /\ th[t].pc = "enterPool" => lock = t /\ current = th[t].pool

(* One thread releases a buffer, and nobody refers to it any more.         *)
Releases(t) ==
  th[t].buffer # None =>
    /\ buffers[th[t].buffer].live
    /\ buffers[th[t].buffer].refcount = 0
    /\ \A u \in Thread : th[u].buffer = th[t].buffer => u = t

(* One thread frees a pool, and nothing counts on it any more.             *)
FreesPool(t) ==
  th[t].pc = "freePool" =>
    /\ pools[th[t].pool].live
    /\ pools[th[t].pool].refcount = 0
    /\ \A u \in Thread : th[u].pc = "freePool" /\ th[u].pool = th[t].pool => u = t

ThreadInv ==
  /\ \A t \in Thread : Fields(t) /\ OwnWork(t) /\ Releases(t) /\ FreesPool(t)
  /\ lock # None => th[lock].pc = "enterPool"

RefInv ==
  \A r \in Ref :
    IF Unused(r) THEN refs[r] = NoRef
    ELSE /\ refs[r].buffer \in Buffer
         /\ buffers[refs[r].buffer].live
         /\ refs[r].data = buffers[refs[r].buffer].data

BufferInv ==
  \A b \in Buffer :
    IF buffers[b].live
    THEN /\ buffers[b].data \in Data
         /\ buffers[b].entry # NoEntry =>
              /\ buffers[b].entry.pool \in Pool
              /\ buffers[b].entry.data = buffers[b].data
              /\ "reallocatable" \notin buffers[b].flags
         /\ buffers[b].refcount = 0 => \E t \in Thread : th[t].buffer = b
    ELSE buffers[b] = NoBuffer

(* A piece of data is in one place: a buffer or a slot of a list.          *)
DataInv ==
  /\ \A b \in Buffer : HasData(b) =>
       /\ buffers[b].data \in memory
       /\ \A c \in Buffer : HasData(c) /\ c # b => buffers[c].data # buffers[b].data
       /\ \A p \in Pool : buffers[b].data \notin Listed(p)
  /\ \A p \in Pool :
       /\ Listed(p) \subseteq memory
       /\ \A m, n \in 1 .. Len(pools[p].list) : pools[p].list[m] = pools[p].list[n] => m = n
       /\ \A q \in Pool : q # p => Listed(p) \cap Listed(q) = {}

(* And no place is lost.                                                   *)
DataKept ==
  \A d \in memory :
    \/ \E b \in Buffer : HasData(b) /\ buffers[b].data = d
    \/ \E p \in Pool : d \in Listed(p)

PoolInv ==
  \A p \in Pool :
    /\ pools[p].refcount =
         Cardinality(Counted(p)) + (IF current = p /\ lock = None THEN 1 ELSE 0)
    /\ pools[p].live =>
         pools[p].refcount > 0 \/ \E t \in Thread : th[t].pc = "freePool" /\ th[t].pool = p
    /\ ~pools[p].live => pools[p] = NoPool

IInv ==
  /\ TypeOK
  /\ ThreadInv
  /\ RefInv
  /\ CountsReferences
  /\ BufferInv
  /\ DataInv
  /\ DataKept
  /\ PoolInv

-----------------------------------------------------------------------------
(* The sets that are counted are finite.                                   *)
LEMMA RefsToFinite ==
  ASSUME NEW b PROVE IsFiniteSet(RefsTo(b)) /\ IsFiniteSet(RefsTo(b)')
<1>1. RefsTo(b) \in SUBSET Ref /\ RefsTo(b)' \in SUBSET Ref
  BY DEF RefsTo
<1> QED BY <1>1, FS_Subset, AVBufferAssumption

(* So are the buffers a pool counts.                                       *)
LEMMA CountedFinite ==
  ASSUME NEW p PROVE IsFiniteSet(Counted(p)) /\ IsFiniteSet(Counted(p)')
<1>1. Counted(p) \in SUBSET Buffer /\ Counted(p)' \in SUBSET Buffer
  BY DEF Counted
<1> QED BY <1>1, FS_Subset, AVBufferAssumption

(* A buffer some reference leads to counts at least one, and exactly one   *)
(* when it is the only one.                                                *)
LEMMA ReferredIsCounted ==
  ASSUME IInv, NEW r \in Ref, ~Unused(r)
  PROVE  /\ refs[r].buffer \in Buffer
         /\ buffers[refs[r].buffer].refcount \in Nat \ {0}
         /\ buffers[refs[r].buffer].refcount = 1 =>
              \A s \in Ref : ~Unused(s) /\ s # r => refs[s].buffer # refs[r].buffer
<1> DEFINE b == refs[r].buffer
<1>1. b \in Buffer
  BY DEF IInv, RefInv
<1>2. r \in RefsTo(b)
  BY DEF RefsTo, Unused
<1>3. IsFiniteSet(RefsTo(b)) /\ Cardinality(RefsTo(b)) \in Nat
  BY RefsToFinite, FS_CardinalityType
<1>4. Cardinality(RefsTo(b)) # 0
  BY <1>2, <1>3, FS_EmptySet
<1>5. buffers[b].refcount = Cardinality(RefsTo(b))
  BY <1>1 DEF IInv, CountsReferences
<1>6. ASSUME buffers[b].refcount = 1, NEW s \in Ref, ~Unused(s), s # r, refs[s].buffer = b
      PROVE  FALSE
  <2>1. PICK x : RefsTo(b) = {x}
    BY <1>3, <1>5, <1>6, FS_Singleton
  <2>2. s \in RefsTo(b)
    BY <1>6 DEF RefsTo, Unused
  <2> QED BY <1>2, <1>6, <2>1, <2>2
<1> QED BY <1>1, <1>3, <1>4, <1>5, <1>6

-----------------------------------------------------------------------------
(* The initial state has the types.                                        *)
LEMMA TypeInit == Init => TypeOK
  BY AVBufferAssumption DEF Init, TypeOK, NoRef, NoBuffer, NoEntry, NoPool, Idle

(* A pool in use, or with a buffer out, is alive and counts something.     *)
LEMMA PoolCountPositive ==
  ASSUME IInv, NEW p \in Pool,
         \/ Counted(p) # {}
         \/ current = p /\ lock = None
  PROVE  pools[p].live /\ pools[p].refcount \in Nat \ {0}
<1>1. Cardinality(Counted(p)) \in Nat /\ (Counted(p) # {} => Cardinality(Counted(p)) # 0)
  BY CountedFinite, FS_CardinalityType, FS_EmptySet
<1>2. pools[p].refcount \in Nat \ {0}
  BY <1>1 DEF IInv, PoolInv
<1> QED BY <1>2 DEF IInv, PoolInv, NoPool

(* The pool counts the buffer whose release is on its way to it.           *)
LEMMA LeaverIsCounted ==
  ASSUME IInv, NEW t \in Thread, th[t].pc \in {"free", "leavePool"},
         buffers[th[t].buffer].entry # NoEntry
  PROVE  /\ th[t].buffer \in Buffer
         /\ buffers[th[t].buffer].entry.pool \in Pool
         /\ buffers[th[t].buffer].entry.data = buffers[th[t].buffer].data
         /\ buffers[th[t].buffer].data \in Data
         /\ th[t].buffer \in Counted(buffers[th[t].buffer].entry.pool)
<1>1. /\ th[t].buffer \in Buffer
      /\ buffers[th[t].buffer].live
      /\ \A u \in Thread : th[u].buffer = th[t].buffer => u = t
  BY DEF IInv, TypeOK, ThreadInv, Fields, Releases
<1> QED BY <1>1 DEF IInv, BufferInv, Counted

(* The records of TypeOK.                                                  *)
RefRecord ==
  [holder : Thread \cup {None}, buffer : Buffer \cup {None}, data : Data \cup {None}]

BufferRecord ==
  [live : BOOLEAN, refcount : Nat, data : Data \cup {None},
   entry : [pool : Pool \cup {None}, data : Data \cup {None}],
   flags : SUBSET {"readonly", "reallocatable"}]

PoolRecord == [live : BOOLEAN, refcount : Nat, list : Seq(Data)]

ThreadRecord ==
  [pc : {"ready", "free", "leavePool", "freePool", "freeBuffer", "write", "enterPool"},
   ret : {"ready", "write"}, buffer : Buffer \cup {None},
   pool : Pool \cup {None}, ref : Ref \cup {None}]

(* The records the actions make, and change, are records of TypeOK.        *)
LEMMA NewRecords ==
  /\ NoRef \in RefRecord /\ NoBuffer \in BufferRecord /\ NoPool \in PoolRecord
  /\ Idle \in ThreadRecord
  /\ \A t \in Thread, b \in Buffer, d \in Data : NewRef(t, b, d) \in RefRecord
  /\ \A d \in Data, f \in SUBSET {"readonly", "reallocatable"} :
       /\ NewBuffer(d, NoEntry, f) \in BufferRecord
       /\ \A p \in Pool : NewBuffer(d, [pool |-> p, data |-> d], f) \in BufferRecord
<1>1. NoRef \in RefRecord /\ NoBuffer \in BufferRecord /\ NoPool \in PoolRecord
  BY DEF NoRef, NoBuffer, NoPool, NoEntry, RefRecord, BufferRecord, PoolRecord
<1>2. Idle \in ThreadRecord
  BY DEF Idle, ThreadRecord
<1>3. \A t \in Thread, b \in Buffer, d \in Data : NewRef(t, b, d) \in RefRecord
  BY DEF NewRef, RefRecord
<1>4. \A d \in Data, f \in SUBSET {"readonly", "reallocatable"} :
       /\ NewBuffer(d, NoEntry, f) \in BufferRecord
       /\ \A p \in Pool : NewBuffer(d, [pool |-> p, data |-> d], f) \in BufferRecord
  BY DEF NewBuffer, NoEntry, BufferRecord
<1> QED BY <1>1, <1>2, <1>3, <1>4

(* A change of one field gives another record of TypeOK.                   *)
LEMMA ChangedRecords ==
  /\ \A x \in BufferRecord, n \in Nat : [x EXCEPT !.refcount = n] \in BufferRecord
  /\ \A x \in BufferRecord, d \in Data : [x EXCEPT !.data = d] \in BufferRecord
  /\ \A x \in RefRecord, d \in Data : [x EXCEPT !.data = d] \in RefRecord
  /\ \A x \in RefRecord, t \in Thread : [x EXCEPT !.holder = t] \in RefRecord
  /\ \A x \in PoolRecord, n \in Nat : [x EXCEPT !.refcount = n] \in PoolRecord
  /\ \A x \in PoolRecord, l \in Seq(Data) : [x EXCEPT !.list = l] \in PoolRecord
<1>1. /\ \A x \in BufferRecord, n \in Nat : [x EXCEPT !.refcount = n] \in BufferRecord
      /\ \A x \in BufferRecord, d \in Data : [x EXCEPT !.data = d] \in BufferRecord
  BY DEF BufferRecord
<1>2. /\ \A x \in RefRecord, d \in Data : [x EXCEPT !.data = d] \in RefRecord
      /\ \A x \in RefRecord, t \in Thread : [x EXCEPT !.holder = t] \in RefRecord
  BY DEF RefRecord
<1>3. /\ \A x \in PoolRecord, n \in Nat : [x EXCEPT !.refcount = n] \in PoolRecord
      /\ \A x \in PoolRecord, l \in Seq(Data) : [x EXCEPT !.list = l] \in PoolRecord
  BY DEF PoolRecord
<1> QED BY <1>1, <1>2, <1>3

(* So do the changes of several fields of a thread.                        *)
LEMMA ChangedThread ==
  ASSUME NEW x \in ThreadRecord,
         NEW pc \in {"ready", "free", "leavePool", "freePool", "freeBuffer", "write", "enterPool"}
  PROVE  /\ [x EXCEPT !.pc = pc] \in ThreadRecord
         /\ \A r \in Ref \cup {None} : [x EXCEPT !.pc = pc, !.ref = r] \in ThreadRecord
         /\ \A p \in Pool : [x EXCEPT !.pc = pc, !.pool = p] \in ThreadRecord
         /\ \A b \in Buffer, r \in Ref \cup {None}, ret \in {"ready", "write"} :
              [x EXCEPT !.pc = pc, !.ret = ret, !.buffer = b, !.ref = r] \in ThreadRecord
  BY ZenonT(40) DEF ThreadRecord

(* The end of a release leaves a thread where it may be.                   *)
LEMMA ReleaseType ==
  ASSUME th \in [Thread -> ThreadRecord], NEW t \in Thread, NEW b \in Buffer,
         NEW ret \in {"ready", "write"}, NEW r \in Ref \cup {None}, Release(t, b, ret, r)
  PROVE  th' \in [Thread -> ThreadRecord]
<1>1. \/ th' = [th EXCEPT ![t] =
                    [Idle EXCEPT !.pc = "free", !.ret = ret, !.buffer = b, !.ref = r]]
      \/ th' = [th EXCEPT ![t] = [Idle EXCEPT !.pc = ret, !.ref = r]]
  BY DEF Release
<1>2. [Idle EXCEPT !.pc = ret, !.ref = r] \in ThreadRecord
  BY NewRecords, ChangedThread
<1>3. [Idle EXCEPT !.pc = "free", !.ret = ret, !.buffer = b, !.ref = r] \in ThreadRecord
  BY NewRecords, ChangedThread
<1> QED BY <1>1, <1>2, <1>3

(* A counter is decremented only when it is positive, and what a release   *)
(* works on is there, so the types are kept where IInv holds.              *)
LEMMA TypeStep == IInv /\ [Next]_vars => TypeOK'
<1> SUFFICES ASSUME IInv, [Next]_vars PROVE TypeOK'
  OBVIOUS
<1> DEFINE T == /\ refs \in [Ref -> RefRecord]
                /\ buffers \in [Buffer -> BufferRecord]
                /\ memory \subseteq Data
                /\ pools \in [Pool -> PoolRecord]
                /\ current \in Pool \cup {None}
                /\ lock \in Thread \cup {None}
                /\ th \in [Thread -> ThreadRecord]
<1>0. T /\ ThreadInv /\ RefInv /\ BufferInv
  BY DEF IInv, TypeOK, RefRecord, BufferRecord, PoolRecord, ThreadRecord
<1> SUFFICES T'
  BY DEF TypeOK, RefRecord, BufferRecord, PoolRecord, ThreadRecord
<1>c. \A r \in Ref : ~Unused(r) =>
        /\ refs[r].buffer \in Buffer
        /\ buffers[refs[r].buffer].refcount - 1 \in Nat
        /\ buffers[refs[r].buffer].refcount + 1 \in Nat
  BY ReferredIsCounted
<1>d. ASSUME NEW t \in Thread, NEW r \in Ref, Holds(t, r),
             NEW f \in SUBSET {"readonly", "reallocatable"},
             NEW ret \in {"ready", "write"}, Replace(t, r, f, ret)
      PROVE  /\ refs' \in [Ref -> RefRecord]
             /\ buffers' \in [Buffer -> BufferRecord]
             /\ memory' \subseteq Data
             /\ th' \in [Thread -> ThreadRecord]
  <2>1. ~Unused(r)
    BY <1>d, AVBufferAssumption DEF Holds, Unused
  <2>2. PICK b \in Buffer, d \in Data \ memory :
       /\ ~buffers[b].live
       /\ refs' = [refs EXCEPT ![r] = NewRef(t, b, d)]
       /\ buffers' = [buffers EXCEPT ![b] = NewBuffer(d, NoEntry, f),
                                     ![refs[r].buffer].refcount = @ - 1]
       /\ memory' = memory \cup {d}
    BY <1>d DEF Replace
  <2>3. th' \in [Thread -> ThreadRecord]
    BY <1>0, <1>c, <1>d, <2>1, ReleaseType DEF Replace
  <2>4. refs[r].buffer # b
    BY <2>1, <2>2, <1>0 DEF RefInv
  <2>5. buffers' \in [Buffer -> BufferRecord]
    BY <1>0, <1>c, <2>1, <2>2, <2>4, NewRecords, ChangedRecords
  <2> QED BY <1>0, <2>2, <2>3, <2>5, NewRecords
<1>1. ASSUME NEW t \in Thread, Create(t) PROVE T'
  BY <1>0, <1>1, NewRecords DEF Create
<1>2. ASSUME NEW t \in Thread, Add(t) PROVE T'
  <2>1. PICK r \in Ref, s \in Ref :
          /\ Holds(t, r)
          /\ refs' = [refs EXCEPT ![s] = refs[r]]
          /\ buffers' = [buffers EXCEPT ![refs[r].buffer].refcount = @ + 1]
    BY <1>2 DEF Add
  <2>2. ~Unused(r)
    BY <2>1, AVBufferAssumption DEF Holds, Unused
  <2> QED BY <1>0, <1>c, <1>2, <2>1, <2>2, ChangedRecords DEF Add
<1>3. ASSUME NEW t \in Thread, Pass(t) PROVE T'
  BY <1>0, <1>3, ChangedRecords DEF Pass
<1>4. ASSUME NEW t \in Thread, Unref(t) PROVE T'
  <2>1. PICK r \in Ref :
       /\ Holds(t, r)
       /\ refs' = [refs EXCEPT ![r] = NoRef]
       /\ buffers' = [buffers EXCEPT ![refs[r].buffer].refcount = @ - 1]
       /\ Release(t, refs[r].buffer, "ready", None)
    BY <1>4 DEF Unref
  <2>2. ~Unused(r)
    BY <2>1, AVBufferAssumption DEF Holds, Unused
  <2>3. th' \in [Thread -> ThreadRecord]
    BY <1>0, <1>c, <2>1, <2>2, ReleaseType
  <2> QED BY <1>0, <1>c, <1>4, <2>1, <2>2, <2>3, NewRecords, ChangedRecords DEF Unref
<1>5. ASSUME NEW t \in Thread, FreeData(t) PROVE T'
  BY <1>0, <1>5, ChangedThread DEF FreeData
<1>6. ASSUME NEW t \in Thread, ReturnToPool(t) PROVE T'
  <2> DEFINE e == buffers[th[t].buffer].entry
  <2>1. e.pool \in Pool /\ e.data \in Data
    BY <1>6, LeaverIsCounted DEF ReturnToPool
  <2>2. <<e.data>> \o pools[e.pool].list \in Seq(Data)
    BY <1>0, <2>1 DEF PoolRecord
  <2>3. th' \in [Thread -> ThreadRecord]
    <3>1. th' = [th EXCEPT ![t] = [@ EXCEPT !.pc = "leavePool", !.pool = e.pool]]
      BY <1>6 DEF ReturnToPool
    <3> QED BY <1>0, <2>1, <3>1, ChangedThread
  <2> QED BY <1>0, <1>6, <2>1, <2>2, <2>3, ChangedRecords DEF ReturnToPool
<1>7. ASSUME NEW t \in Thread, LeavePool(t) PROVE T'
  <2> DEFINE p == th[t].pool
  <2>1. p # None /\ buffers[th[t].buffer].entry.pool = p
    BY <1>0, <1>7 DEF LeavePool, ThreadInv, Fields
  <2>2. p \in Pool /\ Counted(p) # {}
    BY <1>7, <2>1, LeaverIsCounted DEF LeavePool, NoEntry
  <2>3. pools[p].refcount - 1 \in Nat
    BY <2>2, PoolCountPositive
  <2> QED BY <1>0, <1>7, <2>2, <2>3, ChangedRecords, ChangedThread DEF LeavePool
<1>8. ASSUME NEW t \in Thread, FreePool(t) PROVE T'
  <2>1. th' = [th EXCEPT ![t] = Idle] \/ th' = [th EXCEPT ![t] = [@ EXCEPT !.pc = "freeBuffer"]]
    BY <1>8 DEF FreePool
  <2>2. th' \in [Thread -> ThreadRecord]
    <3>1. [th[t] EXCEPT !.pc = "freeBuffer"] \in ThreadRecord
      BY <1>0, ChangedThread
    <3> QED BY <1>0, <2>1, <3>1, NewRecords
  <2> QED BY <1>0, <1>8, <2>2, NewRecords DEF FreePool
<1>9. ASSUME NEW t \in Thread, FreeBuffer(t) PROVE T'
  <2>1. th[t].ret \in {"ready", "write"} /\ th[t].ref \in Ref \cup {None}
    BY <1>0 DEF ThreadRecord
  <2> QED BY <1>0, <1>9, <2>1, NewRecords, ChangedThread DEF FreeBuffer
<1>10. ASSUME NEW t \in Thread, MakeWritable(t) PROVE T'
  <2>1. PICK r \in Ref :
          /\ Holds(t, r)
          /\ \/ /\ th' = [th EXCEPT ![t] = [@ EXCEPT !.pc = "write", !.ref = r]]
                /\ UNCHANGED <<refs, buffers, memory>>
             \/ Replace(t, r, {}, "write")
    BY <1>10 DEF MakeWritable
  <2>2. CASE /\ th' = [th EXCEPT ![t] = [@ EXCEPT !.pc = "write", !.ref = r]]
             /\ UNCHANGED <<refs, buffers, memory>>
    BY <1>0, <1>10, <2>2, ChangedThread DEF MakeWritable
  <2>3. CASE Replace(t, r, {}, "write")
    BY <1>0, <1>d, <1>10, <2>1, <2>3 DEF MakeWritable
  <2> QED BY <2>1, <2>2, <2>3
<1>11. ASSUME NEW t \in Thread, Written(t) PROVE T'
  BY <1>0, <1>11, NewRecords DEF Written
<1>12. ASSUME NEW t \in Thread, Realloc(t) PROVE T'
  <2>0. UNCHANGED <<pools, current, lock>>
    BY <1>12 DEF Realloc
  <2>1. CASE \E r \in Ref, b \in Buffer, d \in Data \ memory :
          /\ refs' = [refs EXCEPT ![r] = NewRef(t, b, d)]
          /\ buffers' = [buffers EXCEPT ![b] = NewBuffer(d, NoEntry, {"reallocatable"})]
          /\ memory' = memory \cup {d}
          /\ UNCHANGED th
    BY <1>0, <2>0, <2>1, NewRecords
  <2>2. CASE \E r \in Ref, d \in Data \ memory :
          /\ Holds(t, r)
          /\ refs' = [refs EXCEPT ![r].data = d]
          /\ buffers' = [buffers EXCEPT ![refs[r].buffer].data = d]
          /\ memory' = (memory \ {refs[r].data}) \cup {d}
          /\ UNCHANGED th
    <3>1. PICK r \in Ref, d \in Data :
            /\ refs' = [refs EXCEPT ![r] = [@ EXCEPT !.data = d]]
            /\ buffers' = [buffers EXCEPT ![refs[r].buffer] = [@ EXCEPT !.data = d]]
            /\ memory' = (memory \ {refs[r].data}) \cup {d}
            /\ UNCHANGED th
      BY <2>2
    <3>2. refs' \in [Ref -> RefRecord]
      BY <1>0, <3>1, ChangedRecords
    <3>3. buffers' \in [Buffer -> BufferRecord]
      BY <1>0, <3>1, ChangedRecords
    <3> QED BY <1>0, <2>0, <3>1, <3>2, <3>3
  <2>3. CASE \E r \in Ref : Holds(t, r) /\ Replace(t, r, {"reallocatable"}, "ready")
    BY <1>0, <1>d, <2>0, <2>3
  <2> QED BY <1>12, <2>1, <2>2, <2>3 DEF Realloc
<1>13. ASSUME NEW t \in Thread, PoolInit(t) PROVE T'
  BY <1>0, <1>13 DEF PoolInit, PoolRecord
<1>14. ASSUME NEW t \in Thread, PoolUninit(t) PROVE T'
  <2>1. current \in Pool /\ pools[current].refcount - 1 \in Nat
    BY <1>0, <1>14, PoolCountPositive DEF PoolUninit
  <2>2. th' \in [Thread -> ThreadRecord]
    BY <1>0, <1>14, <2>1, NewRecords, ChangedThread DEF PoolUninit
  <2> QED BY <1>0, <1>14, <2>1, <2>2, ChangedRecords DEF PoolUninit
<1>15. ASSUME NEW t \in Thread, PoolGet(t) PROVE T'
  <2>1. current \in Pool
    BY <1>0, <1>15 DEF PoolGet
  <2>2. PICK r \in Ref, b \in Buffer, d \in Data :
          /\ \/ /\ memory' = memory \cup {d}
                /\ UNCHANGED pools
             \/ /\ pools[current].list # <<>>
                /\ pools' = [pools EXCEPT ![current] =
                               [@ EXCEPT !.list = Tail(pools[current].list)]]
                /\ UNCHANGED memory
          /\ refs' = [refs EXCEPT ![r] = NewRef(t, b, d)]
          /\ buffers' = [buffers EXCEPT ![b] = NewBuffer(d, [pool |-> current, data |-> d], {})]
    BY ZenonT(40), <1>15 DEF PoolGet
  <2>3. pools[current].list # <<>> => Tail(pools[current].list) \in Seq(Data)
    BY <1>0, <2>1 DEF PoolRecord
  <2>4. pools' \in [Pool -> PoolRecord]
    <3>1. CASE UNCHANGED pools
      BY <1>0, <3>1
    <3>2. CASE /\ pools[current].list # <<>>
               /\ pools' = [pools EXCEPT ![current] =
                              [@ EXCEPT !.list = Tail(pools[current].list)]]
      <4> DEFINE x == [pools[current] EXCEPT !.list = Tail(pools[current].list)]
      <4>1. x \in PoolRecord
        BY <1>0, <2>1, <2>3, <3>2, ChangedRecords
      <4>2. pools' = [pools EXCEPT ![current] = x]
        BY <3>2
      <4> HIDE DEF x
      <4> QED BY <1>0, <2>1, <4>1, <4>2
    <3> QED BY <2>2, <3>1, <3>2
  <2>5. th' \in [Thread -> ThreadRecord]
    BY <1>0, <1>15, <2>1, NewRecords, ChangedThread DEF PoolGet
  <2> QED BY <1>0, <1>15, <2>1, <2>2, <2>4, <2>5, NewRecords DEF PoolGet
<1>16. ASSUME NEW t \in Thread, EnterPool(t) PROVE T'
  <2>1. th[t].pool \in Pool
    BY <1>0, <1>16 DEF EnterPool, ThreadInv, Fields, ThreadRecord
  <2>2. pools[th[t].pool].refcount + 1 \in Nat
    BY <1>0, <2>1 DEF PoolRecord
  <2> QED BY <1>0, <1>16, <2>1, <2>2, NewRecords, ChangedRecords DEF EnterPool
<1>17. CASE UNCHANGED vars
  BY <1>0, <1>17 DEF vars
<1> HIDE DEF T
<1> QED
  BY <1>1, <1>2, <1>3, <1>4, <1>5, <1>6, <1>7, <1>8, <1>9, <1>10, <1>11, <1>12,
     <1>13, <1>14, <1>15, <1>16, <1>17 DEF Next

-----------------------------------------------------------------------------
(* The types, field by field.                                              *)
LEMMA Typed ==
  ASSUME TypeOK
  PROVE  /\ \A t \in Thread : /\ th[t].buffer \in Buffer \cup {None}
                              /\ th[t].pool \in Pool \cup {None}
                              /\ th[t].ref \in Ref \cup {None}
         /\ \A r \in Ref : /\ refs[r].holder \in Thread \cup {None}
                           /\ refs[r].buffer \in Buffer \cup {None}
                           /\ refs[r].data \in Data \cup {None}
         /\ \A b \in Buffer : /\ buffers[b].live \in BOOLEAN
                              /\ buffers[b].refcount \in Nat
                              /\ buffers[b].data \in Data \cup {None}
         /\ \A p \in Pool : /\ pools[p].live \in BOOLEAN
                            /\ pools[p].refcount \in Nat
                            /\ pools[p].list \in Seq(Data)
         /\ current \in Pool \cup {None}
         /\ lock \in Thread \cup {None}
         /\ memory \subseteq Data
  BY DEF TypeOK

(* The parts of the invariant, to be cited.                                *)
LEMMA InvParts ==
  IInv => /\ TypeOK /\ ThreadInv /\ RefInv /\ CountsReferences /\ BufferInv
          /\ DataInv /\ DataKept /\ PoolInv
  BY DEF IInv

(* What a thread works on is safe from the steps of the others.            *)
LEMMA OwnWorkKept ==
  ASSUME NEW u \in Thread, OwnWork(u), th'[u] = th[u],
         \A q \in Ref : Holds(u, q) =>
           /\ refs'[q] = refs[q]
           /\ buffers'[refs[q].buffer].entry.pool = buffers[refs[q].buffer].entry.pool
           /\ \A s \in Ref \ {q} : refs'[s].holder # None /\ refs'[s].buffer = refs[q].buffer =>
                \E v \in Ref \ {q} : ~Unused(v) /\ refs[v].buffer = refs[q].buffer
  PROVE  OwnWork(u)'
<1>1. (th[u].pc = "enterPool" =>
        \E r \in Ref : Holds(u, r) /\ buffers[refs[r].buffer].entry.pool = th[u].pool)'
  BY DEF OwnWork, Holds
<1>2. ASSUME th[u].pc = "write" \/ (th[u].buffer # None /\ th[u].ret = "write")
      PROVE  /\ th[u].ref \in Ref
             /\ Holds(u, th[u].ref)'
             /\ \A s \in Ref : ~Unused(s)' /\ s # th[u].ref =>
                  refs'[s].buffer # refs'[th[u].ref].buffer
  <2>1. /\ th[u].ref \in Ref /\ Holds(u, th[u].ref)
        /\ \A s \in Ref : ~Unused(s) /\ s # th[u].ref =>
             refs[s].buffer # refs[th[u].ref].buffer
    BY <1>2 DEF OwnWork
  <2>2. Holds(u, th[u].ref)'
    BY <2>1 DEF Holds
  <2> QED BY <2>1, <2>2 DEF Unused
<1> QED BY <1>1, <1>2 DEF OwnWork

(* The steps that leave references and buffers alone.                      *)
LEMMA BuffersKept ==
  ASSUME IInv, NEW t \in Thread, UNCHANGED <<refs, buffers>>,
         th'[t].buffer = th[t].buffer,
         \A u \in Thread : u # t => th'[u] = th[u]
  PROVE  /\ RefInv' /\ CountsReferences' /\ BufferInv'
         /\ \A u \in Thread : Releases(u)'
         /\ \A u \in Thread \ {t} : OwnWork(u)'
<1>0. TypeOK /\ ThreadInv /\ RefInv /\ CountsReferences /\ BufferInv
  BY InvParts
<1>1. RefInv'
  BY <1>0 DEF RefInv, Unused
<1>2. \A b \in Buffer : RefsTo(b)' = RefsTo(b)
  BY DEF RefsTo
<1>3. CountsReferences'
  BY <1>0, <1>2 DEF CountsReferences
<1>4. \A u \in Thread : th'[u].buffer = th[u].buffer
  OBVIOUS
<1>5. BufferInv'
  BY <1>0, <1>4 DEF BufferInv
<1>6. \A u \in Thread : Releases(u)'
  BY <1>0, <1>4 DEF ThreadInv, Releases
<1>7. ASSUME NEW u \in Thread \ {t} PROVE OwnWork(u)'
  BY <1>0, OwnWorkKept DEF ThreadInv, Unused
<1> QED BY <1>1, <1>3, <1>5, <1>6, <1>7

(* And those that leave the data where it is.                              *)
LEMMA DataStays ==
  ASSUME IInv, UNCHANGED memory,
         \A p \in Pool : pools'[p].list = pools[p].list,
         \A b \in Buffer : HasData(b)' <=> HasData(b),
         \A b \in Buffer : buffers'[b].data = buffers[b].data
  PROVE  DataInv' /\ DataKept'
<1>1. \A p \in Pool : Listed(p)' = Listed(p)
  BY DEF Listed
<1>2. DataInv /\ DataKept
  BY InvParts
<1>3. DataInv'
  BY <1>1, <1>2 DEF DataInv
<1>4. DataKept'
  BY <1>1, <1>2 DEF DataKept
<1> QED BY <1>3, <1>4

(* The writer is done.                                                     *)
LEMMA StepWritten ==
  ASSUME IInv, TypeOK', NEW t \in Thread, Written(t)
  PROVE  IInv'
<1>0. TypeOK /\ ThreadInv /\ PoolInv
  BY InvParts
<1>1. /\ \A u \in Thread : u # t => th'[u] = th[u]
      /\ th[t].pc = "write" /\ th[t].buffer = None
      /\ th'[t] = Idle
      /\ UNCHANGED <<refs, buffers, memory, pools, current, lock>>
  BY <1>0 DEF TypeOK, Written, ThreadInv, Fields
<1>2. /\ RefInv' /\ CountsReferences' /\ BufferInv'
      /\ \A u \in Thread : Releases(u)'
      /\ \A u \in Thread \ {t} : OwnWork(u)'
  BY <1>1, BuffersKept DEF Idle
<1>3. ThreadInv'
  <2>1. OwnWork(t)'
    BY <1>1 DEF OwnWork, Idle
  <2>2. \A u \in Thread : Fields(u)' /\ FreesPool(u)'
    BY <1>0, <1>1 DEF ThreadInv, Fields, FreesPool, Idle
  <2>3. (lock # None => th[lock].pc = "enterPool")'
    BY <1>0, <1>1, Typed DEF ThreadInv
  <2> QED BY <1>2, <2>1, <2>2, <2>3 DEF ThreadInv
<1>4. \A b \in Buffer : HasData(b)' <=> HasData(b)
  BY <1>1, AVBufferAssumption DEF HasData, Idle
<1>5. DataInv' /\ DataKept'
  BY <1>1, <1>4, DataStays
<1>6. \A p \in Pool : Counted(p)' = Counted(p)
  BY <1>1, AVBufferAssumption DEF Counted, Idle
<1>7. PoolInv'
  BY <1>0, <1>1, <1>6 DEF PoolInv
<1> QED BY <1>2, <1>3, <1>5, <1>7 DEF IInv

(* The count of a pool grows while the reference just got keeps it alive.  *)
LEMMA StepEnterPool ==
  ASSUME IInv, TypeOK', NEW t \in Thread, EnterPool(t)
  PROVE  IInv'
<1>0. TypeOK /\ ThreadInv /\ PoolInv
  BY InvParts
<1>1. PICK p \in Pool :
      /\ p = th[t].pool /\ p = current /\ lock = t
      /\ \A u \in Thread : u # t => th'[u] = th[u]
      /\ th[t].pc = "enterPool" /\ th[t].buffer = None
      /\ th'[t] = Idle
      /\ UNCHANGED <<refs, buffers, memory, current>>
      /\ lock' = None
      /\ pools' = [pools EXCEPT ![p].refcount = @ + 1]
  BY <1>0, Typed DEF TypeOK, EnterPool, ThreadInv, Fields
<1>2. /\ RefInv' /\ CountsReferences' /\ BufferInv'
      /\ \A u \in Thread : Releases(u)'
      /\ \A u \in Thread \ {t} : OwnWork(u)'
  BY <1>1, BuffersKept DEF Idle
<1>3. /\ pools'[p].refcount = pools[p].refcount + 1
      /\ pools'[p].live = pools[p].live
      /\ \A q \in Pool : pools'[q].list = pools[q].list
      /\ \A q \in Pool : q # p => pools'[q] = pools[q]
  BY <1>0, <1>1 DEF TypeOK
<1>4. PICK r \in Ref : Holds(t, r) /\ buffers[refs[r].buffer].entry.pool = p
  <2>1. OwnWork(t)
    BY <1>0 DEF ThreadInv
  <2> QED BY <1>1, <2>1 DEF OwnWork
<1>5. refs[r].buffer \in Counted(p)
  <2>1. ~Unused(r)
    BY <1>4, AVBufferAssumption DEF Holds, Unused
  <2>2. /\ refs[r].buffer \in Buffer /\ buffers[refs[r].buffer].live
        /\ buffers[refs[r].buffer].refcount # 0
    BY <2>1, ReferredIsCounted, InvParts DEF RefInv
  <2> QED BY <1>0, <1>4, <2>2, AVBufferAssumption DEF Counted, ThreadInv, Releases
<1>6. pools[p].live /\ pools[p].refcount \in Nat \ {0}
  BY <1>5, PoolCountPositive
<1>7. ThreadInv'
  <2>1. OwnWork(t)'
    BY <1>1 DEF OwnWork, Idle
  <2>2. \A u \in Thread : Fields(u)'
    BY <1>0, <1>1, AVBufferAssumption DEF ThreadInv, Fields, Idle
  <2>3. \A u \in Thread : FreesPool(u)'
    BY <1>0, <1>1, <1>3, <1>6, Typed DEF ThreadInv, FreesPool, Fields, Idle
  <2> QED BY <1>1, <1>2, <2>1, <2>2, <2>3 DEF ThreadInv
<1>8. \A b \in Buffer : HasData(b)' <=> HasData(b)
  BY <1>1, AVBufferAssumption DEF HasData, Idle
<1>9. DataInv' /\ DataKept'
  BY <1>1, <1>3, <1>8, DataStays
<1>10. \A q \in Pool : Counted(q)' = Counted(q)
  BY <1>1, AVBufferAssumption DEF Counted, Idle
<1>11. PoolInv'
  <2> SUFFICES ASSUME NEW q \in Pool
               PROVE /\ pools'[q].refcount = Cardinality(Counted(q)') +
                          (IF current' = q /\ lock' = None THEN 1 ELSE 0)
                     /\ pools'[q].live =>
                          pools'[q].refcount > 0
                            \/ \E u \in Thread : th'[u].pc = "freePool" /\ th'[u].pool = q
                     /\ ~pools'[q].live => pools'[q] = NoPool
    BY DEF PoolInv
  <2>1. CASE q = p
    <3>1. Cardinality(Counted(p)) \in Nat
      BY CountedFinite, FS_CardinalityType
    <3> QED BY <1>0, <1>1, <1>3, <1>6, <1>10, <2>1, <3>1, AVBufferAssumption DEF PoolInv
  <2>2. CASE q # p
    BY <1>0, <1>1, <1>3, <1>10, <2>2 DEF PoolInv
  <2> QED BY <2>1, <2>2
<1> QED BY <1>2, <1>7, <1>9, <1>11 DEF IInv

(* A new pool is nobody's but the application's.                           *)
LEMMA StepPoolInit ==
  ASSUME IInv, TypeOK', NEW t \in Thread, PoolInit(t)
  PROVE  IInv'
<1>0. TypeOK /\ ThreadInv /\ DataInv /\ DataKept /\ PoolInv
  BY InvParts
<1>1. PICK p \in Pool :
      /\ ~pools[p].live
      /\ pools' = [pools EXCEPT ![p] = [live |-> TRUE, refcount |-> 1, list |-> <<>>]]
      /\ current' = p
  BY DEF PoolInit
<1>2. /\ UNCHANGED <<refs, buffers, memory, lock, th>>
      /\ lock = None /\ current = None /\ th[t].pc = "ready"
  BY DEF PoolInit, Ready
<1>3. pools[p] = NoPool
  BY <1>0, <1>1 DEF PoolInv
<1>4. /\ pools'[p].live /\ pools'[p].refcount = 1
      /\ \A q \in Pool : q # p => pools'[q] = pools[q]
      /\ \A q \in Pool : pools'[q].list = pools[q].list
  BY <1>0, <1>1, <1>3 DEF TypeOK, NoPool
<1>5. /\ RefInv' /\ CountsReferences' /\ BufferInv'
      /\ \A u \in Thread : Releases(u)'
      /\ \A u \in Thread \ {t} : OwnWork(u)'
  BY <1>2, BuffersKept
<1>6. ThreadInv'
  <2>1. OwnWork(t)'
    BY <1>0, <1>2 DEF ThreadInv, OwnWork, Holds, Unused
  <2>2. \A u \in Thread : Fields(u)'
    BY <1>0, <1>2, AVBufferAssumption DEF ThreadInv, Fields
  <2>3. \A u \in Thread : FreesPool(u)'
    BY <1>0, <1>1, <1>2, <1>4, Typed DEF ThreadInv, FreesPool, Fields
  <2>4. (lock # None => th[lock].pc = "enterPool")'
    BY <1>2
  <2> QED BY <1>5, <2>1, <2>2, <2>3, <2>4 DEF ThreadInv
<1>7. DataInv' /\ DataKept'
  BY <1>2, <1>4, DataStays DEF HasData
<1>8. PoolInv'
  <2>1. \A q \in Pool : Counted(q)' = Counted(q)
    BY <1>2 DEF Counted
  <2>2. Cardinality(Counted(p)) = 0
    BY <1>0, <1>2, <1>3, CountedFinite, FS_CardinalityType, AVBufferAssumption DEF PoolInv, NoPool
  <2> QED BY <1>0, <1>1, <1>2, <1>4, <2>1, <2>2, AVBufferAssumption DEF PoolInv
<1> QED BY <1>5, <1>6, <1>7, <1>8 DEF IInv

(* The application gives its own count back, and frees the pool when that  *)
(* was the last.                                                           *)
LEMMA StepPoolUninit ==
  ASSUME IInv, TypeOK', NEW t \in Thread, PoolUninit(t)
  PROVE  IInv'
<1>0. TypeOK /\ ThreadInv /\ PoolInv
  BY InvParts
<1>1. PICK p \in Pool :
      /\ p = current /\ lock = None /\ current' = None
      /\ pools' = [pools EXCEPT ![p].refcount = @ - 1]
      /\ UNCHANGED <<refs, buffers, memory, lock>>
  BY <1>0, Typed DEF PoolUninit
<1>2. /\ th[t].pc = "ready" /\ th[t].buffer = None
      /\ \A u \in Thread : u # t => th'[u] = th[u]
      /\ pools[p].refcount = 1 =>
           th'[t].pc = "freePool" /\ th'[t].pool = p /\ th'[t].buffer = None
      /\ pools[p].refcount # 1 => th' = th
  BY <1>0, <1>1 DEF TypeOK, PoolUninit, Ready, LastOut, Idle, ThreadInv, Fields
<1>3. /\ pools'[p].refcount = pools[p].refcount - 1
      /\ pools'[p].live = pools[p].live
      /\ \A q \in Pool : q # p => pools'[q] = pools[q]
      /\ \A q \in Pool : pools'[q].list = pools[q].list
  BY <1>0, <1>1 DEF TypeOK
<1>4. pools[p].live /\ pools[p].refcount \in Nat \ {0}
  BY <1>1, PoolCountPositive
<1>5. th'[t].buffer = None
  BY <1>2
<1>6. /\ RefInv' /\ CountsReferences' /\ BufferInv'
      /\ \A u \in Thread : Releases(u)'
      /\ \A u \in Thread \ {t} : OwnWork(u)'
  BY <1>1, <1>2, <1>5, BuffersKept
<1>7. ThreadInv'
  <2>1. OwnWork(t)'
    BY <1>2, <1>5 DEF OwnWork
  <2>2. \A u \in Thread : Fields(u)'
    BY <1>0, <1>1, <1>2, AVBufferAssumption DEF ThreadInv, Fields
  <2>3. \A u \in Thread : FreesPool(u)'
    BY <1>0, <1>1, <1>2, <1>3, <1>4, Typed DEF ThreadInv, FreesPool, Fields
  <2> QED BY <1>1, <1>6, <2>1, <2>2, <2>3 DEF ThreadInv
<1>8. \A b \in Buffer : HasData(b)' <=> HasData(b)
  BY <1>1, <1>2, <1>5, AVBufferAssumption DEF HasData
<1>9. DataInv' /\ DataKept'
  BY <1>1, <1>3, <1>8, DataStays
<1>10. \A q \in Pool : Counted(q)' = Counted(q)
  BY <1>1, <1>2, <1>5, AVBufferAssumption DEF Counted
<1>11. Cardinality(Counted(p)) \in Nat
  BY CountedFinite, FS_CardinalityType
<1>12. PoolInv'
  <2> SUFFICES ASSUME NEW q \in Pool
               PROVE /\ pools'[q].refcount = Cardinality(Counted(q)') +
                          (IF current' = q /\ lock' = None THEN 1 ELSE 0)
                     /\ pools'[q].live =>
                          pools'[q].refcount > 0
                            \/ \E u \in Thread : th'[u].pc = "freePool" /\ th'[u].pool = q
                     /\ ~pools'[q].live => pools'[q] = NoPool
    BY DEF PoolInv
  <2>1. CASE q = p
    BY <1>0, <1>1, <1>2, <1>3, <1>4, <1>10, <1>11, <2>1, AVBufferAssumption DEF PoolInv
  <2>2. CASE q # p
    BY <1>0, <1>1, <1>2, <1>3, <1>10, <2>2, AVBufferAssumption DEF PoolInv
  <2> QED BY <2>1, <2>2
<1> QED BY <1>6, <1>7, <1>9, <1>12 DEF IInv

(* Who took the last reference frees data that is in no pool.              *)
LEMMA StepFreeData ==
  ASSUME IInv, TypeOK', NEW t \in Thread, FreeData(t)
  PROVE  IInv'
<1>0. TypeOK /\ ThreadInv /\ BufferInv /\ DataInv /\ DataKept /\ PoolInv
  BY InvParts
<1>1. PICK b \in Buffer :
      /\ b = th[t].buffer /\ th[t].pc = "free" /\ buffers[b].entry = NoEntry
      /\ memory' = memory \ {buffers[b].data}
      /\ th'[t].pc = "freeBuffer" /\ th'[t].buffer = b
      /\ th'[t].ret = th[t].ret /\ th'[t].ref = th[t].ref
      /\ \A u \in Thread : u # t => th'[u] = th[u]
      /\ UNCHANGED <<refs, buffers, pools, current, lock>>
  BY <1>0, Typed DEF TypeOK, FreeData, ThreadInv, Fields
<1>2. /\ RefInv' /\ CountsReferences' /\ BufferInv'
      /\ \A u \in Thread : Releases(u)'
      /\ \A u \in Thread \ {t} : OwnWork(u)'
  BY <1>1, BuffersKept
<1>3. ThreadInv'
  <2>1. OwnWork(t)'
    BY <1>0, <1>1, AVBufferAssumption DEF ThreadInv, OwnWork, Holds, Unused
  <2>2. \A u \in Thread : Fields(u)'
    BY <1>0, <1>1, AVBufferAssumption DEF ThreadInv, Fields
  <2>3. \A u \in Thread : FreesPool(u)'
    BY <1>0, <1>1 DEF ThreadInv, FreesPool
  <2>4. (lock # None => th[lock].pc = "enterPool")'
    BY <1>0, <1>1, Typed DEF ThreadInv
  <2> QED BY <1>2, <2>1, <2>2, <2>3, <2>4 DEF ThreadInv
<1>4. /\ HasData(b) /\ ~HasData(b)'
      /\ \A c \in Buffer : c # b => (HasData(c)' <=> HasData(c))
  BY <1>0, <1>1, AVBufferAssumption DEF HasData, ThreadInv, Releases
<1>5. \A p \in Pool : Listed(p)' = Listed(p)
  BY <1>1 DEF Listed
<1>6. DataInv'
  BY <1>0, <1>1, <1>4, <1>5 DEF DataInv
<1>7. DataKept'
  BY <1>0, <1>1, <1>4, <1>5 DEF DataKept
<1>8. \A p \in Pool : Counted(p)' = Counted(p)
  BY <1>0, <1>1, AVBufferAssumption DEF Counted, NoEntry
<1>9. PoolInv'
  BY <1>0, <1>1, <1>8 DEF PoolInv
<1> QED BY <1>2, <1>3, <1>6, <1>7, <1>9 DEF IInv

(* And then the buffer.                                                    *)
LEMMA StepFreeBuffer ==
  ASSUME IInv, TypeOK', NEW t \in Thread, FreeBuffer(t)
  PROVE  IInv'
<1>0. /\ TypeOK /\ ThreadInv /\ RefInv /\ CountsReferences /\ BufferInv
      /\ DataInv /\ DataKept /\ PoolInv
  BY InvParts
<1>1. PICK b \in Buffer :
      /\ b = th[t].buffer /\ th[t].pc = "freeBuffer"
      /\ buffers' = [buffers EXCEPT ![b] = NoBuffer]
      /\ th'[t].pc = th[t].ret /\ th'[t].buffer = None /\ th'[t].ref = th[t].ref
      /\ th[t].ret \in {"ready", "write"}
      /\ \A u \in Thread : u # t => th'[u] = th[u]
      /\ UNCHANGED <<refs, memory, pools, current, lock>>
  BY <1>0, Typed DEF TypeOK, FreeBuffer, ThreadInv, Fields, Idle
<1>2. /\ buffers'[b] = NoBuffer
      /\ \A c \in Buffer : c # b => buffers'[c] = buffers[c]
  BY <1>0, <1>1 DEF TypeOK
<1>3. /\ b # None /\ buffers[b].live /\ buffers[b].refcount = 0
      /\ \A u \in Thread : th[u].buffer = b => u = t
  BY <1>0, <1>1, AVBufferAssumption DEF ThreadInv, Releases
<1>4. \A r \in Ref : ~Unused(r) => refs[r].buffer # b
  BY <1>3, ReferredIsCounted
<1>5. RefInv'
  BY <1>0, <1>1, <1>2, <1>4 DEF RefInv, Unused
<1>6. \A c \in Buffer : RefsTo(c)' = RefsTo(c)
  BY <1>1 DEF RefsTo
<1>7. CountsReferences'
  BY <1>0, <1>2, <1>3, <1>6 DEF CountsReferences, NoBuffer
<1>8. BufferInv'
  <2>1. \A c \in Buffer \ {b} : (\E u \in Thread : th[u].buffer = c) =>
          \E u \in Thread : th'[u].buffer = c
    BY <1>1
  <2>2. ~buffers'[b].live
    BY <1>2 DEF NoBuffer
  <2> QED BY <1>0, <1>2, <2>1, <2>2 DEF BufferInv
<1>9. ThreadInv'
  <2>1. OwnWork(t)'
    BY <1>0, <1>1, <1>3 DEF ThreadInv, OwnWork, Holds, Unused
  <2>2. \A u \in Thread \ {t} : OwnWork(u)'
    <3> SUFFICES ASSUME NEW u \in Thread \ {t} PROVE OwnWork(u)'
      OBVIOUS
    <3>1. \A q \in Ref : Holds(u, q) => ~Unused(q) /\ refs[q].buffer \in Buffer
      BY <1>0, AVBufferAssumption DEF RefInv, Holds, Unused
    <3>2. OwnWork(u) /\ th'[u] = th[u]
      BY <1>0, <1>1 DEF ThreadInv
    <3> QED BY <1>1, <1>2, <1>4, <3>1, <3>2, OwnWorkKept DEF Unused
  <2>3. \A u \in Thread : Fields(u)'
    BY <1>0, <1>1, <1>2, <1>3, Typed, AVBufferAssumption DEF ThreadInv, Fields
  <2>4. \A u \in Thread : Releases(u)'
    BY <1>0, <1>1, <1>2, <1>3, Typed DEF ThreadInv, Releases
  <2>5. \A u \in Thread : FreesPool(u)'
    BY <1>0, <1>1 DEF ThreadInv, FreesPool
  <2>6. (lock # None => th[lock].pc = "enterPool")'
    BY <1>0, <1>1, Typed DEF ThreadInv
  <2> QED BY <2>1, <2>2, <2>3, <2>4, <2>5, <2>6 DEF ThreadInv
<1>10. ~HasData(b) /\ ~HasData(b)' /\ \A c \in Buffer : c # b => (HasData(c)' <=> HasData(c))
  BY <1>1, <1>2, AVBufferAssumption DEF HasData, NoBuffer
<1>11. DataInv' /\ DataKept'
  <2>1. \A p \in Pool : Listed(p)' = Listed(p)
    BY <1>1 DEF Listed
  <2>2. DataInv'
    BY <1>0, <1>1, <1>2, <1>10, <2>1 DEF DataInv
  <2>3. DataKept'
    BY <1>0, <1>1, <1>2, <1>10, <2>1 DEF DataKept
  <2> QED BY <2>2, <2>3
<1>12. \A p \in Pool : Counted(p)' = Counted(p)
  BY <1>1, <1>2, AVBufferAssumption DEF Counted, NoBuffer
<1>13. PoolInv'
  BY <1>0, <1>1, <1>12 DEF PoolInv
<1> QED BY <1>5, <1>7, <1>8, <1>9, <1>11, <1>13 DEF IInv

(* Data goes back to the head of the list it came from.                    *)
LEMMA StepReturnToPool ==
  ASSUME IInv, TypeOK', NEW t \in Thread, ReturnToPool(t)
  PROVE  IInv'
<1>0. TypeOK /\ ThreadInv /\ BufferInv /\ DataInv /\ DataKept /\ PoolInv
  BY InvParts
<1>a. PICK b \in Buffer, p \in Pool, d \in Data :
      /\ b = th[t].buffer /\ th[t].pc = "free"
      /\ p = buffers[b].entry.pool /\ d = buffers[b].data /\ b \in Counted(p)
      /\ d = buffers[b].entry.data
  BY LeaverIsCounted DEF ReturnToPool
<1>b. pools' = [pools EXCEPT ![p].list = <<d>> \o @]
  BY <1>a DEF ReturnToPool
<1>1. /\ th'[t].pc = "leavePool" /\ th'[t].buffer = b /\ th'[t].pool = p
      /\ th'[t].ret = th[t].ret /\ th'[t].ref = th[t].ref
      /\ \A u \in Thread : u # t => th'[u] = th[u]
      /\ UNCHANGED <<refs, buffers, memory, current, lock>>
  BY <1>0, <1>a DEF TypeOK, ReturnToPool
<1>c. b # None /\ buffers[b].live /\ \A u \in Thread : th[u].buffer = b => u = t
  BY <1>0, <1>a, AVBufferAssumption DEF ThreadInv, Releases
<1>2. /\ pools[p].live /\ pools'[p].live /\ pools'[p].live = pools[p].live
      /\ pools'[p].refcount = pools[p].refcount
      /\ pools'[p].list = <<d>> \o pools[p].list
      /\ pools[p].list \in Seq(Data)
      /\ \A q \in Pool : q # p => pools'[q] = pools[q]
  BY ZenonT(40), <1>0, <1>a, <1>b, PoolCountPositive DEF TypeOK
<1>3. /\ RefInv' /\ CountsReferences' /\ BufferInv'
      /\ \A u \in Thread : Releases(u)'
      /\ \A u \in Thread \ {t} : OwnWork(u)'
  BY <1>1, <1>a, BuffersKept
<1>4. ThreadInv'
  <2>1. OwnWork(t)'
    BY <1>0, <1>1, <1>a, <1>c DEF ThreadInv, OwnWork, Holds, Unused
  <2>2. \A u \in Thread : Fields(u)'
    BY <1>0, <1>1, <1>a, AVBufferAssumption DEF ThreadInv, Fields
  <2>3. ASSUME NEW u \in Thread PROVE FreesPool(u)'
    <3>1. \A q \in Pool : pools'[q].refcount = pools[q].refcount /\ pools'[q].live = pools[q].live
      BY <1>2
    <3>2. CASE th[u].pc = "freePool"
      <4>1. th'[u] = th[u] /\ th[u].pool \in Pool /\ FreesPool(u)
        BY <1>0, <1>1, <1>a, <3>2, Typed DEF ThreadInv, Fields
      <4> QED BY <1>1, <3>1, <3>2, <4>1 DEF FreesPool
    <3>3. CASE th[u].pc # "freePool"
      BY <1>1, <3>3 DEF FreesPool
    <3> QED BY <3>2, <3>3
  <2>4. (lock # None => th[lock].pc = "enterPool")'
    BY <1>0, <1>1, <1>a, Typed DEF ThreadInv
  <2> QED BY <1>3, <2>1, <2>2, <2>3, <2>4 DEF ThreadInv
<1>5. /\ HasData(b) /\ ~HasData(b)'
      /\ \A c \in Buffer : c # b => (HasData(c)' <=> HasData(c))
  <2>1. HasData(b) /\ ~HasData(b)'
    BY <1>1, <1>a, <1>c DEF HasData
  <2>2. \A u \in Thread :
          th'[u].buffer = th[u].buffer /\ (th[u].buffer # b => th'[u].pc = th[u].pc)
    BY <1>1, <1>a
  <2>3. \A c \in Buffer : c # b => (HasData(c)' <=> HasData(c))
    BY <1>1, <2>2 DEF HasData
  <2> QED BY <2>1, <2>3
<1>6. /\ Listed(p)' = Listed(p) \cup {d}
      /\ \A q \in Pool : q # p => Listed(q)' = Listed(q)
      /\ Len(pools'[p].list) = Len(pools[p].list) + 1
      /\ pools'[p].list[1] = d
      /\ \A n \in 1 .. Len(pools[p].list) : pools'[p].list[n + 1] = pools[p].list[n]
  <2>1. /\ Len(pools'[p].list) = Len(pools[p].list) + 1
        /\ pools'[p].list[1] = d
        /\ \A n \in 1 .. Len(pools[p].list) : pools'[p].list[n + 1] = pools[p].list[n]
        /\ \A n \in 2 .. Len(pools[p].list) + 1 : pools'[p].list[n] = pools[p].list[n - 1]
    BY SMTT(40), <1>2
  <2>2. Len(pools[p].list) \in Nat
    BY <1>2
  <2>3. Listed(p)' \subseteq Listed(p) \cup {d}
    <3> SUFFICES ASSUME NEW n \in 1 .. Len(pools'[p].list)
                 PROVE  pools'[p].list[n] \in Listed(p) \cup {d}
      BY DEF Listed
    <3>1. CASE n = 1
      BY <2>1, <3>1
    <3>2. CASE n # 1
      <4>1. n - 1 \in 1 .. Len(pools[p].list) /\ pools'[p].list[n] = pools[p].list[n - 1]
        BY <2>1, <2>2, <3>2
      <4> QED BY <4>1 DEF Listed
    <3> QED BY <3>1, <3>2
  <2>4. Listed(p) \subseteq Listed(p)'
    <3> SUFFICES ASSUME NEW n \in 1 .. Len(pools[p].list)
                 PROVE  \E m \in 1 .. Len(pools'[p].list) : pools[p].list[n] = pools'[p].list[m]
      BY DEF Listed
    <3>1. n + 1 \in 1 .. Len(pools'[p].list)
      BY <2>1, <2>2
    <3> QED BY <2>1, <3>1
  <2>5. d \in Listed(p)'
    BY <2>1, <2>2 DEF Listed
  <2>6. \A q \in Pool : q # p => Listed(q)' = Listed(q)
    BY <1>2 DEF Listed
  <2> QED BY <2>1, <2>3, <2>4, <2>5, <2>6
<1>7. d \in memory /\ \A q \in Pool : d \notin Listed(q)
  BY ZenonT(40), <1>0, <1>a, <1>5 DEF DataInv
<1>8. DataInv'
  <2>1. ASSUME NEW c \in Buffer, HasData(c)'
        PROVE  /\ buffers'[c].data \in memory'
               /\ \A e \in Buffer : HasData(e)' /\ e # c => buffers'[e].data # buffers'[c].data
               /\ \A q \in Pool : buffers'[c].data \notin Listed(q)'
    <3>1. c # b /\ HasData(c)
      BY <1>5, <2>1
    <3>2. buffers[c].data # d
      BY <1>0, <1>a, <1>5, <3>1 DEF DataInv
    <3>3. /\ buffers[c].data \in memory
          /\ \A e \in Buffer : HasData(e) /\ e # c => buffers[e].data # buffers[c].data
          /\ \A q \in Pool : buffers[c].data \notin Listed(q)
      BY <1>0, <3>1 DEF DataInv
    <3>4. \A e \in Buffer : HasData(e)' => HasData(e)
      BY <1>5
    <3> QED BY <1>1, <1>6, <3>2, <3>3, <3>4
  <2>2. ASSUME NEW q \in Pool
        PROVE  /\ Listed(q)' \subseteq memory'
               /\ \A v \in Pool : v # q => Listed(q)' \cap Listed(v)' = {}
    <3>1. /\ \A v \in Pool : Listed(v) \subseteq memory
          /\ \A v \in Pool : \A w \in Pool : w # v => Listed(v) \cap Listed(w) = {}
      BY <1>0 DEF DataInv
    <3>2. \A v \in Pool : Listed(v)' = Listed(v) \/ (v = p /\ Listed(v)' = Listed(v) \cup {d})
      BY <1>6
    <3>3. Listed(q)' \subseteq memory'
      BY <1>1, <1>7, <3>1, <3>2
    <3>4. ASSUME NEW v \in Pool, v # q PROVE Listed(q)' \cap Listed(v)' = {}
      <4>1. Listed(q) \cap Listed(v) = {} /\ d \notin Listed(q) /\ d \notin Listed(v)
        BY <1>7, <3>1, <3>4
      <4> QED BY <3>2, <3>4, <4>1
    <3> QED BY <3>3, <3>4
  <2>3. ASSUME NEW q \in Pool,
               NEW m \in 1 .. Len(pools'[q].list), NEW n \in 1 .. Len(pools'[q].list),
               pools'[q].list[m] = pools'[q].list[n]
        PROVE  m = n
    <3>1. CASE q # p
      BY <1>0, <1>2, <2>3, <3>1 DEF DataInv
    <3>2. CASE q = p
      <4> DEFINE len == Len(pools[p].list)
      <4>1. len \in Nat /\ \A k \in 1 .. len : pools[p].list[k] # d
        BY <1>2, <1>7 DEF Listed
      <4>2. \A k \in 2 .. len + 1 : k - 1 \in 1 .. len /\ pools'[p].list[k] = pools[p].list[k - 1]
        <5> SUFFICES ASSUME NEW k \in 2 .. len + 1
                     PROVE  k - 1 \in 1 .. len /\ pools'[p].list[k] = pools[p].list[k - 1]
          OBVIOUS
        <5>1. k - 1 \in 1 .. len
          BY <4>1
        <5>2. pools'[p].list[(k - 1) + 1] = pools[p].list[k - 1]
          BY <1>6, <5>1
        <5>3. (k - 1) + 1 = k
          OBVIOUS
        <5> QED BY <5>1, <5>2, <5>3
      <4>3. \A k, l \in 1 .. len : pools[p].list[k] = pools[p].list[l] => k = l
        BY <1>0 DEF DataInv
      <4>4. m \in 1 .. len + 1 /\ n \in 1 .. len + 1
        BY <1>6, <3>2
      <4> HIDE DEF len
      <4>5. CASE m = 1
        <5>1. n \notin 2 .. len + 1
          BY <1>6, <2>3, <3>2, <4>1, <4>2, <4>5
        <5> QED BY <4>1, <4>4, <4>5, <5>1
      <4>6. CASE n = 1
        <5>1. m \notin 2 .. len + 1
          BY <1>6, <2>3, <3>2, <4>1, <4>2, <4>6
        <5> QED BY <4>1, <4>4, <4>6, <5>1
      <4>7. CASE m # 1 /\ n # 1
        <5>1. m \in 2 .. len + 1 /\ n \in 2 .. len + 1
          BY <4>1, <4>4, <4>7
        <5>2. m - 1 = n - 1
          BY <2>3, <3>2, <4>2, <4>3, <5>1
        <5> QED BY <5>1, <5>2, <4>1
      <4> QED BY <4>5, <4>6, <4>7
    <3> QED BY <3>1, <3>2
  <2> QED BY <2>1, <2>2, <2>3 DEF DataInv
<1>9. DataKept'
  BY <1>0, <1>1, <1>a, <1>5, <1>6 DEF DataKept
<1>10. \A q \in Pool : Counted(q)' = Counted(q)
  <2>1. \A c \in Buffer, u \in Thread : th[u].buffer = c =>
           (th[u].pc \in {"free", "leavePool"} <=> th'[u].pc \in {"free", "leavePool"})
    BY <1>1, <1>a
  <2>2. \A u \in Thread : th'[u].buffer = th[u].buffer
    BY <1>1, <1>a
  <2> QED BY <1>1, <2>1, <2>2 DEF Counted
<1>11. PoolInv'
  <2>1. \A q \in Pool : pools'[q].refcount = pools[q].refcount /\ pools'[q].live = pools[q].live
    BY <1>2
  <2>2. \A q \in Pool : ~pools'[q].live => pools'[q] = pools[q]
    BY <1>2
  <2>3. \A q \in Pool : (\E u \in Thread : th[u].pc = "freePool" /\ th[u].pool = q) =>
           \E u \in Thread : th'[u].pc = "freePool" /\ th'[u].pool = q
    BY <1>1, <1>a
  <2> QED BY <1>0, <1>1, <1>10, <2>1, <2>2, <2>3 DEF PoolInv
<1> QED BY <1>3, <1>4, <1>8, <1>9, <1>11 DEF IInv

(* The counter of the pool follows, and who takes the last count frees the *)
(* pool.                                                                   *)
LEMMA StepLeavePool ==
  ASSUME IInv, TypeOK', NEW t \in Thread, LeavePool(t)
  PROVE  IInv'
<1>0. TypeOK /\ ThreadInv /\ BufferInv /\ PoolInv
  BY InvParts
<1>1. PICK b \in Buffer, p \in Pool :
      /\ b = th[t].buffer /\ p = th[t].pool /\ th[t].pc = "leavePool"
      /\ p = buffers[b].entry.pool /\ b \in Counted(p)
      /\ pools' = [pools EXCEPT ![p].refcount = @ - 1]
      /\ UNCHANGED <<refs, buffers, memory, current, lock>>
  <2>1. /\ th[t].pc = "leavePool" /\ th[t].pool # None
        /\ buffers[th[t].buffer].entry.pool = th[t].pool
    BY <1>0 DEF LeavePool, ThreadInv, Fields
  <2>2. buffers[th[t].buffer].entry # NoEntry
    BY <2>1 DEF NoEntry
  <2>3. /\ th[t].buffer \in Buffer /\ th[t].pool \in Pool
        /\ th[t].buffer \in Counted(th[t].pool)
    BY <2>1, <2>2, LeaverIsCounted
  <2> QED BY <2>1, <2>3 DEF LeavePool
<1>2. /\ th'[t].buffer = b /\ th'[t].pool = p
      /\ th'[t].ret = th[t].ret /\ th'[t].ref = th[t].ref
      /\ pools[p].refcount = 1 => th'[t].pc = "freePool"
      /\ pools[p].refcount # 1 => th'[t].pc = "freeBuffer"
      /\ \A u \in Thread : u # t => th'[u] = th[u]
  <2> DEFINE Moved(pc) == th' = [th EXCEPT ![t].pc = pc]
  <2>0. \A pc : Moved(pc) =>
          /\ th'[t].pc = pc
          /\ th'[t].buffer = th[t].buffer /\ th'[t].pool = th[t].pool
          /\ th'[t].ret = th[t].ret /\ th'[t].ref = th[t].ref
          /\ \A u \in Thread : u # t => th'[u] = th[u]
    BY <1>0 DEF TypeOK
  <2>1. CASE pools[p].refcount = 1
    <3>1. Moved("freePool")
      BY <1>1, <2>1 DEF LeavePool, LastOut
    <3> HIDE DEF Moved
    <3> QED BY <1>1, <2>0, <2>1, <3>1
  <2>2. CASE pools[p].refcount # 1
    <3>1. Moved("freeBuffer")
      BY <1>1, <2>2 DEF LeavePool, LastOut
    <3> HIDE DEF Moved
    <3> QED BY <1>1, <2>0, <2>2, <3>1
  <2> QED BY <2>1, <2>2
<1>3. /\ pools'[p].refcount = pools[p].refcount - 1
      /\ pools'[p].live = pools[p].live
      /\ \A q \in Pool : q # p => pools'[q] = pools[q]
      /\ \A q \in Pool : pools'[q].list = pools[q].list
  BY <1>0, <1>1 DEF TypeOK
<1>4. pools[p].live /\ pools[p].refcount \in Nat \ {0}
  BY <1>1, PoolCountPositive
<1>5. /\ RefInv' /\ CountsReferences' /\ BufferInv'
      /\ \A u \in Thread : Releases(u)'
      /\ \A u \in Thread \ {t} : OwnWork(u)'
  BY <1>1, <1>2, BuffersKept
<1>6. ThreadInv'
  <2>1. OwnWork(t)'
    <3>1. OwnWork(t)
      BY <1>0 DEF ThreadInv
    <3>2. th'[t].pc \in {"freePool", "freeBuffer"} /\ th'[t].ret = th[t].ret
      BY <1>2
    <3> QED BY <1>1, <1>2, <3>1, <3>2, AVBufferAssumption DEF OwnWork, Holds, Unused
  <2>2. \A u \in Thread : Fields(u)'
    BY ZenonT(40), <1>0, <1>1, <1>2, AVBufferAssumption DEF ThreadInv, Fields
  <2>3. ASSUME NEW u \in Thread PROVE FreesPool(u)'
    <3>1. CASE u # t /\ th[u].pc = "freePool"
      <4>1. /\ th'[u] = th[u] /\ th[u].pool \in Pool /\ FreesPool(u)
            /\ th[u].pool # p
        BY <1>0, <1>2, <1>4, <3>1, Typed DEF ThreadInv, Fields, FreesPool
      <4> QED BY <1>2, <1>3, <3>1, <4>1 DEF FreesPool
    <3>2. CASE u # t /\ th[u].pc # "freePool"
      BY <1>2, <3>2 DEF FreesPool
    <3>3. CASE u = t
      <4>1. \A v \in Thread : ~(th[v].pc = "freePool" /\ th[v].pool = p)
        BY <1>0, <1>4 DEF ThreadInv, FreesPool
      <4>2. \A v \in Thread : th'[v].pc = "freePool" /\ th'[v].pool = p => v = t
        BY <1>2, <4>1
      <4>3. th'[t].pc = "freePool" => pools'[p].refcount = 0
        BY <1>2, <1>3, <1>4
      <4> QED BY <1>2, <1>3, <1>4, <3>3, <4>2, <4>3 DEF FreesPool
    <3> QED BY <3>1, <3>2, <3>3
  <2>4. (lock # None => th[lock].pc = "enterPool")'
    BY <1>0, <1>1, <1>2, Typed DEF ThreadInv
  <2> QED BY <1>5, <2>1, <2>2, <2>3, <2>4 DEF ThreadInv
<1>7. \A c \in Buffer : HasData(c)' <=> HasData(c)
  BY <1>1, <1>2 DEF HasData
<1>8. DataInv' /\ DataKept'
  BY <1>1, <1>3, <1>7, DataStays
<1>9. /\ Counted(p)' = Counted(p) \ {b}
      /\ \A q \in Pool : q # p => Counted(q)' = Counted(q)
  <2>1. \A c \in Buffer : c # b =>
          ((\A u \in Thread : th[u].buffer = c => th[u].pc \in {"free", "leavePool"}) <=>
           (\A u \in Thread : th'[u].buffer = c => th'[u].pc \in {"free", "leavePool"}))
    <3> SUFFICES ASSUME NEW c \in Buffer, c # b, NEW u \in Thread
                 PROVE  (th[u].buffer = c => th[u].pc \in {"free", "leavePool"}) <=>
                        (th'[u].buffer = c => th'[u].pc \in {"free", "leavePool"})
      OBVIOUS
    <3>1. CASE u = t
      BY <1>1, <1>2, <3>1
    <3>2. CASE u # t
      BY <1>2, <3>2
    <3> QED BY <3>1, <3>2
  <2>2. ~(\A u \in Thread : th'[u].buffer = b => th'[u].pc \in {"free", "leavePool"})
    BY <1>2
  <2>3. /\ buffers' = buffers
        /\ p = buffers[b].entry.pool /\ b \in Counted(p)
    BY <1>1
  <2>4. ASSUME NEW q \in Pool, NEW c \in Buffer, c # b
        PROVE  c \in Counted(q)' <=> c \in Counted(q)
    BY <2>1, <2>3, <2>4 DEF Counted
  <2>5. \A q \in Pool : b \notin Counted(q)'
    BY <2>2 DEF Counted
  <2>6. \A q \in Pool : q # p => b \notin Counted(q)
    BY <2>3 DEF Counted
  <2>7. \A q \in Pool : Counted(q) \subseteq Buffer /\ Counted(q)' \subseteq Buffer
    BY DEF Counted
  <2>8. \A q \in Pool : q # p => Counted(q)' = Counted(q)
    BY <2>4, <2>5, <2>6, <2>7
  <2>9. p \in Pool /\ b \in Buffer /\ b \in Counted(p)
    BY <1>1
  <2>10. Counted(p)' = Counted(p) \ {b}
    BY <2>4, <2>5, <2>7, <2>9
  <2> QED BY <2>8, <2>10
<1>10. Cardinality(Counted(p)') = Cardinality(Counted(p)) - 1
  BY ZenonT(40), <1>1, <1>9, CountedFinite, FS_RemoveElement
<1>11. PoolInv'
  <2> SUFFICES ASSUME NEW q \in Pool
               PROVE /\ pools'[q].refcount = Cardinality(Counted(q)') +
                          (IF current' = q /\ lock' = None THEN 1 ELSE 0)
                     /\ pools'[q].live =>
                          pools'[q].refcount > 0
                            \/ \E u \in Thread : th'[u].pc = "freePool" /\ th'[u].pool = q
                     /\ ~pools'[q].live => pools'[q] = NoPool
    BY DEF PoolInv
  <2>1. CASE q = p
    <3>1. Cardinality(Counted(p)) \in Nat
      BY CountedFinite, FS_CardinalityType
    <3>2. /\ pools[p].refcount =
               Cardinality(Counted(p)) + (IF current = p /\ lock = None THEN 1 ELSE 0)
      BY <1>0 DEF PoolInv
    <3>3. pools'[p].refcount =
             Cardinality(Counted(p)') + (IF current' = p /\ lock' = None THEN 1 ELSE 0)
      <4>1. current' = current /\ lock' = lock
        BY <1>1
      <4>2. pools'[p].refcount = pools[p].refcount - 1
        BY <1>3
      <4> QED BY <1>10, <3>1, <3>2, <4>1, <4>2
    <3>4. pools'[p].refcount > 0 \/ \E u \in Thread : th'[u].pc = "freePool" /\ th'[u].pool = p
      BY <1>2, <1>3, <1>4
    <3> QED BY <1>3, <1>4, <2>1, <3>3, <3>4
  <2>2. CASE q # p
    <3>1. (\E u \in Thread : th[u].pc = "freePool" /\ th[u].pool = q) =>
             \E u \in Thread : th'[u].pc = "freePool" /\ th'[u].pool = q
      BY <1>1, <1>2
    <3>2. Counted(q)' = Counted(q) /\ pools'[q] = pools[q]
      BY <1>3, <1>9, <2>2
    <3>3. current' = current /\ lock' = lock
      BY <1>1
    <3> QED BY <1>0, <3>1, <3>2, <3>3 DEF PoolInv
  <2> QED BY <2>1, <2>2
<1> QED BY <1>5, <1>6, <1>8, <1>11 DEF IInv

(* All the data of a pool goes with it: none is out.                       *)
LEMMA StepFreePool ==
  ASSUME IInv, TypeOK', NEW t \in Thread, FreePool(t)
  PROVE  IInv'
<1>0. TypeOK /\ ThreadInv /\ BufferInv /\ DataInv /\ DataKept /\ PoolInv
  BY InvParts
<1>1. PICK p \in Pool :
      /\ p = th[t].pool /\ th[t].pc = "freePool"
      /\ memory' = memory \ Listed(p)
      /\ pools' = [pools EXCEPT ![p] = NoPool]
      /\ UNCHANGED <<refs, buffers, current, lock>>
  BY <1>0, Typed DEF FreePool, Listed, ThreadInv, Fields
<1>2. /\ th'[t].buffer = th[t].buffer
      /\ th[t].buffer = None => th'[t] = Idle
      /\ th[t].buffer # None =>
           th'[t].pc = "freeBuffer" /\ th'[t].ret = th[t].ret /\ th'[t].ref = th[t].ref
      /\ \A u \in Thread : u # t => th'[u] = th[u]
  BY <1>0 DEF TypeOK, FreePool, Idle
<1>3. /\ pools'[p] = NoPool
      /\ \A q \in Pool : q # p => pools'[q] = pools[q]
  BY <1>0, <1>1 DEF TypeOK
<1>4. pools[p].live /\ pools[p].refcount = 0
  BY <1>0, <1>1 DEF ThreadInv, FreesPool
<1>5. /\ RefInv' /\ CountsReferences' /\ BufferInv'
      /\ \A u \in Thread : Releases(u)'
      /\ \A u \in Thread \ {t} : OwnWork(u)'
  BY <1>1, <1>2, BuffersKept
<1>6. ThreadInv'
  <2>1. OwnWork(t)'
    BY <1>0, <1>1, <1>2, AVBufferAssumption DEF ThreadInv, OwnWork, Holds, Unused, Idle
  <2>2. \A u \in Thread : Fields(u)'
    BY <1>0, <1>1, <1>2, AVBufferAssumption DEF ThreadInv, Fields, Idle
  <2>3. ASSUME NEW u \in Thread PROVE FreesPool(u)'
    <3>1. CASE u = t
      BY <1>2, <3>1 DEF FreesPool, Idle
    <3>2. CASE u # t /\ th[u].pc = "freePool"
      <4>1. th[u].pool # p /\ th[u].pool \in Pool
        BY <1>0, <1>1, <3>2, Typed DEF ThreadInv, FreesPool, Fields
      <4> QED BY <1>0, <1>2, <1>3, <3>2, <4>1 DEF ThreadInv, FreesPool, Idle
    <3>3. CASE u # t /\ th[u].pc # "freePool"
      BY <1>2, <3>3 DEF FreesPool
    <3> QED BY <3>1, <3>2, <3>3
  <2>4. (lock # None => th[lock].pc = "enterPool")'
    BY <1>0, <1>1, <1>2, Typed DEF ThreadInv
  <2> QED BY <1>5, <2>1, <2>2, <2>3, <2>4 DEF ThreadInv
<1>7. \A c \in Buffer : HasData(c)' <=> HasData(c)
  BY <1>1, <1>2, AVBufferAssumption DEF HasData
<1>8. Listed(p)' = {} /\ \A q \in Pool : q # p => Listed(q)' = Listed(q)
  BY <1>3 DEF Listed, NoPool
<1>9. DataInv'
  <2>1. ASSUME NEW c \in Buffer, HasData(c)'
        PROVE  /\ buffers'[c].data \in memory'
               /\ \A e \in Buffer : HasData(e)' /\ e # c => buffers'[e].data # buffers'[c].data
               /\ \A q \in Pool : buffers'[c].data \notin Listed(q)'
    BY <1>0, <1>1, <1>7, <1>8, <2>1 DEF DataInv
  <2>2. ASSUME NEW q \in Pool
        PROVE  /\ Listed(q)' \subseteq memory'
               /\ \A v \in Pool : v # q => Listed(q)' \cap Listed(v)' = {}
    BY <1>0, <1>1, <1>8 DEF DataInv
  <2>3. ASSUME NEW q \in Pool
        PROVE  \A m, n \in 1 .. Len(pools'[q].list) : pools'[q].list[m] = pools'[q].list[n] => m = n
    BY <1>0, <1>3 DEF DataInv, NoPool
  <2> QED BY <2>1, <2>2, <2>3 DEF DataInv
<1>10. DataKept'
  BY <1>0, <1>1, <1>7, <1>8 DEF DataKept
<1>11. \A q \in Pool : Counted(q)' = Counted(q)
  <2>1. th[t].buffer # None => th'[t].pc = "freeBuffer"
    BY <1>2
  <2> QED BY <1>1, <1>2, <2>1, AVBufferAssumption DEF Counted
<1>12. PoolInv'
  <2>1. \A q \in Pool : q # p =>
          ((\E u \in Thread : th[u].pc = "freePool" /\ th[u].pool = q) =>
           \E u \in Thread : th'[u].pc = "freePool" /\ th'[u].pool = q)
    BY <1>1, <1>2
  <2>2. 0 = Cardinality(Counted(p)) + (IF current = p /\ lock = None THEN 1 ELSE 0)
    BY <1>0, <1>4 DEF PoolInv
  <2> QED BY <1>0, <1>1, <1>3, <1>11, <2>1, <2>2 DEF PoolInv, NoPool
<1> QED BY <1>5, <1>6, <1>9, <1>10, <1>12 DEF IInv

-----------------------------------------------------------------------------
(* A buffer that is not alive: nothing leads to it.                        *)
LEMMA NothingLeadsThere ==
  ASSUME IInv, NEW b \in Buffer, ~buffers[b].live
  PROVE  /\ b # None
         /\ \A r \in Ref : ~Unused(r) => refs[r].buffer # b
         /\ \A u \in Thread : th[u].buffer # b
         /\ RefsTo(b) = {}
         /\ ~HasData(b)
         /\ \A p \in Pool : b \notin Counted(p)
<1>1. b # None
  BY AVBufferAssumption
<1>2. \A r \in Ref : ~Unused(r) => refs[r].buffer # b
  BY InvParts DEF RefInv
<1>3. \A u \in Thread : th[u].buffer # b
  BY <1>1, InvParts DEF ThreadInv, Releases
<1>4. RefsTo(b) = {}
  BY <1>2 DEF RefsTo, Unused
<1> QED BY <1>1, <1>2, <1>3, <1>4 DEF HasData, Counted

(* New data in a new buffer.                                               *)
LEMMA DataAdded ==
  ASSUME IInv, NEW b \in Buffer, NEW d, d \notin memory,
         memory' = memory \cup {d},
         \A p \in Pool : pools'[p].list = pools[p].list,
         ~HasData(b), HasData(b)', buffers'[b].data = d,
         \A c \in Buffer : c # b => (HasData(c)' <=> HasData(c)),
         \A c \in Buffer : c # b => buffers'[c].data = buffers[c].data
  PROVE  DataInv' /\ DataKept'
<1>0. DataInv /\ DataKept
  BY InvParts
<1>1. \A p \in Pool : Listed(p)' = Listed(p)
  BY DEF Listed
<1>2. \A p \in Pool : d \notin Listed(p)
  BY <1>0 DEF DataInv
<1>3. \A c \in Buffer : HasData(c) => buffers[c].data # d
  BY <1>0 DEF DataInv
<1>4. ASSUME NEW c \in Buffer, HasData(c)'
      PROVE  /\ buffers'[c].data \in memory'
             /\ \A e \in Buffer : HasData(e)' /\ e # c => buffers'[e].data # buffers'[c].data
             /\ \A q \in Pool : buffers'[c].data \notin Listed(q)'
  <2>1. CASE c = b
    BY <1>1, <1>2, <1>3, <2>1
  <2>2. CASE c # b
    BY <1>0, <1>1, <1>3, <1>4, <2>2 DEF DataInv
  <2> QED BY <2>1, <2>2
<1>5. DataInv'
  BY <1>0, <1>1, <1>4 DEF DataInv
<1>6. DataKept'
  BY <1>0, <1>1 DEF DataKept
<1> QED BY <1>5, <1>6

(* The entries a new buffer of data d can have.                            *)
EntryFor(d, f) ==
  {NoEntry} \cup {e \in [pool : Pool, data : {d}] : "reallocatable" \notin f}

Adds(t, r, b, d, entry, f) ==
  /\ f \in SUBSET {"readonly", "reallocatable"}
  /\ entry \in EntryFor(d, f)
  /\ Unused(r) /\ ~buffers[b].live
  /\ refs' = [refs EXCEPT ![r] = NewRef(t, b, d)]
  /\ buffers' = [buffers EXCEPT ![b] = NewBuffer(d, entry, f)]
  /\ \A u \in Thread : u # t => th'[u] = th[u]
  /\ th[t].buffer = None /\ th'[t].buffer = None

(* A new buffer with its first reference.                                  *)
LEMMA BufferAdded ==
  ASSUME IInv, NEW t \in Thread, NEW r \in Ref, NEW b \in Buffer, NEW d \in Data,
         NEW f, NEW entry, Adds(t, r, b, d, entry, f)
  PROVE  /\ RefInv' /\ CountsReferences' /\ BufferInv'
         /\ \A u \in Thread : Releases(u)'
         /\ \A u \in Thread \ {t} : OwnWork(u)'
         /\ ~HasData(b) /\ HasData(b)' /\ buffers'[b].data = d
         /\ \A c \in Buffer : c # b => (HasData(c)' <=> HasData(c))
         /\ \A c \in Buffer : c # b => buffers'[c] = buffers[c]
         /\ \A p \in Pool :
              Counted(p)' = IF entry.pool = p THEN Counted(p) \cup {b} ELSE Counted(p)
         /\ \A p \in Pool : b \notin Counted(p)
<1> USE DEF Adds
<1>0. /\ TypeOK /\ ThreadInv /\ RefInv /\ CountsReferences /\ BufferInv
  BY InvParts
<1>1. /\ b # None
      /\ \A s \in Ref : ~Unused(s) => refs[s].buffer # b
      /\ \A u \in Thread : th[u].buffer # b
      /\ RefsTo(b) = {}
      /\ ~HasData(b)
      /\ \A p \in Pool : b \notin Counted(p)
  BY NothingLeadsThere
<1>2. /\ refs'[r].holder = t /\ refs'[r].buffer = b /\ refs'[r].data = d
      /\ \A s \in Ref : s # r => refs'[s] = refs[s]
  BY <1>0 DEF TypeOK, NewRef
<1>3. /\ buffers'[b].live /\ buffers'[b].refcount = 1 /\ buffers'[b].data = d
      /\ buffers'[b].entry = entry /\ buffers'[b].flags = f
      /\ \A c \in Buffer : c # b => buffers'[c] = buffers[c]
  BY <1>0 DEF TypeOK, NewBuffer
<1>4. t # None
  BY AVBufferAssumption
<1>5. RefInv'
  <2> SUFFICES ASSUME NEW s \in Ref
               PROVE  IF refs'[s].holder = None THEN refs'[s] = NoRef
                      ELSE /\ refs'[s].buffer \in Buffer
                           /\ buffers'[refs'[s].buffer].live
                           /\ refs'[s].data = buffers'[refs'[s].buffer].data
    BY DEF RefInv, Unused
  <2>1. CASE s = r
    BY <1>2, <1>3, <1>4, <2>1
  <2>2. CASE s # r
    BY <1>0, <1>1, <1>2, <1>3, <2>2 DEF RefInv, Unused
  <2> QED BY <2>1, <2>2
<1>6. CountsReferences'
  <2>1. RefsTo(b)' = {r}
    BY <1>1, <1>2, <1>4 DEF RefsTo, Unused
  <2>2. \A c \in Buffer : c # b => RefsTo(c)' = RefsTo(c)
    BY <1>2, <1>4 DEF RefsTo, Unused
  <2>3. Cardinality({r}) = 1
    BY FS_Singleton
  <2> QED BY <1>0, <1>3, <2>1, <2>2, <2>3 DEF CountsReferences
<1>7. \A u \in Thread : th'[u].buffer = th[u].buffer
  OBVIOUS
<1>8. BufferInv'
  <2>1. \A c \in Buffer : c # b =>
          ((\E u \in Thread : th[u].buffer = c) => \E u \in Thread : th'[u].buffer = c)
    BY <1>7
  <2>2. /\ buffers'[b].entry # NoEntry =>
              /\ buffers'[b].entry.pool \in Pool
              /\ buffers'[b].entry.data = buffers'[b].data
              /\ "reallocatable" \notin buffers'[b].flags
        /\ buffers'[b].data \in Data
        /\ buffers'[b].refcount # 0
    BY <1>3 DEF EntryFor
  <2> QED BY <1>0, <1>3, <2>1, <2>2 DEF BufferInv
<1>9. \A u \in Thread : Releases(u)'
  <2> SUFFICES ASSUME NEW u \in Thread PROVE Releases(u)'
    OBVIOUS
  <2>1. Releases(u) /\ th[u].buffer # b /\ th[u].buffer \in Buffer \cup {None}
    BY <1>0, <1>1, Typed DEF ThreadInv
  <2> QED BY <1>3, <1>7, <2>1 DEF Releases
<1>10. ASSUME NEW u \in Thread \ {t} PROVE OwnWork(u)'
  <2>1. \A q \in Ref : Holds(u, q) =>
          q # r /\ ~Unused(q) /\ refs[q].buffer \in Buffer /\ refs[q].buffer # b
    BY <1>0, <1>1, AVBufferAssumption DEF RefInv, Holds, Unused
  <2>2. OwnWork(u) /\ th'[u] = th[u]
    BY <1>0 DEF ThreadInv
  <2> QED BY <1>2, <1>3, <2>1, <2>2, OwnWorkKept DEF Unused
<1>11. \A u \in Thread, c \in Buffer : th[u].buffer = c \/ th'[u].buffer = c => u # t
  BY AVBufferAssumption
<1>12. HasData(b)' /\ \A c \in Buffer : c # b => (HasData(c)' <=> HasData(c))
  BY <1>1, <1>3, <1>7, <1>11 DEF HasData
<1>13. \A c \in Buffer : c # b =>
          ((\A u \in Thread : th[u].buffer = c => th[u].pc \in {"free", "leavePool"}) <=>
           (\A u \in Thread : th'[u].buffer = c => th'[u].pc \in {"free", "leavePool"}))
  BY <1>7, <1>11
<1>14. ASSUME NEW p \in Pool
       PROVE  Counted(p)' = IF entry.pool = p THEN Counted(p) \cup {b} ELSE Counted(p)
  <2>1. \A c \in Buffer : c # b => (c \in Counted(p)' <=> c \in Counted(p))
    BY <1>3, <1>13 DEF Counted
  <2>2. b \in Counted(p)' <=> entry.pool = p
    BY <1>1, <1>3, <1>7 DEF Counted
  <2>3. Counted(p) \subseteq Buffer /\ Counted(p)' \subseteq Buffer
    BY DEF Counted
  <2>4. CASE entry.pool = p
    BY <2>1, <2>2, <2>3, <2>4
  <2>5. CASE entry.pool # p
    <3>1. \A c \in Buffer : c \in Counted(p)' <=> c \in Counted(p)
      BY <1>1, <2>1, <2>2, <2>5
    <3> QED BY <2>3, <2>5, <3>1
  <2> QED BY <2>4, <2>5
<1> QED BY <1>1, <1>3, <1>5, <1>6, <1>8, <1>9, <1>10, <1>12, <1>14

(* av_buffer_alloc(), av_buffer_create(), and av_buffer_realloc() of       *)
(* nothing: a new buffer outside any pool, and the thread goes on.         *)
LEMMA FirstReference ==
  ASSUME IInv, TypeOK', NEW t \in Thread, Ready(t),
         NEW r \in Ref, NEW b \in Buffer, NEW d \in Data \ memory,
         NEW f \in SUBSET {"readonly", "reallocatable"},
         Unused(r), ~buffers[b].live,
         refs' = [refs EXCEPT ![r] = NewRef(t, b, d)],
         buffers' = [buffers EXCEPT ![b] = NewBuffer(d, NoEntry, f)],
         memory' = memory \cup {d},
         UNCHANGED <<pools, current, lock, th>>
  PROVE  IInv'
<1>0. TypeOK /\ ThreadInv /\ PoolInv
  BY InvParts
<1>1. th[t].pc = "ready" /\ th[t].buffer = None /\ UNCHANGED th
  BY <1>0 DEF Ready, ThreadInv, Fields
<1>2. /\ RefInv' /\ CountsReferences' /\ BufferInv'
      /\ \A u \in Thread : Releases(u)'
      /\ \A u \in Thread \ {t} : OwnWork(u)'
      /\ ~HasData(b) /\ HasData(b)' /\ buffers'[b].data = d
      /\ \A c \in Buffer : c # b => (HasData(c)' <=> HasData(c))
      /\ \A c \in Buffer : c # b => buffers'[c] = buffers[c]
      /\ \A p \in Pool :
           Counted(p)' = IF NoEntry.pool = p THEN Counted(p) \cup {b} ELSE Counted(p)
  <2>1. NoEntry \in EntryFor(d, f)
    BY DEF EntryFor
  <2>2. Adds(t, r, b, d, NoEntry, f)
    BY <1>1, <2>1 DEF Adds
  <2> QED BY <2>2, BufferAdded
<1>3. \A p \in Pool : Counted(p)' = Counted(p)
  BY <1>2, AVBufferAssumption DEF NoEntry
<1>4. ThreadInv'
  <2>1. OwnWork(t)'
    BY <1>1 DEF OwnWork
  <2>2. \A u \in Thread : th[u].buffer # b
    BY NothingLeadsThere
  <2>3. \A u \in Thread : Fields(u)'
    BY <1>0, <1>1, <1>2, <2>2, Typed DEF ThreadInv, Fields
  <2>4. \A u \in Thread : FreesPool(u)'
    BY <1>0 DEF ThreadInv, FreesPool
  <2> QED BY <1>0, <1>2, <2>1, <2>3, <2>4 DEF ThreadInv
<1>5. DataInv' /\ DataKept'
  BY <1>2, DataAdded
<1>6. PoolInv'
  BY <1>0, <1>3 DEF PoolInv
<1> QED BY <1>2, <1>4, <1>5, <1>6 DEF IInv

(* av_buffer_alloc() and av_buffer_create().                               *)
LEMMA StepCreate ==
  ASSUME IInv, TypeOK', NEW t \in Thread, Create(t)
  PROVE  IInv'
<1>1. PICK r \in Ref, b \in Buffer, d \in Data \ memory, f \in {{}, {"readonly"}} :
        /\ Unused(r) /\ ~buffers[b].live
        /\ refs' = [refs EXCEPT ![r] = NewRef(t, b, d)]
        /\ buffers' = [buffers EXCEPT ![b] = NewBuffer(d, NoEntry, f)]
        /\ memory' = memory \cup {d}
  BY DEF Create
<1>2. f \in SUBSET {"readonly", "reallocatable"}
  OBVIOUS
<1>3. Ready(t) /\ UNCHANGED <<pools, current, lock, th>>
  BY DEF Create
<1> QED BY <1>1, <1>2, <1>3, FirstReference

(* av_buffer_pool_get(): from the list or new; the count of the pool comes *)
(* later.                                                                  *)
LEMMA StepPoolGet ==
  ASSUME IInv, TypeOK', NEW t \in Thread, PoolGet(t)
  PROVE  IInv'
<1>0. TypeOK /\ ThreadInv /\ DataInv /\ DataKept /\ PoolInv
  BY InvParts
<1>1. PICK p \in Pool : p = current /\ p # None /\ lock = None /\ th[t].pc = "ready"
  BY <1>0, Typed, AVBufferAssumption DEF PoolGet, Ready
<1>2. PICK r \in Ref, b \in Buffer, d \in Data :
       /\ Unused(r) /\ ~buffers[b].live
       /\ \/ /\ pools[p].list = <<>> /\ d \notin memory
             /\ memory' = memory \cup {d}
             /\ UNCHANGED pools
          \/ /\ pools[p].list # <<>> /\ d = Head(pools[p].list)
             /\ pools' = [pools EXCEPT ![p].list = Tail(@)]
             /\ UNCHANGED memory
       /\ refs' = [refs EXCEPT ![r] = NewRef(t, b, d)]
       /\ buffers' = [buffers EXCEPT ![b] = NewBuffer(d, [pool |-> p, data |-> d], {})]
  <2>1. PICK r \in Ref, b \in Buffer, d \in Data :
          /\ Unused(r) /\ ~buffers[b].live
          /\ IF pools[current].list = <<>>
             THEN /\ d \notin memory
                  /\ memory' = memory \cup {d}
                  /\ UNCHANGED pools
             ELSE /\ d = Head(pools[current].list)
                  /\ pools' = [pools EXCEPT ![current].list = Tail(@)]
                  /\ UNCHANGED memory
          /\ refs' = [refs EXCEPT ![r] = NewRef(t, b, d)]
          /\ buffers' = [buffers EXCEPT ![b] = NewBuffer(d, [pool |-> current, data |-> d], {})]
    BY DEF PoolGet
  <2>2. CASE pools[p].list = <<>>
    BY <1>1, <2>1, <2>2
  <2>3. CASE pools[p].list # <<>>
    BY <1>1, <2>1, <2>3
  <2> QED BY <2>2, <2>3
<1>3. /\ th[t].buffer = None
      /\ th'[t].pc = "enterPool" /\ th'[t].buffer = None /\ th'[t].pool = p
      /\ th'[t].ret = "ready"
      /\ \A u \in Thread : u # t => th'[u] = th[u]
      /\ lock' = t /\ current' = p
  BY <1>0, <1>1 DEF TypeOK, PoolGet, Idle, ThreadInv, Fields
<1> DEFINE entry == [pool |-> p, data |-> d]
<1>4. entry.pool = p /\ entry.data = d /\ "reallocatable" \notin {}
  OBVIOUS
<1>5. /\ RefInv' /\ CountsReferences' /\ BufferInv'
      /\ \A u \in Thread : Releases(u)'
      /\ \A u \in Thread \ {t} : OwnWork(u)'
      /\ ~HasData(b) /\ HasData(b)' /\ buffers'[b].data = d
      /\ \A c \in Buffer : c # b => (HasData(c)' <=> HasData(c))
      /\ \A c \in Buffer : c # b => buffers'[c] = buffers[c]
      /\ \A q \in Pool :
           Counted(q)' = IF entry.pool = q THEN Counted(q) \cup {b} ELSE Counted(q)
      /\ \A q \in Pool : b \notin Counted(q)
  <2>1. buffers' = [buffers EXCEPT ![b] = NewBuffer(d, entry, {})]
    BY <1>2
  <2>2. {} \in SUBSET {"readonly", "reallocatable"}
    OBVIOUS
  <2>3. entry \in EntryFor(d, {})
    BY DEF EntryFor
  <2> HIDE DEF entry
  <2>4. Adds(t, r, b, d, entry, {})
    BY <1>2, <1>3, <2>1, <2>2, <2>3 DEF Adds
  <2> QED BY <1>4, <2>4, BufferAdded
<1>6. /\ Counted(p)' = Counted(p) \cup {b}
      /\ \A q \in Pool : q # p => Counted(q)' = Counted(q)
      /\ Cardinality(Counted(p)') = Cardinality(Counted(p)) + 1
  BY <1>4, <1>5, CountedFinite, FS_AddElement
<1>7. /\ \A q \in Pool : q # p => pools'[q] = pools[q]
      /\ pools'[p].live = pools[p].live
      /\ pools'[p].refcount = pools[p].refcount
  BY <1>0, <1>2 DEF TypeOK
<1>8. pools[p].live /\ pools[p].refcount \in Nat \ {0}
  BY <1>1, PoolCountPositive
<1>9. ThreadInv'
  <2>1. OwnWork(t)'
    <3>1. /\ Holds(t, r)' /\ refs'[r].buffer = b
      BY <1>0, <1>2 DEF TypeOK, NewRef, Holds
    <3>2. buffers'[b].entry.pool = p
      BY <1>0, <1>2 DEF TypeOK, NewBuffer
    <3> QED BY <1>3, <3>1, <3>2 DEF OwnWork
  <2>2. \A u \in Thread : th[u].buffer # b
    BY <1>2, NothingLeadsThere
  <2>3. \A u \in Thread : u # t => th[u].pc # "enterPool"
    BY <1>0, <1>1, AVBufferAssumption DEF ThreadInv, Fields
  <2>4. \A u \in Thread : Fields(u)'
    BY <1>0, <1>1, <1>3, <1>5, <2>2, <2>3, Typed, AVBufferAssumption DEF ThreadInv, Fields
  <2>5. ASSUME NEW u \in Thread PROVE FreesPool(u)'
    <3>1. CASE u = t
      BY <1>3, <3>1 DEF FreesPool
    <3>2. CASE u # t
      <4>1. /\ th'[u] = th[u] /\ FreesPool(u)
            /\ th[u].pc = "freePool" => th[u].pool \in Pool
        BY <1>0, <1>3, <3>2, Typed DEF ThreadInv, Fields
      <4>2. \A q \in Pool : pools'[q].live = pools[q].live /\ pools'[q].refcount = pools[q].refcount
        BY <1>7
      <4> QED BY <1>3, <4>1, <4>2 DEF FreesPool
    <3> QED BY <3>1, <3>2
  <2> QED BY <1>3, <1>5, <2>1, <2>4, <2>5 DEF ThreadInv
<1>10. DataInv' /\ DataKept'
  <2>1. CASE d \notin memory /\ memory' = memory \cup {d} /\ UNCHANGED pools
    <3>1. \A q \in Pool : pools'[q].list = pools[q].list
      BY <2>1
    <3>2. \A c \in Buffer : c # b => buffers'[c].data = buffers[c].data
      BY <1>5
    <3> QED BY <1>5, <2>1, <3>1, <3>2, DataAdded
  <2>2. CASE /\ pools[p].list # <<>> /\ d = Head(pools[p].list)
             /\ pools' = [pools EXCEPT ![p].list = Tail(@)]
             /\ UNCHANGED memory
    <3> DEFINE l == pools[p].list
    <3> DEFINE len == Len(l)
    <3>1. /\ l \in Seq(Data) /\ len \in Nat \ {0} /\ d = l[1]
          /\ pools'[p].list = Tail(l)
          /\ Len(Tail(l)) = len - 1
          /\ \A n \in 1 .. len - 1 : Tail(l)[n] = l[n + 1]
          /\ \A q \in Pool : q # p => pools'[q] = pools[q]
      BY <1>0, <2>2 DEF TypeOK
    <3>2. \A m, n \in 1 .. len : l[m] = l[n] => m = n
      BY <1>0 DEF DataInv
    <3>3. Listed(p)' = Listed(p) \ {d}
      <4>1. \A n \in 1 .. len - 1 : n + 1 \in 1 .. len /\ n + 1 # 1
        BY <3>1
      <4>2. Listed(p)' \subseteq Listed(p) \ {d}
        BY <3>1, <3>2, <4>1 DEF Listed
      <4>3. ASSUME NEW n \in 1 .. len, l[n] # d PROVE l[n] \in Listed(p)'
        <5>1. n # 1
          BY <3>1, <4>3
        <5>2. n - 1 \in 1 .. len - 1 /\ (n - 1) + 1 = n
          BY <3>1, <5>1
        <5>3. l[n] = pools'[p].list[n - 1] /\ n - 1 \in 1 .. Len(pools'[p].list)
          BY <3>1, <5>2
        <5> QED BY <5>3 DEF Listed
      <4> QED BY <4>2, <4>3 DEF Listed
    <3>4. \A q \in Pool : q # p => Listed(q)' = Listed(q)
      BY <3>1 DEF Listed
    <3>5. d \in Listed(p)
      BY <3>1 DEF Listed
    <3>6. /\ d \in memory
          /\ \A q \in Pool : q # p => d \notin Listed(q)
          /\ \A c \in Buffer : HasData(c) => buffers[c].data # d
      BY <1>0, <3>5 DEF DataInv
    <3>7. DataInv'
      <4>1. ASSUME NEW c \in Buffer, HasData(c)'
            PROVE  /\ buffers'[c].data \in memory'
                   /\ \A e \in Buffer : HasData(e)' /\ e # c => buffers'[e].data # buffers'[c].data
                   /\ \A q \in Pool : buffers'[c].data \notin Listed(q)'
        <5>1. CASE c = b
          BY <1>5, <2>2, <3>3, <3>4, <3>6, <5>1
        <5>2. CASE c # b
          BY <1>0, <1>5, <2>2, <3>3, <3>4, <3>6, <4>1, <5>2 DEF DataInv
        <5> QED BY <5>1, <5>2
      <4>2. ASSUME NEW q \in Pool
            PROVE  /\ Listed(q)' \subseteq memory'
                   /\ \A v \in Pool : v # q => Listed(q)' \cap Listed(v)' = {}
        <5>1. \A v \in Pool : Listed(v)' \subseteq Listed(v)
          BY <3>3, <3>4
        <5>2. Listed(q) \subseteq memory /\ \A v \in Pool : v # q => Listed(q) \cap Listed(v) = {}
          BY <1>0 DEF DataInv
        <5> QED BY <2>2, <5>1, <5>2
      <4>3. ASSUME NEW q \in Pool, NEW m \in 1 .. Len(pools'[q].list),
                   NEW n \in 1 .. Len(pools'[q].list), pools'[q].list[m] = pools'[q].list[n]
            PROVE  m = n
        <5>1. CASE q # p
          <6>1. pools'[q].list = pools[q].list
            BY <3>1, <5>1
          <6> QED BY <1>0, <4>3, <6>1 DEF DataInv
        <5>2. CASE q = p
          <6>1. /\ m + 1 \in 1 .. len /\ n + 1 \in 1 .. len
                /\ l[m + 1] = l[n + 1]
            <7>1. m \in 1 .. len - 1 /\ n \in 1 .. len - 1 /\ Tail(l)[m] = Tail(l)[n]
              BY <3>1, <4>3, <5>2
            <7>2. m + 1 \in 1 .. len /\ n + 1 \in 1 .. len
              BY <3>1, <7>1
            <7> QED BY <3>1, <7>1, <7>2
          <6>2. m + 1 = n + 1
            BY <3>2, <6>1
          <6> QED BY <6>2
        <5> QED BY <5>1, <5>2
      <4> QED BY <4>1, <4>2, <4>3 DEF DataInv
    <3>8. DataKept'
      BY <1>0, <1>5, <2>2, <3>3, <3>4 DEF DataKept
    <3> QED BY <3>7, <3>8
  <2> QED BY <1>2, <2>1, <2>2
<1>11. PoolInv'
  <2>1. (pools[p].refcount = Cardinality(Counted(p)) + 1) /\ Cardinality(Counted(p)) \in Nat
    BY <1>0, <1>1, CountedFinite, FS_CardinalityType DEF PoolInv
  <2>2. t # None
    BY AVBufferAssumption
  <2>3. pools'[p].refcount =
          Cardinality(Counted(p)') + (IF current' = p /\ lock' = None THEN 1 ELSE 0)
    BY <1>3, <1>6, <1>7, <2>1, <2>2
  <2>4. ASSUME NEW q \in Pool, q # p
        PROVE  /\ pools'[q].refcount = Cardinality(Counted(q)') +
                    (IF current' = q /\ lock' = None THEN 1 ELSE 0)
               /\ pools'[q].live =>
                    pools'[q].refcount > 0
                      \/ \E u \in Thread : th'[u].pc = "freePool" /\ th'[u].pool = q
               /\ ~pools'[q].live => pools'[q] = NoPool
    <3>1. (\E u \in Thread : th[u].pc = "freePool" /\ th[u].pool = q) =>
             \E u \in Thread : th'[u].pc = "freePool" /\ th'[u].pool = q
      BY <1>1, <1>3
    <3>2. pools'[q] = pools[q] /\ Counted(q)' = Counted(q)
      BY <1>6, <1>7, <2>4
    <3> QED BY <1>0, <1>1, <1>3, <2>4, <3>1, <3>2 DEF PoolInv
  <2>5. pools'[p].live /\ pools'[p].refcount > 0
    BY <1>7, <1>8
  <2> SUFFICES ASSUME NEW q \in Pool
               PROVE  /\ pools'[q].refcount = Cardinality(Counted(q)') +
                           (IF current' = q /\ lock' = None THEN 1 ELSE 0)
                      /\ pools'[q].live =>
                           pools'[q].refcount > 0
                             \/ \E u \in Thread : th'[u].pc = "freePool" /\ th'[u].pool = q
                      /\ ~pools'[q].live => pools'[q] = NoPool
    BY DEF PoolInv
  <2>6. CASE q = p
    BY <2>3, <2>5, <2>6
  <2>7. CASE q # p
    BY <2>4, <2>7
  <2> QED BY <2>6, <2>7
<1> QED BY <1>5, <1>9, <1>10, <1>11 DEF IInv

-----------------------------------------------------------------------------
(* av_buffer_ref(): one more reference, one more in the counter.           *)
LEMMA StepAdd ==
  ASSUME IInv, TypeOK', NEW t \in Thread, Add(t)
  PROVE  IInv'
<1>0. /\ TypeOK /\ ThreadInv /\ RefInv /\ CountsReferences /\ BufferInv /\ PoolInv
  BY InvParts
<1>a. PICK r \in Ref, s \in Ref :
        /\ Holds(t, r) /\ Unused(s)
        /\ refs' = [refs EXCEPT ![s] = refs[r]]
        /\ buffers' = [buffers EXCEPT ![refs[r].buffer].refcount = @ + 1]
  BY DEF Add
<1>b. PICK b \in Buffer : b = refs[r].buffer /\ ~Unused(r)
  BY <1>0, <1>a, AVBufferAssumption DEF Holds, Unused, RefInv
<1>1. /\ Holds(t, r) /\ Unused(s) /\ ~Unused(r) /\ b = refs[r].buffer
      /\ refs' = [refs EXCEPT ![s] = refs[r]]
      /\ buffers' = [buffers EXCEPT ![b].refcount = @ + 1]
  BY <1>a, <1>b
<1>2. /\ th[t].pc = "ready" /\ th[t].buffer = None
      /\ UNCHANGED <<memory, pools, current, lock, th>>
  BY <1>0 DEF Add, Ready, ThreadInv, Fields
<1>3. /\ refs'[s] = refs[r]
      /\ \A q \in Ref : q # s => refs'[q] = refs[q]
  BY <1>0, <1>1 DEF TypeOK
<1>4. \A c \in Buffer :
        /\ buffers'[c].live = buffers[c].live
        /\ buffers'[c].data = buffers[c].data
        /\ buffers'[c].entry = buffers[c].entry
        /\ buffers'[c].flags = buffers[c].flags
        /\ c = b => buffers'[c].refcount = buffers[c].refcount + 1
        /\ c # b => buffers'[c] = buffers[c]
  BY <1>0, <1>1 DEF TypeOK
<1>5. /\ b # None /\ buffers[b].live /\ buffers[b].refcount \in Nat \ {0}
      /\ \A u \in Thread : th[u].buffer # b
  BY <1>0, <1>1, ReferredIsCounted, AVBufferAssumption DEF RefInv, ThreadInv, Releases
<1>6. RefInv'
  BY <1>0, <1>1, <1>3, <1>4 DEF RefInv, Unused
<1>7. CountsReferences'
  <2>1. RefsTo(b)' = RefsTo(b) \cup {s} /\ s \notin RefsTo(b)
    BY <1>1, <1>3 DEF RefsTo, Unused
  <2>2. ASSUME NEW c \in Buffer, c # b PROVE RefsTo(c)' = RefsTo(c)
    <3>1. \A q \in Ref : q \in RefsTo(c)' <=> q \in RefsTo(c)
      BY <1>1, <1>3, <2>2 DEF RefsTo, Unused
    <3>2. RefsTo(c) \subseteq Ref /\ RefsTo(c)' \subseteq Ref
      BY DEF RefsTo
    <3> QED BY <3>1, <3>2
  <2>3. Cardinality(RefsTo(b)') = Cardinality(RefsTo(b)) + 1
    BY <2>1, RefsToFinite, FS_AddElement
  <2>4. ASSUME NEW c \in Buffer PROVE buffers'[c].refcount = Cardinality(RefsTo(c)')
    <3>1. CASE c = b
      BY <1>0, <1>4, <2>3, <3>1 DEF CountsReferences
    <3>2. CASE c # b
      BY <1>0, <1>4, <2>2, <3>2 DEF CountsReferences
    <3> QED BY <3>1, <3>2
  <2> QED BY <2>4 DEF CountsReferences
<1>8. BufferInv'
  <2> SUFFICES ASSUME NEW c \in Buffer
               PROVE  IF buffers'[c].live
                      THEN /\ buffers'[c].data \in Data
                           /\ buffers'[c].entry # NoEntry =>
                                /\ buffers'[c].entry.pool \in Pool
                                /\ buffers'[c].entry.data = buffers'[c].data
                                /\ "reallocatable" \notin buffers'[c].flags
                           /\ buffers'[c].refcount = 0 => \E u \in Thread : th'[u].buffer = c
                      ELSE buffers'[c] = NoBuffer
    BY DEF BufferInv
  <2>1. CASE c = b
    BY <1>0, <1>4, <1>5, <2>1 DEF BufferInv
  <2>2. CASE c # b
    BY <1>0, <1>2, <1>4, <2>2 DEF BufferInv
  <2> QED BY <2>1, <2>2
<1>9. ThreadInv'
  <2>1. ASSUME NEW u \in Thread PROVE OwnWork(u)'
    <3>1. CASE u = t
      BY <1>2, <3>1 DEF OwnWork
    <3>2. CASE u # t
      <4>1. \A q \in Ref : Holds(u, q) =>
              q # s /\ q # r /\ ~Unused(q) /\ refs[q].buffer \in Buffer
        BY <1>0, <1>1, <3>2, AVBufferAssumption DEF RefInv, Holds, Unused
      <4>2. OwnWork(u) /\ th'[u] = th[u]
        BY <1>0, <1>2 DEF ThreadInv
      <4>3. \A q \in Ref : Holds(u, q) =>
              /\ refs'[q] = refs[q]
              /\ buffers'[refs[q].buffer].entry.pool = buffers[refs[q].buffer].entry.pool
        BY <1>3, <1>4, <4>1
      <4>4. ASSUME NEW q \in Ref, Holds(u, q), NEW v \in Ref \ {q},
                   refs'[v].holder # None, refs'[v].buffer = refs[q].buffer
            PROVE  \E w \in Ref \ {q} : ~Unused(w) /\ refs[w].buffer = refs[q].buffer
        <5>1. CASE v = s
          BY <1>1, <1>3, <4>1, <4>4, <5>1
        <5>2. CASE v # s
          BY <1>3, <4>4, <5>2 DEF Unused
        <5> QED BY <5>1, <5>2
      <4> QED BY <4>2, <4>3, <4>4, OwnWorkKept
    <3> QED BY <3>1, <3>2
  <2>2. ASSUME NEW u \in Thread PROVE Fields(u)'
    <3>1. Fields(u) /\ th'[u] = th[u] /\ th[u].buffer \in Buffer \cup {None}
      BY <1>0, <1>2, Typed DEF ThreadInv
    <3> QED BY <1>2, <1>4, <3>1 DEF Fields
  <2>3. ASSUME NEW u \in Thread PROVE Releases(u)'
    <3>1. /\ Releases(u) /\ th'[u] = th[u]
          /\ th[u].buffer \in Buffer \cup {None} /\ th[u].buffer # b
      BY <1>0, <1>2, <1>5, Typed DEF ThreadInv
    <3> QED BY <1>2, <1>4, <3>1 DEF Releases
  <2>4. \A u \in Thread : FreesPool(u)'
    BY <1>0, <1>2 DEF ThreadInv, FreesPool
  <2> QED BY <1>0, <1>2, <2>1, <2>2, <2>3, <2>4 DEF ThreadInv
<1>10. \A c \in Buffer : HasData(c)' <=> HasData(c)
  BY <1>2, <1>4 DEF HasData
<1>11. DataInv' /\ DataKept'
  BY <1>2, <1>4, <1>10, DataStays
<1>12. \A p \in Pool : Counted(p)' = Counted(p)
  BY <1>2, <1>4 DEF Counted
<1>13. PoolInv'
  BY <1>0, <1>2, <1>12 DEF PoolInv
<1> QED BY <1>6, <1>7, <1>8, <1>9, <1>11, <1>13 DEF IInv

(* A reference changes hands.                                              *)
LEMMA StepPass ==
  ASSUME IInv, TypeOK', NEW t \in Thread, Pass(t)
  PROVE  IInv'
<1>0. /\ TypeOK /\ ThreadInv /\ RefInv /\ CountsReferences /\ BufferInv /\ PoolInv
  BY InvParts
<1>1. PICK r \in Ref, w \in Thread \ {t} :
        /\ Holds(t, r) /\ ~Unused(r) /\ w # None
        /\ refs' = [refs EXCEPT ![r].holder = w]
  BY AVBufferAssumption DEF Pass, Holds, Unused
<1>2. /\ th[t].pc = "ready" /\ th[t].buffer = None
      /\ UNCHANGED <<buffers, memory, pools, current, lock, th>>
  BY <1>0 DEF Pass, Ready, ThreadInv, Fields
<1>3. /\ refs'[r].holder = w /\ refs'[r].buffer = refs[r].buffer /\ refs'[r].data = refs[r].data
      /\ \A q \in Ref : q # r => refs'[q] = refs[q]
  BY <1>0, <1>1 DEF TypeOK
<1>4. RefInv'
  BY <1>0, <1>1, <1>2, <1>3 DEF RefInv, Unused
<1>5. CountsReferences'
  <2>1. \A c \in Buffer : RefsTo(c)' = RefsTo(c)
    BY <1>1, <1>3 DEF RefsTo, Unused
  <2> QED BY <1>0, <1>2, <2>1 DEF CountsReferences
<1>6. BufferInv'
  BY <1>0, <1>2 DEF BufferInv
<1>7. ThreadInv'
  <2>1. ASSUME NEW u \in Thread PROVE OwnWork(u)'
    <3>1. CASE u = t
      BY <1>2, <3>1 DEF OwnWork
    <3>2. CASE u # t
      <4>1. \A q \in Ref : Holds(u, q) => q # r /\ refs'[q] = refs[q]
        BY <1>1, <1>3, <3>2 DEF Holds
      <4>2. OwnWork(u) /\ th'[u] = th[u]
        BY <1>0, <1>2 DEF ThreadInv
      <4>3. \A q \in Ref : ~Unused(q)' => ~Unused(q) /\ refs'[q].buffer = refs[q].buffer
        BY <1>1, <1>3 DEF Unused
      <4> QED BY <1>2, <4>1, <4>2, <4>3, OwnWorkKept DEF Unused
    <3> QED BY <3>1, <3>2
  <2>2. \A u \in Thread : Fields(u)'
    BY <1>0, <1>2 DEF ThreadInv, Fields
  <2>3. \A u \in Thread : Releases(u)'
    BY <1>0, <1>2 DEF ThreadInv, Releases
  <2>4. \A u \in Thread : FreesPool(u)'
    BY <1>0, <1>2 DEF ThreadInv, FreesPool
  <2> QED BY <1>0, <1>2, <2>1, <2>2, <2>3, <2>4 DEF ThreadInv
<1>8. DataInv' /\ DataKept'
  BY <1>2, DataStays DEF HasData
<1>9. \A p \in Pool : Counted(p)' = Counted(p)
  BY <1>2 DEF Counted
<1>10. PoolInv'
  BY <1>0, <1>2, <1>9 DEF PoolInv
<1> QED BY <1>4, <1>5, <1>6, <1>7, <1>8, <1>10 DEF IInv

-----------------------------------------------------------------------------
(* buffer_replace() with a buffer just made: the reference moves to it,    *)
(* and the old buffer loses one.                                           *)
LEMMA StepReplace ==
  ASSUME IInv, TypeOK', NEW t \in Thread, Ready(t), NEW r \in Ref, Holds(t, r),
         NEW f \in SUBSET {"readonly", "reallocatable"}, NEW ret \in {"ready", "write"},
         Replace(t, r, f, ret), UNCHANGED <<pools, current, lock>>
  PROVE  IInv'
<1>0. /\ TypeOK /\ ThreadInv /\ RefInv /\ CountsReferences /\ BufferInv /\ PoolInv
  BY InvParts
<1>1. PICK old \in Buffer : old = refs[r].buffer /\ ~Unused(r)
  BY <1>0, AVBufferAssumption DEF RefInv, Holds, Unused
<1>2. /\ old # None /\ buffers[old].live /\ buffers[old].refcount \in Nat \ {0}
      /\ buffers[old].refcount = 1 =>
           \A s \in Ref : ~Unused(s) /\ s # r => refs[s].buffer # old
      /\ \A u \in Thread : th[u].buffer # old
  BY <1>0, <1>1, ReferredIsCounted, AVBufferAssumption DEF RefInv, ThreadInv, Releases
<1>3. PICK b \in Buffer, d \in Data \ memory :
       /\ ~buffers[b].live
       /\ refs' = [refs EXCEPT ![r] = NewRef(t, b, d)]
       /\ buffers' = [buffers EXCEPT ![b] = NewBuffer(d, NoEntry, f),
                                     ![old].refcount = @ - 1]
       /\ memory' = memory \cup {d}
  BY <1>1 DEF Replace
<1>4. /\ b # None /\ b # old
      /\ \A s \in Ref : ~Unused(s) => refs[s].buffer # b
      /\ \A u \in Thread : th[u].buffer # b
      /\ RefsTo(b) = {}
      /\ ~HasData(b)
      /\ \A p \in Pool : b \notin Counted(p)
  BY <1>2, <1>3, NothingLeadsThere
<1>5. /\ refs'[r].holder = t /\ refs'[r].buffer = b /\ refs'[r].data = d
      /\ \A q \in Ref : q # r => refs'[q] = refs[q]
  BY <1>0, <1>3 DEF TypeOK, NewRef
<1>6. /\ buffers'[b].live /\ buffers'[b].refcount = 1 /\ buffers'[b].data = d
      /\ buffers'[b].entry = NoEntry /\ buffers'[b].flags = f
  BY <1>0, <1>3, <1>4 DEF TypeOK, NewBuffer
<1>7. \A c \in Buffer : c # b =>
        /\ buffers'[c].live = buffers[c].live
        /\ buffers'[c].data = buffers[c].data
        /\ buffers'[c].entry = buffers[c].entry
        /\ buffers'[c].flags = buffers[c].flags
        /\ c = old => buffers'[c].refcount = buffers[c].refcount - 1
        /\ c # old => buffers'[c] = buffers[c]
  BY <1>0, <1>3, <1>4 DEF TypeOK
<1>8. /\ \A u \in Thread : u # t => th'[u] = th[u]
      /\ th[t].pc = "ready" /\ th[t].buffer = None
      /\ th'[t].ref = r
      /\ buffers[old].refcount = 1 => th'[t].pc = "free" /\ th'[t].buffer = old
      /\ buffers[old].refcount # 1 => th'[t].pc = ret /\ th'[t].buffer = None
  <2>1. Release(t, old, ret, r)
    BY <1>1 DEF Replace
  <2> QED BY <1>0, <2>1 DEF TypeOK, Release, Ready, Idle, ThreadInv, Fields
<1>9. RefInv'
  <2> SUFFICES ASSUME NEW s \in Ref
               PROVE  IF refs'[s].holder = None THEN refs'[s] = NoRef
                      ELSE /\ refs'[s].buffer \in Buffer
                           /\ buffers'[refs'[s].buffer].live
                           /\ refs'[s].data = buffers'[refs'[s].buffer].data
    BY DEF RefInv, Unused
  <2>1. CASE s = r
    BY <1>5, <1>6, <2>1, AVBufferAssumption
  <2>2. CASE s # r
    BY <1>0, <1>4, <1>5, <1>7, <2>2 DEF RefInv, Unused
  <2> QED BY <2>1, <2>2
<1>10. CountsReferences'
  <2>1. t # None
    BY AVBufferAssumption
  <2>2. RefsTo(b)' = {r}
    BY <1>4, <1>5, <2>1 DEF RefsTo, Unused
  <2>3. RefsTo(old)' = RefsTo(old) \ {r} /\ r \in RefsTo(old)
    BY <1>1, <1>4, <1>5, <2>1 DEF RefsTo, Unused
  <2>4. \A c \in Buffer : c # b /\ c # old => RefsTo(c)' = RefsTo(c)
    BY <1>1, <1>5, <2>1 DEF RefsTo, Unused
  <2>5. Cardinality({r}) = 1
    BY FS_Singleton
  <2>6. Cardinality(RefsTo(old)') = Cardinality(RefsTo(old)) - 1
    BY <2>3, RefsToFinite, FS_RemoveElement
  <2> QED BY <1>0, <1>6, <1>7, <2>2, <2>4, <2>5, <2>6 DEF CountsReferences
<1>11. BufferInv'
  <2> SUFFICES ASSUME NEW c \in Buffer
               PROVE  IF buffers'[c].live
                      THEN /\ buffers'[c].data \in Data
                           /\ buffers'[c].entry # NoEntry =>
                                /\ buffers'[c].entry.pool \in Pool
                                /\ buffers'[c].entry.data = buffers'[c].data
                                /\ "reallocatable" \notin buffers'[c].flags
                           /\ buffers'[c].refcount = 0 => \E u \in Thread : th'[u].buffer = c
                      ELSE buffers'[c] = NoBuffer
    BY DEF BufferInv
  <2>1. CASE c = b
    BY <1>6, <2>1
  <2>2. CASE c = old
    BY <1>0, <1>2, <1>4, <1>7, <1>8, <2>2 DEF BufferInv
  <2>3. CASE c # b /\ c # old
    <3>1. (\E u \in Thread : th[u].buffer = c) => \E u \in Thread : th'[u].buffer = c
      BY <1>8, AVBufferAssumption
    <3> QED BY <1>0, <1>7, <2>3, <3>1 DEF BufferInv
  <2> QED BY <2>1, <2>2, <2>3
<1>12. ThreadInv'
  <2>1. OwnWork(t)'
    <3>1. Holds(t, r)' /\ refs'[r].buffer = b
      BY <1>5 DEF Holds
    <3>2. \A s \in Ref : ~Unused(s)' /\ s # r => refs'[s].buffer # b
      BY <1>4, <1>5 DEF Unused
    <3>3. th'[t].pc # "enterPool"
      BY <1>8
    <3> QED BY <1>8, <3>1, <3>2, <3>3 DEF OwnWork
  <2>2. ASSUME NEW u \in Thread, u # t PROVE OwnWork(u)'
    <3>1. \A q \in Ref : Holds(u, q) =>
            q # r /\ ~Unused(q) /\ refs[q].buffer \in Buffer /\ refs[q].buffer # b
      BY <1>0, <1>4, <2>2, AVBufferAssumption DEF RefInv, Holds, Unused
    <3>2. OwnWork(u) /\ th'[u] = th[u]
      BY <1>0, <1>8, <2>2 DEF ThreadInv
    <3>3. \A q \in Ref : Holds(u, q) =>
            /\ refs'[q] = refs[q]
            /\ buffers'[refs[q].buffer].entry.pool = buffers[refs[q].buffer].entry.pool
      BY <1>5, <1>7, <3>1
    <3>4. \A v \in Ref, q \in Ref :
            Holds(u, q) /\ refs'[v].holder # None /\ refs'[v].buffer = refs[q].buffer =>
             ~Unused(v) /\ refs[v].buffer = refs[q].buffer
      BY <1>1, <1>5, <3>1 DEF Unused
    <3> QED BY <3>2, <3>3, <3>4, OwnWorkKept
  <2>3. ASSUME NEW u \in Thread PROVE Fields(u)'
    <3>1. CASE u = t
      BY <1>2, <1>8, <3>1 DEF Fields
    <3>2. CASE u # t
      <4>1. /\ Fields(u) /\ th'[u] = th[u]
            /\ th[u].buffer \in Buffer \cup {None} /\ th[u].buffer # b
        BY <1>0, <1>4, <1>8, <3>2, Typed DEF ThreadInv
      <4> QED BY <1>7, <4>1 DEF Fields
    <3> QED BY <3>1, <3>2
  <2>4. ASSUME NEW u \in Thread PROVE Releases(u)'
    <3>1. CASE u = t
      BY <1>2, <1>4, <1>7, <1>8, <3>1 DEF Releases
    <3>2. CASE u # t
      <4>1. /\ Releases(u) /\ th'[u] = th[u] /\ th[u].buffer \in Buffer \cup {None}
            /\ th[u].buffer # b /\ th[u].buffer # old
        BY <1>0, <1>2, <1>4, <1>8, <3>2, Typed DEF ThreadInv
      <4> QED BY <1>7, <1>8, <4>1 DEF Releases
    <3> QED BY <3>1, <3>2
  <2>5. \A u \in Thread : FreesPool(u)'
    BY <1>0, <1>8 DEF ThreadInv, FreesPool
  <2>6. (lock # None => th[lock].pc = "enterPool")'
    BY <1>0, <1>8, Typed DEF ThreadInv
  <2> QED BY <2>1, <2>2, <2>3, <2>4, <2>5, <2>6 DEF ThreadInv
<1>13. HasData(b)'
  BY <1>2, <1>4, <1>6, <1>8 DEF HasData
<1>14. \A c \in Buffer : c # b => (HasData(c)' <=> HasData(c))
  <2>1. \A c \in Buffer : c # old => \A u \in Thread :
          /\ (th'[u].buffer = c <=> th[u].buffer = c)
          /\ th[u].buffer = c => th'[u] = th[u]
    BY <1>8, AVBufferAssumption
  <2>2. \A c \in Buffer : c # b /\ c # old => (HasData(c)' <=> HasData(c))
    BY <1>7, <2>1 DEF HasData
  <2>3. HasData(old)' /\ HasData(old)
    BY <1>2, <1>4, <1>7, <1>8 DEF HasData
  <2> QED BY <2>2, <2>3
<1>15. DataInv' /\ DataKept'
  BY <1>3, <1>4, <1>6, <1>7, <1>13, <1>14, DataAdded
<1>16. ASSUME NEW p \in Pool PROVE Counted(p)' = Counted(p)
  <2>1. b \notin Counted(p)'
    BY <1>6, AVBufferAssumption DEF Counted, NoEntry
  <2>2. \A c \in Buffer : c # b /\ c # old => (c \in Counted(p)' <=> c \in Counted(p))
    <3>1. \A c \in Buffer : c # old => \A u \in Thread :
            /\ (th'[u].buffer = c <=> th[u].buffer = c)
            /\ th[u].buffer = c => th'[u] = th[u]
      BY <1>8, AVBufferAssumption
    <3> QED BY <1>7, <3>1 DEF Counted
  <2>3. old \in Counted(p)' <=> old \in Counted(p)
    BY <1>2, <1>4, <1>7, <1>8 DEF Counted
  <2>4. Counted(p) \subseteq Buffer /\ Counted(p)' \subseteq Buffer
    BY DEF Counted
  <2> QED BY <1>4, <2>1, <2>2, <2>3, <2>4
<1>17. PoolInv'
  BY <1>0, <1>8, <1>16 DEF PoolInv
<1> QED BY <1>9, <1>10, <1>11, <1>12, <1>15, <1>17 DEF IInv

(* av_buffer_unref(): one less, and the last one begins the release.       *)
LEMMA StepUnref ==
  ASSUME IInv, TypeOK', NEW t \in Thread, Unref(t)
  PROVE  IInv'
<1>0. /\ TypeOK /\ ThreadInv /\ RefInv /\ CountsReferences /\ BufferInv
      /\ DataInv /\ DataKept /\ PoolInv
  BY DEF IInv
<1>1. PICK r \in Ref, b \in Buffer :
       /\ Holds(t, r)
       /\ b = refs[r].buffer
       /\ refs' = [refs EXCEPT ![r] = NoRef]
       /\ buffers' = [buffers EXCEPT ![b].refcount = @ - 1]
       /\ Release(t, b, "ready", None)
  BY <1>0, AVBufferAssumption DEF Unref, Holds, Unused, RefInv
<1>2. ~Unused(r) /\ b # None
  BY <1>1, AVBufferAssumption DEF Holds, Unused
<1>3. /\ buffers[b].live
      /\ buffers[b].refcount \in Nat \ {0}
      /\ buffers[b].refcount = 1 =>
            \A s \in Ref : ~Unused(s) /\ s # r => refs[s].buffer # b
  BY <1>0, <1>1, <1>2, ReferredIsCounted DEF RefInv
<1>a. \A u \in Thread : th[u].buffer # b
  BY <1>0, <1>2, <1>3 DEF ThreadInv, Releases
<1>4. \A s \in Ref : refs'[s] = IF s = r THEN NoRef ELSE refs[s]
  BY <1>0, <1>1 DEF TypeOK
<1>5. \A c \in Buffer :
        /\ buffers'[c].live = buffers[c].live
        /\ buffers'[c].data = buffers[c].data
        /\ buffers'[c].entry = buffers[c].entry
        /\ buffers'[c].flags = buffers[c].flags
        /\ buffers'[c].refcount = IF c = b THEN buffers[c].refcount - 1 ELSE buffers[c].refcount
        /\ c # b => buffers'[c] = buffers[c]
  BY <1>0, <1>1 DEF TypeOK
<1>6. /\ \A u \in Thread : u # t => th'[u] = th[u]
      /\ th[t].pc = "ready" /\ th[t].buffer = None
      /\ buffers[b].refcount = 1 =>
            th'[t].pc = "free" /\ th'[t].buffer = b /\ th'[t].ret = "ready"
      /\ buffers[b].refcount # 1 => th'[t].pc = "ready" /\ th'[t].buffer = None
  BY SMTT(40), <1>0, <1>1 DEF TypeOK, Release, Unref, Ready, Idle, ThreadInv, Fields
<1>7. UNCHANGED <<memory, pools, current, lock>>
  BY DEF Unref
<1>8. ThreadInv'
  <2>1. \A u \in Thread : Fields(u)'
    BY <1>0, <1>2, <1>3, <1>5, <1>6, <1>7 DEF TypeOK, ThreadInv, Fields
  <2>2. ASSUME NEW u \in Thread PROVE OwnWork(u)'
    <3>1. CASE u = t
      BY <1>6, <3>1 DEF OwnWork
    <3>2. CASE u # t
      <4>1. \A q \in Ref : Holds(u, q) =>
               /\ q # r /\ refs'[q] = refs[q] /\ ~Unused(q)
               /\ refs[q].buffer \in Buffer
        BY <1>0, <1>1, <1>4, <3>2, AVBufferAssumption DEF Holds, Unused, RefInv
      <4>2. th'[u] = th[u] /\ OwnWork(u)
        BY <1>0, <1>6, <3>2 DEF ThreadInv
      <4>3. \A q \in Ref : Unused(q)' \/ (~Unused(q) /\ refs'[q].buffer = refs[q].buffer)
        BY <1>4 DEF Unused, NoRef
      <4> QED BY <1>5, <4>1, <4>2, <4>3 DEF OwnWork, Holds
    <3> QED BY <3>1, <3>2
  <2>3. ASSUME NEW u \in Thread PROVE Releases(u)'
    BY <1>0, <1>3, <1>a, <1>5, <1>6, Typed DEF ThreadInv, Releases
  <2>4. \A u \in Thread : FreesPool(u)'
    BY <1>0, <1>6, <1>7 DEF ThreadInv, FreesPool
  <2>5. (lock # None => th[lock].pc = "enterPool")'
    BY <1>0, <1>6, <1>7 DEF TypeOK, ThreadInv
  <2> QED BY <2>1, <2>2, <2>3, <2>4, <2>5 DEF ThreadInv
<1>9. RefInv'
  BY <1>0, <1>3, <1>4, <1>5 DEF RefInv, Unused, NoRef
<1>10. CountsReferences'
  <2> SUFFICES ASSUME NEW c \in Buffer PROVE buffers'[c].refcount = Cardinality(RefsTo(c)')
    BY DEF CountsReferences
  <2>1. RefsTo(c)' = IF c = b THEN RefsTo(c) \ {r} ELSE RefsTo(c)
    BY <1>1, <1>4 DEF RefsTo, NoRef
  <2>2. r \in RefsTo(b)
    BY <1>1, <1>2 DEF RefsTo, Unused
  <2>3. Cardinality(RefsTo(b) \ {r}) = Cardinality(RefsTo(b)) - 1
    BY <2>2, RefsToFinite, FS_RemoveElement
  <2> QED BY <1>0, <1>5, <2>1, <2>3 DEF CountsReferences
<1>11. BufferInv'
  <2> SUFFICES ASSUME NEW c \in Buffer
               PROVE  IF buffers'[c].live
                      THEN /\ buffers'[c].data \in Data
                           /\ buffers'[c].entry # NoEntry =>
                                /\ buffers'[c].entry.pool \in Pool
                                /\ buffers'[c].entry.data = buffers'[c].data
                                /\ "reallocatable" \notin buffers'[c].flags
                           /\ buffers'[c].refcount = 0 => \E u \in Thread : th'[u].buffer = c
                      ELSE buffers'[c] = NoBuffer
    BY DEF BufferInv
  <2>1. buffers'[c].refcount = 0 /\ buffers[c].live => \E u \in Thread : th'[u].buffer = c
    <3>1. CASE c = b
      BY <1>3, <1>5, <1>6, <3>1
    <3>2. CASE c # b
      BY <1>0, <1>5, <1>6, <3>2, AVBufferAssumption DEF BufferInv
    <3> QED BY <3>1, <3>2
  <2> QED BY <1>0, <1>3, <1>5, <2>1 DEF BufferInv
<1>12. \A c \in Buffer : HasData(c)' <=> HasData(c)
  BY <1>a, <1>5, <1>6, AVBufferAssumption DEF HasData
<1>13. DataInv' /\ DataKept'
  <2>1. \A p \in Pool : Listed(p)' = Listed(p)
    BY <1>7 DEF Listed
  <2>2. \A c \in Buffer : buffers'[c].data = buffers[c].data
    BY <1>5
  <2> QED BY <1>0, <1>7, <1>12, <2>1, <2>2 DEF DataInv, DataKept
<1>14. \A p \in Pool : Counted(p)' = Counted(p)
  BY <1>a, <1>5, <1>6, AVBufferAssumption DEF Counted
<1>15. PoolInv'
  BY <1>0, <1>6, <1>7, <1>14 DEF PoolInv
<1> QED BY <1>8, <1>9, <1>10, <1>11, <1>13, <1>15 DEF IInv

-----------------------------------------------------------------------------
(* av_buffer_make_writable(): the writer is alone at once, or after it     *)
(* moved to a copy.                                                        *)
LEMMA StepMakeWritable ==
  ASSUME IInv, TypeOK', NEW t \in Thread, MakeWritable(t)
  PROVE  IInv'
<1>0. TypeOK /\ ThreadInv /\ RefInv /\ PoolInv
  BY InvParts
<1>1. Ready(t) /\ UNCHANGED <<pools, current, lock>>
  BY DEF MakeWritable
<1>2. PICK r \in Ref :
        /\ Holds(t, r)
        /\ \/ /\ Writable(refs[r].buffer)
              /\ th' = [th EXCEPT ![t].pc = "write", ![t].ref = r]
              /\ UNCHANGED <<refs, buffers, memory>>
           \/ Replace(t, r, {}, "write")
  BY DEF MakeWritable
<1>3. CASE Replace(t, r, {}, "write")
  BY <1>1, <1>2, <1>3, StepReplace
<1>4. CASE /\ Writable(refs[r].buffer)
           /\ th' = [th EXCEPT ![t].pc = "write", ![t].ref = r]
           /\ UNCHANGED <<refs, buffers, memory>>
  <2>1. /\ \A u \in Thread : u # t => th'[u] = th[u]
        /\ th[t].pc = "ready" /\ th[t].buffer = None
        /\ th'[t].pc = "write" /\ th'[t].buffer = None /\ th'[t].ref = r
    BY <1>0, <1>1, <1>4 DEF TypeOK, Ready, ThreadInv, Fields
  <2>2. /\ RefInv' /\ CountsReferences' /\ BufferInv'
        /\ \A u \in Thread : Releases(u)'
        /\ \A u \in Thread \ {t} : OwnWork(u)'
    BY <1>4, <2>1, BuffersKept
  <2>3. OwnWork(t)'
    <3>1. ~Unused(r)
      BY <1>2, AVBufferAssumption DEF Holds, Unused
    <3>2. \A s \in Ref : ~Unused(s) /\ s # r => refs[s].buffer # refs[r].buffer
      BY <1>4, <3>1, ReferredIsCounted DEF Writable
    <3> QED BY <1>2, <1>4, <2>1, <3>2 DEF OwnWork, Holds, Unused
  <2>4. ThreadInv'
    <3>1. ASSUME NEW u \in Thread PROVE Fields(u)' /\ FreesPool(u)'
      <4>1. CASE u = t
        BY <2>1, <4>1 DEF Fields, FreesPool
      <4>2. CASE u # t
        <5>1. th'[u] = th[u] /\ Fields(u)
          BY <1>0, <2>1, <4>2 DEF ThreadInv
        <5>2. Fields(u)'
          BY <1>1, <1>4, <5>1 DEF Fields
        <5>3. FreesPool(u)'
          BY <1>0, <1>1, <2>1, <4>2 DEF ThreadInv, FreesPool
        <5> QED BY <5>2, <5>3
      <4> QED BY <4>1, <4>2
    <3>2. (lock # None => th[lock].pc = "enterPool")'
      BY <1>0, <1>1, <2>1, Typed DEF ThreadInv
    <3> QED BY <2>2, <2>3, <3>1, <3>2 DEF ThreadInv
  <2>5. \A c \in Buffer : HasData(c)' <=> HasData(c)
    BY ZenonT(40), <1>4, <2>1, AVBufferAssumption DEF HasData
  <2>6. DataInv' /\ DataKept'
    BY <1>1, <1>4, <2>5, DataStays
  <2>7. \A p \in Pool : Counted(p)' = Counted(p)
    <3>1. \A u \in Thread, c \in Buffer :
            /\ th'[u].buffer = c <=> th[u].buffer = c
            /\ th[u].buffer = c => th'[u] = th[u]
      BY <2>1, AVBufferAssumption
    <3>2. UNCHANGED buffers
      BY <1>4
    <3> QED BY <3>1, <3>2 DEF Counted
  <2>8. PoolInv'
    BY <1>0, <1>1, <2>1, <2>7 DEF PoolInv
  <2> QED BY <2>2, <2>4, <2>6, <2>8 DEF IInv
<1> QED BY <1>2, <1>3, <1>4

(* av_buffer_realloc() in place: the only reference to a buffer of no pool *)
(* moves with its data.                                                    *)
LEMMA DataMoved ==
  ASSUME IInv, TypeOK', NEW t \in Thread, Ready(t),
         NEW r \in Ref, NEW d \in Data \ memory, Holds(t, r), InPlace(r),
         refs' = [refs EXCEPT ![r].data = d],
         buffers' = [buffers EXCEPT ![refs[r].buffer].data = d],
         memory' = (memory \ {refs[r].data}) \cup {d},
         UNCHANGED <<pools, current, lock, th>>
  PROVE  IInv'
<1>0. /\ TypeOK /\ ThreadInv /\ RefInv /\ CountsReferences /\ BufferInv
      /\ DataInv /\ DataKept /\ PoolInv
  BY InvParts
<1>1. /\ ~Unused(r) /\ refs[r].buffer \in Buffer
      /\ \A s \in Ref : ~Unused(s) /\ s # r => refs[s].buffer # refs[r].buffer
  BY AVBufferAssumption, ReferredIsCounted DEF Holds, Unused, InPlace, Writable
<1>b. PICK b \in Buffer : b = refs[r].buffer
  BY <1>1
<1>2. /\ b # None /\ buffers[b].live
      /\ refs[r].buffer = b /\ refs[r].data = buffers[b].data
      /\ buffers[b].refcount = 1 /\ "reallocatable" \in buffers[b].flags
      /\ \A s \in Ref : ~Unused(s) /\ s # r => refs[s].buffer # b
      /\ buffers' = [buffers EXCEPT ![b].data = d]
  BY <1>0, <1>1, <1>b, AVBufferAssumption DEF RefInv, InPlace, Writable
<1>3. /\ buffers[b].entry = NoEntry
      /\ \A u \in Thread : th[u].buffer # b
  BY <1>0, <1>2 DEF BufferInv, ThreadInv, Releases
<1>4. /\ refs'[r].holder = refs[r].holder /\ refs'[r].buffer = b /\ refs'[r].data = d
      /\ \A q \in Ref : q # r => refs'[q] = refs[q]
      /\ \A q \in Ref : refs'[q].holder = refs[q].holder /\ refs'[q].buffer = refs[q].buffer
  BY <1>0, <1>2 DEF TypeOK
<1>5. /\ buffers'[b].data = d
      /\ \A c \in Buffer : /\ buffers'[c].live = buffers[c].live
                           /\ buffers'[c].refcount = buffers[c].refcount
                           /\ buffers'[c].entry = buffers[c].entry
                           /\ buffers'[c].flags = buffers[c].flags
                           /\ c # b => buffers'[c] = buffers[c]
  BY <1>0, <1>2 DEF TypeOK
<1>6. RefInv'
  <2> SUFFICES ASSUME NEW s \in Ref
               PROVE  IF refs'[s].holder = None THEN refs'[s] = NoRef
                      ELSE /\ refs'[s].buffer \in Buffer
                           /\ buffers'[refs'[s].buffer].live
                           /\ refs'[s].data = buffers'[refs'[s].buffer].data
    BY DEF RefInv, Unused
  <2>1. CASE s = r
    BY <1>1, <1>2, <1>4, <1>5, <2>1 DEF Unused
  <2>2. CASE s # r
    BY <1>0, <1>2, <1>4, <1>5, <2>2 DEF RefInv, Unused
  <2> QED BY <2>1, <2>2
<1>7. CountsReferences'
  <2>1. \A c \in Buffer : RefsTo(c)' = RefsTo(c)
    BY <1>4 DEF RefsTo
  <2> QED BY <1>0, <1>5, <2>1 DEF CountsReferences
<1>8. BufferInv'
  <2> SUFFICES ASSUME NEW c \in Buffer
               PROVE  IF buffers'[c].live
                      THEN /\ buffers'[c].data \in Data
                           /\ buffers'[c].entry # NoEntry =>
                                /\ buffers'[c].entry.pool \in Pool
                                /\ buffers'[c].entry.data = buffers'[c].data
                                /\ "reallocatable" \notin buffers'[c].flags
                           /\ buffers'[c].refcount = 0 => \E u \in Thread : th'[u].buffer = c
                      ELSE buffers'[c] = NoBuffer
    BY DEF BufferInv
  <2>1. CASE c = b
    BY <1>2, <1>3, <1>5, <2>1
  <2>2. CASE c # b
    BY <1>0, <1>5, <2>2 DEF BufferInv
  <2> QED BY <2>1, <2>2
<1>9. ThreadInv'
  <2>1. ASSUME NEW u \in Thread PROVE OwnWork(u)'
    <3>1. OwnWork(u) /\ th'[u] = th[u]
      BY <1>0 DEF ThreadInv
    <3>2. \A q \in Ref : Holds(u, q) => ~Unused(q) /\ refs[q].buffer \in Buffer
      BY <1>0, AVBufferAssumption DEF RefInv, Holds, Unused
    <3>3. \A q \in Ref : (Holds(u, q)' <=> Holds(u, q)) /\ (Unused(q)' <=> Unused(q))
      BY <1>4 DEF Holds, Unused
    <3>4. \A q \in Ref : Holds(u, q) =>
            buffers'[refs'[q].buffer].entry.pool = buffers[refs[q].buffer].entry.pool
      BY <1>4, <1>5, <3>2
    <3> QED BY <1>4, <3>1, <3>3, <3>4 DEF OwnWork
  <2>2. ASSUME NEW u \in Thread PROVE Fields(u)' /\ Releases(u)'
    <3>1. /\ Fields(u) /\ Releases(u) /\ th[u].buffer \in Buffer \cup {None}
      BY <1>0, Typed DEF ThreadInv
    <3> QED BY <1>5, <3>1 DEF Fields, Releases
  <2>3. \A u \in Thread : FreesPool(u)'
    BY <1>0 DEF ThreadInv, FreesPool
  <2> QED BY <1>0, <2>1, <2>2, <2>3 DEF ThreadInv
<1>10. HasData(b) /\ \A c \in Buffer : HasData(c)' <=> HasData(c)
  BY <1>2, <1>3, <1>5 DEF HasData
<1>11. \A p \in Pool : Listed(p)' = Listed(p)
  BY DEF Listed
<1>12. DataInv'
  <2>1. /\ \A p \in Pool : d \notin Listed(p) /\ refs[r].data \notin Listed(p)
        /\ \A c \in Buffer : HasData(c) => buffers[c].data # d
        /\ \A c \in Buffer : HasData(c) /\ c # b => buffers[c].data # refs[r].data
    BY <1>0, <1>2, <1>10 DEF DataInv
  <2>2. ASSUME NEW c \in Buffer, HasData(c)'
        PROVE  /\ buffers'[c].data \in memory'
               /\ \A e \in Buffer : HasData(e)' /\ e # c => buffers'[e].data # buffers'[c].data
               /\ \A p \in Pool : buffers'[c].data \notin Listed(p)'
    <3>1. CASE c = b
      BY <1>5, <1>10, <1>11, <2>1, <3>1
    <3>2. CASE c # b
      BY <1>0, <1>5, <1>10, <1>11, <2>1, <2>2, <3>2 DEF DataInv
    <3> QED BY <3>1, <3>2
  <2>3. \A p \in Pool : Listed(p)' \subseteq memory'
    BY <1>0, <1>11, <2>1 DEF DataInv
  <2> QED BY <1>0, <1>11, <2>2, <2>3 DEF DataInv
<1>13. DataKept'
  BY <1>0, <1>2, <1>5, <1>10, <1>11 DEF DataKept
<1>14. \A p \in Pool : Counted(p)' = Counted(p)
  BY <1>5 DEF Counted
<1>15. PoolInv'
  BY <1>0, <1>14 DEF PoolInv
<1> QED BY <1>6, <1>7, <1>8, <1>9, <1>12, <1>13, <1>15 DEF IInv

(* av_buffer_realloc(): of nothing, in place, or by moving.                *)
LEMMA StepRealloc ==
  ASSUME IInv, TypeOK', NEW t \in Thread, Realloc(t)
  PROVE  IInv'
<1>1. Ready(t) /\ UNCHANGED <<pools, current, lock>>
  BY DEF Realloc
<1>2. CASE \E r \in Ref, b \in Buffer, d \in Data \ memory :
             /\ Unused(r) /\ ~buffers[b].live
             /\ refs' = [refs EXCEPT ![r] = NewRef(t, b, d)]
             /\ buffers' = [buffers EXCEPT ![b] = NewBuffer(d, NoEntry, {"reallocatable"})]
             /\ memory' = memory \cup {d}
             /\ UNCHANGED th
  <2>1. {"reallocatable"} \in SUBSET {"readonly", "reallocatable"}
    OBVIOUS
  <2> QED BY <1>1, <1>2, <2>1, FirstReference
<1>3. CASE \E r \in Ref, d \in Data \ memory :
             /\ Holds(t, r) /\ InPlace(r)
             /\ refs' = [refs EXCEPT ![r].data = d]
             /\ buffers' = [buffers EXCEPT ![refs[r].buffer].data = d]
             /\ memory' = (memory \ {refs[r].data}) \cup {d}
             /\ UNCHANGED th
  BY <1>1, <1>3, DataMoved
<1>4. CASE \E r \in Ref : Holds(t, r) /\ Replace(t, r, {"reallocatable"}, "ready")
  BY <1>1, <1>4, StepReplace
<1> QED BY <1>2, <1>3, <1>4 DEF Realloc

-----------------------------------------------------------------------------
(* Nothing is there at the start.                                          *)
LEMMA InvInit == Init => IInv
<1> SUFFICES ASSUME Init PROVE IInv
  OBVIOUS
<1>1. TypeOK
  BY TypeInit
<1>2. /\ \A t \in Thread : th[t].pc = "ready" /\ th[t].buffer = None
      /\ \A r \in Ref : refs[r] = NoRef /\ Unused(r)
      /\ \A b \in Buffer : /\ buffers[b] = NoBuffer /\ ~buffers[b].live
                           /\ buffers[b].refcount = 0
      /\ \A p \in Pool : /\ pools[p] = NoPool /\ ~pools[p].live
                         /\ pools[p].refcount = 0 /\ pools[p].list = <<>>
      /\ memory = {} /\ current = None /\ lock = None
  BY DEF Init, Idle, NoRef, NoBuffer, NoPool, Unused
<1>3. ThreadInv
  BY <1>2 DEF ThreadInv, Fields, OwnWork, Releases, FreesPool
<1>4. RefInv /\ BufferInv
  BY <1>2 DEF RefInv, BufferInv
<1>5. CountsReferences
  <2>1. \A b \in Buffer : RefsTo(b) = {}
    BY <1>2 DEF RefsTo, Unused
  <2> QED BY <1>2, <2>1, FS_EmptySet DEF CountsReferences
<1>6. DataInv /\ DataKept
  <2>1. \A b \in Buffer : ~HasData(b)
    BY <1>2 DEF HasData
  <2>2. \A p \in Pool : Listed(p) = {} /\ Len(pools[p].list) = 0
    BY <1>2 DEF Listed
  <2> QED BY <1>2, <2>1, <2>2 DEF DataInv, DataKept
<1>7. PoolInv
  <2>1. \A p \in Pool : Counted(p) = {} /\ current # p
    BY <1>2, AVBufferAssumption DEF Counted
  <2>2. Cardinality({}) = 0
    BY FS_EmptySet
  <2> SUFFICES ASSUME NEW p \in Pool
               PROVE  /\ pools[p].refcount = Cardinality(Counted(p)) +
                           (IF current = p /\ lock = None THEN 1 ELSE 0)
                      /\ ~pools[p].live /\ pools[p] = NoPool
    BY DEF PoolInv
  <2>3. Cardinality(Counted(p)) = 0
    BY <2>1, <2>2
  <2> QED BY <1>2, <2>1, <2>3
<1> QED BY <1>1, <1>3, <1>4, <1>5, <1>6, <1>7 DEF IInv

(* Nothing changes in a stuttering step.                                   *)
LEMMA InvStutter == IInv /\ UNCHANGED vars => IInv'
<1> SUFFICES ASSUME IInv, UNCHANGED vars PROVE IInv'
  OBVIOUS
<1>0. /\ TypeOK /\ ThreadInv /\ RefInv /\ CountsReferences /\ BufferInv
      /\ DataInv /\ DataKept /\ PoolInv
  BY InvParts
<1> USE DEF vars
<1>1. TypeOK' /\ RefInv' /\ BufferInv'
  BY <1>0 DEF TypeOK, RefInv, BufferInv, Unused
<1>2. ThreadInv'
  BY <1>0 DEF ThreadInv, Fields, OwnWork, Releases, FreesPool, Holds, Unused
<1>3. \A b \in Buffer : RefsTo(b)' = RefsTo(b)
  BY DEF RefsTo
<1>4. CountsReferences'
  BY <1>0, <1>3 DEF CountsReferences
<1>5. DataInv' /\ DataKept'
  BY DataStays DEF HasData
<1>6. \A p \in Pool : Counted(p)' = Counted(p)
  BY DEF Counted
<1>7. PoolInv'
  BY <1>0, <1>6 DEF PoolInv
<1> QED BY <1>1, <1>2, <1>4, <1>5, <1>7 DEF IInv

(* Every step of every thread keeps the invariant.                         *)
LEMMA InvStep == IInv /\ [Next]_vars => IInv'
<1> SUFFICES ASSUME IInv, [Next]_vars PROVE IInv'
  OBVIOUS
<1>0. TypeOK'
  BY TypeStep
<1>1. ASSUME NEW t \in Thread, Create(t) PROVE IInv'
  BY <1>0, <1>1, StepCreate
<1>2. ASSUME NEW t \in Thread, Add(t) PROVE IInv'
  BY <1>0, <1>2, StepAdd
<1>3. ASSUME NEW t \in Thread, Pass(t) PROVE IInv'
  BY <1>0, <1>3, StepPass
<1>4. ASSUME NEW t \in Thread, Unref(t) PROVE IInv'
  BY <1>0, <1>4, StepUnref
<1>5. ASSUME NEW t \in Thread, FreeData(t) PROVE IInv'
  BY <1>0, <1>5, StepFreeData
<1>6. ASSUME NEW t \in Thread, ReturnToPool(t) PROVE IInv'
  BY <1>0, <1>6, StepReturnToPool
<1>7. ASSUME NEW t \in Thread, LeavePool(t) PROVE IInv'
  BY <1>0, <1>7, StepLeavePool
<1>8. ASSUME NEW t \in Thread, FreePool(t) PROVE IInv'
  BY <1>0, <1>8, StepFreePool
<1>9. ASSUME NEW t \in Thread, FreeBuffer(t) PROVE IInv'
  BY <1>0, <1>9, StepFreeBuffer
<1>10. ASSUME NEW t \in Thread, MakeWritable(t) PROVE IInv'
  BY <1>0, <1>10, StepMakeWritable
<1>11. ASSUME NEW t \in Thread, Written(t) PROVE IInv'
  BY <1>0, <1>11, StepWritten
<1>12. ASSUME NEW t \in Thread, Realloc(t) PROVE IInv'
  BY <1>0, <1>12, StepRealloc
<1>13. ASSUME NEW t \in Thread, PoolInit(t) PROVE IInv'
  BY <1>0, <1>13, StepPoolInit
<1>14. ASSUME NEW t \in Thread, PoolUninit(t) PROVE IInv'
  BY <1>0, <1>14, StepPoolUninit
<1>15. ASSUME NEW t \in Thread, PoolGet(t) PROVE IInv'
  BY <1>0, <1>15, StepPoolGet
<1>16. ASSUME NEW t \in Thread, EnterPool(t) PROVE IInv'
  BY <1>0, <1>16, StepEnterPool
<1>17. CASE UNCHANGED vars
  BY <1>17, InvStutter
<1> QED
  BY <1>1, <1>2, <1>3, <1>4, <1>5, <1>6, <1>7, <1>8, <1>9, <1>10, <1>11, <1>12,
     <1>13, <1>14, <1>15, <1>16, <1>17 DEF Next

(* The invariant holds in every state of every behaviour.                  *)
LEMMA Invariance == Spec => []IInv
  BY InvInit, InvStep, PTL DEF Spec

-----------------------------------------------------------------------------
(* Every record keeps its fields' types, and no counter goes below zero.   *)
THEOREM TypeCorrect == Spec => []TypeOK
<1>1. IInv => TypeOK
  BY InvParts
<1> QED BY <1>1, Invariance, PTL

(* The counter of a buffer is the number of references to it, at every     *)
(* step of every thread.                                                   *)
THEOREM CounterIsExact == Spec => []CountsReferences
<1>1. IInv => CountsReferences
  BY InvParts
<1> QED BY <1>1, Invariance, PTL

(* A buffer with a reference is not being released.                        *)
LEMMA ReferredHasData ==
  ASSUME IInv, NEW r \in Ref, ~Unused(r)
  PROVE  /\ refs[r].buffer \in Buffer /\ HasData(refs[r].buffer)
         /\ \A t \in Thread : th[t].buffer # refs[r].buffer
         /\ refs[r].data = buffers[refs[r].buffer].data
<1>1. ThreadInv /\ RefInv
  BY InvParts
<1>2. /\ refs[r].buffer \in Buffer /\ buffers[refs[r].buffer].refcount # 0
      /\ buffers[refs[r].buffer].live /\ refs[r].data = buffers[refs[r].buffer].data
  BY <1>1, ReferredIsCounted DEF RefInv
<1>3. \A t \in Thread : th[t].buffer # refs[r].buffer
  BY <1>1, <1>2, AVBufferAssumption DEF ThreadInv, Releases
<1> QED BY <1>2, <1>3 DEF HasData

(* What a reference leads to is there.                                     *)
THEOREM ReferencesLead == Spec => []NoDangling
<1>1. ASSUME IInv PROVE NoDangling
  <2>1. DataInv
    BY <1>1, InvParts
  <2> QED BY <1>1, <2>1, ReferredHasData DEF NoDangling, HasData, DataInv
<1> QED BY <1>1, Invariance, PTL

(* While a thread writes, no reference of any thread reads.                *)
THEOREM WriterAlone == Spec => []WriterIsAlone
<1>1. ASSUME IInv PROVE WriterIsAlone
  <2>1. ThreadInv /\ DataInv
    BY <1>1, InvParts
  <2> SUFFICES ASSUME NEW t \in Thread, th[t].pc = "write",
                      NEW r \in Ref \ {th[t].ref}, ~Unused(r)
               PROVE  refs[r].data # refs[th[t].ref].data
    BY DEF WriterIsAlone
  <2>2. /\ th[t].ref \in Ref /\ ~Unused(th[t].ref)
        /\ refs[r].buffer # refs[th[t].ref].buffer
    BY <2>1, AVBufferAssumption DEF ThreadInv, OwnWork, Holds, Unused
  <2> QED BY <1>1, <2>1, <2>2, ReferredHasData DEF DataInv
<1> QED BY <1>1, Invariance, PTL

(* A list in which nothing is twice has as many elements as it is long.    *)
LEMMA DistinctListed ==
  ASSUME NEW p \in Pool, pools[p].list \in Seq(Data),
         \A m, n \in 1 .. Len(pools[p].list) : pools[p].list[m] = pools[p].list[n] => m = n
  PROVE  Cardinality(Listed(p)) = Len(pools[p].list)
<1> DEFINE k == Len(pools[p].list)
           f == [n \in 1 .. k |-> pools[p].list[n]]
<1>1. k \in Nat
  OBVIOUS
<1>2. f \in Bijection(1 .. k, Listed(p))
  BY DEF Listed, Bijection, Injection, Surjection, IsInjective
<1>3. IsFiniteSet(1 .. k) /\ Cardinality(1 .. k) = k
  BY SMTT(40), <1>1, FS_Interval
<1> HIDE DEF k, f
<1>4. ExistsBijection(1 .. k, Listed(p))
  BY <1>2 DEF ExistsBijection
<1>5. Cardinality(Listed(p)) = k
  BY <1>3, <1>4, FS_Bijection
<1> QED BY <1>5 DEF k

(* A pool is freed after the last buffer of it is back, by one thread.     *)
THEOREM PoolOutlives == Spec => []PoolOutlivesBuffers
<1>1. ASSUME IInv PROVE PoolOutlivesBuffers
  <2>0. TypeOK /\ ThreadInv /\ RefInv /\ BufferInv /\ DataInv /\ PoolInv
    BY <1>1, InvParts
  <2>1. ASSUME NEW r \in Ref, ~Unused(r), buffers[refs[r].buffer].entry.pool # None
        PROVE  pools[buffers[refs[r].buffer].entry.pool].live
    <3> DEFINE p == buffers[refs[r].buffer].entry.pool
    <3>1. /\ refs[r].buffer \in Buffer /\ buffers[refs[r].buffer].live
          /\ \A t \in Thread : th[t].buffer # refs[r].buffer
      BY <1>1, <2>1, ReferredHasData DEF HasData
    <3>2. p \in Pool
      BY <2>0, <2>1, <3>1 DEF BufferInv, NoEntry
    <3>3. refs[r].buffer \in Counted(p)
      BY <3>1 DEF Counted
    <3> QED BY <1>1, <3>2, <3>3, PoolCountPositive
  <2>2. ASSUME NEW t \in Thread, th[t].pc = "leavePool"
        PROVE  pools[th[t].pool].live
    <3>1. th[t].pool # None /\ th[t].pool = buffers[th[t].buffer].entry.pool
      BY <2>0, <2>2 DEF ThreadInv, Fields
    <3>2. th[t].pool \in Pool /\ th[t].buffer \in Counted(th[t].pool)
      BY <1>1, <2>2, <3>1, LeaverIsCounted DEF NoEntry
    <3> QED BY <1>1, <3>2, PoolCountPositive
  <2>3. ASSUME NEW t \in Thread, th[t].pc = "enterPool"
        PROVE  pools[th[t].pool].live
    <3>1. PICK r \in Ref : Holds(t, r) /\ buffers[refs[r].buffer].entry.pool = th[t].pool
      BY <2>0, <2>3 DEF ThreadInv, OwnWork
    <3>2. ~Unused(r) /\ th[t].pool # None
      BY <2>0, <2>3, <3>1, AVBufferAssumption DEF Holds, Unused, ThreadInv, Fields
    <3> QED BY <2>1, <3>1, <3>2
  <2>4. ASSUME NEW t \in Thread, th[t].pc = "freePool"
        PROVE  pools[th[t].pool].live
    BY <2>0, <2>4 DEF ThreadInv, FreesPool
  <2>5. ASSUME NEW p \in Pool PROVE Cardinality(Listed(p)) = Len(pools[p].list)
    BY <2>0, DistinctListed, Typed DEF DataInv
  <2> QED BY <2>1, <2>2, <2>3, <2>4, <2>5 DEF PoolOutlivesBuffers
<1> QED BY <1>1, Invariance, PTL

(* When every call has returned, no buffer, no data and no pool is left    *)
(* that nobody can reach.                                                  *)
THEOREM NoLeak == Spec => []NothingLeaks
<1>1. ASSUME IInv PROVE NothingLeaks
  <2>0. /\ TypeOK /\ ThreadInv /\ RefInv /\ CountsReferences /\ BufferInv
        /\ DataInv /\ DataKept /\ PoolInv
    BY <1>1, InvParts
  <2> SUFFICES ASSUME \A t \in Thread : Ready(t)
               PROVE  /\ \A b \in Buffer : buffers[b].live => RefsTo(b) # {}
                      /\ \A d \in memory :
                           \/ \E r \in Ref : refs[r].data = d
                           \/ \E p \in Pool : pools[p].live /\ d \in Listed(p)
                      /\ \A p \in Pool : pools[p].live =>
                           p = current \/ \E b \in Buffer :
                                            buffers[b].live /\ buffers[b].entry.pool = p
    BY DEF NothingLeaks
  <2>1. \A t \in Thread : th[t].pc = "ready" /\ th[t].buffer = None
    BY <2>0 DEF Ready, ThreadInv, Fields
  <2>2. ASSUME NEW b \in Buffer, buffers[b].live PROVE RefsTo(b) # {}
    <3>1. buffers[b].refcount # 0
      BY <2>0, <2>1, <2>2, AVBufferAssumption DEF BufferInv
    <3> QED BY <2>0, <3>1, FS_EmptySet DEF CountsReferences
  <2>3. ASSUME NEW d \in memory
        PROVE  \/ \E r \in Ref : refs[r].data = d
               \/ \E p \in Pool : pools[p].live /\ d \in Listed(p)
    <3>1. CASE \E b \in Buffer : HasData(b) /\ buffers[b].data = d
      <4>1. PICK b \in Buffer : buffers[b].live /\ buffers[b].data = d
        BY <3>1 DEF HasData
      <4>2. PICK r \in Ref : ~Unused(r) /\ refs[r].buffer = b
        BY <2>2, <4>1 DEF RefsTo, Unused
      <4> QED BY <2>0, <4>1, <4>2 DEF RefInv
    <3>2. CASE \E p \in Pool : d \in Listed(p)
      BY <2>0, <3>2 DEF PoolInv, NoPool, Listed
    <3> QED BY <2>0, <3>1, <3>2 DEF DataKept
  <2>4. ASSUME NEW p \in Pool, pools[p].live, p # current
        PROVE  \E b \in Buffer : buffers[b].live /\ buffers[b].entry.pool = p
    <3>1. pools[p].refcount > 0
      BY <2>0, <2>1, <2>4 DEF PoolInv
    <3>2. pools[p].refcount = Cardinality(Counted(p)) + 0
      BY <2>0, <2>4 DEF PoolInv
    <3>3. Counted(p) # {}
      BY <3>1, <3>2, FS_EmptySet
    <3> QED BY <3>3 DEF Counted
  <2> QED BY <2>2, <2>3, <2>4
<1> QED BY <1>1, Invariance, PTL
=============================================================================
