-------------------------- MODULE BufferPoolProofs --------------------------
(***************************************************************************)
(* Proofs about BufferPool, for any number of holders, slots, descriptors  *)
(* and any limit of the count.                                             *)
(***************************************************************************)
EXTENDS BufferPool, FiniteSetTheorems, SequenceTheorems, TLAPS

\* The two counters of the pool are the sizes of the sets they stand for.
Counted ==
    /\ Len(freeList) = Cardinality(Free)
    /\ registered = Cardinality(Registered)

\* A call that has begun works on a slot its caller has a reference to.
CallsHoldTheirSlot ==
    \A h \in Holders : pc[h] \in {"ref", "load", "unref"} => slot[h] \in held[h]

\* A recycler works alone on a slot in use that nobody references.
RecyclersAlone ==
    \A h \in Holders : pc[h] \in {"recycle", "notify"} =>
        /\ slotState[slot[h]] = "IN_USE"
        /\ refcount[slot[h]] = 0
        /\ \A k \in Holders \ {h} : ~Recycling(k, slot[h])

\* Every unreferenced slot in use has its recycler.
NoneForgotten ==
    \A s \in Slots : slotState[s] = "IN_USE" /\ refcount[s] = 0 =>
        \E h \in Holders : Recycling(h, s)

\* The lock is held exactly by the thread that runs the recycle callback.
LockOwner == \A h \in Holders : pc[h] = "notify" <=> lock = h

\* A slot in use or free belongs to a pool that is initialised.
RegisteredIsOpen == \A s \in Slots : slotState[s] # "UNUSED" => initialized

ReferencedInUse ==
    \A h \in Holders : \A s \in held[h] : slotState[s] = "IN_USE"

FdsOwnedOnce ==
    \A s \in Registered : /\ fd[s] \in openFds
                          /\ \A r \in Registered \ {s} : fd[r] # fd[s]

\* The inductive invariant.
IInv ==
    /\ TypeOK
    /\ RefsCounted
    /\ FreeListExact
    /\ Counted
    /\ ReferencedInUse
    /\ CallsHoldTheirSlot
    /\ RecyclersAlone
    /\ NoneForgotten
    /\ LockOwner
    /\ RegisteredIsOpen
    /\ FdsOwnedOnce

-----------------------------------------------------------------------------
\* The holders of a slot are finitely many, and none means a count of zero.
LEMMA HoldersCounted ==
    ASSUME NEW s \in Slots
    PROVE  /\ IsFiniteSet(Holding(s))
           /\ Cardinality(Holding(s)) \in Nat
           /\ Cardinality(Holding(s)) = 0 <=> Holding(s) = {}
<1>1. Holding(s) \in SUBSET Holders
    BY DEF Holding
<1>2. IsFiniteSet(Holding(s))
    BY <1>1, FinitePool, FS_Subset
<1>. QED
    BY <1>2, FS_CardinalityType, FS_EmptySet

\* A new reference adds one holder to its slot and none to the others.
LEMMA HolderAdded ==
    ASSUME TypeOK, NEW k \in Holders, NEW s \in Slots, s \notin held[k],
           held' = [held EXCEPT ![k] = @ \cup {s}]
    PROVE  /\ Holding(s)' = Holding(s) \cup {k}
           /\ Cardinality(Holding(s)') = Cardinality(Holding(s)) + 1
           /\ \A r \in Slots \ {s} : Holding(r)' = Holding(r)
<1>1. /\ Holding(s)' = Holding(s) \cup {k}
      /\ k \notin Holding(s)
      /\ \A r \in Slots \ {s} : Holding(r)' = Holding(r)
    BY DEF Holding, TypeOK
<1>2. IsFiniteSet(Holding(s))
    BY HoldersCounted
<1>. QED
    BY <1>1, <1>2, FS_AddElement

\* A dropped reference takes one holder from its slot and none from the others.
LEMMA HolderRemoved ==
    ASSUME TypeOK, NEW h \in Holders, NEW s \in Slots, s \in held[h],
           held' = [held EXCEPT ![h] = @ \ {s}]
    PROVE  /\ Holding(s)' = Holding(s) \ {h}
           /\ Cardinality(Holding(s)') = Cardinality(Holding(s)) - 1
           /\ \A r \in Slots \ {s} : Holding(r)' = Holding(r)
<1>1. /\ Holding(s)' = Holding(s) \ {h}
      /\ h \in Holding(s)
      /\ \A r \in Slots \ {s} : Holding(r)' = Holding(r)
    BY DEF Holding, TypeOK
<1>2. IsFiniteSet(Holding(s))
    BY HoldersCounted
<1>. QED
    BY <1>1, <1>2, FS_RemoveElement

\* A reference that changes place leaves every slot as many holders as before.
LEMMA HolderReplaced ==
    ASSUME TypeOK, NEW h \in Holders, NEW k \in Holders, NEW s \in Slots,
           s \in held[h], s \notin held[k],
           held' = [held EXCEPT ![h] = @ \ {s}, ![k] = @ \cup {s}]
    PROVE  \A r \in Slots : Cardinality(Holding(r)') = Cardinality(Holding(r))
<1>1. h # k
    OBVIOUS
<1>2. /\ Holding(s)' = (Holding(s) \ {h}) \cup {k}
      /\ h \in Holding(s) /\ k \notin Holding(s)
      /\ \A r \in Slots \ {s} : Holding(r)' = Holding(r)
    BY <1>1 DEF Holding, TypeOK
<1>3. IsFiniteSet(Holding(s)) /\ Cardinality(Holding(s)) \in Nat
    BY HoldersCounted
<1>4. /\ IsFiniteSet(Holding(s) \ {h})
      /\ Cardinality(Holding(s) \ {h}) = Cardinality(Holding(s)) - 1
    BY <1>2, <1>3, FS_RemoveElement
<1>5. Cardinality((Holding(s) \ {h}) \cup {k}) = Cardinality(Holding(s) \ {h}) + 1
    BY <1>2, <1>4, k \notin Holding(s) \ {h}, FS_AddElement
<1>6. Cardinality(Holding(s)') = Cardinality(Holding(s))
    BY <1>2, <1>3, <1>4, <1>5
<1>. QED
    BY <1>2, <1>6

\* The sets of slots are finite, and a slot in use makes the free ones fewer
\* than the registered ones: pool_recycle_buffer's room test succeeds.
LEMMA RoomToRecycle ==
    ASSUME TypeOK, Counted
    PROVE  /\ IsFiniteSet(Free) /\ IsFiniteSet(Registered)
           /\ Len(freeList) <= registered
           /\ Len(freeList) = registered <=> \A s \in Slots : slotState[s] # "IN_USE"
<1>1. Registered \in SUBSET Slots /\ Free \in SUBSET Registered
    BY DEF Registered, Free
<1>2. IsFiniteSet(Registered)
    BY <1>1, FinitePool, FS_Subset
<1>3. /\ IsFiniteSet(Free)
      /\ Cardinality(Free) <= Cardinality(Registered)
      /\ Cardinality(Registered) = Cardinality(Free) => Registered = Free
    BY <1>1, <1>2, FS_Subset
<1>4. Registered = Free <=> \A s \in Slots : slotState[s] # "IN_USE"
    BY DEF Registered, Free, TypeOK
<1>. QED
    BY <1>2, <1>3, <1>4 DEF Counted

-----------------------------------------------------------------------------
LEMMA InitIInv == Init => IInv
<1>. SUFFICES ASSUME Init PROVE IInv
    OBVIOUS
<1>1. TypeOK
  <2>1. 0 \in 0 .. RefMax
      BY RefMaxAssumption
  <2>2. freeList \in Seq(Slots)
      BY DEF Init
  <2>. QED
      BY <2>1, <2>2 DEF Init, TypeOK, PCs
<1>2. RefsCounted
  <2>1. \A s \in Slots : Holding(s) = {}
      BY DEF Init, Holding
  <2>. QED
      BY <2>1, FS_EmptySet DEF Init, RefsCounted
<1>3. Free = {} /\ Registered = {}
    BY DEF Init, Free, Registered
<1>4. FreeListExact
    BY <1>3 DEF Init, FreeListExact
<1>5. Counted
    BY <1>3, FS_EmptySet DEF Init, Counted
<1>6. /\ ReferencedInUse /\ CallsHoldTheirSlot /\ RecyclersAlone
      /\ NoneForgotten /\ LockOwner /\ RegisteredIsOpen /\ FdsOwnedOnce
    BY <1>3, NoHolderAssumption
    DEF Init, ReferencedInUse, CallsHoldTheirSlot, RecyclersAlone,
        NoneForgotten, LockOwner, RegisteredIsOpen, FdsOwnedOnce
<1>. QED
    BY <1>1, <1>2, <1>4, <1>5, <1>6 DEF IInv

-----------------------------------------------------------------------------
\* Filling the hole at i keeps a list of slots a list of slots, one shorter.
LEMMA FillHoleType ==
    ASSUME NEW list \in Seq(Slots), NEW i \in 1 .. Len(list)
    PROVE  /\ FillHole(list, i) \in Seq(Slots)
           /\ Len(FillHole(list, i)) = Len(list) - 1
           /\ \A j \in 1 .. Len(list) - 1 :
                FillHole(list, i)[j] = IF j = i THEN list[Len(list)] ELSE list[j]
<1>1. Len(list) \in Nat /\ Len(list) - 1 \in Nat
    OBVIOUS
<1>2. \A j \in 1 .. Len(list) - 1 :
        (IF j = i THEN list[Len(list)] ELSE list[j]) \in Slots
    OBVIOUS
<1>. QED
    BY <1>1, <1>2 DEF FillHole

\* A slot pushed on the free list is there once, beside those already there.
LEMMA FreeListGrows ==
    ASSUME TypeOK, FreeListExact, NEW s \in Slots, s \notin Free,
           freeList' = Append(freeList, s), Free' = Free \cup {s}
    PROVE  Len(freeList') = Len(freeList) + 1 /\ FreeListExact'
<1>. DEFINE n == Len(freeList)
<1>1. /\ n \in Nat /\ Len(freeList') = n + 1 /\ freeList'[n + 1] = s
      /\ \A i \in 1 .. n : freeList'[i] = freeList[i]
    BY DEF TypeOK
<1>2. /\ \A i, j \in 1 .. n : freeList[i] = freeList[j] => i = j
      /\ {freeList[i] : i \in 1 .. n} = Free
    BY DEF FreeListExact
<1>. HIDE DEF n
<1>3. \A i \in 1 .. n : freeList'[i] \in Free
    BY <1>1, <1>2
<1>4. \A i \in 1 .. n + 1 : i = n + 1 \/ i \in 1 .. n
    BY <1>1
<1>5. \A i, j \in 1 .. n + 1 : freeList'[i] = freeList'[j] => i = j
    BY <1>1, <1>2, <1>3, <1>4
<1>6. {freeList'[i] : i \in 1 .. n + 1} = Free \cup {s}
  <2>1. ASSUME NEW i \in 1 .. n + 1 PROVE freeList'[i] \in Free \cup {s}
      BY <1>1, <1>3, <1>4
  <2>2. ASSUME NEW r \in Free \cup {s}
        PROVE  \E i \in 1 .. n + 1 : freeList'[i] = r
    <3>1. CASE r = s
        BY <1>1, <3>1
    <3>2. CASE r \in Free
      <4>1. PICK i \in 1 .. n : freeList[i] = r
          BY <1>2, <3>2
      <4>. QED
          BY <1>1, <4>1
    <3>. QED
        BY <3>1, <3>2
  <2>. QED
      BY <2>1, <2>2
<1>. QED
    BY <1>1, <1>5, <1>6 DEF FreeListExact

LEMMA TypeStep == TypeOK /\ [Next]_vars => TypeOK'
<1>. SUFFICES ASSUME TypeOK, [Next]_vars PROVE TypeOK'
    OBVIOUS
<1>. USE DEF TypeOK, PCs, poolVars
<1>1. ASSUME NEW f \in Fds, OpenFd(f) PROVE TypeOK'
    BY <1>1 DEF OpenFd
<1>2. CASE PoolInit
  <2>1. 0 \in 0 .. RefMax
      BY RefMaxAssumption
  <2>2. freeList' \in Seq(Slots)
      BY <1>2 DEF PoolInit
  <2>. QED
      BY <1>2, <2>1, <2>2 DEF PoolInit
<1>3. ASSUME NEW s \in Slots, NEW f \in Fds, Register(s, f) PROVE TypeOK'
    BY <1>3 DEF Register
<1>4. CASE Destroy
  <2>1. freeList' \in Seq(Slots)
      BY <1>4 DEF Destroy
  <2>2. openFds' \subseteq Fds
      BY <1>4 DEF Destroy
  <2>3. fd' \in [Slots -> Fds \cup {NoFd}]
      BY <1>4 DEF Destroy
  <2>. QED
      BY <1>4, <2>1, <2>2, <2>3 DEF Destroy
<1>5. ASSUME NEW h \in Holders, Call(h) PROVE TypeOK'
  <2>1. 1 \in 0 .. RefMax
      BY RefMaxAssumption
  <2>2. CASE Acquire(h)
    <3>1. /\ freeList[Len(freeList)] \in Slots
          /\ SubSeq(freeList, 1, Len(freeList) - 1) \in Seq(Slots)
        BY <2>2 DEF Acquire
    <3>. QED
        BY <2>1, <2>2, <3>1 DEF Acquire, Grant
  <2>3. ASSUME NEW s \in Slots, AcquireIndex(h, s) PROVE TypeOK'
    <3>1. PICK i \in 1 .. Len(freeList) : freeList' = FillHole(freeList, i)
        BY <2>3 DEF AcquireIndex
    <3>2. freeList' \in Seq(Slots)
        BY <3>1, FillHoleType
    <3>. QED
        BY <2>1, <2>3, <3>2 DEF AcquireIndex, Grant
  <2>4. ASSUME NEW s \in Slots, RefLoad(h, s) PROVE TypeOK'
      BY <2>4 DEF RefLoad
  <2>5. ASSUME NEW s \in Slots, UnrefCall(h, s) PROVE TypeOK'
      BY <2>5 DEF UnrefCall
  <2>6. ASSUME NEW s \in Slots, NEW k \in Holders,
               HandOver(h, k, s) \/ HandOver(k, h, s)
        PROVE  TypeOK'
    <3>1. CASE HandOver(h, k, s)
        BY <3>1 DEF HandOver
    <3>2. CASE HandOver(k, h, s)
        BY <3>2 DEF HandOver
    <3>. QED
        BY <2>6, <3>1, <3>2
  <2>. QED
      BY <1>5, <2>2, <2>3, <2>4, <2>5, <2>6 DEF Call, ReleaseCall
<1>6. ASSUME NEW h \in Holders, Step(h) PROVE TypeOK'
  <2>1. CASE RefFail(h)
      BY <2>1 DEF RefFail
  <2>2. CASE RefRetry(h)
      BY <2>2 DEF RefRetry
  <2>3. ASSUME NEW k \in Holders, RefCas(h, k) PROVE TypeOK'
    <3>1. cur[h] + 1 \in 0 .. RefMax
        BY <2>3, RefMaxAssumption DEF RefCas, RefRefused
    <3>. QED
        BY <2>3, <3>1 DEF RefCas
  <2>4. CASE UnrefLoad(h)
      BY <2>4 DEF UnrefLoad
  <2>5. CASE UnrefRetry(h)
      BY <2>5 DEF UnrefRetry
  <2>6. CASE UnrefCas(h)
    <3>1. cur[h] - 1 \in 0 .. RefMax
        BY <2>6, RefMaxAssumption DEF UnrefCas
    <3>. QED
        BY <2>6, <3>1 DEF UnrefCas
  <2>7. CASE RecycleEnter(h)
      BY <2>7 DEF RecycleEnter
  <2>8. CASE RecyclePublish(h)
      BY <2>8 DEF RecyclePublish
  <2>. QED
      BY <1>6, <2>1, <2>2, <2>3, <2>4, <2>5, <2>6, <2>7, <2>8 DEF Step
<1>7. CASE UNCHANGED vars
    BY <1>7 DEF vars
<1>. QED
    BY <1>1, <1>2, <1>3, <1>4, <1>5, <1>6, <1>7, ThreadsAssumption DEF Next

-----------------------------------------------------------------------------
\* A step that only moves one thread on inside ref or unref.
LEMMA LocalStep ==
    ASSUME IInv, TypeOK', NEW h \in Holders,
           UNCHANGED <<poolVars, refcount, lock, held>>,
           pc[h] \notin {"recycle", "notify"}, pc'[h] \notin {"recycle", "notify"},
           pc'[h] \in {"ref", "load", "unref"} => slot'[h] \in held[h],
           \A k \in Holders \ {h} : pc'[k] = pc[k] /\ slot'[k] = slot[k]
    PROVE  IInv'
<1>. USE DEF IInv
<1>1. \A s \in Slots : Holding(s)' = Holding(s)
    BY DEF Holding
<1>2. Free' = Free /\ Registered' = Registered
    BY DEF Free, Registered, poolVars
<1>3. RefsCounted' /\ FreeListExact' /\ Counted'
    BY <1>1, <1>2 DEF RefsCounted, FreeListExact, Counted, poolVars
<1>4. ReferencedInUse' /\ RegisteredIsOpen' /\ FdsOwnedOnce'
    BY <1>2 DEF ReferencedInUse, RegisteredIsOpen, FdsOwnedOnce, poolVars
<1>5. CallsHoldTheirSlot'
    BY DEF CallsHoldTheirSlot
<1>6. \A k \in Holders, s \in Slots : Recycling(k, s)' <=> Recycling(k, s)
    BY DEF Recycling
<1>7. RecyclersAlone'
    BY <1>6 DEF RecyclersAlone, Recycling, TypeOK, poolVars
<1>8. NoneForgotten'
    BY <1>6 DEF NoneForgotten, poolVars
<1>9. LockOwner'
    BY DEF LockOwner
<1>. QED
    BY <1>3, <1>4, <1>5, <1>7, <1>8, <1>9

\* Acquire and AcquireIndex: the slot s leaves the free list for the holder h.
LEMMA GrantStep ==
    ASSUME IInv, TypeOK', NEW h \in Holders, NEW s \in Slots,
           pc[h] = "idle", initialized, slotState[s] = "FREE", Grant(h, s),
           Len(freeList') = Len(freeList) - 1,
           \A i, j \in 1 .. Len(freeList') : freeList'[i] = freeList'[j] => i = j,
           {freeList'[i] : i \in 1 .. Len(freeList')} = Free \ {s}
    PROVE  IInv'
<1>. USE DEF IInv, Grant
<1>1. refcount[s] = 0 /\ Holding(s) = {} /\ s \notin held[h]
  <2>1. Holding(s) = {}
      BY DEF Holding, ReferencedInUse
  <2>. QED
      BY <2>1, HoldersCounted DEF RefsCounted, Holding
<1>2. RefsCounted'
  <2>1. /\ Cardinality(Holding(s)') = 0 + 1
        /\ \A r \in Slots \ {s} : Holding(r)' = Holding(r)
      BY <1>1, HolderAdded, FS_EmptySet
  <2>. QED
      BY <2>1 DEF RefsCounted, TypeOK
<1>3. Free' = Free \ {s} /\ Registered' = Registered /\ s \in Free
    BY DEF Free, Registered, TypeOK
<1>4. FreeListExact'
    BY <1>3 DEF FreeListExact
<1>5. Counted'
    BY <1>3, RoomToRecycle, FS_RemoveElement DEF Counted
<1>6. ReferencedInUse'
    BY DEF ReferencedInUse, TypeOK
<1>7. CallsHoldTheirSlot'
    BY DEF CallsHoldTheirSlot, TypeOK
<1>8. \A k \in Holders : ~Recycling(k, s)
    BY DEF RecyclersAlone, Recycling
<1>9. RecyclersAlone'
    BY <1>8 DEF RecyclersAlone, Recycling, TypeOK
<1>10. NoneForgotten'
    BY DEF NoneForgotten, Recycling, TypeOK
<1>11. LockOwner' /\ RegisteredIsOpen' /\ FdsOwnedOnce'
    BY <1>3 DEF LockOwner, RegisteredIsOpen, FdsOwnedOnce, TypeOK
<1>. QED
    BY <1>2, <1>4, <1>5, <1>6, <1>7, <1>9, <1>10, <1>11

LEMMA AcquireStep ==
    ASSUME IInv, TypeOK', NEW h \in Holders, Acquire(h)
    PROVE  IInv'
<1>. DEFINE n == Len(freeList)
            s == freeList[n]
<1>1. n \in Nat /\ n >= 1 /\ s \in Slots /\ freeList \in Seq(Slots)
  <2>1. freeList \in Seq(Slots) /\ freeList # << >>
      BY DEF Acquire, IInv, TypeOK
  <2>2. n \in Nat /\ n # 0
      BY <2>1
  <2>. QED
      BY <2>1, <2>2
<1>2. /\ Len(freeList') = n - 1
      /\ \A i \in 1 .. n - 1 : freeList'[i] = freeList[i]
  <2>1. freeList' = SubSeq(freeList, 1, n - 1)
      BY DEF Acquire
  <2>2. \A i \in 1 .. n - 1 : freeList[i] \in Slots
      BY <1>1
  <2>3. /\ Len(SubSeq(freeList, 1, n - 1)) = n - 1
        /\ \A i \in 1 .. n - 1 : SubSeq(freeList, 1, n - 1)[i] = freeList[i]
    <3>. DEFINE m == n - 1
    <3>1. m \in Int /\ m >= 0
        BY <1>1
    <3>. HIDE DEF m
    <3>2. /\ Len(SubSeq(freeList, 1, m)) = IF 1 <= m THEN m - 1 + 1 ELSE 0
          /\ \A i \in 1 .. m - 1 + 1 : SubSeq(freeList, 1, m)[i] = freeList[1 + i - 1]
        BY <2>2, <3>1, SubSeqProperties DEF m
    <3>3. Len(SubSeq(freeList, 1, m)) = m
        BY <3>1, <3>2
    <3>4. \A i \in 1 .. m : SubSeq(freeList, 1, m)[i] = freeList[i]
        BY <3>1, <3>2
    <3>. QED
        BY <3>3, <3>4 DEF m
  <2>. QED
      BY <2>1, <2>3
<1>3. \A i, j \in 1 .. n : freeList[i] = freeList[j] => i = j
    BY DEF IInv, FreeListExact
<1>4. {freeList[i] : i \in 1 .. n} = Free
    BY DEF IInv, FreeListExact
<1>5. {freeList'[i] : i \in 1 .. Len(freeList')} = Free \ {s}
    BY <1>1, <1>2, <1>3, <1>4
<1>6. \A i, j \in 1 .. Len(freeList') : freeList'[i] = freeList'[j] => i = j
    BY <1>1, <1>2, <1>3
<1>. QED
    BY <1>1, <1>2, <1>5, <1>6, GrantStep DEF Acquire

LEMMA AcquireIndexStep ==
    ASSUME IInv, TypeOK', NEW h \in Holders, NEW s \in Slots, AcquireIndex(h, s)
    PROVE  IInv'
<1>. DEFINE n == Len(freeList)
<1>1. PICK p \in 1 .. n : freeList[p] = s /\ freeList' = FillHole(freeList, p)
    BY DEF AcquireIndex
<1>2. n \in Nat /\ freeList \in Seq(Slots)
    BY DEF IInv, TypeOK
<1>3. /\ Len(freeList') = n - 1
      /\ \A j \in 1 .. n - 1 :
           freeList'[j] = IF j = p THEN freeList[n] ELSE freeList[j]
    BY <1>1, <1>2, FillHoleType
<1>4. \A i, j \in 1 .. n : freeList[i] = freeList[j] => i = j
    BY DEF IInv, FreeListExact
<1>5. {freeList[i] : i \in 1 .. n} = Free
    BY DEF IInv, FreeListExact
<1>6. \A i, j \in 1 .. Len(freeList') : freeList'[i] = freeList'[j] => i = j
    BY <1>1, <1>2, <1>3, <1>4
<1>7. {freeList'[i] : i \in 1 .. Len(freeList')} = Free \ {s}
  <2>1. ASSUME NEW j \in 1 .. n - 1 PROVE freeList'[j] \in Free \ {s}
      BY <1>1, <1>2, <1>3, <1>4, <1>5
  <2>2. ASSUME NEW r \in Free \ {s}
        PROVE  \E j \in 1 .. n - 1 : freeList'[j] = r
    <3>1. PICK i \in 1 .. n : freeList[i] = r
        BY <1>5
    <3>2. CASE i = n
        BY <1>1, <1>2, <1>3, <3>1, <3>2
    <3>3. CASE i # n
        BY <1>1, <1>2, <1>3, <3>1, <3>3
    <3>. QED
        BY <3>2, <3>3
  <2>. QED
      BY <1>3, <2>1, <2>2
<1>. QED
    BY <1>3, <1>6, <1>7, GrantStep DEF AcquireIndex

LEMMA OpenFdStep ==
    ASSUME IInv, TypeOK', NEW f \in Fds, OpenFd(f)
    PROVE  IInv'
<1>. USE DEF IInv, OpenFd
<1>1. /\ \A s \in Slots : Holding(s)' = Holding(s)
      /\ Free' = Free /\ Registered' = Registered
    BY DEF Holding, Free, Registered
<1>2. RefsCounted' /\ FreeListExact' /\ Counted'
    BY <1>1 DEF RefsCounted, FreeListExact, Counted
<1>3. ReferencedInUse' /\ CallsHoldTheirSlot' /\ LockOwner' /\ RegisteredIsOpen'
    BY DEF ReferencedInUse, CallsHoldTheirSlot, LockOwner, RegisteredIsOpen
<1>4. RecyclersAlone' /\ NoneForgotten'
    BY DEF RecyclersAlone, NoneForgotten, Recycling
<1>5. FdsOwnedOnce'
    BY <1>1 DEF FdsOwnedOnce
<1>. QED
    BY <1>2, <1>3, <1>4, <1>5

\* A pool that opens or closes has no registered slot left and no user.
LEMMA EmptyPool ==
    ASSUME IInv, TypeOK',
           \A s \in Slots : slotState[s] # "IN_USE",
           slotState' = [s \in Slots |-> "UNUSED"],
           \A s \in Slots : refcount'[s] = refcount[s],
           freeList' = << >>, registered' = 0,
           UNCHANGED <<lock, pc, slot, held>>
    PROVE  IInv'
<1>. USE DEF IInv
<1>1. Free' = {} /\ Registered' = {}
    BY DEF Free, Registered
<1>2. \A s \in Slots : Holding(s)' = Holding(s)
    BY DEF Holding
<1>3. RefsCounted'
    BY <1>2 DEF RefsCounted
<1>4. FreeListExact' /\ Counted' /\ FdsOwnedOnce'
    BY <1>1, FS_EmptySet DEF FreeListExact, Counted, FdsOwnedOnce
<1>5. \A h \in Holders : held[h] = {}
    BY DEF ReferencedInUse, TypeOK
<1>6. ReferencedInUse' /\ CallsHoldTheirSlot'
    BY <1>5 DEF ReferencedInUse, CallsHoldTheirSlot
<1>7. RecyclersAlone' /\ NoneForgotten' /\ LockOwner' /\ RegisteredIsOpen'
    BY DEF RecyclersAlone, NoneForgotten, LockOwner, RegisteredIsOpen, TypeOK
<1>. QED
    BY <1>3, <1>4, <1>6, <1>7

LEMMA PoolInitStep ==
    ASSUME IInv, TypeOK', PoolInit
    PROVE  IInv'
<1>. USE DEF IInv, PoolInit
<1>1. \A s \in Slots : slotState[s] = "UNUSED"
    BY DEF RegisteredIsOpen
<1>2. \A h \in Holders : held[h] = {}
    BY <1>1 DEF ReferencedInUse, TypeOK
<1>3. \A s \in Slots : refcount[s] = 0
    BY <1>2, FS_EmptySet DEF RefsCounted, Holding
<1>. QED
    BY <1>1, <1>3, EmptyPool

LEMMA DestroyStep ==
    ASSUME IInv, TypeOK', Destroy
    PROVE  IInv'
<1>1. \A s \in Slots : slotState[s] # "IN_USE"
    BY RoomToRecycle DEF IInv, Destroy
<1>. QED
    BY <1>1, EmptyPool DEF Destroy

LEMMA RegisterStep ==
    ASSUME IInv, TypeOK', NEW s \in Slots, NEW f \in Fds, Register(s, f)
    PROVE  IInv'
<1>. USE DEF IInv, Register
<1>1. /\ Free' = Free \cup {s} /\ Registered' = Registered \cup {s}
      /\ s \notin Free /\ s \notin Registered
    BY DEF Free, Registered, TypeOK
<1>2. IsFiniteSet(Free) /\ IsFiniteSet(Registered)
    BY RoomToRecycle
<1>3. /\ Cardinality(Free') = Cardinality(Free) + 1
      /\ Cardinality(Registered') = Cardinality(Registered) + 1
    BY <1>1, <1>2, FS_AddElement
<1>5. Len(freeList') = Len(freeList) + 1 /\ FreeListExact'
    BY <1>1, FreeListGrows
<1>6. Counted'
    BY <1>3, <1>5 DEF Counted
<1>7. RefsCounted'
  <2>1. \A r \in Slots : Holding(r)' = Holding(r)
      BY DEF Holding
  <2>. QED
      BY <2>1 DEF RefsCounted
<1>8. ReferencedInUse' /\ CallsHoldTheirSlot' /\ LockOwner' /\ RegisteredIsOpen'
    BY DEF ReferencedInUse, CallsHoldTheirSlot, LockOwner, RegisteredIsOpen, TypeOK
<1>9. RecyclersAlone'
    BY DEF RecyclersAlone, Recycling, TypeOK
<1>10. NoneForgotten'
    BY DEF NoneForgotten, Recycling, TypeOK
<1>11. FdsOwnedOnce'
    BY <1>1 DEF FdsOwnedOnce, TypeOK, Registered
<1>. QED
    BY <1>5, <1>6, <1>7, <1>8, <1>9, <1>10, <1>11

LEMMA HandOverStep ==
    ASSUME IInv, TypeOK', NEW h \in Holders, NEW k \in Holders, NEW s \in Slots,
           HandOver(h, k, s)
    PROVE  IInv'
<1>. USE DEF IInv, HandOver
<1>1. RefsCounted'
    BY HolderReplaced DEF RefsCounted
<1>2. Free' = Free /\ Registered' = Registered
    BY DEF Free, Registered, poolVars
<1>3. FreeListExact' /\ Counted' /\ LockOwner' /\ RegisteredIsOpen' /\ FdsOwnedOnce'
    BY <1>2 DEF FreeListExact, Counted, LockOwner, RegisteredIsOpen, FdsOwnedOnce,
                poolVars
<1>4. ReferencedInUse'
    BY DEF ReferencedInUse, TypeOK, poolVars
<1>5. CallsHoldTheirSlot'
    BY DEF CallsHoldTheirSlot, TypeOK
<1>6. RecyclersAlone' /\ NoneForgotten'
    BY DEF RecyclersAlone, NoneForgotten, Recycling, poolVars
<1>. QED
    BY <1>1, <1>3, <1>4, <1>5, <1>6

LEMMA RefCasStep ==
    ASSUME IInv, TypeOK', NEW h \in Holders, NEW k \in Holders, RefCas(h, k)
    PROVE  IInv'
<1>. DEFINE s == slot[h]
<1>. USE DEF IInv, RefCas
<1>1. s \in Slots /\ s \in held[h]
    BY DEF CallsHoldTheirSlot, TypeOK
<1>2. RefsCounted'
  <2>1. /\ Cardinality(Holding(s)') = Cardinality(Holding(s)) + 1
        /\ \A r \in Slots \ {s} : Holding(r)' = Holding(r)
      BY <1>1, HolderAdded
  <2>2. refcount' = [refcount EXCEPT ![s] = refcount[s] + 1]
      OBVIOUS
  <2>. QED
      BY <1>1, <2>1, <2>2 DEF RefsCounted, TypeOK
<1>3. Free' = Free /\ Registered' = Registered
    BY DEF Free, Registered, poolVars
<1>4. FreeListExact' /\ Counted' /\ RegisteredIsOpen' /\ FdsOwnedOnce'
    BY <1>3 DEF FreeListExact, Counted, RegisteredIsOpen, FdsOwnedOnce, poolVars
<1>5. LockOwner'
    BY DEF LockOwner, TypeOK
<1>6. ReferencedInUse'
    BY <1>1 DEF ReferencedInUse, TypeOK, poolVars
<1>7. CallsHoldTheirSlot'
    BY DEF CallsHoldTheirSlot, TypeOK
<1>8. \A g \in Holders : ~Recycling(g, s)
  <2>1. refcount[s] # 0
      BY <1>1 DEF RefRefused, TypeOK
  <2>. QED
      BY <2>1 DEF RecyclersAlone, Recycling
<1>9. \A g \in Holders, r \in Slots : Recycling(g, r)' <=> Recycling(g, r)
    BY DEF Recycling, TypeOK
<1>10. RecyclersAlone'
    BY <1>8, <1>9 DEF RecyclersAlone, Recycling, TypeOK, poolVars
<1>11. NoneForgotten'
    BY <1>1, <1>9 DEF NoneForgotten, TypeOK, poolVars
<1>. QED
    BY <1>2, <1>4, <1>5, <1>6, <1>7, <1>10, <1>11

LEMMA UnrefCasStep ==
    ASSUME IInv, TypeOK', NEW h \in Holders, UnrefCas(h)
    PROVE  IInv'
<1>. DEFINE s == slot[h]
<1>. USE DEF IInv, UnrefCas
<1>1. /\ s \in Slots /\ s \in held[h] /\ slotState[s] = "IN_USE"
      /\ initialized
    BY DEF CallsHoldTheirSlot, ReferencedInUse, RegisteredIsOpen, TypeOK
<1>2. /\ Cardinality(Holding(s)') = Cardinality(Holding(s)) - 1
      /\ \A r \in Slots \ {s} : Holding(r)' = Holding(r)
    BY <1>1, HolderRemoved
<1>3. RefsCounted'
  <2>1. refcount' = [refcount EXCEPT ![s] = refcount[s] - 1]
      OBVIOUS
  <2>. QED
      BY <1>1, <1>2, <2>1 DEF RefsCounted, TypeOK
<1>4. Free' = Free /\ Registered' = Registered
    BY DEF Free, Registered, poolVars
<1>5. FreeListExact' /\ Counted' /\ RegisteredIsOpen' /\ FdsOwnedOnce'
    BY <1>4 DEF FreeListExact, Counted, RegisteredIsOpen, FdsOwnedOnce, poolVars
<1>6. LockOwner'
    BY DEF LockOwner, TypeOK
<1>7. ReferencedInUse'
    BY <1>1 DEF ReferencedInUse, TypeOK, poolVars
<1>8. CallsHoldTheirSlot'
    BY DEF CallsHoldTheirSlot, TypeOK
<1>9. refcount[s] # 0 /\ refcount'[s] = refcount[s] - 1
    BY <1>1 DEF TypeOK
<1>10. \A g \in Holders : ~Recycling(g, s)
    BY <1>9 DEF RecyclersAlone, Recycling
<1>11. \A g \in Holders \ {h}, r \in Slots : Recycling(g, r)' <=> Recycling(g, r)
    BY DEF Recycling, TypeOK
<1>12. Recycling(h, s)' <=> refcount'[s] = 0
    BY <1>1, <1>9 DEF Recycling, TypeOK
<1>13. \A r \in Slots \ {s} : ~Recycling(h, r) /\ ~Recycling(h, r)'
    BY DEF Recycling, TypeOK
<1>14. RecyclersAlone'
  <2>1. ASSUME NEW g \in Holders, pc'[g] \in {"recycle", "notify"}
        PROVE  /\ slotState'[slot'[g]] = "IN_USE"
               /\ refcount'[slot'[g]] = 0
               /\ \A k \in Holders \ {g} : ~Recycling(k, slot[g])'
    <3>1. CASE g = h
        BY <1>1, <1>10, <1>11, <1>12, <2>1, <3>1 DEF Recycling, poolVars
    <3>2. CASE g # h
      <4>1. pc[g] = pc'[g] /\ slot'[g] = slot[g] /\ Recycling(g, slot[g])
          BY <2>1, <3>2 DEF Recycling, TypeOK
      <4>2. slot[g] # s /\ slot[g] \in Slots
          BY <1>10, <4>1 DEF TypeOK
      <4>3. slotState[slot[g]] = "IN_USE" /\ refcount[slot[g]] = 0
          BY <2>1, <4>1 DEF RecyclersAlone
      <4>4. \A k \in Holders \ {g} : ~Recycling(k, slot[g])
          BY <2>1, <4>1 DEF RecyclersAlone
      <4>5. refcount'[slot[g]] = refcount[slot[g]]
          BY <4>2 DEF TypeOK
      <4>. QED
          BY <1>11, <1>13, <4>1, <4>2, <4>3, <4>4, <4>5 DEF poolVars
    <3>. QED
        BY <3>1, <3>2
  <2>. QED
      BY <2>1 DEF RecyclersAlone, Recycling
<1>15. NoneForgotten'
  <2>1. ASSUME NEW r \in Slots, slotState'[r] = "IN_USE", refcount'[r] = 0
        PROVE  \E g \in Holders : Recycling(g, r)'
    <3>1. CASE r = s
        BY <1>12, <2>1, <3>1
    <3>2. CASE r # s
      <4>1. refcount[r] = 0 /\ slotState[r] = "IN_USE"
          BY <2>1, <3>2 DEF TypeOK, poolVars
      <4>2. PICK g \in Holders : Recycling(g, r)
          BY <4>1 DEF NoneForgotten
      <4>. QED
          BY <1>11, <1>13, <3>2, <4>2
    <3>. QED
        BY <3>1, <3>2
  <2>. QED
      BY <2>1 DEF NoneForgotten
<1>. QED
    BY <1>3, <1>5, <1>6, <1>7, <1>8, <1>14, <1>15

LEMMA RecycleEnterStep ==
    ASSUME IInv, TypeOK', NEW h \in Holders, RecycleEnter(h)
    PROVE  IInv'
<1>. DEFINE s == slot[h]
<1>. USE DEF IInv, RecycleEnter
<1>1. /\ s \in Slots /\ slotState[s] = "IN_USE" /\ refcount[s] = 0
      /\ initialized
    BY DEF RecyclersAlone, RegisteredIsOpen, TypeOK
<1>2. Recyclable(s)
    BY <1>1, RoomToRecycle DEF Recyclable, TypeOK
<1>3. lock' = h /\ pc' = [pc EXCEPT ![h] = "notify"]
    BY <1>2
<1>4. /\ \A r \in Slots : Holding(r)' = Holding(r)
      /\ Free' = Free /\ Registered' = Registered
    BY DEF Holding, Free, Registered, poolVars
<1>5. RefsCounted' /\ FreeListExact' /\ Counted'
    BY <1>4 DEF RefsCounted, FreeListExact, Counted, poolVars
<1>6. ReferencedInUse' /\ RegisteredIsOpen' /\ FdsOwnedOnce'
    BY <1>4 DEF ReferencedInUse, RegisteredIsOpen, FdsOwnedOnce, poolVars
<1>7. CallsHoldTheirSlot'
    BY <1>3 DEF CallsHoldTheirSlot, TypeOK
<1>8. \A g \in Holders, r \in Slots : Recycling(g, r)' <=> Recycling(g, r)
    BY <1>3 DEF Recycling, TypeOK
<1>9. RecyclersAlone'
    BY <1>8 DEF RecyclersAlone, Recycling, TypeOK, poolVars
<1>10. NoneForgotten'
    BY <1>8 DEF NoneForgotten, poolVars
<1>11. LockOwner'
    BY <1>3, NoHolderAssumption DEF LockOwner, TypeOK
<1>. QED
    BY <1>5, <1>6, <1>7, <1>9, <1>10, <1>11

LEMMA RecyclePublishStep ==
    ASSUME IInv, TypeOK', NEW h \in Holders, RecyclePublish(h)
    PROVE  IInv'
<1>. DEFINE s == slot[h]
<1>. USE DEF IInv, RecyclePublish
<1>1. s \in Slots /\ slotState[s] = "IN_USE" /\ refcount[s] = 0
    BY DEF RecyclersAlone, TypeOK
<1>2. \A g \in Holders : s \notin held[g]
    BY <1>1, HoldersCounted DEF RefsCounted, Holding
<1>3. \A g \in Holders \ {h} : ~Recycling(g, s)
    BY DEF RecyclersAlone
<1>4. /\ \A r \in Slots : Holding(r)' = Holding(r)
      /\ Free' = Free \cup {s} /\ s \notin Free /\ Registered' = Registered
    BY <1>1 DEF Holding, Free, Registered, TypeOK
<1>5. RefsCounted'
    BY <1>4 DEF RefsCounted
<1>6. /\ Len(freeList') = Len(freeList) + 1
      /\ FreeListExact'
    BY <1>1, <1>4, FreeListGrows
<1>7. Counted'
  <2>1. IsFiniteSet(Free)
      BY RoomToRecycle
  <2>2. Cardinality(Free') = Cardinality(Free) + 1
      BY <1>4, <2>1, FS_AddElement
  <2>. QED
      BY <1>4, <1>6, <2>2 DEF Counted
<1>8. ReferencedInUse'
    BY <1>2 DEF ReferencedInUse, TypeOK
<1>9. CallsHoldTheirSlot'
    BY DEF CallsHoldTheirSlot, TypeOK
<1>10. \A g \in Holders, r \in Slots : Recycling(g, r)' <=> g # h /\ Recycling(g, r)
    BY DEF Recycling, TypeOK
<1>11. RecyclersAlone'
    BY <1>3, <1>10 DEF RecyclersAlone, Recycling, TypeOK
<1>12. NoneForgotten'
    BY <1>1, <1>10 DEF NoneForgotten, Recycling, TypeOK
<1>13. LockOwner'
    BY NoHolderAssumption DEF LockOwner, TypeOK
<1>14. RegisteredIsOpen' /\ FdsOwnedOnce'
    BY <1>1, <1>4 DEF RegisteredIsOpen, FdsOwnedOnce, TypeOK
<1>. QED
    BY <1>5, <1>6, <1>7, <1>8, <1>9, <1>11, <1>12, <1>13, <1>14

-----------------------------------------------------------------------------
\* Every step of the pool preserves the inductive invariant.
LEMMA StepIInv == IInv /\ [Next]_vars => IInv'
<1>. SUFFICES ASSUME IInv, [Next]_vars PROVE IInv'
    OBVIOUS
<1>1. TypeOK'
    BY TypeStep DEF IInv
<1>2. ASSUME NEW f \in Fds, OpenFd(f) PROVE IInv'
    BY <1>1, <1>2, OpenFdStep
<1>3. CASE PoolInit
    BY <1>1, <1>3, PoolInitStep
<1>4. ASSUME NEW s \in Slots, NEW f \in Fds, Register(s, f) PROVE IInv'
    BY <1>1, <1>4, RegisterStep
<1>5. CASE Destroy
    BY <1>1, <1>5, DestroyStep
<1>6. ASSUME NEW h \in Holders, Call(h) PROVE IInv'
  <2>1. CASE Acquire(h)
      BY <1>1, <2>1, AcquireStep
  <2>2. ASSUME NEW s \in Slots, AcquireIndex(h, s) PROVE IInv'
      BY <1>1, <2>2, AcquireIndexStep
  <2>3. ASSUME NEW s \in Slots, RefLoad(h, s) \/ UnrefCall(h, s) PROVE IInv'
    <3>1. UNCHANGED <<poolVars, refcount, lock, held>>
        BY <2>3 DEF RefLoad, UnrefCall
    <3>2. /\ pc[h] = "idle" /\ pc'[h] \in {"ref", "load"}
          /\ slot'[h] \in held[h]
          /\ \A k \in Holders \ {h} : pc'[k] = pc[k] /\ slot'[k] = slot[k]
        BY <2>3 DEF RefLoad, UnrefCall, IInv, TypeOK
    <3>. QED
        BY <1>1, <3>1, <3>2, LocalStep
  <2>4. ASSUME NEW s \in Slots, NEW k \in Holders,
               HandOver(h, k, s) \/ HandOver(k, h, s)
        PROVE  IInv'
      BY <1>1, <2>4, HandOverStep
  <2>. QED
      BY <1>6, <2>1, <2>2, <2>3, <2>4 DEF Call, ReleaseCall
<1>7. ASSUME NEW h \in Holders, Step(h) PROVE IInv'
  <2>1. CASE RefFail(h) \/ RefRetry(h) \/ UnrefLoad(h) \/ UnrefRetry(h)
    <3>1. CASE RefFail(h)
        BY <1>1, <3>1, LocalStep DEF RefFail, IInv, TypeOK
    <3>2. CASE RefRetry(h)
        BY <1>1, <3>2, LocalStep DEF RefRetry, IInv, TypeOK, CallsHoldTheirSlot
    <3>3. CASE UnrefLoad(h)
        BY <1>1, <3>3, LocalStep DEF UnrefLoad, IInv, TypeOK, CallsHoldTheirSlot
    <3>4. CASE UnrefRetry(h)
        BY <1>1, <3>4, LocalStep DEF UnrefRetry, IInv, TypeOK, CallsHoldTheirSlot
    <3>. QED
        BY <2>1, <3>1, <3>2, <3>3, <3>4
  <2>2. ASSUME NEW k \in Holders, RefCas(h, k) PROVE IInv'
      BY <1>1, <2>2, RefCasStep
  <2>3. CASE UnrefCas(h)
      BY <1>1, <2>3, UnrefCasStep
  <2>4. CASE RecycleEnter(h)
      BY <1>1, <2>4, RecycleEnterStep
  <2>5. CASE RecyclePublish(h)
      BY <1>1, <2>5, RecyclePublishStep
  <2>. QED
      BY <1>7, <2>1, <2>2, <2>3, <2>4, <2>5 DEF Step
<1>8. CASE UNCHANGED vars
  <2>. USE <1>8 DEF vars, poolVars
  <2>1. /\ \A s \in Slots : Holding(s)' = Holding(s)
        /\ Free' = Free /\ Registered' = Registered
        /\ \A h \in Holders, s \in Slots : Recycling(h, s)' <=> Recycling(h, s)
      BY DEF Holding, Free, Registered, Recycling
  <2>. QED
      BY <1>1, <2>1
      DEF IInv, RefsCounted, FreeListExact, Counted, ReferencedInUse,
          CallsHoldTheirSlot, RecyclersAlone, NoneForgotten, LockOwner,
          RegisteredIsOpen, FdsOwnedOnce, Recycling
<1>. QED
    BY <1>2, <1>3, <1>4, <1>5, <1>6, <1>7, <1>8, ThreadsAssumption DEF Next

\* IInv holds in every reachable state of the pool.
THEOREM Invariance == Spec => []IInv
    BY InitIInv, StepIInv, PTL DEF Spec

\* The type invariant, for any pool.
THEOREM TypeCorrect == Spec => []TypeOK
<1>1. IInv => TypeOK
    BY DEF IInv
<1>. QED
    BY <1>1, Invariance, PTL

\* The reference count is exact: no interleaving of the lock-free loops of
\* buffer.c loses or invents a reference.
THEOREM CountExact == Spec => []RefsCounted
<1>1. IInv => RefsCounted
    BY DEF IInv
<1>. QED
    BY <1>1, Invariance, PTL

\* Both for any pool, as the run checks them for a small one: whatever the
\* loops of buffer.c race on, a count keeps its range and counts its owners.
THEOREM CountsCorrect == Spec => []CountsSound
<1>1. IInv => CountsSound
    BY DEF IInv, CountsSound
<1>. QED
    BY <1>1, Invariance, PTL

\* No slot is in the free list twice, and none that is not free is there.
THEOREM FreeListCorrect == Spec => []FreeListExact
<1>1. IInv => FreeListExact
    BY DEF IInv
<1>. QED
    BY <1>1, Invariance, PTL

\* No image is closed, or lent again, while somebody references it.
THEOREM ImagesStayBacked == Spec => []ImagesBacked
<1>1. IInv => ImagesBacked
    BY DEF IInv, ImagesBacked, ReferencedInUse, RegisteredIsOpen, FdsOwnedOnce, Registered
<1>. QED
    BY <1>1, Invariance, PTL

\* A slot whose last reference went is recycled by one thread, exactly.
THEOREM RecycledOnce == Spec => []OneRecycler
<1>1. IInv => OneRecycler
  <2>. SUFFICES ASSUME IInv, NEW s \in Slots
       PROVE  slotState[s] = "IN_USE" /\ refcount[s] = 0
                <=> \E h \in Holders : /\ Recycling(h, s)
                                       /\ \A k \in Holders \ {h} : ~Recycling(k, s)
      BY DEF OneRecycler
  <2>1. ASSUME slotState[s] = "IN_USE", refcount[s] = 0
        PROVE  \E h \in Holders : /\ Recycling(h, s)
                                  /\ \A k \in Holders \ {h} : ~Recycling(k, s)
    <3>1. PICK h \in Holders : Recycling(h, s)
        BY <2>1 DEF IInv, NoneForgotten
    <3>. QED
        BY <3>1 DEF IInv, RecyclersAlone, Recycling
  <2>2. ASSUME NEW h \in Holders, Recycling(h, s)
        PROVE  slotState[s] = "IN_USE" /\ refcount[s] = 0
      BY <2>2 DEF IInv, RecyclersAlone, Recycling
  <2>. QED
      BY <2>1, <2>2
<1>. QED
    BY <1>1, Invariance, PTL

-----------------------------------------------------------------------------
InUse == {s \in Slots : slotState[s] = "IN_USE"}

LEMMA LoanInit == Init => Loan!Init
    BY DEF Init, Loan!Init, Free

\* Lending: both acquires map to Lend, because a free slot has no borrower.
LEMMA LoanGrant ==
    ASSUME IInv, NEW h \in Holders, NEW s \in Slots, slotState[s] = "FREE",
           Grant(h, s)
    PROVE  Loan!Next
<1>. USE DEF IInv, Grant
<1>1. s \in Free /\ Loan!Borrowers(s) = {}
    BY DEF Free, Loan!Borrowers, ReferencedInUse
<1>2. Free' = Free \ {s} /\ InUse' = InUse \cup {s}
    BY DEF Free, InUse, TypeOK
<1>3. Loan!Lend(h, s)
    BY <1>1, <1>2 DEF Loan!Lend, InUse
<1>. QED
    BY <1>3 DEF Loan!Next

\* Every step of the pool is a step of the loan, or leaves it as it is.
LEMMA LoanStep == IInv /\ [Next]_vars => [Loan!Next]_(Loan!vars)
<1>. SUFFICES ASSUME IInv, [Next]_vars PROVE [Loan!Next]_(Loan!vars)
    OBVIOUS
<1>1. ASSUME UNCHANGED <<slotState, held>> PROVE UNCHANGED Loan!vars
    BY <1>1 DEF Loan!vars, Free
<1>2. ASSUME NEW f \in Fds, OpenFd(f) PROVE UNCHANGED Loan!vars
    BY <1>1, <1>2 DEF OpenFd
<1>3. CASE PoolInit
  <2>1. \A s \in Slots : slotState[s] = "UNUSED"
      BY <1>3 DEF PoolInit, IInv, RegisteredIsOpen
  <2>. QED
      BY <1>3, <2>1 DEF PoolInit, Loan!vars, Free
<1>4. ASSUME NEW s \in Slots, NEW f \in Fds, Register(s, f) PROVE Loan!Next
  <2>1. /\ s \notin Free /\ s \notin InUse
        /\ Free' = Free \cup {s} /\ InUse' = InUse
      BY <1>4 DEF Register, IInv, TypeOK, Free, InUse
  <2>2. Loan!Stock(s)
      BY <1>4, <2>1 DEF Loan!Stock, Register, InUse
  <2>. QED
      BY <2>2 DEF Loan!Next
<1>5. CASE Destroy
  <2>1. \A s \in Slots : slotState[s] # "IN_USE"
      BY <1>5, RoomToRecycle DEF IInv, Destroy
  <2>2. InUse = {} /\ InUse' = {} /\ Free' = {}
      BY <1>5, <2>1 DEF Destroy, InUse, Free
  <2>3. Loan!Close
      BY <1>5, <2>2 DEF Loan!Close, Destroy, InUse
  <2>. QED
      BY <2>3 DEF Loan!Next
<1>6. ASSUME NEW h \in Holders, Call(h) PROVE [Loan!Next]_(Loan!vars)
  <2>1. CASE Acquire(h)
    <3>1. PICK s \in Slots : slotState[s] = "FREE" /\ Grant(h, s)
      <4>1. freeList[Len(freeList)] \in Slots
          BY <2>1 DEF Acquire, IInv, TypeOK
      <4>. QED
          BY <2>1, <4>1 DEF Acquire
    <3>. QED
        BY <3>1, LoanGrant
  <2>2. ASSUME NEW s \in Slots, AcquireIndex(h, s) PROVE Loan!Next
      BY <2>2, LoanGrant DEF AcquireIndex
  <2>3. ASSUME NEW s \in Slots, RefLoad(h, s) \/ UnrefCall(h, s)
        PROVE  UNCHANGED Loan!vars
      BY <1>1, <2>3 DEF RefLoad, UnrefCall, poolVars
  <2>4. ASSUME NEW s \in Slots, NEW k \in Holders,
               HandOver(h, k, s) \/ HandOver(k, h, s)
        PROVE  Loan!Next
    <3>1. h # k /\ (Loan!Move(h, k, s) \/ Loan!Move(k, h, s))
        BY <2>4 DEF HandOver, Loan!Move, poolVars, Free
    <3>. QED
        BY <3>1 DEF Loan!Next
  <2>. QED
      BY <1>6, <2>1, <2>2, <2>3, <2>4 DEF Call, ReleaseCall
<1>7. ASSUME NEW h \in Holders, Step(h) PROVE [Loan!Next]_(Loan!vars)
  <2>1. CASE \/ RefFail(h) \/ RefRetry(h) \/ UnrefLoad(h) \/ UnrefRetry(h)
             \/ RecycleEnter(h)
      BY <1>1, <2>1
      DEF RefFail, RefRetry, UnrefLoad, UnrefRetry, RecycleEnter, poolVars
  <2>2. ASSUME NEW k \in Holders, RefCas(h, k) PROVE Loan!Next
    <3>1. slot[h] \in Slots /\ slot[h] \in held[h]
        BY <2>2 DEF RefCas, IInv, CallsHoldTheirSlot, TypeOK
    <3>2. Loan!Share(k, slot[h])
        BY <2>2, <3>1 DEF RefCas, Loan!Share, Loan!Borrowers, poolVars, Free
    <3>. QED
        BY <3>1, <3>2 DEF Loan!Next
  <2>3. CASE UnrefCas(h)
    <3>1. slot[h] \in Slots /\ slot[h] \in held[h]
        BY <2>3 DEF UnrefCas, IInv, CallsHoldTheirSlot, TypeOK
    <3>2. Loan!Return(h, slot[h])
        BY <2>3, <3>1 DEF UnrefCas, Loan!Return, poolVars, Free
    <3>. QED
        BY <3>1, <3>2 DEF Loan!Next
  <2>4. CASE RecyclePublish(h)
    <3>1. /\ slot[h] \in Slots /\ slotState[slot[h]] = "IN_USE"
          /\ refcount[slot[h]] = 0
        BY <2>4 DEF RecyclePublish, IInv, RecyclersAlone, TypeOK
    <3>2. Loan!Borrowers(slot[h]) = {}
        BY <3>1, HoldersCounted DEF Loan!Borrowers, Holding, IInv, RefsCounted
    <3>3. /\ Free' = Free \cup {slot[h]}
          /\ InUse' = InUse \ {slot[h]} /\ slot[h] \in InUse
        BY <2>4, <3>1 DEF RecyclePublish, Free, InUse, IInv, TypeOK
    <3>4. PICK s \in Slots : s = slot[h]
        BY <3>1
    <3>5. Loan!TakeBack(s)
        BY <2>4, <3>2, <3>3, <3>4 DEF RecyclePublish, Loan!TakeBack, InUse
    <3>. QED
        BY <3>5 DEF Loan!Next
  <2>. QED
      BY <1>7, <2>1, <2>2, <2>3, <2>4 DEF Step
<1>8. CASE UNCHANGED vars
    BY <1>1, <1>8 DEF vars, poolVars
<1>. QED
    BY <1>2, <1>3, <1>4, <1>5, <1>6, <1>7, <1>8, ThreadsAssumption DEF Next

\* The pool implements the abstract loan: with all its counting, list keeping
\* and locking, a slot is lent only when nobody has it and comes back once.
THEOREM PoolImplementsLoan == Spec => LoanSpec
<1>1. Init => Loan!Init
    BY LoanInit
<1>2. IInv /\ [Next]_vars => [Loan!Next]_(Loan!vars)
    BY LoanStep
<1>. QED
    BY <1>1, <1>2, Invariance, PTL DEF Spec, LoanSpec, Loan!Spec
=============================================================================
