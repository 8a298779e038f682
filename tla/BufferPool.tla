----------------------------- MODULE BufferPool -----------------------------
(***************************************************************************)
(* The DMA-BUF pool of src/app/pipeline/buffer_pool.c together with the    *)
(* reference count of src/app/pipeline/buffer.c that drives it.            *)
(*                                                                         *)
(* A holder is any place of the program that keeps a reference: a local    *)
(* pointer of a thread, a node's input queue, latest_frame, the sink's     *)
(* current frame.  The threads among them run the operations.  Nothing in  *)
(* C names the owner of a counted reference; held does.                    *)
(*                                                                         *)
(* Granularity: a body that runs under pool->lock without calling out is   *)
(* one step.  The lock-free loops of buffer.c are a load and a             *)
(* compare-and-swap; a spurious failure of the weak CAS reloads the same   *)
(* value and is a stutter.  The recycling of a slot is two steps, because  *)
(* recycle_cb runs inside the critical section and may block.              *)
(***************************************************************************)
EXTENDS Integers, Sequences, FiniteSets

CONSTANTS
    Holders,      \* threads, and places that keep references for them
    Threads,      \* the holders that run operations
    Slots,        \* the indices 0 .. count-1 of pool->buffers
    Fds,          \* file descriptor numbers
    NoFd,         \* fd = -1
    NoHolder,     \* pool->lock is free
    RefMax        \* INT_MAX, the count ocr_buffer_ref refuses to pass

ASSUME FinitePool == IsFiniteSet(Holders) /\ IsFiniteSet(Slots)
ASSUME ThreadsAssumption == Threads \subseteq Holders
ASSUME NoFdAssumption == NoFd \notin Fds
ASSUME NoHolderAssumption == NoHolder \notin Holders
ASSUME RefMaxAssumption == RefMax \in Nat \ {0}

VARIABLES
    initialized,  \* pool->initialized; release_cb is installed exactly then
    slotState,    \* pool->slot_state
    refcount,     \* buffers[i].refcount
    freeList,     \* free_list[0 .. free_count-1]
    registered,   \* registered_count
    fd,           \* buffers[i].fd
    openFds,      \* descriptors open in the process
    lock,         \* holder of pool->lock
    pc, slot, cur,\* where each holder's thread is, its buffer, its loaded count
    held          \* held[h]: slots holder h has a reference to

poolVars == <<initialized, slotState, freeList, registered, fd, openFds>>
vars == <<poolVars, refcount, lock, pc, slot, cur, held>>

-----------------------------------------------------------------------------
\* Slots in a given state, and the holders of a slot
Registered == {s \in Slots : slotState[s] # "UNUSED"}
Free       == {s \in Slots : slotState[s] = "FREE"}
Holding(s) == {h \in Holders : s \in held[h]}

Init ==
    /\ initialized = FALSE
    /\ slotState = [s \in Slots |-> "UNUSED"]
    /\ refcount = [s \in Slots |-> 0]
    /\ freeList = << >>
    /\ registered = 0
    /\ fd = [s \in Slots |-> NoFd]
    /\ openFds = {}
    /\ lock = NoHolder
    /\ pc = [h \in Holders |-> "idle"]
    /\ \E s \in Slots : slot = [h \in Holders |-> s]
    /\ cur = [h \in Holders |-> 0]
    /\ held = [h \in Holders |-> {}]

\* The allocator (DMA-HEAP or VIDIOC_EXPBUF) opens a descriptor.
OpenFd(f) ==
    /\ f \notin openFds
    /\ openFds' = openFds \cup {f}
    /\ UNCHANGED <<initialized, slotState, freeList, registered, fd,
                   refcount, lock, pc, slot, cur, held>>

\* ocr_pool_init: clears everything and sets every count to 0, not to 1.
PoolInit ==
    /\ ~initialized
    /\ initialized' = TRUE
    /\ slotState' = [s \in Slots |-> "UNUSED"]
    /\ refcount' = [s \in Slots |-> 0]
    /\ freeList' = << >>
    /\ registered' = 0
    /\ fd' = [s \in Slots |-> NoFd]
    /\ UNCHANGED <<openFds, lock, pc, slot, cur, held>>

\* Mutant: register forgets to look for the same descriptor in another slot.
BugRegisterSameFd(s, f) ==
    /\ initialized
    /\ f \in openFds
    /\ lock = NoHolder
    /\ slotState[s] = "UNUSED"
    /\ fd' = [fd EXCEPT ![s] = f]
    /\ slotState' = [slotState EXCEPT ![s] = "FREE"]
    /\ freeList' = Append(freeList, s)
    /\ registered' = registered + 1
    /\ UNCHANGED <<initialized, openFds, refcount, lock, pc, slot, cur, held>>

\* ocr_pool_register with a valid layout; every refusal changes nothing.
Register(s, f) ==
    /\ initialized
    /\ f \in openFds
    /\ lock = NoHolder
    /\ slotState[s] = "UNUSED"
    /\ \A r \in Registered : fd[r] # f
    /\ fd' = [fd EXCEPT ![s] = f]
    /\ slotState' = [slotState EXCEPT ![s] = "FREE"]
    /\ freeList' = Append(freeList, s)
    /\ registered' = registered + 1
    /\ UNCHANGED <<initialized, openFds, refcount, lock, pc, slot, cur, held>>

\* The slot s leaves the free list and its holder gets the one reference.
Grant(h, s) ==
    /\ slotState' = [slotState EXCEPT ![s] = "IN_USE"]
    /\ refcount' = [refcount EXCEPT ![s] = 1]
    /\ held' = [held EXCEPT ![h] = @ \cup {s}]
    /\ UNCHANGED <<initialized, registered, fd, openFds, lock, pc, slot, cur>>

\* ocr_pool_acquire: pops the last entry of the free list.
Acquire(h) ==
    /\ pc[h] = "idle"
    /\ initialized
    /\ lock = NoHolder
    /\ freeList # << >>
    /\ LET s == freeList[Len(freeList)]
       IN  /\ slotState[s] = "FREE"
           /\ freeList' = SubSeq(freeList, 1, Len(freeList) - 1)
           /\ Grant(h, s)

\* Mutant: the last entry is dropped and the hole keeps the taken slot.
BugFillHole(list, i) == [j \in 1 .. Len(list) - 1 |-> list[j]]

\* The free list without its i-th entry: the last entry fills the hole.
FillHole(list, i) ==
    [j \in 1 .. Len(list) - 1 |-> IF j = i THEN list[Len(list)] ELSE list[j]]

\* ocr_pool_acquire_index: takes the slot the driver completed.
AcquireIndex(h, s) ==
    /\ pc[h] = "idle"
    /\ initialized
    /\ lock = NoHolder
    /\ slotState[s] = "FREE"
    /\ \E i \in 1 .. Len(freeList) :
         /\ freeList[i] = s
         /\ \A j \in 1 .. i - 1 : freeList[j] # s
         /\ freeList' = FillHole(freeList, i)
    /\ Grant(h, s)

\* A reference changes place: a frame is queued, dequeued, emitted, shown.
HandOver(h, k, s) ==
    /\ pc[h] = "idle" /\ pc[k] = "idle"
    /\ s \in held[h] /\ s \notin held[k]
    /\ held' = [held EXCEPT ![h] = @ \ {s}, ![k] = @ \cup {s}]
    /\ UNCHANGED <<poolVars, refcount, lock, pc, slot, cur>>

\* ocr_buffer_ref: its caller owns a reference for as long as the call lasts.
RefLoad(h, s) ==
    /\ pc[h] = "idle"
    /\ s \in held[h]
    /\ pc' = [pc EXCEPT ![h] = "ref"]
    /\ slot' = [slot EXCEPT ![h] = s]
    /\ cur' = [cur EXCEPT ![h] = refcount[s]]
    /\ UNCHANGED <<poolVars, refcount, lock, held>>

RefRefused(h) == cur[h] <= 0 \/ cur[h] = RefMax

\* The call returns -1 and no reference is taken.
RefFail(h) ==
    /\ pc[h] = "ref"
    /\ RefRefused(h)
    /\ pc' = [pc EXCEPT ![h] = "idle"]
    /\ UNCHANGED <<poolVars, refcount, lock, slot, cur, held>>

\* Another thread changed the count: the CAS reloads it and the loop goes on.
RefRetry(h) ==
    /\ pc[h] = "ref"
    /\ ~RefRefused(h)
    /\ refcount[slot[h]] # cur[h]
    /\ cur' = [cur EXCEPT ![h] = refcount[slot[h]]]
    /\ UNCHANGED <<poolVars, refcount, lock, pc, slot, held>>

\* The CAS wins; the new reference is for a place that has none to this slot.
RefCas(h, k) ==
    /\ pc[h] = "ref"
    /\ ~RefRefused(h)
    /\ refcount[slot[h]] = cur[h]
    /\ slot[h] \notin held[k]
    /\ refcount' = [refcount EXCEPT ![slot[h]] = cur[h] + 1]
    /\ held' = [held EXCEPT ![k] = @ \cup {slot[h]}]
    /\ pc' = [pc EXCEPT ![h] = "idle"]
    /\ UNCHANGED <<poolVars, lock, slot, cur>>

\* ocr_buffer_unref called directly.
UnrefCall(h, s) ==
    /\ pc[h] = "idle"
    /\ s \in held[h]
    /\ pc' = [pc EXCEPT ![h] = "load"]
    /\ slot' = [slot EXCEPT ![h] = s]
    /\ UNCHANGED <<poolVars, refcount, lock, cur, held>>

\* ocr_pool_release: validates under the lock, unlocks, then unrefs.
ReleaseCall(h, s) ==
    /\ lock = NoHolder
    /\ initialized
    /\ slotState[s] = "IN_USE"
    /\ UnrefCall(h, s)

UnrefLoad(h) ==
    /\ pc[h] = "load"
    /\ pc' = [pc EXCEPT ![h] = "unref"]
    /\ cur' = [cur EXCEPT ![h] = refcount[slot[h]]]
    /\ UNCHANGED <<poolVars, refcount, lock, slot, held>>

UnrefRetry(h) ==
    /\ pc[h] = "unref"
    /\ refcount[slot[h]] # cur[h]
    /\ cur' = [cur EXCEPT ![h] = refcount[slot[h]]]
    /\ UNCHANGED <<poolVars, refcount, lock, pc, slot, held>>

\* Mutant: load, subtract and store instead of compare-and-swap.
BugUnrefStore(h) ==
    /\ pc[h] = "unref"
    /\ cur[h] > 0
    /\ refcount' = [refcount EXCEPT ![slot[h]] = cur[h] - 1]
    /\ held' = [held EXCEPT ![h] = @ \ {slot[h]}]
    /\ pc' = [pc EXCEPT ![h] =
                IF cur[h] = 1 /\ initialized THEN "recycle" ELSE "idle"]
    /\ UNCHANGED <<poolVars, lock, slot, cur>>

\* Mutant: the slot is recycled when one reference is left.
BugUnrefEarly(h) ==
    /\ pc[h] = "unref"
    /\ cur[h] > 0
    /\ refcount[slot[h]] = cur[h]
    /\ refcount' = [refcount EXCEPT ![slot[h]] = cur[h] - 1]
    /\ held' = [held EXCEPT ![h] = @ \ {slot[h]}]
    /\ pc' = [pc EXCEPT ![h] =
                IF cur[h] <= 2 /\ initialized THEN "recycle" ELSE "idle"]
    /\ UNCHANGED <<poolVars, lock, slot, cur>>

\* Only the thread whose CAS takes the count to 0 goes on to recycle the slot.
UnrefCas(h) ==
    /\ pc[h] = "unref"
    /\ cur[h] > 0
    /\ refcount[slot[h]] = cur[h]
    /\ refcount' = [refcount EXCEPT ![slot[h]] = cur[h] - 1]
    /\ held' = [held EXCEPT ![h] = @ \ {slot[h]}]
    /\ pc' = [pc EXCEPT ![h] =
                IF cur[h] = 1 /\ initialized THEN "recycle" ELSE "idle"]
    /\ UNCHANGED <<poolVars, lock, slot, cur>>

\* What pool_recycle_buffer asks before it believes the request.
Recyclable(s) ==
    /\ initialized
    /\ slotState[s] = "IN_USE"
    /\ refcount[s] = 0
    /\ Len(freeList) < registered

\* pool_recycle_buffer takes the lock; a refused request is only logged.
RecycleEnter(h) ==
    /\ pc[h] = "recycle"
    /\ lock = NoHolder
    /\ IF Recyclable(slot[h])
       THEN lock' = h /\ pc' = [pc EXCEPT ![h] = "notify"]
       ELSE lock' = lock /\ pc' = [pc EXCEPT ![h] = "idle"]
    /\ UNCHANGED <<poolVars, refcount, slot, cur, held>>

\* Mutant: a failed recycle_cb keeps the slot out of the free list.
BugPublishOnSuccess(h) ==
    /\ pc[h] = "notify"
    /\ \/ /\ slotState' = [slotState EXCEPT ![slot[h]] = "FREE"]
          /\ freeList' = Append(freeList, slot[h])
       \/ UNCHANGED <<slotState, freeList>>
    /\ lock' = NoHolder
    /\ pc' = [pc EXCEPT ![h] = "idle"]
    /\ UNCHANGED <<initialized, registered, fd, openFds, refcount,
                   slot, cur, held>>

\* recycle_cb has returned, with success or not: publish the slot and unlock.
RecyclePublish(h) ==
    /\ pc[h] = "notify"
    /\ slotState' = [slotState EXCEPT ![slot[h]] = "FREE"]
    /\ freeList' = Append(freeList, slot[h])
    /\ lock' = NoHolder
    /\ pc' = [pc EXCEPT ![h] = "idle"]
    /\ UNCHANGED <<initialized, registered, fd, openFds, refcount,
                   slot, cur, held>>

\* Mutant: destroy does not look for slots in use.
BugDestroyBusy ==
    /\ initialized
    /\ lock = NoHolder
    /\ initialized' = FALSE
    /\ slotState' = [s \in Slots |-> "UNUSED"]
    /\ openFds' = openFds \ {fd[s] : s \in Slots}
    /\ fd' = [s \in Slots |-> NoFd]
    /\ freeList' = << >>
    /\ registered' = 0
    /\ UNCHANGED <<refcount, lock, pc, slot, cur, held>>

\* ocr_pool_destroy: refused while a registered slot is not free.
Destroy ==
    /\ initialized
    /\ lock = NoHolder
    /\ registered = Len(freeList)
    /\ initialized' = FALSE
    /\ slotState' = [s \in Slots |-> "UNUSED"]
    /\ openFds' = openFds \ {fd[s] : s \in Slots}
    /\ fd' = [s \in Slots |-> NoFd]
    /\ freeList' = << >>
    /\ registered' = 0
    /\ UNCHANGED <<refcount, lock, pc, slot, cur, held>>

-----------------------------------------------------------------------------
Step(h) ==
    \/ RefFail(h) \/ RefRetry(h)
    \/ \E k \in Holders : RefCas(h, k)
    \/ UnrefLoad(h) \/ UnrefRetry(h) \/ UnrefCas(h)
    \/ RecycleEnter(h) \/ RecyclePublish(h)

Call(h) ==
    \/ Acquire(h)
    \/ \E s \in Slots : \/ AcquireIndex(h, s)
                        \/ RefLoad(h, s)
                        \/ UnrefCall(h, s)
                        \/ ReleaseCall(h, s)
                        \/ \E k \in Holders : HandOver(h, k, s) \/ HandOver(k, h, s)

Next ==
    \/ \E f \in Fds : OpenFd(f)
    \/ PoolInit
    \/ \E s \in Slots, f \in Fds : Register(s, f)
    \/ Destroy
    \/ \E h \in Threads : Call(h) \/ Step(h)

Spec == Init /\ [][Next]_vars

\* A thread inside the critical section leaves it, and the pool mutex is not
\* withheld for ever from a thread that keeps asking for it.
Fairness ==
    \A h \in Threads : WF_vars(RecyclePublish(h)) /\ SF_vars(RecycleEnter(h))

FairSpec == Spec /\ Fairness

-----------------------------------------------------------------------------
PCs == {"idle", "ref", "load", "unref", "recycle", "notify"}

\* Type invariant.
TypeOK ==
    /\ initialized \in BOOLEAN
    /\ slotState \in [Slots -> {"UNUSED", "FREE", "IN_USE"}]
    /\ refcount \in [Slots -> 0 .. RefMax]
    /\ freeList \in Seq(Slots)
    /\ registered \in Nat
    /\ fd \in [Slots -> Fds \cup {NoFd}]
    /\ openFds \subseteq Fds
    /\ lock \in Holders \cup {NoHolder}
    /\ pc \in [Holders -> PCs]
    /\ slot \in [Holders -> Slots]
    /\ cur \in [Holders -> 0 .. RefMax]
    /\ held \in [Holders -> SUBSET Slots]

\* The count of a slot is the number of places that own a reference to it,
\* whatever refs, unrefs and hand-overs race on it.
RefsCounted == \A s \in Slots : refcount[s] = Cardinality(Holding(s))

\* Both: whatever the lock-free loops of buffer.c race on, a count keeps its
\* range and is the number of its owners.
CountsSound == TypeOK /\ RefsCounted

\* The free list names every free slot exactly once and no other slot, so one
\* image is never handed to two producers (comment at buffer_pool.c:47-49).
FreeListExact ==
    /\ \A i, j \in 1 .. Len(freeList) : freeList[i] = freeList[j] => i = j
    /\ {freeList[i] : i \in 1 .. Len(freeList)} = Free

\* Nobody uses an image that the pool has closed or may lend to another: a
\* referenced slot is in use, and a registered slot alone owns an open
\* descriptor, so destroy never closes one twice (comment at buffer_pool.c:164).
ImagesBacked ==
    /\ \A h \in Holders : \A s \in held[h] : slotState[s] = "IN_USE"
    /\ \A s \in Registered :
         /\ initialized
         /\ fd[s] \in openFds
         /\ \A r \in Registered \ {s} : fd[r] # fd[s]

Recycling(h, s) == pc[h] \in {"recycle", "notify"} /\ slot[h] = s

\* An unreferenced slot in use is exactly one that a single thread is about to
\* recycle: none is forgotten, none is recycled twice.
OneRecycler ==
    \A s \in Slots :
        slotState[s] = "IN_USE" /\ refcount[s] = 0
            <=> \E h \in Holders : /\ Recycling(h, s)
                                   /\ \A k \in Holders \ {h} : ~Recycling(k, s)

\* The pool implements the abstract loan: a slot comes back to life only by
\* being lent from the free list to one holder while nobody holds or recycles it
\* (comments at buffer.c:137 and buffer_pool.c:287), and the pool closes only
\* with every slot back.
Loan == INSTANCE BufferLoan WITH
            shelf <- Free,
            out <- {s \in Slots : slotState[s] = "IN_USE"}
LoanSpec == Loan!Spec

\* A slot whose last reference was dropped becomes available again.
DroppedSlotReturns ==
    \A s \in Slots :
        slotState[s] = "IN_USE" /\ refcount[s] = 0 ~> slotState[s] = "FREE"
=============================================================================
