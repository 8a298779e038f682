-------------------------- MODULE V4l2CaptureProofs --------------------------
(***************************************************************************)
(* Proofs about V4l2Capture, for any set of buffers and any finite set of  *)
(* clients.                                                                *)
(***************************************************************************)
EXTENDS V4l2Capture, FiniteSetTheorems, TLAPS

\* The clients that have the buffer b.
ClientsOf(b) == {c \in Clients : hold[c] = b}

One(condition) == IF condition THEN 1 ELSE 0

\* FramesCounted as a sum, one term for each kind of holder.
Counted ==
    \A b \in Buffers :
        refs[b] = Cardinality(ClientsOf(b)) + One(latest = b) + One(told = b)
                  + One(tbuf = b /\ tpc # "claim")

\* A free slot has no references.
FreeUnheld == \A b \in Buffers : slotState[b] = "FREE" => refs[b] = 0

\* Who recycles works alone on a slot in use without references, and from the
\* start of the callback until the slot is free has the pool's lock.
RecyclersAlone ==
    \A x \in Actors :
        /\ rstep[x] = "none" <=> rbuf[x] = None
        /\ poolLock = x <=> rstep[x] \in {"requeue", "publish"}
        /\ rstep[x] # "none" =>
             /\ slotState[rbuf[x]] = "IN_USE" /\ refs[rbuf[x]] = 0
             /\ \A y \in Actors \ {x} : rbuf[y] # rbuf[x]

\* Nobody drops another reference before the recycling of the last is over.
OneAtATime ==
    /\ \A c \in Clients : hold[c] # None => rstep[c] = "none"
    /\ mpc # "stopped" => rstep[Main] = "none"

\* What the capture thread has in its hands at each step.
ThreadHas ==
    /\ tbuf # None <=> tpc \in {"claim", "frame", "dropOld", "callback"}
    /\ told # None => tpc = "dropOld"

Publishing(b) == \E x \in Actors : rstep[x] = "publish" /\ rbuf[x] = b

\* A buffer that the driver has, or has just given back, is free in the pool or
\* becomes so before the pool's lock is released.
DriverHasFree ==
    /\ \A b \in queued : slotState[b] = "FREE" \/ Publishing(b)
    /\ tpc = "claim" =>
         tbuf \notin queued /\ (slotState[tbuf] = "FREE" \/ Publishing(tbuf))

\* NoBufferLost, which begins when the recycler has queued the buffer.
NoneLost ==
    streaming /\ ~queueError =>
        \A b \in Buffers : slotState[b] = "FREE" \/ Publishing(b) => b \in queued \/ tbuf = b

\* What the main thread knows at each step of stop, start and close.
Stages ==
    /\ threadStarted <=> tpc # "none"
    /\ mpc \notin {"idle", "streamOff", "join"} => ~threadStarted
    /\ mpc \notin {"idle", "create"} => ~running
    /\ mpc \notin {"idle", "create", "streamOff"} => ~streaming
    /\ ~threadStarted /\ mpc # "create" => ~running /\ ~streaming
    /\ ~threadStarted /\ mpc # "takeLatest" => latest = None
    /\ mpc \in {"queue", "create", "closed"} => AllFree
    /\ ~initialized => mpc = "closed"

\* The inductive invariant.
IInv ==
    /\ TypeOK
    /\ Counted
    /\ FreeUnheld
    /\ RecyclersAlone
    /\ OneAtATime
    /\ ThreadHas
    /\ DriverHasFree
    /\ NoneLost
    /\ Stages

-----------------------------------------------------------------------------
\* The clients of a buffer are finitely many, and at least one if one is known.
LEMMA ClientsCounted ==
    ASSUME NEW b \in Buffers
    PROVE  /\ IsFiniteSet(ClientsOf(b))
           /\ Cardinality(ClientsOf(b)) \in Nat
           /\ \A c \in Clients : hold[c] = b => Cardinality(ClientsOf(b)) > 0
<1>1. ClientsOf(b) \in SUBSET Clients
    BY DEF ClientsOf
<1>2. IsFiniteSet(ClientsOf(b))
    BY <1>1, ClientsAssumption, FS_Subset
<1>3. ASSUME NEW c \in Clients, hold[c] = b
      PROVE  ClientsOf(b) # {}
    BY <1>3 DEF ClientsOf
<1>. QED
    BY <1>2, <1>3, FS_CardinalityType, FS_EmptySet

\* A client that gets the buffer b is one more of its clients.
LEMMA ClientAdded ==
    ASSUME TypeOK, NEW c \in Clients, NEW b \in Buffers, hold[c] = None,
           hold' = [hold EXCEPT ![c] = b]
    PROVE  \A r \in Buffers :
               Cardinality(ClientsOf(r)') = Cardinality(ClientsOf(r)) + One(r = b)
<1>1. /\ ClientsOf(b)' = ClientsOf(b) \cup {c}
      /\ c \notin ClientsOf(b)
      /\ \A r \in Buffers \ {b} : ClientsOf(r)' = ClientsOf(r)
    BY NoneAssumption DEF ClientsOf, TypeOK
<1>2. \A r \in Buffers : IsFiniteSet(ClientsOf(r)) /\ Cardinality(ClientsOf(r)) \in Nat
    BY ClientsCounted
<1>3. Cardinality(ClientsOf(b)') = Cardinality(ClientsOf(b)) + 1
    BY <1>1, <1>2, FS_AddElement
<1>. QED
    BY <1>1, <1>2, <1>3 DEF One

\* A client that drops the buffer b is one less.
LEMMA ClientRemoved ==
    ASSUME TypeOK, NEW c \in Clients, NEW b \in Buffers, hold[c] = b,
           hold' = [hold EXCEPT ![c] = None]
    PROVE  \A r \in Buffers :
               Cardinality(ClientsOf(r)') = Cardinality(ClientsOf(r)) - One(r = b)
<1>1. /\ ClientsOf(b)' = ClientsOf(b) \ {c}
      /\ c \in ClientsOf(b)
      /\ \A r \in Buffers \ {b} : ClientsOf(r)' = ClientsOf(r)
    BY NoneAssumption DEF ClientsOf, TypeOK
<1>2. \A r \in Buffers : IsFiniteSet(ClientsOf(r)) /\ Cardinality(ClientsOf(r)) \in Nat
    BY ClientsCounted
<1>3. Cardinality(ClientsOf(b)') = Cardinality(ClientsOf(b)) - 1
    BY <1>1, <1>2, FS_RemoveElement
<1>. QED
    BY <1>1, <1>2, <1>3 DEF One

\* What somebody can name has a reference, and is in use.
LEMMA NamedIsReferenced ==
    ASSUME TypeOK, Counted, FreeUnheld
    PROVE  /\ latest # None => refs[latest] > 0
           /\ told # None => refs[told] > 0
           /\ tbuf # None /\ tpc # "claim" => refs[tbuf] > 0
           /\ \A c \in Clients : hold[c] # None => refs[hold[c]] > 0
<1>1. \A b \in Buffers : /\ Cardinality(ClientsOf(b)) \in Nat
                         /\ \A c \in Clients : hold[c] = b => Cardinality(ClientsOf(b)) > 0
    BY ClientsCounted
<1>. QED
    BY <1>1, NoneAssumption DEF TypeOK, Counted, One

\* Dropping a reference: the last one makes the caller the only recycler of its
\* buffer; another one leaves recycling alone.
LEMMA Dropped ==
    ASSUME TypeOK, FreeUnheld, RecyclersAlone,
           NEW x \in Actors, NEW b \in Buffers, refs[b] > 0, rstep[x] = "none",
           Unref(x, b), UNCHANGED <<slotState, poolLock>>
    PROVE  /\ refs' \in [Buffers -> Nat]
           /\ \A r \in Buffers : refs'[r] = refs[r] - One(r = b)
           /\ rstep' \in [Actors -> {"none", "enter", "requeue", "publish"}]
           /\ rbuf' \in [Actors -> Buffers \cup {None}]
           /\ \A y \in Actors \ {x} : rstep'[y] = rstep[y]
           /\ \A r \in Buffers : Publishing(r)' <=> Publishing(r)
           /\ FreeUnheld' /\ RecyclersAlone'
<1>1. /\ refs' \in [Buffers -> Nat]
      /\ \A r \in Buffers : refs'[r] = refs[r] - One(r = b)
    BY DEF TypeOK, Unref, One
<1>2. /\ rstep' \in [Actors -> {"none", "enter", "requeue", "publish"}]
      /\ rbuf' \in [Actors -> Buffers \cup {None}]
      /\ \A y \in Actors \ {x} : rstep'[y] = rstep[y] /\ rbuf'[y] = rbuf[y]
    BY DEF TypeOK, Unref, recycling
<1>3. \A r \in Buffers : Publishing(r)' <=> Publishing(r)
    BY DEF TypeOK, Unref, recycling, Publishing
<1>4. FreeUnheld'
    BY <1>1 DEF TypeOK, FreeUnheld, One
<1>5. slotState[b] = "IN_USE"
    BY DEF TypeOK, FreeUnheld
<1>6. RecyclersAlone'
  <2>1. CASE refs[b] = 1
    <3>1. /\ rstep' = [rstep EXCEPT ![x] = "enter"] /\ rbuf' = [rbuf EXCEPT ![x] = b]
          /\ refs'[b] = 0
          /\ \A y \in Actors : rstep[y] # "none" => rbuf[y] \in Buffers \ {b}
        BY <1>1, <2>1, NoneAssumption DEF Unref, TypeOK, RecyclersAlone, One
    <3>. QED
        BY <1>1, <1>5, <3>1, NoneAssumption DEF RecyclersAlone, TypeOK, One
  <2>2. CASE refs[b] # 1
    <3>1. UNCHANGED recycling
        BY <2>2 DEF Unref
    <3>2. \A y \in Actors : rstep[y] # "none" => rbuf[y] \in Buffers \ {b}
        BY NoneAssumption DEF TypeOK, RecyclersAlone
    <3>. QED
        BY <1>1, <3>1, <3>2 DEF RecyclersAlone, TypeOK, One, recycling
  <2>. QED
      BY <2>1, <2>2
<1>. QED
    BY <1>1, <1>2, <1>3, <1>4, <1>6

\* A step that touches neither the pool nor who holds what leaves the counts and
\* the recyclers as they are.
LEMMA PoolFrame ==
    ASSUME IInv, UNCHANGED <<pool, latest, told, tbuf, hold, recycling>>,
           tpc' = "claim" <=> tpc = "claim"
    PROVE  /\ Counted' /\ FreeUnheld' /\ RecyclersAlone'
           /\ \A b \in Buffers : Publishing(b)' <=> Publishing(b)
BY DEF IInv, Counted, FreeUnheld, RecyclersAlone, Publishing, ClientsOf, One, pool, recycling

\* The main thread: stop, start and close.
LEMMA MainKeepsIInv ==
    ASSUME IInv,
           \/ StartCall \/ StopCall("stop") \/ StopCall("close")
           \/ StreamOff \/ Join \/ Stopped \/ StartStep \/ PoolDestroy
    PROVE  IInv'
<1>. USE NoneAssumption DEF IInv, TypeOK, OneAtATime, ThreadHas, DriverHasFree, NoneLost,
         Stages, flags, driver, thread, main, pool, recycling
<1>1. CASE StartCall
    BY <1>1, PoolFrame DEF StartCall, At, AllFree, DeviceOff
<1>2. CASE StopCall("stop")
    BY <1>2, PoolFrame DEF StopCall, At, AllFree, DeviceOff
<1>3. CASE StopCall("close")
    BY <1>3, PoolFrame DEF StopCall, At, AllFree, DeviceOff
<1>4. CASE StreamOff
    BY <1>4, PoolFrame DEF StreamOff, At, AllFree, DeviceOff
<1>5. CASE Join
    BY <1>5, PoolFrame DEF Join, At, AllFree, DeviceOff
<1>6. CASE Stopped
    BY <1>6, PoolFrame DEF Stopped, At, AllFree, DeviceOff
<1>7. CASE Check
    BY <1>7, PoolFrame DEF Check, At, AllFree, DeviceOff
<1>8. CASE QueueAll
    BY <1>8, PoolFrame DEF QueueAll, At, AllFree, DeviceOff
<1>9. CASE QueueFails
    BY <1>9, PoolFrame DEF QueueFails, At, AllFree, DeviceOff
<1>10. CASE Create
    BY <1>10, PoolFrame DEF Create, At, AllFree, DeviceOff
<1>11. CASE CreateFails
    BY <1>11, PoolFrame DEF CreateFails, At, AllFree, DeviceOff
<1>12. CASE PoolDestroy
    BY <1>12, PoolFrame DEF PoolDestroy, At, AllFree, DeviceOff
<1>. QED
    BY <1>1, <1>2, <1>3, <1>4, <1>5, <1>6, <1>7, <1>8, <1>9, <1>10, <1>11, <1>12 DEF StartStep

\* ... and its drop of the latest frame.
LEMMA TakeLatestKeepsIInv ==
    ASSUME IInv, TakeLatest
    PROVE  IInv'
<1>. USE DEF IInv
<1>1. CASE latest = None
  <2>1. UNCHANGED <<flags, pool, driver, latest, thread, hold, recycling>>
      BY <1>1 DEF TakeLatest, pool
  <2>. QED
      BY <1>1, <2>1, PoolFrame
         DEF TakeLatest, TypeOK, OneAtATime, ThreadHas, DriverHasFree, NoneLost, Stages,
             AllFree, flags, pool, driver, thread, recycling
<1>2. CASE latest # None
  <2>1. latest \in Buffers /\ refs[latest] > 0 /\ Main \in Actors /\ rstep[Main] = "none"
      BY <1>2, NamedIsReferenced DEF TypeOK, OneAtATime, TakeLatest, Actors
  <2>2. /\ refs' \in [Buffers -> Nat]
        /\ \A r \in Buffers : refs'[r] = refs[r] - One(r = latest)
        /\ rstep' \in [Actors -> {"none", "enter", "requeue", "publish"}]
        /\ rbuf' \in [Actors -> Buffers \cup {None}]
        /\ \A y \in Actors \ {Main} : rstep'[y] = rstep[y]
        /\ \A r \in Buffers : Publishing(r)' <=> Publishing(r)
        /\ FreeUnheld' /\ RecyclersAlone'
      BY <1>2, <2>1, Dropped DEF TakeLatest
  <2>3. Counted'
    <3>1. \A b \in Buffers : /\ ClientsOf(b)' = ClientsOf(b)
                             /\ Cardinality(ClientsOf(b)) \in Nat
        BY ClientsCounted DEF TakeLatest, ClientsOf
    <3>. QED
        BY <2>1, <2>2, <3>1, NoneAssumption DEF TakeLatest, Counted, One, thread
  <2>4. OneAtATime'
      BY <2>2, ActorsAssumption DEF OneAtATime, TakeLatest, Actors
  <2>. QED
      BY <2>2, <2>3, <2>4
         DEF TakeLatest, TypeOK, ThreadHas, DriverHasFree, NoneLost, Stages, AllFree,
             flags, driver, thread
<1>. QED
    BY <1>1, <1>2

\* The clients: borrowing the latest frame and giving a frame back.
LEMMA ClientKeepsIInv ==
    ASSUME IInv, NEW c \in Clients, GetLatest(c) \/ ClientDrop(c)
    PROVE  IInv'
<1>. USE DEF IInv
<1>0. \A b \in Buffers : Cardinality(ClientsOf(b)) \in Nat
    BY ClientsCounted
<1>1. CASE GetLatest(c)
  <2>1. latest \in Buffers /\ slotState[latest] = "IN_USE"
      BY <1>1 DEF GetLatest, TypeOK, FreeUnheld
  <2>2. Counted'
    <3>1. \A r \in Buffers :
              Cardinality(ClientsOf(r)') = Cardinality(ClientsOf(r)) + One(r = latest)
        BY <1>1, <2>1, ClientAdded DEF GetLatest
    <3>. QED
        BY <1>0, <1>1, <2>1, <3>1 DEF GetLatest, Counted, One, TypeOK, thread
  <2>3. FreeUnheld' /\ RecyclersAlone'
      BY <1>1, <2>1, NoneAssumption
         DEF GetLatest, FreeUnheld, RecyclersAlone, TypeOK, recycling
  <2>4. TypeOK'
      BY <1>1, <2>1 DEF GetLatest, TypeOK, flags, driver, thread, main, recycling
  <2>. QED
      BY <1>1, <2>1, <2>2, <2>3, <2>4
         DEF GetLatest, TypeOK, OneAtATime, ThreadHas, DriverHasFree, NoneLost, Stages,
             AllFree, Publishing, flags, driver, thread, main, recycling
<1>2. CASE ClientDrop(c)
  <2>1. /\ hold[c] \in Buffers /\ refs[hold[c]] > 0
        /\ c \in Actors /\ rstep[c] = "none"
      BY <1>2, NamedIsReferenced DEF ClientDrop, TypeOK, OneAtATime, Actors
  <2>2. /\ refs' \in [Buffers -> Nat]
        /\ \A r \in Buffers : refs'[r] = refs[r] - One(r = hold[c])
        /\ rstep' \in [Actors -> {"none", "enter", "requeue", "publish"}]
        /\ rbuf' \in [Actors -> Buffers \cup {None}]
        /\ \A y \in Actors \ {c} : rstep'[y] = rstep[y]
        /\ \A r \in Buffers : Publishing(r)' <=> Publishing(r)
        /\ FreeUnheld' /\ RecyclersAlone'
      BY <1>2, <2>1, Dropped DEF ClientDrop
  <2>3. Counted'
    <3>1. \A r \in Buffers :
              Cardinality(ClientsOf(r)') = Cardinality(ClientsOf(r)) - One(r = hold[c])
        BY <1>2, <2>1, ClientRemoved DEF ClientDrop
    <3>. QED
        BY <1>0, <1>2, <2>1, <2>2, <3>1 DEF ClientDrop, Counted, One, TypeOK, thread
  <2>4. OneAtATime'
      BY <1>2, <2>2, ActorsAssumption DEF ClientDrop, OneAtATime, TypeOK, Actors, main
  <2>. QED
      BY <1>2, <2>2, <2>3, <2>4
         DEF ClientDrop, TypeOK, ThreadHas, DriverHasFree, NoneLost, Stages, AllFree,
             flags, driver, thread, main
<1>. QED
    BY <1>1, <1>2

\* Recycling: the buffer is queued and its slot made free under the pool's lock.
LEMMA RecycleKeepsIInv ==
    ASSUME IInv, NEW x \in Actors, Recycle(x)
    PROVE  IInv'
<1>. USE NoneAssumption DEF IInv
<1>1. Counted'
    BY DEF Recycle, RecycleEnter, RequeueFails, Requeue, RecyclePublish, Counted, One,
           ClientsOf, thread, pool
<1>2. rstep[x] # "none" /\ rbuf[x] \in Buffers
    BY DEF Recycle, RecycleEnter, RequeueFails, Requeue, RecyclePublish, TypeOK,
           RecyclersAlone
<1>3. RecyclersAlone' /\ FreeUnheld'
    BY <1>2 DEF Recycle, RecycleEnter, RequeueFails, Requeue, RecyclePublish, FreeUnheld,
           RecyclersAlone, TypeOK, pool
<1>4. OneAtATime'
    BY <1>2 DEF Recycle, RecycleEnter, RequeueFails, Requeue, RecyclePublish, OneAtATime,
           TypeOK, main, Actors
<1>5. CASE RecycleEnter(x)
    BY <1>1, <1>3, <1>4, <1>5
       DEF RecycleEnter, TypeOK, ThreadHas, DriverHasFree, NoneLost, Stages, AllFree,
           Publishing, flags, driver, thread, main
<1>6. CASE RequeueFails(x)
    BY <1>1, <1>3, <1>4, <1>6
       DEF RequeueFails, TypeOK, ThreadHas, DriverHasFree, NoneLost, Stages, AllFree,
           Publishing, pool, driver, thread, main
<1>7. CASE Requeue(x)
    BY <1>1, <1>2, <1>3, <1>4, <1>7
       DEF Requeue, TypeOK, ThreadHas, DriverHasFree, NoneLost, Stages, AllFree,
           Publishing, RecyclersAlone, flags, pool, thread, main
<1>8. CASE RecyclePublish(x)
    BY <1>1, <1>2, <1>3, <1>4, <1>8
       DEF RecyclePublish, TypeOK, ThreadHas, DriverHasFree, NoneLost, Stages, AllFree,
           Publishing, RecyclersAlone, flags, driver, thread, main
<1>. QED
    BY <1>5, <1>6, <1>7, <1>8 DEF Recycle

\* The capture thread waiting for a frame, and dequeuing it.
LEMMA WaitKeepsIInv ==
    ASSUME IInv, Ready \/ (\E b \in Buffers : Dequeue(b)) \/ NotReady \/ ThreadExit
    PROVE  IInv'
<1>. USE NoneAssumption DEF IInv, TypeOK, OneAtATime, ThreadHas, DriverHasFree, NoneLost,
         Stages, At, AllFree
<1>1. CASE Ready
    BY <1>1, PoolFrame DEF Ready, flags, driver, thread, main, pool, recycling
<1>2. ASSUME NEW b \in Buffers, Dequeue(b)
      PROVE  IInv'
  <2>1. slotState[b] = "FREE" \/ Publishing(b)
      BY <1>2 DEF Dequeue
  <2>2. refs[b] = 0
      BY <2>1 DEF FreeUnheld, Publishing, RecyclersAlone
  <2>3. Counted' /\ FreeUnheld' /\ RecyclersAlone'
    <3>1. \A r \in Buffers : /\ ClientsOf(r)' = ClientsOf(r)
                             /\ Cardinality(ClientsOf(r)) \in Nat
        BY <1>2, ClientsCounted DEF Dequeue, ClientsOf
    <3>. QED
        BY <1>2, <2>2, <3>1
           DEF Dequeue, Counted, One, FreeUnheld, RecyclersAlone, pool, recycling
  <2>4. \A r \in Buffers : Publishing(r)' <=> Publishing(r)
      BY <1>2 DEF Dequeue, Publishing, recycling
  <2>. QED
      BY <1>2, <2>1, <2>3, <2>4 DEF Dequeue, flags, pool, main, recycling
<1>3. CASE NotReady
    BY <1>3, PoolFrame DEF NotReady, flags, driver, thread, main, pool, recycling
<1>4. CASE ThreadExit
    BY <1>4, PoolFrame DEF ThreadExit, flags, driver, thread, main, pool, recycling
<1>. QED
    BY <1>1, <1>2, <1>3, <1>4

\* Claiming the dequeued buffer: its slot is free once the lock is.
LEMMA ClaimKeepsIInv ==
    ASSUME IInv, Claim
    PROVE  IInv'
<1>. USE NoneAssumption DEF IInv, Claim, At
<1>1. tbuf \in Buffers /\ slotState[tbuf] = "FREE" /\ refs[tbuf] = 0 /\ tbuf \notin queued
    BY DEF TypeOK, ThreadHas, DriverHasFree, Publishing, RecyclersAlone, FreeUnheld
<1>2. Counted'
  <2>1. \A r \in Buffers : /\ ClientsOf(r)' = ClientsOf(r)
                           /\ Cardinality(ClientsOf(r)) \in Nat
      BY ClientsCounted DEF ClientsOf
  <2>. QED
      BY <1>1, <2>1 DEF Counted, One, TypeOK
<1>3. FreeUnheld' /\ RecyclersAlone'
    BY <1>1 DEF FreeUnheld, RecyclersAlone, TypeOK, recycling
<1>4. TypeOK' /\ OneAtATime' /\ ThreadHas' /\ Stages'
    BY <1>1 DEF TypeOK, OneAtATime, ThreadHas, Stages, AllFree, driver, main, recycling
<1>5. DriverHasFree' /\ NoneLost'
  <2>1. \A r \in Buffers : Publishing(r)' <=> Publishing(r)
      BY DEF Publishing, recycling
  <2>. QED
      BY <1>1, <2>1 DEF TypeOK, DriverHasFree, NoneLost, driver
<1>. QED
    BY <1>2, <1>3, <1>4, <1>5

\* The capture thread with a frame: a reference more, one passed on.
LEMMA HandOnKeepsIInv ==
    ASSUME IInv, Publish \/ (\E c \in Clients : Transfer(c))
    PROVE  IInv'
<1>. USE NoneAssumption DEF IInv, At
<1>0. \A b \in Buffers : Cardinality(ClientsOf(b)) \in Nat
    BY ClientsCounted
<1>1. CASE Publish
  <2>1. tbuf \in Buffers /\ refs[tbuf] > 0 /\ slotState[tbuf] = "IN_USE" /\ told = None
      BY <1>1, NamedIsReferenced DEF Publish, TypeOK, ThreadHas, FreeUnheld
  <2>2. Counted'
    <3>1. \A r \in Buffers : ClientsOf(r)' = ClientsOf(r)
        BY <1>1 DEF Publish, ClientsOf
    <3>. QED
        BY <1>0, <1>1, <2>1, <3>1 DEF Publish, Counted, One, TypeOK
  <2>3. FreeUnheld' /\ RecyclersAlone'
      BY <1>1, <2>1 DEF Publish, FreeUnheld, RecyclersAlone, TypeOK, recycling
  <2>4. TypeOK' /\ OneAtATime' /\ ThreadHas' /\ Stages'
      BY <1>1, <2>1
         DEF Publish, TypeOK, OneAtATime, ThreadHas, Stages, AllFree, flags, driver, main,
             recycling
  <2>. QED
      BY <1>1, <2>1, <2>2, <2>3, <2>4
         DEF Publish, DriverHasFree, NoneLost, Publishing, flags, driver, recycling
<1>2. ASSUME NEW c \in Clients, Transfer(c)
      PROVE  IInv'
  <2>1. tbuf \in Buffers /\ refs[tbuf] > 0 /\ slotState[tbuf] = "IN_USE" /\ told = None
      BY <1>2, NamedIsReferenced DEF Transfer, TypeOK, ThreadHas, FreeUnheld
  <2>2. Counted'
    <3>1. \A r \in Buffers :
              Cardinality(ClientsOf(r)') = Cardinality(ClientsOf(r)) + One(r = tbuf)
        BY <1>2, <2>1, ClientAdded DEF Transfer
    <3>. QED
        BY <1>0, <1>2, <2>1, <3>1 DEF Transfer, Counted, One, TypeOK, pool
  <2>3. FreeUnheld' /\ RecyclersAlone'
      BY <1>2 DEF Transfer, FreeUnheld, RecyclersAlone, TypeOK, pool, recycling
  <2>4. TypeOK' /\ OneAtATime' /\ ThreadHas' /\ Stages'
      BY <1>2, <2>1
         DEF Transfer, TypeOK, OneAtATime, ThreadHas, Stages, AllFree, flags, pool, driver,
             main, recycling
  <2>5. DriverHasFree' /\ NoneLost'
    <3>1. ~Publishing(tbuf)
        BY <2>1 DEF Publishing, RecyclersAlone
    <3>2. \A r \in Buffers : Publishing(r)' <=> Publishing(r)
        BY <1>2 DEF Transfer, Publishing, recycling
    <3>. QED
        BY <1>2, <2>1, <3>1, <3>2
           DEF Transfer, TypeOK, DriverHasFree, NoneLost, flags, driver, pool
  <2>. QED
      BY <2>2, <2>3, <2>4, <2>5
<1>. QED
    BY <1>1, <1>2

\* The capture thread drops a reference: to its frame, which is damaged or refused,
\* or to the frame that was the latest.
LEMMA ThreadDropKeepsIInv ==
    ASSUME IInv, Discard \/ DropOld \/ Refuse
    PROVE  IInv'
<1>. USE NoneAssumption DEF IInv, At
<1>0. \A b \in Buffers : Cardinality(ClientsOf(b)) \in Nat
    BY ClientsCounted
<1>1. CASE Discard \/ Refuse
  <2>1. /\ tbuf \in Buffers /\ refs[tbuf] > 0 /\ slotState[tbuf] = "IN_USE"
        /\ told = None /\ Camera \in Actors
      BY <1>1, NamedIsReferenced
         DEF Discard, Refuse, TypeOK, ThreadHas, FreeUnheld, Actors
  <2>2. /\ refs' \in [Buffers -> Nat]
        /\ \A r \in Buffers : refs'[r] = refs[r] - One(r = tbuf)
        /\ rstep' \in [Actors -> {"none", "enter", "requeue", "publish"}]
        /\ rbuf' \in [Actors -> Buffers \cup {None}]
        /\ \A y \in Actors \ {Camera} : rstep'[y] = rstep[y]
        /\ \A r \in Buffers : Publishing(r)' <=> Publishing(r)
        /\ FreeUnheld' /\ RecyclersAlone'
      BY <1>1, <2>1, Dropped DEF Discard, Refuse
  <2>3. Counted'
    <3>1. \A r \in Buffers : ClientsOf(r)' = ClientsOf(r)
        BY <1>1 DEF Discard, Refuse, ClientsOf
    <3>. QED
        BY <1>0, <1>1, <2>1, <2>2, <3>1 DEF Discard, Refuse, Counted, One, TypeOK
  <2>4. OneAtATime'
      BY <1>1, <2>2, ActorsAssumption DEF Discard, Refuse, OneAtATime, Actors, main
  <2>5. TypeOK' /\ ThreadHas' /\ Stages'
      BY <1>1, <2>1, <2>2
         DEF Discard, Refuse, TypeOK, ThreadHas, Stages, AllFree, flags, driver, main
  <2>6. DriverHasFree' /\ NoneLost'
    <3>1. ~Publishing(tbuf)
        BY <2>1 DEF Publishing, RecyclersAlone
    <3>. QED
        BY <1>1, <2>1, <2>2, <3>1
           DEF Discard, Refuse, TypeOK, DriverHasFree, NoneLost, flags, driver
  <2>. QED
      BY <2>2, <2>3, <2>4, <2>5, <2>6
<1>2. CASE DropOld /\ told = None
  <2>1. UNCHANGED <<pool, latest, told, tbuf, hold, recycling>> /\ tpc' = "callback"
      BY <1>2 DEF DropOld, pool
  <2>. QED
      BY <1>2, <2>1, PoolFrame
         DEF DropOld, TypeOK, OneAtATime, ThreadHas, DriverHasFree, NoneLost, Stages,
             AllFree, flags, pool, driver, main, recycling
<1>3. CASE DropOld /\ told # None
  <2>1. told \in Buffers /\ refs[told] > 0 /\ Camera \in Actors /\ rstep[Camera] = "none"
      BY <1>3, NamedIsReferenced DEF DropOld, TypeOK, Actors
  <2>2. /\ refs' \in [Buffers -> Nat]
        /\ \A r \in Buffers : refs'[r] = refs[r] - One(r = told)
        /\ rstep' \in [Actors -> {"none", "enter", "requeue", "publish"}]
        /\ rbuf' \in [Actors -> Buffers \cup {None}]
        /\ \A y \in Actors \ {Camera} : rstep'[y] = rstep[y]
        /\ \A r \in Buffers : Publishing(r)' <=> Publishing(r)
        /\ FreeUnheld' /\ RecyclersAlone'
      BY <1>3, <2>1, Dropped DEF DropOld
  <2>3. Counted'
    <3>1. \A r \in Buffers : ClientsOf(r)' = ClientsOf(r)
        BY <1>3 DEF DropOld, ClientsOf
    <3>. QED
        BY <1>0, <1>3, <2>1, <2>2, <3>1 DEF DropOld, Counted, One, TypeOK
  <2>4. OneAtATime'
      BY <1>3, <2>2, ActorsAssumption DEF DropOld, OneAtATime, Actors, main
  <2>. QED
      BY <1>3, <2>1, <2>2, <2>3, <2>4
         DEF DropOld, TypeOK, ThreadHas, DriverHasFree, NoneLost, Stages, AllFree, flags,
             driver, main
<1>. QED
    BY <1>1, <1>2, <1>3

\* An open camera holds no frame and has no thread.
LEMMA InitIInv == Init => IInv
<1>. SUFFICES ASSUME Init
              PROVE  IInv
    OBVIOUS
<1>1. Counted
  <2>1. \A b \in Buffers : ClientsOf(b) = {}
      BY NoneAssumption DEF Init, ClientsOf
  <2>. QED
      BY <2>1, NoneAssumption, FS_EmptySet DEF Init, Counted, One
<1>2. TypeOK
    BY DEF Init, TypeOK
<1>3. RecyclersAlone /\ OneAtATime
    BY NoneAssumption, ActorsAssumption DEF Init, RecyclersAlone, OneAtATime, Actors
<1>. QED
    BY <1>1, <1>2, <1>3
       DEF Init, IInv, FreeUnheld, ThreadHas, DriverHasFree, NoneLost, Stages, AllFree

\* Every step keeps the inductive invariant.
LEMMA StepIInv == IInv /\ [Next]_vars => IInv'
<1>1. CASE Next
    BY <1>1, MainKeepsIInv, TakeLatestKeepsIInv, ClientKeepsIInv, RecycleKeepsIInv,
       WaitKeepsIInv, ClaimKeepsIInv, HandOnKeepsIInv, ThreadDropKeepsIInv
       DEF Next, ThreadStep, StopStep
<1>2. CASE IInv /\ UNCHANGED vars
    BY <1>2, PoolFrame
       DEF vars, flags, pool, driver, thread, main, recycling, IInv, TypeOK, OneAtATime,
           ThreadHas, DriverHasFree, NoneLost, Stages, AllFree
<1>. QED
    BY <1>1, <1>2

\* The inductive invariant holds in every reachable state.
THEOREM CaptureInvariance == Spec => []IInv
BY InitIInv, StepIInv, PTL DEF Spec

-----------------------------------------------------------------------------
\* The sum of Counted is the number of the holders of a buffer.
LEMMA HoldersAreCounted ==
    ASSUME TypeOK, NEW b \in Buffers
    PROVE  Cardinality(Holders(b)) =
               Cardinality(ClientsOf(b)) + One(latest = b) + One(told = b)
               + One(tbuf = b /\ tpc # "claim")
<1>. DEFINE Cs == {<<"client", c>> : c \in ClientsOf(b)}
            L  == {<<"latest", b>> : x \in {b} \cap {latest}}
            O  == {<<"old", b>> : x \in {b} \cap {told}}
            F  == {<<"frame", b>> : x \in {y \in {b} \cap {tbuf} : tpc # "claim"}}
<1>1. Holders(b) = ((Cs \cup L) \cup O) \cup F
    BY DEF Holders, ClientsOf
<1>2. /\ IsFiniteSet(Cs)
      /\ Cardinality(Cs) = Cardinality(ClientsOf(b)) /\ Cardinality(Cs) \in Nat
  <2>. DEFINE f == [c \in ClientsOf(b) |-> <<"client", c>>]
  <2>1. /\ f \in [ClientsOf(b) -> Cs]
        /\ \A c, d \in ClientsOf(b) : f[c] = f[d] => c = d
        /\ \A e \in Cs : \E c \in ClientsOf(b) : f[c] = e
      OBVIOUS
  <2>2. ExistsBijection(ClientsOf(b), Cs)
    <3>. HIDE DEF f, Cs
    <3>1. f \in Injection(ClientsOf(b), Cs) /\ f \in Surjection(ClientsOf(b), Cs)
        BY <2>1 DEF Injection, IsInjective, Surjection
    <3>. QED
        BY <3>1 DEF ExistsBijection, Bijection
  <2>. QED
      BY <2>2, ClientsCounted, FS_Bijection
<1>3. /\ IsFiniteSet(Cs \cup L)
      /\ Cardinality(Cs \cup L) = Cardinality(Cs) + One(latest = b)
  <2>1. CASE latest = b
    <3>1. L = {<<"latest", b>>} /\ <<"latest", b>> \notin Cs
        BY <2>1
    <3>. HIDE DEF Cs, L
    <3>. QED
        BY <1>2, <2>1, <3>1, FS_AddElement DEF One
  <2>2. CASE latest # b
    <3>1. Cs \cup L = Cs
        BY <2>2
    <3>. HIDE DEF Cs, L
    <3>. QED
        BY <1>2, <2>2, <3>1 DEF One
  <2>. QED
      BY <2>1, <2>2
<1>4. /\ IsFiniteSet((Cs \cup L) \cup O)
      /\ Cardinality((Cs \cup L) \cup O) = Cardinality(Cs \cup L) + One(told = b)
  <2>1. CASE told = b
    <3>1. O = {<<"old", b>>} /\ <<"old", b>> \notin Cs \cup L
        BY <2>1
    <3>. HIDE DEF Cs, L, O
    <3>. QED
        BY <1>3, <2>1, <3>1, FS_AddElement DEF One
  <2>2. CASE told # b
    <3>1. (Cs \cup L) \cup O = Cs \cup L
        BY <2>2
    <3>. HIDE DEF Cs, L, O
    <3>. QED
        BY <1>2, <1>3, <2>2, <3>1 DEF One
  <2>. QED
      BY <2>1, <2>2
<1>5. Cardinality(((Cs \cup L) \cup O) \cup F) =
          Cardinality((Cs \cup L) \cup O) + One(tbuf = b /\ tpc # "claim")
  <2>1. CASE tbuf = b /\ tpc # "claim"
    <3>1. F = {<<"frame", b>>} /\ <<"frame", b>> \notin (Cs \cup L) \cup O
        BY <2>1
    <3>. HIDE DEF Cs, L, O, F
    <3>. QED
        BY <1>4, <2>1, <3>1, FS_AddElement DEF One
  <2>2. CASE ~(tbuf = b /\ tpc # "claim")
    <3>1. ((Cs \cup L) \cup O) \cup F = (Cs \cup L) \cup O
        BY <2>2
    <3>. HIDE DEF Cs, L, O, F
    <3>. QED
        BY <1>2, <1>3, <1>4, <2>2, <3>1 DEF One
  <2>. QED
      BY <2>1, <2>2
<1>. HIDE DEF Cs, L, O, F
<1>. QED
    BY <1>1, <1>2, <1>3, <1>4, <1>5 DEF One

\* Every frame has as many references as it has holders, and between calls a camera
\* without a thread is quiet (v4l2_thread, ocr_v4l2_stop, ocr_v4l2_get_latest).
THEOREM FramesAreSound == Spec => []FramesSound
<1>1. IInv => FramesSound
  <2>. SUFFICES ASSUME IInv
                PROVE  FramesSound
      OBVIOUS
  <2>1. FramesCounted
    <3>1. \A b \in Buffers : refs[b] = Cardinality(Holders(b))
        BY HoldersAreCounted DEF IInv, Counted
    <3>2. latest # None => slotState[latest] = "IN_USE"
        BY NamedIsReferenced DEF IInv, TypeOK, FreeUnheld
    <3>. QED
        BY <3>1, <3>2 DEF FramesCounted
  <2>2. QuietWhenStopped
      BY NoneAssumption
         DEF IInv, QuietWhenStopped, Stages, AllFree, FreeUnheld, RecyclersAlone, TypeOK
  <2>. QED
      BY <2>1, <2>2 DEF FramesSound, IInv
<1>. QED
    BY <1>1, CaptureInvariance, PTL

\* No frame with a reference is ever in the driver's hands (the comments of
\* v4l2_capture.c on a restart with frames still out).
THEOREM CameraWritesNoHeldFrame == Spec => []CameraWritesUnheld
<1>1. IInv => CameraWritesUnheld
    BY DEF IInv, TypeOK, DriverHasFree, FreeUnheld, Publishing, RecyclersAlone,
           CameraWritesUnheld
<1>. QED
    BY <1>1, CaptureInvariance, PTL

\* Once the thread has the pool's lock, what it dequeued is free in the pool
\* (ocr_pool_acquire_index).
THEOREM DequeuedBufferIsFree == Spec => []DequeuedIsFree
<1>1. IInv => DequeuedIsFree
    BY NoneAssumption
       DEF IInv, DriverHasFree, Publishing, RecyclersAlone, DequeuedIsFree, At
<1>. QED
    BY <1>1, CaptureInvariance, PTL

\* No buffer gets lost between the driver and the program while the stream is on and
\* no queue operation has failed (capture_recycle).
THEOREM NoBufferIsLost == Spec => []NoBufferLost
<1>1. IInv => NoBufferLost
    BY DEF IInv, NoneLost, NoBufferLost
<1>. QED
    BY <1>1, CaptureInvariance, PTL
=============================================================================
