-------------------------- MODULE PipelineNodeProofs -------------------------
(***************************************************************************)
(* Proofs about PipelineNode, for any number of producers, managers and    *)
(* worker names, any depth of the queue and any bounds: the node neither   *)
(* loses nor doubles a reference, has one worker, and implements           *)
(* FrameQueue.                                                             *)
(***************************************************************************)
EXTENDS PipelineNode, FiniteSetTheorems, SequenceTheorems, TLAPS

\* The slot of the ring that is i places behind h.
Slot(h, i) == IF h + i < Depth THEN h + i ELSE h + i - Depth

\* The ring has frames from the head up to the tail and nowhere else.
RingFilled ==
    /\ tail = Slot(head, count)
    /\ \A i \in 0 .. Depth - 1 : ring[Slot(head, i)] # NoFrame <=> i < count

\* Frames pushed so far are in one place each, others nowhere yet.
OwnedOnce ==
    /\ \A f \in 1 .. pushed : \E x : Places(f) = {x}
    /\ \A f \in pushed + 1 .. MaxFrames : Places(f) = {}

\* What each thread has in its hands at each step.
ThreadsHave ==
    /\ \A p \in Producers : /\ ppc[p] \in {"push", "refused"} <=> pframe[p] # NoFrame
                            /\ ppc[p] = "evict" <=> evicted[p] # NoFrame
    /\ \A w \in Workers :
         /\ wpc[w] \in {"process", "selfStop", "unref"} <=> wframe[w] # NoFrame
         /\ wpc[w] \in {"process", "selfStop", "unref", "clear"} => busy
    /\ (\A m \in Managers : mpc[m] # "drop") => drained = {}

\* Only node->thread is alive.
WorkerIsThread == \A w \in Workers : wpc[w] # "none" <=> started /\ thread = w

\* The manager in stop or destroy has the lifecycle lock, and knows whether there
\* is a worker.
ManagerKnows ==
    /\ \A m \in Managers : lifecycle = m <=> mpc[m] # "idle"
    /\ \A m \in Managers : mpc[m] \in {"broadcast", "join"} => started
    /\ \A m \in Managers : mpc[m] \in {"drain", "drop"} => ~started
    /\ started => thread \in Workers
    /\ ~initialized => ~started

\* The inductive invariant.
IInv ==
    /\ TypeOK
    /\ RingFilled
    /\ OwnedOnce
    /\ ThreadsHave
    /\ WorkerIsThread
    /\ ManagerKnows

-----------------------------------------------------------------------------
\* Going round the ring.
LEMMA Around ==
    ASSUME NEW h \in 0 .. Depth - 1, NEW i \in 0 .. Depth
    PROVE  (h + i) % Depth = Slot(h, i) /\ Slot(h, i) \in 0 .. Depth - 1
BY DepthAssumption DEF Slot

\* From any slot on, every slot of the ring comes once.
LEMMA SlotsCoverRing ==
    ASSUME NEW h \in 0 .. Depth - 1
    PROVE  /\ \A i, j \in 0 .. Depth - 1 : Slot(h, i) = Slot(h, j) => i = j
           /\ \A k \in 0 .. Depth - 1 : \E i \in 0 .. Depth - 1 : k = Slot(h, i)
<1>1. \A i, j \in 0 .. Depth - 1 : Slot(h, i) = Slot(h, j) => i = j
    BY DepthAssumption DEF Slot
<1>2. ASSUME NEW k \in 0 .. Depth - 1
      PROVE  \E i \in 0 .. Depth - 1 : k = Slot(h, i)
  <2>. DEFINE i == IF k >= h THEN k - h ELSE k - h + Depth
  <2>1. i \in 0 .. Depth - 1 /\ k = Slot(h, i)
      BY DepthAssumption DEF Slot
  <2>. QED
      BY <2>1
<1>. QED
    BY <1>1, <1>2

\* The same for one slot.
LEMMA Next1 ==
    ASSUME NEW h \in 0 .. Depth - 1
    PROVE  (h + 1) % Depth = Slot(h, 1) /\ Slot(h, 1) \in 0 .. Depth - 1
BY Around, DepthAssumption

\* One slot on is one place less to go.
LEMMA NextSlot ==
    ASSUME NEW h \in 0 .. Depth - 1, NEW i \in 0 .. Depth
    PROVE  /\ Slot(h, 0) = h /\ Slot(h, Depth) = h
           /\ i < Depth => Slot(Slot(h, 1), i) = Slot(h, i + 1) /\ Slot(Slot(h, i), 1) = Slot(h, i + 1)
BY DepthAssumption DEF Slot

\* The reference of f goes from the place x to the place y.
Moves(f, x, y) == x \in Places(f) /\ Places(f)' = (Places(f) \ {x}) \cup {y}

\* References that stay where they are, or move, still are in one place each.
LEMMA OwnedOnceKept ==
    ASSUME TypeOK, OwnedOnce, pushed' = pushed,
           \A f \in 1 .. MaxFrames : Places(f)' = Places(f) \/ \E x, y : Moves(f, x, y)
    PROVE  OwnedOnce'
<1>1. ASSUME NEW f \in 1 .. pushed
      PROVE  \E x : Places(f)' = {x}
  <2>1. f \in 1 .. MaxFrames
      BY BoundsAssumption DEF TypeOK
  <2>2. PICK x : Places(f) = {x}
      BY DEF OwnedOnce
  <2>. QED
      BY <2>1, <2>2 DEF Moves
<1>2. ASSUME NEW f \in pushed + 1 .. MaxFrames
      PROVE  Places(f)' = {}
  <2>1. f \in 1 .. MaxFrames /\ Places(f) = {}
      BY BoundsAssumption DEF TypeOK, OwnedOnce
  <2>. QED
      BY <2>1 DEF Moves
<1>. QED
    BY <1>1, <1>2 DEF OwnedOnce

\* A step that touches no reference leaves each in its place.
LEMMA OwnershipFrame ==
    ASSUME TypeOK, OwnedOnce,
           UNCHANGED <<pframe, evicted, ring, wframe, drained, released, pushed>>
    PROVE  OwnedOnce'
<1>1. \A f \in 1 .. MaxFrames : Places(f)' = Places(f)
    BY DEF Places
<1>. QED
    BY <1>1, OwnedOnceKept

\* A frame that somebody has was pushed.
LEMMA OwnedWasPushed ==
    ASSUME TypeOK, OwnedOnce, NEW f \in Frames, Places(f) # {}
    PROVE  f \in 1 .. pushed
BY BoundsAssumption DEF TypeOK, OwnedOnce, Frames

\* A frame enters the ring at the tail; a full ring turns by one slot.
LEMMA RingPushed ==
    ASSUME TypeOK, RingFilled, NEW f \in Frames,
           ring' = [ring EXCEPT ![tail] = f],
           head' = IF Full THEN (head + 1) % Depth ELSE head,
           tail' = (tail + 1) % Depth,
           count' = IF Full THEN count ELSE count + 1
    PROVE  /\ ring' \in [0 .. Depth - 1 -> Frames \cup {NoFrame}]
           /\ head' \in 0 .. Depth - 1 /\ tail' \in 0 .. Depth - 1 /\ count' \in 0 .. Depth
           /\ Full => tail = head /\ ring[head] # NoFrame
           /\ ~Full => ring[tail] = NoFrame
           /\ \A i \in 0 .. Depth - 1 :
                Full => ring'[Slot(head', i)] =
                            IF i + 1 = Depth THEN f ELSE ring[Slot(head, i + 1)]
           /\ \A i \in 0 .. Depth - 1 :
                ~Full => ring'[Slot(head', i)] = IF i = count THEN f ELSE ring[Slot(head, i)]
           /\ RingFilled'
<1>1. /\ head \in 0 .. Depth - 1 /\ tail \in 0 .. Depth - 1 /\ count \in 0 .. Depth
      /\ ring \in [0 .. Depth - 1 -> Frames \cup {NoFrame}]
      /\ f # NoFrame
    BY DEF TypeOK, Frames, NoFrame, Slot
<1>2. /\ head' = IF Full THEN Slot(head, 1) ELSE head
      /\ tail' = Slot(tail, 1)
      /\ head' \in 0 .. Depth - 1 /\ tail' \in 0 .. Depth - 1
    BY <1>1, Next1 DEF Slot
<1>3. count' \in 0 .. Depth /\ ring' \in [0 .. Depth - 1 -> Frames \cup {NoFrame}]
    BY <1>1, DepthAssumption DEF Full, Slot
<1>4. CASE Full
  <2>1. count = Depth /\ tail = head
      BY <1>1, <1>4, DepthAssumption DEF Full, RingFilled, Slot
  <2>2. ASSUME NEW k \in 0 .. Depth - 1
        PROVE  ring[k] # NoFrame
    <3>1. PICK i \in 0 .. Depth - 1 : k = Slot(head, i)
        BY <1>1, SlotsCoverRing
    <3>. QED
        BY <2>1, <3>1, DepthAssumption DEF RingFilled
  <2>3. ASSUME NEW i \in 0 .. Depth - 1
        PROVE  ring'[Slot(head', i)] = IF i + 1 = Depth THEN f ELSE ring[Slot(head, i + 1)]
    <3>1. Slot(head', i) = Slot(head, i + 1)
        BY <1>1, <1>2, <1>4, DepthAssumption DEF Slot
    <3>2. CASE i + 1 = Depth
        BY <1>1, <2>1, <3>1, <3>2, DepthAssumption DEF Slot
    <3>3. CASE i + 1 # Depth
      <4>1. i + 1 \in 0 .. Depth - 1 /\ 0 \in 0 .. Depth - 1
          BY <3>3, DepthAssumption DEF Slot
      <4>2. Slot(head, i + 1) # head /\ Slot(head, i + 1) \in 0 .. Depth - 1
          BY <1>1, <4>1, DepthAssumption DEF Slot
      <4>. QED
          BY <1>1, <2>1, <3>1, <3>3, <4>2 DEF Slot
    <3>. QED
        BY <3>2, <3>3 DEF Slot
  <2>4. tail' = Slot(head', count')
      BY <1>2, <1>4, <2>1, DepthAssumption DEF Slot
  <2>5. \A i \in 0 .. Depth - 1 : ring'[Slot(head', i)] # NoFrame
    <3>. SUFFICES \A k \in 0 .. Depth - 1 : ring'[k] # NoFrame
        BY <1>2, DepthAssumption DEF Slot
    <3>. QED
        BY <1>1, <2>2 DEF Slot
  <2>. QED
      BY <1>2, <1>3, <1>4, <2>1, <2>2, <2>3, <2>4, <2>5 DEF RingFilled, Slot
<1>5. CASE ~Full
  <2>1. count \in 0 .. Depth - 1 /\ ring[tail] = NoFrame /\ head' = head
      BY <1>1, <1>2, <1>5, DepthAssumption DEF Full, RingFilled, Slot
  <2>2. ASSUME NEW i \in 0 .. Depth - 1
        PROVE  ring'[Slot(head', i)] = IF i = count THEN f ELSE ring[Slot(head, i)]
    <3>1. Slot(head, i) \in 0 .. Depth - 1 /\ (Slot(head, i) = tail <=> i = count)
        BY <1>1, <2>1, DepthAssumption DEF RingFilled, Slot
    <3>. QED
        BY <1>1, <2>1, <3>1
  <2>3. tail' = Slot(head', count')
      BY <1>1, <1>2, <1>5, <2>1, DepthAssumption DEF RingFilled, Slot
  <2>4. \A i \in 0 .. Depth - 1 : ring'[Slot(head', i)] # NoFrame <=> i < count'
      BY <1>1, <1>5, <2>1, <2>2 DEF RingFilled, Slot
  <2>. QED
      BY <1>2, <1>3, <1>5, <2>1, <2>2, <2>3, <2>4 DEF RingFilled, Slot
<1>. QED
    BY <1>4, <1>5 DEF Slot

\* The oldest frame leaves the ring at the head.
LEMMA RingTaken ==
    ASSUME TypeOK, RingFilled, count > 0,
           ring' = [ring EXCEPT ![head] = NoFrame],
           head' = (head + 1) % Depth,
           tail' = tail,
           count' = count - 1
    PROVE  /\ ring' \in [0 .. Depth - 1 -> Frames \cup {NoFrame}]
           /\ head' \in 0 .. Depth - 1 /\ count' \in 0 .. Depth
           /\ ring[head] \in Frames /\ ring[head] # NoFrame
           /\ \A i \in 0 .. Depth - 1 :
                ring'[Slot(head', i)] =
                    IF i + 1 = Depth THEN NoFrame ELSE ring[Slot(head, i + 1)]
           /\ RingFilled'
<1>1. /\ head \in 0 .. Depth - 1 /\ tail \in 0 .. Depth - 1 /\ count \in 1 .. Depth
      /\ ring \in [0 .. Depth - 1 -> Frames \cup {NoFrame}]
    BY DepthAssumption DEF TypeOK, Slot
<1>2. head' = Slot(head, 1) /\ head' \in 0 .. Depth - 1
    BY <1>1, Next1 DEF Slot
<1>3. count' \in 0 .. Depth - 1 /\ ring' \in [0 .. Depth - 1 -> Frames \cup {NoFrame}]
    BY <1>1, DepthAssumption DEF Slot
<1>4. ring[head] \in Frames /\ ring[head] # NoFrame
  <2>1. Slot(head, 0) = head
      BY <1>1, DepthAssumption DEF Slot
  <2>2. ring[Slot(head, 0)] # NoFrame
      BY <1>1, DepthAssumption DEF RingFilled, Slot
  <2>. QED
      BY <1>1, <2>1, <2>2 DEF Slot
<1>5. ASSUME NEW i \in 0 .. Depth - 1
      PROVE  ring'[Slot(head', i)] =
                 IF i + 1 = Depth THEN NoFrame ELSE ring[Slot(head, i + 1)]
  <2>1. Slot(head', i) = Slot(head, i + 1)
      BY <1>1, <1>2, DepthAssumption DEF Slot
  <2>2. CASE i + 1 = Depth
      BY <1>1, <2>1, <2>2, DepthAssumption DEF Slot
  <2>3. CASE i + 1 # Depth
    <3>1. i + 1 \in 0 .. Depth - 1 /\ 0 \in 0 .. Depth - 1
        BY <2>3, DepthAssumption DEF Slot
    <3>2. Slot(head, i + 1) # head /\ Slot(head, i + 1) \in 0 .. Depth - 1
        BY <1>1, <3>1, DepthAssumption DEF Slot
    <3>. QED
        BY <1>1, <2>1, <2>3, <3>2 DEF Slot
  <2>. QED
      BY <2>2, <2>3 DEF Slot
<1>6. tail' = Slot(head', count')
    BY <1>1, <1>2, <1>3, DepthAssumption DEF RingFilled, Slot
<1>7. \A i \in 0 .. Depth - 1 : ring'[Slot(head', i)] # NoFrame <=> i < count'
    BY <1>1, <1>5, DepthAssumption DEF RingFilled
<1>. QED
    BY <1>2, <1>3, <1>4, <1>5, <1>6, <1>7, DepthAssumption DEF RingFilled

-----------------------------------------------------------------------------
\* A step of the workers or the managers that touches neither the queue nor a
\* reference.
LEMMA QuietFrame ==
    ASSUME IInv, UNCHANGED <<queue, pframe, evicted, wframe, drained, released, pushed>>
    PROVE  RingFilled' /\ OwnedOnce'
BY OwnershipFrame DEF IInv, RingFilled, queue

\* The producers.
LEMMA ProducerKeepsIInv ==
    ASSUME IInv, NEW p \in Producers, PushBegin(p) \/ ProducerStep(p)
    PROVE  IInv'
<1>. USE DEF IInv
<1>1. CASE PushBegin(p)
  <2>1. RingFilled'
      BY <1>1 DEF PushBegin, RingFilled, queue
  <2>2. pushed' \in 1 .. MaxFrames /\ pushed' = pushed + 1 /\ pframe[p] = NoFrame
      BY <1>1, BoundsAssumption DEF PushBegin, TypeOK, ThreadsHave
  <2>3. OwnedOnce'
    <3>0. PICK g \in Frames : g = pushed + 1
        BY <2>2 DEF Frames
    <3>1. Places(g)' = {<<"producer", p>>}
      <4>1. Places(g) = {}
          BY <2>2, <3>0, BoundsAssumption DEF OwnedOnce, TypeOK
      <4>2. Places(g)' = Places(g) \cup {<<"producer", p>>}
          BY <1>1, <2>2, <3>0
             DEF PushBegin, TypeOK, Places, Frames, NoFrame, queue, workers, managers
      <4>. QED
          BY <4>1, <4>2
    <3>2. \A f \in Frames \ {g} : Places(f)' = Places(f)
        BY <1>1, <2>2, <3>0, BoundsAssumption
           DEF PushBegin, TypeOK, Places, Frames, NoFrame, queue, workers, managers
    <3>3. ASSUME NEW f \in 1 .. pushed'
          PROVE  \E x : Places(f)' = {x}
      <4>1. CASE f = g
          BY <3>1, <4>1
      <4>2. CASE f # g
        <5>1. f \in 1 .. pushed /\ f \in Frames
            BY <2>2, <3>0, <4>2, BoundsAssumption DEF TypeOK, Frames
        <5>. QED
            BY <3>2, <4>2, <5>1 DEF OwnedOnce
      <4>. QED
          BY <4>1, <4>2
    <3>4. ASSUME NEW f \in pushed' + 1 .. MaxFrames
          PROVE  Places(f)' = {}
      <4>1. f \in pushed + 1 .. MaxFrames /\ f \in Frames \ {g}
          BY <2>2, <3>0, BoundsAssumption DEF TypeOK, Frames
      <4>. QED
          BY <3>2, <4>1 DEF OwnedOnce
    <3>. QED
        BY <3>3, <3>4 DEF OwnedOnce
  <2>4. ThreadsHave'
      BY <1>1, <2>2 DEF PushBegin, TypeOK, ThreadsHave, NoFrame, workers, managers
  <2>. QED
      BY <1>1, <2>1, <2>2, <2>3, <2>4
         DEF PushBegin, TypeOK, WorkerIsThread, ManagerKnows, Frames, flags, queue, workers,
             managers
<1>2. CASE PushSkip(p)
    BY <1>2, QuietFrame
       DEF PushSkip, TypeOK, ThreadsHave, WorkerIsThread, ManagerKnows, flags, queue, workers,
           managers
<1>3. CASE Push(p)
  <2>1. /\ pframe[p] \in Frames /\ evicted[p] = NoFrame
        /\ pframe[p] \in 1 .. pushed /\ Places(pframe[p]) = {<<"producer", p>>}
    <3>1. pframe[p] \in Frames /\ evicted[p] = NoFrame
        BY <1>3 DEF Push, TypeOK, ThreadsHave
    <3>2. <<"producer", p>> \in Places(pframe[p])
        BY DEF Places
    <3>. QED
        BY <3>1, <3>2, OwnedWasPushed DEF OwnedOnce
  <2>2. /\ ring' \in [0 .. Depth - 1 -> Frames \cup {NoFrame}]
        /\ head' \in 0 .. Depth - 1 /\ tail' \in 0 .. Depth - 1 /\ count' \in 0 .. Depth
        /\ Full => tail = head /\ ring[head] # NoFrame
        /\ ~Full => ring[tail] = NoFrame
        /\ RingFilled'
      BY <1>3, <2>1, RingPushed DEF Push
  <2>3. OwnedOnce'
    <3>1. ASSUME NEW f \in 1 .. MaxFrames
          PROVE  Places(f)' = Places(f) \/ \E x, y : Moves(f, x, y)
      <4>1. CASE f = pframe[p]
        <5>1. ring[tail] # f
          <6>1. ring[tail] = f => <<"ring", tail>> \in Places(f)
              BY DEF Places, TypeOK
          <6>. QED
              BY <2>1, <4>1, <6>1
        <5>2. Moves(f, <<"producer", p>>, <<"ring", tail>>)
            BY <1>3, <2>1, <2>2, <4>1, <5>1
               DEF Push, Moves, TypeOK, Places, Frames, NoFrame, managers
        <5>. QED
            BY <5>2
      <4>2. CASE f # pframe[p] /\ Full /\ f = ring[head]
        <5>1. Moves(f, <<"ring", head>>, <<"evicted", p>>)
            BY <1>3, <2>1, <2>2, <4>2
               DEF Push, Moves, TypeOK, Places, Frames, NoFrame, managers
        <5>. QED
            BY <5>1
      <4>3. CASE f # pframe[p] /\ ~(Full /\ f = ring[head])
        <5>1. Places(f)' = Places(f)
            BY <1>3, <2>1, <2>2, <4>3
               DEF Push, TypeOK, Places, Frames, NoFrame, managers
        <5>. QED
            BY <5>1
      <4>. QED
          BY <4>1, <4>2, <4>3
    <3>. QED
        BY <1>3, <3>1, OwnedOnceKept DEF Push
  <2>4. ThreadsHave' /\ WorkerIsThread'
      BY <1>3, <2>1, <2>2
         DEF Push, TypeOK, ThreadsHave, WorkerIsThread, Woken, NoFrame, Frames, flags, managers
  <2>. QED
      BY <1>3, <2>1, <2>2, <2>3, <2>4 DEF Push, TypeOK, ManagerKnows, Woken, flags, managers
<1>4. CASE DropEvicted(p)
  <2>1. evicted[p] \in Frames
      BY <1>4 DEF DropEvicted, TypeOK, ThreadsHave
  <2>2. RingFilled'
      BY <1>4 DEF DropEvicted, RingFilled, queue
  <2>3. OwnedOnce'
    <3>1. ASSUME NEW f \in 1 .. MaxFrames
          PROVE  Places(f)' = Places(f) \/ \E x, y : Moves(f, x, y)
      <4>1. CASE f = evicted[p]
        <5>1. Moves(f, <<"evicted", p>>, <<"released", f>>)
            BY <1>4, <2>1, <4>1
               DEF DropEvicted, Moves, TypeOK, Places, Frames, NoFrame, queue, workers, managers
        <5>. QED
            BY <5>1
      <4>2. CASE f # evicted[p]
          BY <1>4, <2>1, <4>2
             DEF DropEvicted, TypeOK, Places, Frames, NoFrame, queue, workers, managers
      <4>. QED
          BY <4>1, <4>2
    <3>. QED
        BY <1>4, <3>1, OwnedOnceKept DEF DropEvicted
  <2>. QED
      BY <1>4, <2>1, <2>2, <2>3
         DEF DropEvicted, TypeOK, ThreadsHave, WorkerIsThread, ManagerKnows, flags, queue,
             workers, managers
<1>5. CASE DropRefused(p)
  <2>1. pframe[p] \in Frames
      BY <1>5 DEF DropRefused, TypeOK, ThreadsHave
  <2>2. RingFilled'
      BY <1>5 DEF DropRefused, RingFilled, queue
  <2>3. OwnedOnce'
    <3>1. ASSUME NEW f \in 1 .. MaxFrames
          PROVE  Places(f)' = Places(f) \/ \E x, y : Moves(f, x, y)
      <4>1. CASE f = pframe[p]
        <5>1. Moves(f, <<"producer", p>>, <<"released", f>>)
            BY <1>5, <2>1, <4>1
               DEF DropRefused, Moves, TypeOK, Places, Frames, NoFrame, queue, workers, managers
        <5>. QED
            BY <5>1
      <4>2. CASE f # pframe[p]
          BY <1>5, <2>1, <4>2
             DEF DropRefused, TypeOK, Places, Frames, NoFrame, queue, workers, managers
      <4>. QED
          BY <4>1, <4>2
    <3>. QED
        BY <1>5, <3>1, OwnedOnceKept DEF DropRefused
  <2>. QED
      BY <1>5, <2>1, <2>2, <2>3
         DEF DropRefused, TypeOK, ThreadsHave, WorkerIsThread, ManagerKnows, flags, queue,
             workers, managers
<1>. QED
    BY <1>1, <1>2, <1>3, <1>4, <1>5 DEF ProducerStep

\* The worker.
LEMMA WorkerKeepsIInv ==
    ASSUME IInv, NEW w \in Workers, WorkerStep(w) \/ SpuriousWakeup(w) \/ CallStop(w)
    PROVE  IInv'
<1>. USE DEF IInv
<1>1. CASE Sleep(w) \/ SpuriousWakeup(w) \/ Exit(w) \/ Process(w) \/ CallStop(w)
  <2>1. /\ wpc[w] \in {"check", "asleep", "process"}
        /\ wpc' \in [Workers -> {"none", "check", "asleep", "process", "selfStop",
                                 "unref", "clear", "exited"}]
        /\ wpc'[w] # "none" /\ wpc'[w] # "clear"
        /\ wpc'[w] \in {"process", "selfStop", "unref"} <=>
               wpc[w] \in {"process", "selfStop", "unref"}
        /\ \A v \in Workers \ {w} : wpc'[v] = wpc[v]
        /\ UNCHANGED <<flags, queue, producers, managers, wframe, busy, released>>
      BY <1>1 DEF Sleep, SpuriousWakeup, Exit, Process, CallStop, TypeOK
  <2>2. RingFilled' /\ OwnedOnce'
      BY <2>1, QuietFrame DEF producers, managers
  <2>. QED
      BY <2>1, <2>2
         DEF TypeOK, ThreadsHave, WorkerIsThread, ManagerKnows, flags, queue, producers,
             managers
<1>2. CASE Take(w)
  <2>1. /\ ring' \in [0 .. Depth - 1 -> Frames \cup {NoFrame}]
        /\ head' \in 0 .. Depth - 1 /\ count' \in 0 .. Depth
        /\ ring[head] \in Frames /\ ring[head] # NoFrame
        /\ RingFilled'
      BY <1>2, RingTaken DEF Take
  <2>2. wframe[w] = NoFrame
      BY <1>2 DEF Take, ThreadsHave
  <2>3. OwnedOnce'
    <3>1. ASSUME NEW f \in 1 .. MaxFrames
          PROVE  Places(f)' = Places(f) \/ \E x, y : Moves(f, x, y)
      <4>1. CASE f = ring[head]
        <5>1. Moves(f, <<"ring", head>>, <<"worker", w>>)
            BY <1>2, <2>1, <2>2, <4>1
               DEF Take, Moves, TypeOK, Places, Frames, NoFrame, producers, managers
        <5>. QED
            BY <5>1
      <4>2. CASE f # ring[head]
          BY <1>2, <2>1, <2>2, <4>2
             DEF Take, TypeOK, Places, Frames, NoFrame, producers, managers
      <4>. QED
          BY <4>1, <4>2
    <3>. QED
        BY <1>2, <3>1, OwnedOnceKept DEF Take, producers
  <2>. QED
      BY <1>2, <2>1, <2>2, <2>3
         DEF Take, TypeOK, ThreadsHave, WorkerIsThread, ManagerKnows, flags, producers,
             managers
<1>3. CASE SelfStop(w)
    BY <1>3, QuietFrame
       DEF SelfStop, TypeOK, ThreadsHave, WorkerIsThread, ManagerKnows, queue, producers,
           managers
<1>4. CASE Finish(w)
  <2>1. wframe[w] \in Frames
      BY <1>4 DEF Finish, TypeOK, ThreadsHave
  <2>2. RingFilled'
      BY <1>4 DEF Finish, RingFilled, queue
  <2>3. OwnedOnce'
    <3>1. ASSUME NEW f \in 1 .. MaxFrames
          PROVE  Places(f)' = Places(f) \/ \E x, y : Moves(f, x, y)
      <4>1. CASE f = wframe[w]
        <5>1. Moves(f, <<"worker", w>>, <<"released", f>>)
            BY <1>4, <2>1, <4>1
               DEF Finish, Moves, TypeOK, Places, Frames, NoFrame, queue, producers, managers
        <5>. QED
            BY <5>1
      <4>2. CASE f # wframe[w]
          BY <1>4, <2>1, <4>2
             DEF Finish, TypeOK, Places, Frames, NoFrame, queue, producers, managers
      <4>. QED
          BY <4>1, <4>2
    <3>. QED
        BY <1>4, <3>1, OwnedOnceKept DEF Finish, producers
  <2>. QED
      BY <1>4, <2>1, <2>2, <2>3
         DEF Finish, TypeOK, ThreadsHave, WorkerIsThread, ManagerKnows, flags, queue,
             producers, managers
<1>5. CASE ClearBusy(w)
    BY <1>5, QuietFrame
       DEF ClearBusy, TypeOK, ThreadsHave, WorkerIsThread, ManagerKnows, flags, queue,
           producers, managers
<1>. QED
    BY <1>1, <1>2, <1>3, <1>4, <1>5 DEF WorkerStep

\* The managers.
LEMMA ManagerKeepsIInv ==
    ASSUME IInv, NEW m \in Managers,
           \/ SetIdleOnly(m) \/ (\E w \in Workers : Start(m, w))
           \/ (\E op \in {"stop", "destroy"} : StopCall(m, op)) \/ ManagerStep(m)
    PROVE  IInv'
<1>. USE NobodyAssumption, ModesAssumption DEF IInv
<1>1. CASE SetIdleOnly(m)
    BY <1>1, QuietFrame
       DEF SetIdleOnly, TypeOK, ThreadsHave, WorkerIsThread, ManagerKnows, queue, producers,
           workers, managers
<1>2. ASSUME NEW w \in Workers, Start(m, w)
      PROVE  IInv'
  <2>1. starts' \in 0 .. MaxStarts
      BY <1>2, BoundsAssumption DEF Start, TypeOK
  <2>. QED
      BY <1>2, <2>1, QuietFrame
         DEF Start, TypeOK, ThreadsHave, WorkerIsThread, ManagerKnows, queue, producers
<1>3. ASSUME NEW op \in {"stop", "destroy"}, StopCall(m, op)
      PROVE  IInv'
    BY <1>3, QuietFrame
       DEF StopCall, TypeOK, ThreadsHave, WorkerIsThread, ManagerKnows, flags, queue,
           producers, workers
<1>4. CASE StopRequest(m)
  <2>1. /\ running' \in BOOLEAN
        /\ UNCHANGED <<initialized, started, idleOnly, queue, producers, workers, mop,
                       drained, starts, thread, released>>
        /\ lifecycle = m /\ \A k \in Managers \ {m} : mpc[k] = "idle"
      BY <1>4 DEF StopRequest, TypeOK, ManagerKnows
  <2>2. \/ mpc' = [mpc EXCEPT ![m] = "broadcast"] /\ started /\ lifecycle' = m
        \/ mpc' = [mpc EXCEPT ![m] = "drain"] /\ ~started /\ lifecycle' = m
        \/ mpc' = [mpc EXCEPT ![m] = "idle"] /\ ~started /\ lifecycle' = Nobody
      BY <1>4 DEF StopRequest, Stopped
  <2>3. mpc[m] = "stop"
      BY <1>4 DEF StopRequest
  <2>. QED
      BY <2>1, <2>2, <2>3, QuietFrame
         DEF TypeOK, ThreadsHave, WorkerIsThread, ManagerKnows, queue, producers, workers
<1>5. CASE Broadcast(m)
    BY <1>5, QuietFrame
       DEF Broadcast, Woken, TypeOK, ThreadsHave, WorkerIsThread, ManagerKnows, flags, queue,
           producers
<1>6. CASE Join(m)
    BY <1>6, QuietFrame
       DEF Join, Stopped, TypeOK, ThreadsHave, WorkerIsThread, ManagerKnows, queue, producers
<1>7. CASE Drain(m)
  <2>1. drained = {} /\ \A k \in Managers : mpc[k] # "drop"
      BY <1>7 DEF Drain, TypeOK, ThreadsHave, ManagerKnows
  <2>2. /\ ring' = [k \in 0 .. Depth - 1 |-> NoFrame]
        /\ \A f \in Frames : f \in drained' <=> \E k \in 0 .. Depth - 1 : ring[k] = f
        /\ drained' \subseteq Frames
    <3>1. drained' = {ring[Slot(head, i)] : i \in 0 .. count - 1}
      <4>1. \A i \in 0 .. count - 1 : (head + i) % Depth = Slot(head, i)
          BY Around, DepthAssumption DEF TypeOK
      <4>. QED
          BY <1>7, <4>1 DEF Drain
    <3>2. \A i \in 0 .. count - 1 : /\ i \in 0 .. Depth - 1
                                    /\ Slot(head, i) \in 0 .. Depth - 1
                                    /\ ring[Slot(head, i)] \in Frames
      <4>1. \A i \in 0 .. count - 1 : i \in 0 .. Depth - 1
                                      /\ Slot(head, i) \in 0 .. Depth - 1
          BY Around, DepthAssumption DEF TypeOK, Slot
      <4>. QED
          BY <4>1 DEF TypeOK, RingFilled
    <3>3. ASSUME NEW f \in Frames, NEW k \in 0 .. Depth - 1, ring[k] = f
          PROVE  \E i \in 0 .. count - 1 : f = ring[Slot(head, i)]
      <4>1. PICK i \in 0 .. Depth - 1 : k = Slot(head, i)
          BY SlotsCoverRing DEF TypeOK
      <4>2. i \in 0 .. count - 1
          BY <3>3, <4>1, DepthAssumption DEF TypeOK, RingFilled, Frames, NoFrame
      <4>. QED
          BY <3>3, <4>1, <4>2
    <3>. QED
        BY <1>7, <3>1, <3>2, <3>3 DEF Drain
  <2>3. RingFilled'
      BY <1>7, <2>2, DepthAssumption DEF Drain, RingFilled, Slot
  <2>4. OwnedOnce'
    <3>1. ASSUME NEW f \in 1 .. MaxFrames
          PROVE  Places(f)' = Places(f) \/ \E x, y : Moves(f, x, y)
      <4>0. f \in Frames /\ f # NoFrame
          BY DEF Frames, NoFrame
      <4>1. ASSUME NEW k \in 0 .. Depth - 1, ring[k] = f
            PROVE  Moves(f, <<"ring", k>>, <<"drained", f>>)
        <5>1. <<"ring", k>> \in Places(f)
            BY <4>1 DEF Places
        <5>2. Places(f) = {<<"ring", k>>}
            BY <4>0, <5>1, OwnedWasPushed DEF OwnedOnce
        <5>3. \A j \in 0 .. Depth - 1 : ring[j] = f => j = k
          <6>1. \A j \in 0 .. Depth - 1 : ring[j] = f => <<"ring", j>> \in Places(f)
              BY DEF Places
          <6>. QED
              BY <5>2, <6>1
        <5>. QED
            BY <1>7, <2>1, <2>2, <4>0, <4>1, <5>1, <5>3
               DEF Drain, Moves, Places, producers, workers
      <4>2. CASE \A k \in 0 .. Depth - 1 : ring[k] # f
          BY <1>7, <2>1, <2>2, <4>0, <4>2 DEF Drain, Places, producers, workers
      <4>. QED
          BY <4>1, <4>2
    <3>. QED
        BY <1>7, <3>1, OwnedOnceKept DEF Drain, producers
  <2>5. TypeOK'
    <3>1. ring' \in [0 .. Depth - 1 -> Frames \cup {NoFrame}]
        BY <2>2
    <3>2. 0 \in 0 .. Depth - 1 /\ 0 \in 0 .. Depth
        BY DepthAssumption
    <3>. QED
        BY <1>7, <2>2, <3>1, <3>2 DEF Drain, TypeOK, producers, workers
  <2>6. ThreadsHave' /\ WorkerIsThread' /\ ManagerKnows'
      BY <1>7, <2>1
         DEF Drain, TypeOK, ThreadsHave, WorkerIsThread, ManagerKnows, producers, workers
  <2>. QED
      BY <2>3, <2>4, <2>5, <2>6
<1>8. CASE DropDrained(m)
  <2>1. RingFilled'
      BY <1>8 DEF DropDrained, RingFilled, queue
  <2>2. \A k \in Managers \ {m} : mpc[k] = "idle"
      BY <1>8 DEF DropDrained, TypeOK, ManagerKnows
  <2>3. OwnedOnce'
    <3>1. ASSUME NEW f \in 1 .. MaxFrames
          PROVE  Places(f)' = Places(f) \/ \E x, y : Moves(f, x, y)
      <4>1. CASE f \in drained
        <5>1. Moves(f, <<"drained", f>>, <<"released", f>>)
            BY <1>8, <4>1 DEF DropDrained, Moves, Places, queue, producers, workers
        <5>. QED
            BY <5>1
      <4>2. CASE f \notin drained
          BY <1>8, <4>2 DEF DropDrained, Places, queue, producers, workers
      <4>. QED
          BY <4>1, <4>2
    <3>. QED
        BY <1>8, <3>1, OwnedOnceKept DEF DropDrained, producers
  <2>. QED
      BY <1>8, <2>1, <2>2, <2>3
         DEF DropDrained, TypeOK, ThreadsHave, WorkerIsThread, ManagerKnows, flags, queue,
             producers, workers
<1>. QED
    BY <1>1, <1>2, <1>3, <1>4, <1>5, <1>6, <1>7, <1>8 DEF ManagerStep

\* A node that was just initialised.
LEMMA InitIInv == Init => IInv
<1>. SUFFICES ASSUME Init
              PROVE  IInv
    OBVIOUS
<1>1. TypeOK
  <2>1. ring \in [0 .. Depth - 1 -> Frames \cup {NoFrame}]
      BY DEF Init
  <2>2. /\ 0 \in 0 .. Depth - 1 /\ 0 \in 0 .. Depth
        /\ 0 \in 0 .. MaxFrames /\ 0 \in 0 .. MaxStarts
      BY DepthAssumption, BoundsAssumption
  <2>. QED
      BY <2>1, <2>2 DEF Init, TypeOK
<1>2. RingFilled
    BY DepthAssumption DEF Init, RingFilled, Slot
<1>3. OwnedOnce
    BY BoundsAssumption DEF Init, OwnedOnce, Places, NoFrame
<1>. QED
    BY <1>1, <1>2, <1>3, NobodyAssumption
       DEF Init, IInv, ThreadsHave, WorkerIsThread, ManagerKnows

\* Every step keeps the inductive invariant.
LEMMA StepIInv == IInv /\ [Next]_vars => IInv'
<1>1. CASE IInv /\ Next
    BY <1>1, ProducerKeepsIInv, WorkerKeepsIInv, ManagerKeepsIInv DEF Next
<1>2. CASE IInv /\ UNCHANGED vars
    BY <1>2, QuietFrame
       DEF vars, flags, queue, producers, workers, managers, IInv, TypeOK, ThreadsHave,
           WorkerIsThread, ManagerKnows
<1>. QED
    BY <1>1, <1>2

\* The inductive invariant holds in every reachable state.
THEOREM NodeInvariance == Spec => []IInv
BY InitIInv, StepIInv, PTL DEF Spec

\* Every reference given to the node is in one place, and there is one worker, which
\* destroy outlives (ocr_node_push_input, ocr_node_thread_entry, ocr_node_destroy).
THEOREM NodeIsSound == Spec => []NodeSound
<1>1. IInv => NodeSound
  <2>. SUFFICES ASSUME IInv
                PROVE  NodeSound
      OBVIOUS
  <2>1. FrameOwnedOnce
      BY FS_Singleton DEF IInv, OwnedOnce, FrameOwnedOnce
  <2>2. Cardinality({w \in Workers : wpc[w] # "none"}) <= 1
    <3>. DEFINE alive == {w \in Workers : wpc[w] # "none"}
    <3>1. alive \in SUBSET {thread}
        BY DEF IInv, WorkerIsThread
    <3>2. IsFiniteSet({thread}) /\ Cardinality({thread}) = 1
        BY FS_Singleton
    <3>3. Cardinality(alive) <= Cardinality({thread})
        BY <3>1, <3>2, FS_Subset
    <3>. QED
        BY <3>2, <3>3
  <2>3. OneWorker
      BY <2>2 DEF IInv, WorkerIsThread, ManagerKnows, OneWorker
  <2>. QED
      BY <2>1, <2>3 DEF IInv, NodeSound
<1>. QED
    BY <1>1, NodeInvariance, PTL

-----------------------------------------------------------------------------
\* What FrameQueue sees of the node: the frames from the head on, and the frame
\* of the worker.
LEMMA QueueView ==
    IInv => /\ Waiting \in Seq(Frames) /\ Len(Waiting) = count
            /\ \A i \in 1 .. count : Waiting[i] = ring[Slot(head, i - 1)]
            /\ (\A w \in Workers : wframe[w] = NoFrame) => Current = NoFrame
            /\ \A w \in Workers :
                 wframe[w] # NoFrame => Current = wframe[w] /\ wpc[w] # "none" /\ thread = w
<1>. SUFFICES ASSUME IInv
              PROVE  /\ Waiting \in Seq(Frames) /\ Len(Waiting) = count
                     /\ \A i \in 1 .. count : Waiting[i] = ring[Slot(head, i - 1)]
                     /\ (\A w \in Workers : wframe[w] = NoFrame) => Current = NoFrame
                     /\ \A w \in Workers :
                          wframe[w] # NoFrame =>
                              Current = wframe[w] /\ wpc[w] # "none" /\ thread = w
    OBVIOUS
<1>1. count \in Nat /\ head \in 0 .. Depth - 1
    BY DepthAssumption DEF IInv, TypeOK
<1>2. ASSUME NEW i \in 1 .. count
      PROVE  /\ (head + i - 1) % Depth = Slot(head, i - 1)
             /\ ring[Slot(head, i - 1)] \in Frames
  <2>1. /\ i - 1 \in 0 .. Depth - 1 /\ i - 1 < count
        /\ (head + i - 1) % Depth = (head + (i - 1)) % Depth
      BY DepthAssumption DEF IInv, TypeOK
  <2>2. (head + (i - 1)) % Depth = Slot(head, i - 1) /\ Slot(head, i - 1) \in 0 .. Depth - 1
      BY <1>1, <2>1, Around, DepthAssumption
  <2>. QED
      BY <2>1, <2>2 DEF IInv, TypeOK, RingFilled
<1>3. Waiting = [i \in 1 .. count |-> ring[Slot(head, i - 1)]]
    BY <1>2 DEF Waiting
<1>4. Waiting \in Seq(Frames) /\ Len(Waiting) = count
  <2>1. Waiting \in [1 .. count -> Frames]
      BY <1>2, <1>3
  <2>2. Waiting \in Seq(Frames)
      BY <1>1, <2>1, SeqDef
  <2>3. 1 .. count = 1 .. Len(Waiting) /\ Len(Waiting) \in Nat
      BY <2>1, <2>2, LenProperties
  <2>. QED
      BY <1>1, <2>2, <2>3
<1>5. \A v, w \in Workers : wframe[v] # NoFrame /\ wframe[w] # NoFrame => v = w /\ thread = w
                             /\ wpc[w] # "none"
    BY DEF IInv, TypeOK, ThreadsHave, WorkerIsThread
<1>6. ASSUME NEW w \in Workers, wframe[w] # NoFrame
      PROVE  Current = wframe[w]
  <2>1. Current = wframe[CHOOSE v \in Workers : wframe[v] # NoFrame]
      BY <1>6 DEF Current
  <2>2. (CHOOSE v \in Workers : wframe[v] # NoFrame) = w
      BY <1>5, <1>6
  <2>. QED
      BY <2>1, <2>2
<1>. QED
    BY <1>3, <1>4, <1>5, <1>6 DEF Current

\* The same in the next state.
LEMMA QueueViewNext ==
    IInv' => /\ Waiting' \in Seq(Frames) /\ Len(Waiting') = count'
             /\ \A i \in 1 .. count' : Waiting'[i] = ring'[Slot(head', i - 1)]
             /\ (\A w \in Workers : wframe'[w] = NoFrame) => Current' = NoFrame
             /\ \A w \in Workers :
                  wframe'[w] # NoFrame => Current' = wframe'[w] /\ wpc'[w] # "none" /\ thread' = w
<1>1. (IInv => /\ Waiting \in Seq(Frames) /\ Len(Waiting) = count
               /\ \A i \in 1 .. count : Waiting[i] = ring[Slot(head, i - 1)]
               /\ (\A w \in Workers : wframe[w] = NoFrame) => Current = NoFrame
               /\ \A w \in Workers :
                    wframe[w] # NoFrame => Current = wframe[w] /\ wpc[w] # "none" /\ thread = w)'
    BY QueueView, PTL
<1>. QED
    BY <1>1

\* Every step of the node is a step of the queue or none (node.h:82-101).
LEMMA NodeImplementsStep == IInv /\ IInv' /\ [Next]_vars => [Queue!Next]_(Queue!vars)
<1>. SUFFICES ASSUME IInv, IInv', [Next]_vars
              PROVE  [Queue!Next]_(Queue!vars)
    OBVIOUS
<1>. USE DEF Queue!vars
<1>1. ASSUME UNCHANGED <<ring, head, count, wframe, idleOnly>>
      PROVE  UNCHANGED <<Waiting, Current, idleOnly>>
    BY <1>1 DEF Waiting, Current
<1>2. ASSUME NEW p \in Producers, Push(p)
      PROVE  Queue!Next
  <2>1. pframe[p] \in Frames
      BY <1>2 DEF Push, IInv, TypeOK, ThreadsHave
  <2>2. Current' = Current /\ idleOnly' = idleOnly
      BY <1>2 DEF Push, Current, flags
  <2>3. idleOnly => Waiting = << >> /\ Current = NoFrame
    <3>1. idleOnly => ~busy /\ count = 0
        BY <1>2, DepthAssumption DEF Push, IInv, TypeOK
    <3>2. ~busy => \A w \in Workers : wframe[w] = NoFrame
        BY DEF IInv, ThreadsHave
    <3>. QED
        BY <3>1, <3>2, QueueView, EmptySeq
  <2>4. /\ Full <=> Len(Waiting) = Depth
        /\ \A i \in 0 .. Depth - 1 :
             Full => ring'[Slot(head', i)] =
                         IF i + 1 = Depth THEN pframe[p] ELSE ring[Slot(head, i + 1)]
        /\ \A i \in 0 .. Depth - 1 :
             ~Full => ring'[Slot(head', i)] =
                         IF i = count THEN pframe[p] ELSE ring[Slot(head, i)]
    <3>1. Full <=> Len(Waiting) = Depth
        BY QueueView, DepthAssumption DEF IInv, TypeOK, Full
    <3>. QED
        BY <1>2, <2>1, <3>1, RingPushed DEF Push, IInv
  <2>5. Waiting' = Append(IF Len(Waiting) = Depth THEN Tail(Waiting) ELSE Waiting, pframe[p])
    <3>. DEFINE rest == IF Len(Waiting) = Depth THEN Tail(Waiting) ELSE Waiting
    <3>1. /\ Waiting \in Seq(Frames) /\ Len(Waiting) = count
          /\ Waiting' \in Seq(Frames) /\ Len(Waiting') = count'
          /\ \A i \in 1 .. count : Waiting[i] = ring[Slot(head, i - 1)]
          /\ \A i \in 1 .. count' : Waiting'[i] = ring'[Slot(head', i - 1)]
        BY QueueView, QueueViewNext
    <3>2. CASE Full
      <4>1. count = Depth /\ count' = Depth /\ Waiting # << >>
          BY <1>2, <2>4, <3>1, <3>2, DepthAssumption, EmptySeq DEF Push
      <4>2. /\ Tail(Waiting) \in Seq(Frames) /\ Len(Tail(Waiting)) = Depth - 1
            /\ \A i \in 1 .. Depth - 1 : Tail(Waiting)[i] = Waiting[i + 1]
          BY <3>1, <4>1, HeadTailProperties, DepthAssumption
      <4>3. /\ Append(Tail(Waiting), pframe[p]) \in Seq(Frames)
            /\ Len(Append(Tail(Waiting), pframe[p])) = Depth
            /\ \A i \in 1 .. Depth : Append(Tail(Waiting), pframe[p])[i] =
                 IF i = Depth THEN pframe[p] ELSE Waiting[i + 1]
          BY <2>1, <4>2, DepthAssumption
      <4>4. \A i \in 1 .. Depth : Waiting'[i] = IF i = Depth THEN pframe[p] ELSE Waiting[i + 1]
        <5>1. ASSUME NEW i \in 1 .. Depth
              PROVE  Waiting'[i] = IF i = Depth THEN pframe[p] ELSE Waiting[i + 1]
          <6>1. Waiting'[i] = IF i = Depth THEN pframe[p] ELSE ring[Slot(head, i)]
            <7>1. PICK j \in 0 .. Depth - 1 : j = i - 1 /\ j + 1 = i
                BY DepthAssumption
            <7>. QED
                BY <2>4, <3>1, <3>2, <4>1, <7>1
          <6>2. i # Depth => Waiting[i + 1] = ring[Slot(head, i)]
            <7>1. i # Depth => i + 1 \in 1 .. count /\ (i + 1) - 1 = i
                BY <4>1, DepthAssumption
            <7>. QED
                BY <3>1, <7>1
          <6>. QED
              BY <6>1, <6>2
        <5>. QED
            BY <5>1
      <4>5. Waiting' = Append(Tail(Waiting), pframe[p])
          BY <3>1, <4>1, <4>3, <4>4, SeqEqual
      <4>. QED
          BY <3>1, <4>1, <4>5
    <3>3. CASE ~Full
      <4>1. count < Depth /\ count' = count + 1 /\ count \in Nat
          BY <1>2, <3>3, DepthAssumption DEF Push, Full, IInv, TypeOK
      <4>2. /\ Append(Waiting, pframe[p]) \in Seq(Frames)
            /\ Len(Append(Waiting, pframe[p])) = count + 1
            /\ \A i \in 1 .. count + 1 : Append(Waiting, pframe[p])[i] =
                 IF i = count + 1 THEN pframe[p] ELSE Waiting[i]
          BY <2>1, <3>1, <4>1
      <4>3. ASSUME NEW i \in 1 .. count + 1
            PROVE  Waiting'[i] = IF i = count + 1 THEN pframe[p] ELSE Waiting[i]
        <5>1. PICK j \in 0 .. Depth - 1 : j = i - 1 /\ j + 1 = i
            BY <4>1, DepthAssumption
        <5>2. Waiting'[i] = IF j = count THEN pframe[p] ELSE ring[Slot(head, j)]
            BY <2>4, <3>1, <3>3, <4>1, <5>1
        <5>3. i # count + 1 => Waiting[i] = ring[Slot(head, j)]
            BY <3>1, <4>1, <5>1
        <5>. QED
            BY <4>1, <5>1, <5>2, <5>3
      <4>4. Waiting' = Append(Waiting, pframe[p])
          BY <3>1, <4>1, <4>2, <4>3, SeqEqual
      <4>. QED
          BY <3>1, <4>1, <4>4, DepthAssumption
    <3>. QED
        BY <3>2, <3>3
  <2>6. Queue!Accept(pframe[p])
      BY <2>2, <2>3, <2>5 DEF Queue!Accept
  <2>. QED
      BY <2>1, <2>6 DEF Queue!Next
<1>3. ASSUME NEW w \in Workers, Take(w)
      PROVE  Queue!Next
  <2>1. /\ Waiting \in Seq(Frames) /\ Len(Waiting) = count
        /\ Waiting' \in Seq(Frames) /\ Len(Waiting') = count'
        /\ \A i \in 1 .. count : Waiting[i] = ring[Slot(head, i - 1)]
        /\ \A i \in 1 .. count' : Waiting'[i] = ring'[Slot(head', i - 1)]
      BY QueueView, QueueViewNext
  <2>2. /\ ring[head] \in Frames /\ ring[head] # NoFrame
        /\ \A i \in 0 .. Depth - 1 :
             ring'[Slot(head', i)] =
                 IF i + 1 = Depth THEN NoFrame ELSE ring[Slot(head, i + 1)]
      BY <1>3, RingTaken DEF Take, IInv
  <2>3. /\ count \in 1 .. Depth /\ count' = count - 1 /\ Waiting # << >>
        /\ Slot(head, 0) = head
      BY <1>3, <2>1, NextSlot, DepthAssumption, EmptySeq DEF Take, IInv, TypeOK
  <2>4. Current = NoFrame /\ Current' = Waiting[1] /\ idleOnly' = idleOnly
    <3>1. \A v \in Workers : wframe[v] = NoFrame
        BY <1>3 DEF Take, IInv, ThreadsHave, WorkerIsThread
    <3>2. wframe'[w] = ring[head]
        BY <1>3 DEF Take, IInv, TypeOK
    <3>3. Waiting[1] = ring[head]
        BY <2>1, <2>3
    <3>. QED
        BY <1>3, <2>2, <3>1, <3>2, <3>3, QueueView, QueueViewNext DEF Take, flags
  <2>5. Waiting' = Tail(Waiting)
    <3>1. /\ Tail(Waiting) \in Seq(Frames) /\ Len(Tail(Waiting)) = count - 1
          /\ \A i \in 1 .. count - 1 : Tail(Waiting)[i] = Waiting[i + 1]
        BY <2>1, <2>3, HeadTailProperties
    <3>2. ASSUME NEW i \in 1 .. count - 1
          PROVE  Waiting'[i] = Waiting[i + 1]
      <4>1. PICK j \in 0 .. Depth - 1 : j = i - 1 /\ j + 1 = i /\ j + 1 # Depth
          BY <2>3, DepthAssumption
      <4>2. Waiting'[i] = ring[Slot(head, i)]
          BY <2>1, <2>2, <2>3, <4>1
      <4>3. i + 1 \in 1 .. count /\ (i + 1) - 1 = i
          BY <2>3
      <4>. QED
          BY <2>1, <4>2, <4>3
    <3>. QED
        BY <2>1, <2>3, <3>1, <3>2, SeqEqual
  <2>6. Queue!Serve
      BY <2>1, <2>3, <2>4, <2>5 DEF Queue!Serve
  <2>. QED
      BY <2>6 DEF Queue!Next
<1>4. ASSUME NEW w \in Workers, Finish(w)
      PROVE  Queue!Next
  <2>1. Current # NoFrame
      BY <1>4, QueueView DEF Finish, IInv, ThreadsHave
  <2>2. Current' = NoFrame
    <3>1. \A v \in Workers : wframe'[v] = NoFrame
        BY <1>4 DEF Finish, IInv, TypeOK, ThreadsHave, WorkerIsThread
    <3>. QED
        BY <3>1, QueueViewNext
  <2>3. Waiting' = Waiting /\ idleOnly' = idleOnly
      BY <1>4 DEF Finish, Waiting, queue, flags
  <2>. QED
      BY <2>1, <2>2, <2>3 DEF Queue!Finish, Queue!Next
<1>5. ASSUME NEW m \in Managers, Drain(m)
      PROVE  Queue!Next
  <2>1. \A w \in Workers : wframe[w] = NoFrame
      BY <1>5 DEF Drain, IInv, ThreadsHave, WorkerIsThread, ManagerKnows
  <2>2. Current = NoFrame
      BY <2>1, QueueView
  <2>3. Current' = Current /\ idleOnly' = idleOnly
      BY <1>5 DEF Drain, Current, workers
  <2>4. Waiting' = << >>
      BY <1>5, QueueViewNext, EmptySeq DEF Drain
  <2>. QED
      BY <2>2, <2>3, <2>4 DEF Queue!Discard, Queue!Next
<1>6. ASSUME NEW m \in Managers, SetIdleOnly(m)
      PROVE  Queue!Next
  <2>1. Current = NoFrame
    <3>1. \A w \in Workers : wframe[w] = NoFrame
        BY <1>6 DEF SetIdleOnly, IInv, ThreadsHave, WorkerIsThread
    <3>. QED
        BY <3>1, QueueView
  <2>2. Waiting' = Waiting /\ Current' = Current /\ idleOnly' \in BOOLEAN
      BY <1>6, ModesAssumption DEF SetIdleOnly, Waiting, Current, queue, workers
  <2>. QED
      BY <2>1, <2>2 DEF Queue!Configure, Queue!Next
<1>7. ASSUME NEW p \in Producers,
             PushBegin(p) \/ PushSkip(p) \/ DropEvicted(p) \/ DropRefused(p)
      PROVE  UNCHANGED <<ring, head, count, wframe, idleOnly>>
    BY <1>7 DEF PushBegin, PushSkip, DropEvicted, DropRefused, flags, queue, workers
<1>8. ASSUME NEW w \in Workers,
             \/ Sleep(w) \/ SpuriousWakeup(w) \/ Exit(w) \/ Process(w) \/ CallStop(w)
             \/ SelfStop(w) \/ ClearBusy(w)
      PROVE  UNCHANGED <<ring, head, count, wframe, idleOnly>>
    BY <1>8 DEF Sleep, SpuriousWakeup, Exit, Process, CallStop, SelfStop, ClearBusy, flags, queue
<1>9. ASSUME NEW m \in Managers,
             \/ (\E w \in Workers : Start(m, w))
             \/ (\E op \in {"stop", "destroy"} : StopCall(m, op))
             \/ StopRequest(m) \/ Broadcast(m) \/ Join(m) \/ DropDrained(m)
      PROVE  UNCHANGED <<ring, head, count, wframe, idleOnly>>
    BY <1>9 DEF Start, StopCall, StopRequest, Broadcast, Join, DropDrained, flags, queue, workers
<1>10. CASE UNCHANGED vars
    BY <1>1, <1>10 DEF vars, queue, workers, flags
<1>. QED
    BY <1>1, <1>2, <1>3, <1>4, <1>5, <1>6, <1>7, <1>8, <1>9, <1>10
       DEF Next, ProducerStep, WorkerStep, ManagerStep

\* The node implements the queue that its header promises: first come first served,
\* one frame at a time, the oldest dropped when full, one frame if only when idle.
THEOREM NodeImplementsQueue == Spec => QueueSpec
<1>1. Init => Queue!Init
  <2>. SUFFICES ASSUME Init
                PROVE  Queue!Init
      OBVIOUS
  <2>1. Waiting = << >>
      BY InitIInv, QueueView, EmptySeq DEF Init
  <2>2. Current = NoFrame
      BY InitIInv, QueueView DEF Init
  <2>. QED
      BY <2>1, <2>2 DEF Init, Queue!Init
<1>2. IInv /\ IInv' /\ [Next]_vars => [Queue!Next]_(Queue!vars)
    BY NodeImplementsStep
<1>. QED
    BY <1>1, <1>2, NodeInvariance, PTL DEF Spec, QueueSpec, Queue!Spec
=============================================================================
