-------------------------- MODULE FrameFlowProofs --------------------------
(***************************************************************************)
(* What FrameFlow's runs check on small instances, proved for every pool,  *)
(* every queue length and every frame number: reference counts, the RGA's  *)
(* exclusive use of what it writes, the order of cleanup, and the order in *)
(* which frames get to the screen.                                         *)
(***************************************************************************)
EXTENDS FrameFlow, FiniteSetTheorems, FunctionTheorems, TLAPS

\* What each thread's locals hold at each of its steps.
LocalsHeld ==
    /\ cpc = "deliver" <=> cbuf # None
    /\ cold # None => cpc = "deliver"
    /\ rpc \in {"check", "exited"} <=> rin = None
    /\ rpc \in {"blit", "emitDisplay", "emitOcr"} => rout # None
    /\ rpc \in {"check", "acquire", "exited"} => rout = None
    /\ dpc \in {"check", "exited"} <=> din = None
    /\ opc = "read" <=> oin # None
    /\ mbuf # None => mpc = "run"

\* What main has waited for at each step of cleanup, and what it has given back.
Dismantled ==
    /\ streaming <=> mpc \in {"run", "streamOff"}
    /\ mpc \notin {"run", "streamOff", "joinCapture"} => cpc = "exited" /\ latest = None
    /\ mpc \notin {"run", "streamOff", "joinCapture", "joinOcr"} => opc = "exited"
    /\ mpc \notin {"run", "streamOff", "joinCapture", "joinOcr", "joinDisplay"} =>
         dpc = "exited"
    /\ mpc \in {"drain", "sink", "kept", "pools", "closed", "leaked"} => rpc = "exited"
    /\ mpc \in {"sink", "kept", "pools", "closed", "leaked"} =>
         \A n \in Nodes : queue[n] = <<>>
    /\ mpc \in {"pools", "closed", "leaked"} =>
         current = None /\ scan = None /\ pending = None

\* Once shutdown has begun the capture thread has been told to go.
ThreadTold == mpc # "run" => ~capRunning

\* As long as no wait has failed the screen reads the sink's frame, and the next
\* one only between the flip and its event.
ScreenKnown ==
    ~faulted =>
        /\ flipOf = "live"
        /\ dpc # "wait" => pending = None /\ scan = current /\ events = {}
        /\ dpc = "wait" =>
             \/ pending = din /\ scan = current /\ events = {}
             \/ pending = None /\ scan = din /\ events = {"live"}

InQueue(b) == \E n \in Nodes : \E i \in 1 .. Len(queue[n]) : queue[n][i] = b

\* Nobody but the RGA worker has the buffer that the RGA writes.
WrittenAlone ==
    rpc = "blit" => ~InQueue(rout) /\ rout \notin {din, oin, current}

Entries(n) == {queue[n][i] : i \in 1 .. Len(queue[n])}

\* What is shown or waits for it, and what the RGA has still to do.
Shown == ({current, din} \cup Entries("display")) \ {None}
Coming == ({rin, cbuf} \cup Entries("rga")) \ {None}

InOrder(q) == \A i, j \in 1 .. Len(q) : i <= j => frameId[q[i]] <= frameId[q[j]]

\* Frames keep the order in which the camera numbered them.
PathOrdered ==
    /\ \A b \in Buffers : frameId[b] <= seq
    /\ rout # None => frameId[rout] = frameId[rin]
    /\ \A x \in Shown, y \in Coming : frameId[x] <= frameId[y]
    /\ InOrder(queue["display"]) /\ InOrder(queue["rga"])
    /\ current # None /\ din # None => frameId[current] <= frameId[din]
    /\ \A x \in {current, din} \ {None}, y \in Entries("display") : frameId[x] <= frameId[y]
    /\ rin # None => \A y \in Entries("rga") : frameId[rin] <= frameId[y]
    /\ cbuf # None => \A x \in ({rin} \cup Entries("rga")) \ {None} : frameId[x] <= frameId[cbuf]

IInv ==
    /\ TypeOK
    /\ RefsBalanced
    /\ CameraOwnsRest
    /\ LocalsHeld
    /\ Dismantled
    /\ ThreadTold
    /\ ScreenKnown
    /\ WrittenAlone
    /\ PathOrdered
    /\ NothingLeaked

-----------------------------------------------------------------------------
(* How often a queue names a buffer. *)

\* A queue names a buffer a natural number of times, none if it is nowhere in it.
LEMMA OccursSome ==
    ASSUME NEW S, NEW q \in Seq(S), NEW b
    PROVE  /\ IsFiniteSet({i \in 1 .. Len(q) : q[i] = b})
           /\ Occurs(q, b) \in Nat
           /\ Occurs(q, b) = 0 <=> \A i \in 1 .. Len(q) : q[i] # b
<1>. DEFINE I == {i \in 1 .. Len(q) : q[i] = b}
<1>1. Len(q) \in Nat
    OBVIOUS
<1>2. IsFiniteSet(1 .. Len(q))
    BY <1>1, FS_Interval
<1>3. IsFiniteSet(I)
    BY <1>2, FS_Subset
<1>4. Cardinality(I) \in Nat /\ (Cardinality(I) = 0 <=> I = {})
    BY <1>3, FS_CardinalityType, FS_EmptySet
<1>. QED
    BY <1>3, <1>4 DEF Occurs

\* An empty queue names none.
LEMMA OccursEmpty == \A b : Occurs(<<>>, b) = 0
<1>. SUFFICES ASSUME NEW b
              PROVE  Occurs(<<>>, b) = 0
    OBVIOUS
<1>1. <<>> \in Seq({}) /\ \A i \in 1 .. Len(<<>>) : FALSE
    OBVIOUS
<1>2. Occurs(<<>>, b) = 0 <=> \A i \in 1 .. Len(<<>>) : <<>>[i] # b
    BY <1>1, OccursSome
<1>. QED
    BY <1>1, <1>2

\* Appending an entry adds one to what that entry occurs.
LEMMA OccursAppend ==
    ASSUME NEW S, NEW q \in Seq(S), NEW x \in S, NEW b
    PROVE  Occurs(Append(q, x), b) = Occurs(q, b) + One(x = b)
<1>. DEFINE I == {i \in 1 .. Len(q) : q[i] = b}
            J == {i \in 1 .. Len(Append(q, x)) : Append(q, x)[i] = b}
<1>0. Occurs(q, b) = Cardinality(I) /\ Occurs(Append(q, x), b) = Cardinality(J)
    BY DEF Occurs
<1>1. IsFiniteSet(I)
    BY OccursSome
<1>2. Len(q) + 1 \notin I
    OBVIOUS
<1>3. Cardinality(I) \in Nat
    BY <1>1, FS_CardinalityType
<1>4. CASE x = b
  <2>1. J = I \cup {Len(q) + 1}
      BY <1>4
  <2>2. One(x = b) = 1
      BY <1>4 DEF One
  <2>. HIDE DEF I, J
  <2>3. Cardinality(I \cup {Len(q) + 1}) = Cardinality(I) + 1
      BY <1>1, <1>2, FS_AddElement
  <2>. QED
      BY <1>0, <2>1, <2>2, <2>3
<1>5. CASE x # b
  <2>1. J = I
      BY <1>5
  <2>2. One(x = b) = 0
      BY <1>5 DEF One
  <2>. HIDE DEF I, J
  <2>. QED
      BY <1>0, <1>3, <2>1, <2>2
<1>. QED
    BY <1>4, <1>5

\* Taking the first entry away takes one from what that entry occurs.
LEMMA OccursTail ==
    ASSUME NEW S, NEW q \in Seq(S), q # <<>>, NEW b
    PROVE  Occurs(q, b) = Occurs(Tail(q), b) + One(Head(q) = b)
<1>. DEFINE I == {i \in 1 .. Len(q) : q[i] = b}
            J == {i \in 1 .. Len(Tail(q)) : Tail(q)[i] = b}
            f == [i \in J |-> i + 1]
<1>0. Occurs(q, b) = Cardinality(I) /\ Occurs(Tail(q), b) = Cardinality(J)
    BY DEF Occurs
<1>1. IsFiniteSet(I) /\ Cardinality(I) \in Nat
    BY OccursSome DEF Occurs
<1>2. Tail(q) \in Seq(S) /\ Len(Tail(q)) = Len(q) - 1 /\ Len(q) \in Nat /\ Len(q) >= 1
    OBVIOUS
<1>3. \A i \in 1 .. Len(Tail(q)) : Tail(q)[i] = q[i + 1]
    BY <1>2
<1>4. IsFiniteSet(J) /\ Cardinality(J) \in Nat
    BY <1>2, OccursSome DEF Occurs
<1>5. f \in [J -> I \ {1}]
    BY <1>2, <1>3
<1>6. \A i, j \in J : f[i] = f[j] => i = j
    BY <1>2
<1>7. ASSUME NEW t \in I \ {1}
      PROVE  \E i \in J : f[i] = t
  <2>1. t \in 2 .. Len(q) /\ q[t] = b /\ t - 1 \in 1 .. Len(Tail(q))
      BY <1>2
  <2>2. t - 1 \in J
      BY <2>1, <1>3
  <2>3. f[t - 1] = t
      BY <2>1, <2>2
  <2>. QED
      BY <2>2, <2>3
<1>. HIDE DEF f, I, J
<1>8. f \in Bijection(J, I \ {1})
    BY <1>5, <1>6, <1>7, Fun_IsBij
<1>9. Cardinality(I \ {1}) = Cardinality(J)
    BY <1>4, <1>8, FS_Bijection DEF ExistsBijection
<1>10. Cardinality(I \ {1}) = IF 1 \in I THEN Cardinality(I) - 1 ELSE Cardinality(I)
    BY <1>1, FS_RemoveElement
<1>11. 1 \in I <=> Head(q) = b
    BY <1>2 DEF I
<1>. QED
    BY <1>0, <1>1, <1>4, <1>9, <1>10, <1>11 DEF One

\* What a push makes of a queue: the frame at its end, and if it was full, the
\* frame at its head given up.
LEMMA PushedShape ==
    ASSUME NEW S, None \notin S, NEW n, queue[n] \in Seq(S), Len(queue[n]) <= Depth,
           NEW b \in S
    PROVE  /\ Pushed(n, b) \in Seq(S) /\ Len(Pushed(n, b)) <= Depth
           /\ Evicted(n) \in S \cup {None}
           /\ \A c \in S : Occurs(Pushed(n, b), c) + One(Evicted(n) = c)
                             = Occurs(queue[n], c) + One(b = c)
           /\ \A i \in 1 .. Len(Pushed(n, b)) :
                IF i = Len(Pushed(n, b))
                THEN Pushed(n, b)[i] = b
                ELSE \E j \in 1 .. Len(queue[n]) :
                       /\ Pushed(n, b)[i] = queue[n][j]
                       /\ j = IF Full(n) THEN i + 1 ELSE i
<1>. DEFINE q == queue[n]
            h == IF Full(n) THEN Tail(q) ELSE q
<1>1. Depth \in Nat \ {0} /\ Len(q) \in Nat
    BY BoundsAssumption
<1>2. Full(n) => q # <<>> /\ Len(q) = Depth
    BY <1>1 DEF Full
<1>3. h \in Seq(S) /\ Len(h) < Depth
    BY <1>1, <1>2 DEF Full
<1>4. Pushed(n, b) = Append(h, b) /\ Len(Pushed(n, b)) = Len(h) + 1
    BY <1>3 DEF Pushed
<1>5. Evicted(n) \in S \cup {None} /\ Evicted(n) = IF Full(n) THEN Head(q) ELSE None
    BY <1>2 DEF Evicted
<1>6. ASSUME NEW c \in S
      PROVE  Occurs(h, c) + One(Evicted(n) = c) = Occurs(q, c)
  <2>0. Occurs(h, c) \in Nat
      BY <1>3, OccursSome
  <2>1. CASE Full(n)
    <3>1. Occurs(q, c) = Occurs(Tail(q), c) + One(Head(q) = c)
        BY <1>2, <2>1, OccursTail
    <3>. QED
        BY <1>5, <2>1, <3>1
  <2>2. CASE ~Full(n)
      BY <1>5, <2>0, <2>2 DEF One
  <2>. QED
      BY <2>1, <2>2
<1>7. ASSUME NEW c \in S
      PROVE  Occurs(Append(h, b), c) = Occurs(h, c) + One(b = c)
  <2>. HIDE DEF h
  <2>. QED
      BY <1>3, OccursAppend
<1>8. ASSUME NEW c \in S
      PROVE  Occurs(Pushed(n, b), c) + One(Evicted(n) = c) = Occurs(q, c) + One(b = c)
  <2>0. Occurs(h, c) \in Nat
      BY <1>3, OccursSome
  <2>. HIDE DEF h, q
  <2>. QED
      BY <1>4, <1>6, <1>7, <2>0 DEF One
<1>9. ASSUME NEW i \in 1 .. Len(Pushed(n, b))
      PROVE  IF i = Len(Pushed(n, b))
             THEN Pushed(n, b)[i] = b
             ELSE \E j \in 1 .. Len(q) :
                    /\ Pushed(n, b)[i] = q[j]
                    /\ j = IF Full(n) THEN i + 1 ELSE i
  <2>1. CASE i = Len(Pushed(n, b))
      BY <1>3, <1>4, <2>1
  <2>2. CASE i # Len(Pushed(n, b))
    <3>1. i \in 1 .. Len(h) /\ Pushed(n, b)[i] = h[i]
        BY <1>3, <1>4, <2>2
    <3>2. CASE Full(n)
        BY <1>1, <1>2, <2>2, <3>1, <3>2
    <3>3. CASE ~Full(n)
        BY <2>2, <3>1, <3>3
    <3>. QED
        BY <3>2, <3>3
  <2>. QED
      BY <2>1, <2>2
<1>. HIDE DEF h
<1>10. Pushed(n, b) \in Seq(S) /\ Len(Pushed(n, b)) <= Depth
    BY <1>1, <1>3, <1>4
<1>. QED
    BY <1>5, <1>8, <1>9, <1>10

-----------------------------------------------------------------------------
(* Counting references. *)

\* The queues hold what their node's buffers are, and no more than their length.
QueuesOK ==
    /\ queue \in [Nodes -> Seq(Buffers)]
    /\ queue["rga"] \in Seq(Captures)
    /\ queue["display"] \in Seq(Outputs) /\ queue["ocr"] \in Seq(Outputs)
    /\ \A n \in Nodes : Len(queue[n]) <= Depth

\* A reference taken adds one to its buffer's count, a reference dropped takes one
\* away; NULL has no count.
LEMMA PlusMinus ==
    ASSUME NEW r \in [Buffers -> Int], NEW x \in Buffers \cup {None}
    PROVE  /\ Minus(r, x) \in [Buffers -> Int]
           /\ \A c \in Buffers : Minus(r, x)[c] = r[c] - One(x = c)
           /\ x # None => /\ Plus(r, x) \in [Buffers -> Int]
                          /\ \A c \in Buffers : Plus(r, x)[c] = r[c] + One(x = c)
BY NoneAssumption DEF Plus, Minus, One, Buffers

\* The places that answer for a buffer are never less than none.
LEMMA HeldNat == QueuesOK => \A b : Queued(b) \in Nat /\ Held(b) \in Nat
<1>. SUFFICES ASSUME QueuesOK, NEW b
              PROVE  Queued(b) \in Nat /\ Held(b) \in Nat
    OBVIOUS
<1>1. /\ Occurs(queue["rga"], b) \in Nat
      /\ Occurs(queue["display"], b) \in Nat
      /\ Occurs(queue["ocr"], b) \in Nat
    BY OccursSome DEF QueuesOK
<1>2. Queued(b) \in Nat
    BY <1>1 DEF Queued
<1>. QED
    BY <1>2 DEF Held, One

\* A buffer in no queue is one that the queues hold no reference to.
LEMMA QueuedSome == QueuesOK => \A b : Queued(b) = 0 <=> ~InQueue(b)
<1>. SUFFICES ASSUME QueuesOK, NEW b
              PROVE  Queued(b) = 0 <=> ~InQueue(b)
    OBVIOUS
<1>1. ASSUME NEW n \in Nodes
      PROVE  Occurs(queue[n], b) \in Nat
             /\ (Occurs(queue[n], b) = 0 <=> \A i \in 1 .. Len(queue[n]) : queue[n][i] # b)
    BY OccursSome DEF QueuesOK
<1>2. /\ Occurs(queue["rga"], b) \in Nat
      /\ Occurs(queue["display"], b) \in Nat
      /\ Occurs(queue["ocr"], b) \in Nat
    BY <1>1 DEF Nodes
<1>3. Queued(b) = 0 <=> \A n \in Nodes : Occurs(queue[n], b) = 0
    BY <1>2 DEF Queued, Nodes
<1>. QED
    BY <1>1, <1>3 DEF InQueue

\* Nobody has a buffer whose count is zero.
LEMMA FreeIsNowhere ==
    ASSUME QueuesOK, RefsBalanced, NEW b \in Buffers, refs[b] = 0
    PROVE  /\ ~InQueue(b)
           /\ b \notin {latest, cbuf, cold, mbuf, rin, rout, din, current, oin}
<1>1. Held(b) = 0
    BY DEF RefsBalanced
<1>2. Queued(b) \in Nat /\ (Queued(b) = 0 <=> ~InQueue(b))
    BY HeldNat, QueuedSome
<1>. QED
    BY <1>1, <1>2 DEF Held, One

\* What somebody has is counted.
LEMMA HeldIsCounted ==
    ASSUME QueuesOK, RefsBalanced, NEW b \in Buffers,
           b \in {latest, cbuf, cold, mbuf, rin, rout, din, current, oin} \/ InQueue(b)
    PROVE  refs[b] > 0
<1>1. Queued(b) \in Nat /\ (Queued(b) = 0 <=> ~InQueue(b)) /\ Held(b) = refs[b]
    BY HeldNat, QueuedSome DEF RefsBalanced
<1>. QED
    BY <1>1 DEF Held, One

\* What becomes of the buffers that come free: all the camera gets was free, and
\* what it does not get is a loss that it is told of.
LEMMA RecycleShape ==
    ASSUME TypeOK, NEW freed \in SUBSET Captures, Recycle(freed)
    PROVE  /\ camera' \subseteq camera \cup freed /\ camera' \subseteq Captures
           /\ capRunning' \in BOOLEAN /\ queueError' \in BOOLEAN
           /\ capRunning' => capRunning
           /\ queueError => queueError'
           /\ queueError' => queueError \/ ~capRunning'
           /\ streaming /\ ~queueError' => camera' = camera \cup freed
<1>0. camera \subseteq Captures /\ capRunning \in BOOLEAN /\ queueError \in BOOLEAN
    BY DEF TypeOK
<1>1. CASE ~streaming /\ UNCHANGED feed
  <2>1. camera' = camera /\ capRunning' = capRunning /\ queueError' = queueError
      BY <1>1 DEF feed
  <2>. QED
      BY <1>0, <1>1, <2>1
<1>2. CASE /\ streaming
          /\ \E lost \in IF QueueMayFail THEN SUBSET freed ELSE {{}} :
               /\ camera' = camera \cup (freed \ lost)
               /\ queueError' = (queueError \/ lost # {})
               /\ capRunning' = (capRunning /\ lost = {})
  <2>1. PICK lost \in SUBSET freed :
          /\ camera' = camera \cup (freed \ lost)
          /\ queueError' = (queueError \/ lost # {})
          /\ capRunning' = (capRunning /\ lost = {})
      BY <1>2
  <2>. QED
      BY <1>0, <1>2, <2>1
<1>. QED
    BY <1>1, <1>2 DEF Recycle

\* A change of the counts that follows the places keeps the books, and gives the
\* driver what nobody holds any more unless that fails.
LEMMA CountsFollow ==
    ASSUME TypeOK, CameraOwnsRest, QueuesOK', NEW r \in [Buffers -> Int], SetRefs(r),
           \A c \in Buffers : r[c] = Held(c)',
           \A c \in Captures : refs[c] > 0 \/ r[c] <= refs[c],
           streaming' = streaming
    PROVE  /\ refs' \in [Buffers -> Nat] /\ camera' \subseteq Captures
           /\ capRunning' \in BOOLEAN /\ queueError' \in BOOLEAN
           /\ RefsBalanced' /\ CameraOwnsRest'
<1>. DEFINE freed == {a \in Captures : refs[a] > 0 /\ r[a] = 0}
<1>0. (QueuesOK => \A b : Queued(b) \in Nat /\ Held(b) \in Nat)'
    BY HeldNat, PTL
<1>1. \A c : Held(c)' \in Nat
    BY <1>0
<1>2. r \in [Buffers -> Nat] /\ refs' = r
    BY <1>1 DEF SetRefs
<1>3. RefsBalanced'
    BY <1>2 DEF RefsBalanced
<1>4. Recycle(freed)
    BY DEF SetRefs
<1>5. freed \in SUBSET Captures /\ \A a \in freed : refs'[a] = 0
    BY <1>2
<1>6. \A a \in Captures : a \notin freed => refs[a] = 0 \/ r[a] # 0
    BY DEF TypeOK, Buffers
<1>. HIDE DEF freed
<1>7. /\ camera' \subseteq camera \cup freed /\ camera' \subseteq Captures
      /\ capRunning' \in BOOLEAN /\ queueError' \in BOOLEAN
      /\ capRunning' => capRunning
      /\ queueError => queueError'
      /\ queueError' => queueError \/ ~capRunning'
      /\ streaming /\ ~queueError' => camera' = camera \cup freed
    BY <1>4, <1>5, RecycleShape
<1>8. ASSUME NEW a \in camera'
      PROVE  refs'[a] = 0
  <2>1. a \in Captures /\ r[a] \in Nat
      BY <1>2, <1>7, <1>8 DEF Buffers
  <2>2. CASE a \in camera
    <3>1. refs[a] = 0
        BY <2>2 DEF CameraOwnsRest
    <3>. QED
        BY <1>2, <2>1, <3>1
  <2>3. CASE a \notin camera
      BY <1>5, <1>7, <1>8, <2>3
  <2>. QED
      BY <2>2, <2>3
<1>9. ASSUME streaming', ~queueError', NEW a \in Captures \ camera'
      PROVE  refs'[a] > 0
  <2>1. a \notin camera /\ a \notin freed
      BY <1>7, <1>9
  <2>2. refs[a] > 0
      BY <1>7, <1>9, <2>1 DEF CameraOwnsRest
  <2>3. r[a] # 0 /\ r[a] \in Nat
      BY <1>2, <1>6, <1>9, <2>1, <2>2 DEF Buffers
  <2>. QED
      BY <1>2, <2>3
<1>10. queueError' => ~capRunning'
    BY <1>7 DEF CameraOwnsRest
<1>11. CameraOwnsRest'
    BY <1>8, <1>9, <1>10 DEF CameraOwnsRest
<1>. QED
    BY <1>2, <1>3, <1>7, <1>11

-----------------------------------------------------------------------------
(* What the steps do to the queues. *)

\* A worker takes the frame at the head of its queue.
LEMMA TakeStep ==
    ASSUME QueuesOK, NEW n \in Nodes, queue[n] # <<>>,
           queue' = [queue EXCEPT ![n] = Tail(@)]
    PROVE  /\ QueuesOK'
           /\ \A c : Queued(c)' \in Nat /\ Queued(c) = Queued(c)' + One(Head(queue[n]) = c)
<1>1. queue[n] \in Seq(Buffers) /\ Tail(queue[n]) \in Seq(Buffers)
      /\ Len(Tail(queue[n])) <= Depth
    BY BoundsAssumption DEF QueuesOK
<1>2. queue' \in [Nodes -> Seq(Buffers)] /\ queue'[n] = Tail(queue[n])
      /\ \A m \in Nodes \ {n} : queue'[m] = queue[m]
    BY <1>1 DEF QueuesOK
<1>3. QueuesOK'
    BY <1>1, <1>2 DEF QueuesOK, Nodes
<1>4. ASSUME NEW c
      PROVE  /\ Occurs(queue[n], c) = Occurs(Tail(queue[n]), c) + One(Head(queue[n]) = c)
             /\ \A m \in Nodes : Occurs(queue[m], c) \in Nat /\ Occurs(queue'[m], c) \in Nat
    BY <1>1, <1>2, OccursTail, OccursSome DEF QueuesOK
<1>5. ASSUME NEW c
      PROVE  Queued(c)' \in Nat /\ Queued(c) = Queued(c)' + One(Head(queue[n]) = c)
  <2>1. \A m \in Nodes :
          IF m = n
          THEN Occurs(queue[m], c) = Occurs(queue'[m], c) + One(Head(queue[n]) = c)
          ELSE Occurs(queue[m], c) = Occurs(queue'[m], c)
      BY <1>2, <1>4
  <2>2. /\ Queued(c) = Occurs(queue["rga"], c) + Occurs(queue["display"], c)
                        + Occurs(queue["ocr"], c)
        /\ Queued(c)' = Occurs(queue'["rga"], c) + Occurs(queue'["display"], c)
                         + Occurs(queue'["ocr"], c)
      BY DEF Queued
  <2>3. One(Head(queue[n]) = c) \in Nat
      BY DEF One
  <2>4. \A m \in Nodes : Occurs(queue[m], c) \in Nat /\ Occurs(queue'[m], c) \in Nat
      BY <1>4
  <2>5. CASE n = "rga"
      BY <2>1, <2>2, <2>3, <2>4, <2>5 DEF Nodes
  <2>6. CASE n = "display"
      BY <2>1, <2>2, <2>3, <2>4, <2>6 DEF Nodes
  <2>7. CASE n = "ocr"
      BY <2>1, <2>2, <2>3, <2>4, <2>7 DEF Nodes
  <2>. QED
      BY <2>5, <2>6, <2>7 DEF Nodes
<1>. QED
    BY <1>3, <1>5

\* A frame of the right pool is queued to a node, and perhaps one given up.
LEMMA PushStep ==
    ASSUME QueuesOK, NEW n \in Nodes,
           NEW b \in IF n = "rga" THEN Captures ELSE Outputs,
           queue' = [queue EXCEPT ![n] = Pushed(n, b)]
    PROVE  /\ QueuesOK'
           /\ Evicted(n) \in (IF n = "rga" THEN Captures ELSE Outputs) \cup {None}
           /\ \A c \in Buffers :
                Queued(c)' \in Nat
                /\ Queued(c)' + One(Evicted(n) = c) = Queued(c) + One(b = c)
<1>. DEFINE S == IF n = "rga" THEN Captures ELSE Outputs
<1>1. queue[n] \in Seq(S) /\ Len(queue[n]) <= Depth /\ None \notin Buffers
      /\ S \subseteq Buffers /\ b \in S
    BY NoneAssumption DEF QueuesOK, Nodes, Buffers
<1>2. /\ Pushed(n, b) \in Seq(S) /\ Len(Pushed(n, b)) <= Depth
      /\ Evicted(n) \in S \cup {None}
  <2>. HIDE DEF S
  <2>. QED
      BY <1>1, PushedShape
<1>3. queue[n] \in Seq(Buffers) /\ Pushed(n, b) \in Seq(Buffers)
    BY <1>1, <1>2
<1>4. queue' \in [Nodes -> Seq(Buffers)] /\ queue'[n] = Pushed(n, b)
      /\ \A m \in Nodes \ {n} : queue'[m] = queue[m]
    BY <1>3 DEF QueuesOK
<1>5. QueuesOK'
    BY <1>2, <1>4 DEF QueuesOK, Nodes
<1>6. ASSUME NEW c \in Buffers
      PROVE  Occurs(Pushed(n, b), c) + One(Evicted(n) = c)
               = Occurs(queue[n], c) + One(b = c)
    BY <1>1, <1>3, PushedShape
<1>7. ASSUME NEW c, NEW m \in Nodes
      PROVE  Occurs(queue[m], c) \in Nat /\ Occurs(queue'[m], c) \in Nat
    BY <1>4, OccursSome DEF QueuesOK
<1>8. ASSUME NEW c \in Buffers
      PROVE  /\ Queued(c)' \in Nat
             /\ Queued(c)' + One(Evicted(n) = c) = Queued(c) + One(b = c)
  <2>1. \A m \in Nodes :
          IF m = n
          THEN Occurs(queue'[m], c) + One(Evicted(n) = c) = Occurs(queue[m], c) + One(b = c)
          ELSE Occurs(queue'[m], c) = Occurs(queue[m], c)
      BY <1>4, <1>6
  <2>2. /\ Queued(c) = Occurs(queue["rga"], c) + Occurs(queue["display"], c)
                        + Occurs(queue["ocr"], c)
        /\ Queued(c)' = Occurs(queue'["rga"], c) + Occurs(queue'["display"], c)
                         + Occurs(queue'["ocr"], c)
      BY DEF Queued
  <2>3. One(Evicted(n) = c) \in Nat /\ One(b = c) \in Nat
      BY DEF One
  <2>. QED
      BY <1>7, <2>1, <2>2, <2>3 DEF Nodes
<1>. QED
    BY <1>2, <1>5, <1>8

\* The counts after each of the ways in which a step changes them.
LEMMA ChangedCounts ==
    ASSUME TypeOK, NEW x \in Buffers \cup {None}, NEW y \in Buffers \cup {None}
    PROVE  /\ Minus(refs, x) \in [Buffers -> Int]
           /\ Minus(Minus(refs, x), y) \in [Buffers -> Int]
           /\ \A c \in Buffers :
                /\ Minus(refs, x)[c] = refs[c] - One(x = c)
                /\ Minus(Minus(refs, x), y)[c] = refs[c] - One(x = c) - One(y = c)
           /\ x # None =>
                /\ Plus(refs, x) \in [Buffers -> Int]
                /\ Minus(Plus(refs, x), y) \in [Buffers -> Int]
                /\ \A c \in Buffers :
                     /\ Plus(refs, x)[c] = refs[c] + One(x = c)
                     /\ Minus(Plus(refs, x), y)[c] = refs[c] + One(x = c) - One(y = c)
<1>1. refs \in [Buffers -> Int]
    BY DEF TypeOK
<1>2. Minus(refs, x) \in [Buffers -> Int]
      /\ \A c \in Buffers : Minus(refs, x)[c] = refs[c] - One(x = c)
    BY <1>1, PlusMinus
<1>3. x # None => Plus(refs, x) \in [Buffers -> Int]
      /\ \A c \in Buffers : Plus(refs, x)[c] = refs[c] + One(x = c)
    BY <1>1, PlusMinus
<1>4. Minus(Minus(refs, x), y) \in [Buffers -> Int]
      /\ \A c \in Buffers : Minus(Minus(refs, x), y)[c] = Minus(refs, x)[c] - One(y = c)
    BY <1>2, PlusMinus
<1>5. x # None => Minus(Plus(refs, x), y) \in [Buffers -> Int]
      /\ \A c \in Buffers : Minus(Plus(refs, x), y)[c] = Plus(refs, x)[c] - One(y = c)
    BY <1>3, PlusMinus
<1>6. ASSUME NEW c \in Buffers
      PROVE  /\ Minus(refs, x)[c] = refs[c] - One(x = c)
             /\ Minus(Minus(refs, x), y)[c] = refs[c] - One(x = c) - One(y = c)
             /\ x # None =>
                  /\ Plus(refs, x)[c] = refs[c] + One(x = c)
                  /\ Minus(Plus(refs, x), y)[c] = refs[c] + One(x = c) - One(y = c)
  <2>1. /\ Minus(refs, x)[c] = refs[c] - One(x = c)
        /\ Minus(Minus(refs, x), y)[c] = Minus(refs, x)[c] - One(y = c)
      BY <1>2, <1>4
  <2>2. x # None =>
          /\ Plus(refs, x)[c] = refs[c] + One(x = c)
          /\ Minus(Plus(refs, x), y)[c] = Plus(refs, x)[c] - One(y = c)
      BY <1>3, <1>5
  <2>3. refs[c] \in Int
      BY <1>1
  <2>. QED
      BY <2>1, <2>2, <2>3 DEF One
<1>. QED
    BY <1>2, <1>3, <1>4, <1>5, <1>6

-----------------------------------------------------------------------------
(* Every step keeps the books. *)

Counted ==
    /\ refs \in [Buffers -> Nat] /\ camera \subseteq Captures
    /\ capRunning \in BOOLEAN /\ queueError \in BOOLEAN
    /\ RefsBalanced
    /\ CameraOwnsRest

\* References that change hands without a change of counts.
LEMMA HandOver ==
    ASSUME TypeOK, RefsBalanced, CameraOwnsRest,
           UNCHANGED <<refs, camera, queueError, streaming>>,
           capRunning' \in {capRunning, FALSE},
           \A c \in Buffers : Held(c)' = Held(c)
    PROVE  Counted'
<1>1. refs' \in [Buffers -> Nat] /\ camera' \subseteq Captures /\ RefsBalanced'
    BY DEF TypeOK, RefsBalanced
<1>2. capRunning' \in BOOLEAN /\ queueError' \in BOOLEAN
    BY DEF TypeOK
<1>3. /\ \A a \in camera' : refs'[a] = 0
      /\ streaming' /\ ~queueError' => \A a \in Captures \ camera' : refs'[a] > 0
    BY DEF CameraOwnsRest
<1>4. queueError' => ~capRunning'
    BY DEF CameraOwnsRest
<1>. QED
    BY <1>1, <1>2, <1>3, <1>4 DEF Counted, CameraOwnsRest

\* Steps that concern no reference.
LEMMA QuietFrame ==
    ASSUME TypeOK, RefsBalanced, CameraOwnsRest,
           UNCHANGED <<refs, camera, queueError, streaming, queue, latest, cbuf, cold,
                       mbuf, rin, rout, din, current, oin>>,
           capRunning' \in {capRunning, FALSE},
           (dpc = "wait")' <=> dpc = "wait"
    PROVE  Counted' /\ QueuesOK'
<1>1. \A c \in Buffers : Held(c)' = Held(c)
    BY DEF Held, Queued, One
<1>. QED
    BY <1>1, HandOver DEF QueuesOK, TypeOK

\* The camera thread's steps.
LEMMA CaptureCounts ==
    ASSUME TypeOK, RefsBalanced, CameraOwnsRest, LocalsHeld,
           CaptureStep \/ CaptureExit
    PROVE  Counted' /\ QueuesOK'
<1>0. QueuesOK
    BY DEF TypeOK, QueuesOK
<1>1. CASE \E a \in Captures : Dequeue(a)
  <2>1. PICK a \in Captures : Dequeue(a)
      BY <1>1
  <2>2. a \in Buffers /\ refs[a] = 0 /\ cbuf = None /\ cold = None
        /\ a \notin {latest, cbuf, cold, mbuf, rin, rout, din, current, oin}
      BY <1>0, <2>1, FreeIsNowhere DEF Dequeue, CameraOwnsRest, Buffers, LocalsHeld
  <2>3. QueuesOK'
      BY <1>0, <2>1 DEF Dequeue, QueuesOK
  <2>4. ASSUME NEW c \in Buffers
        PROVE  Held(c)' = IF c = a THEN 2 ELSE Held(c)
    <3>1. Queued(c)' = Queued(c) /\ Queued(c) \in Nat
        BY <1>0, <2>1, HeldNat DEF Dequeue, Queued
    <3>2. c = a => Held(c) = 0
        BY <2>2 DEF RefsBalanced
    <3>3. c # None
        BY NoneAssumption DEF Buffers
    <3>. QED
        BY <2>1, <2>2, <3>1, <3>2, <3>3
           DEF Dequeue, Held, One, rga, screen, display, ocr, main
  <2>5. /\ refs' = [refs EXCEPT ![a] = 2] /\ camera' = camera \ {a}
        /\ UNCHANGED <<streaming, capRunning, queueError>>
      BY <2>1 DEF Dequeue
  <2>6. /\ refs' \in [Buffers -> Nat] /\ camera' \subseteq Captures
        /\ capRunning' \in BOOLEAN /\ queueError' \in BOOLEAN
      BY <2>5 DEF TypeOK
  <2>7. \A c \in Buffers : refs'[c] = IF c = a THEN 2 ELSE refs[c]
      BY <2>5 DEF TypeOK
  <2>8. RefsBalanced'
      BY <2>4, <2>7 DEF RefsBalanced
  <2>9. CameraOwnsRest'
    <3>1. \A b \in camera' : refs'[b] = 0
        BY <2>5, <2>7 DEF CameraOwnsRest, TypeOK, Buffers
    <3>2. ASSUME streaming', ~queueError', NEW b \in Captures \ camera'
          PROVE  refs'[b] > 0
      <4>1. b = a \/ refs[b] > 0
          BY <2>5, <3>2 DEF CameraOwnsRest
      <4>. QED
          BY <2>7, <3>2, <4>1 DEF Buffers
    <3>3. queueError' => ~capRunning'
        BY <2>5 DEF CameraOwnsRest
    <3>. QED
        BY <3>1, <3>2, <3>3 DEF CameraOwnsRest
  <2>. QED
      BY <2>3, <2>6, <2>8, <2>9 DEF Counted
<1>2. CASE Deliver
  <2>. DEFINE r == Minus(Minus(refs, cold), Evicted("rga"))
  <2>1. cbuf \in Captures /\ cold \in Buffers \cup {None}
      BY <1>2 DEF Deliver, LocalsHeld, TypeOK, Buffers
  <2>2. /\ QueuesOK'
        /\ Evicted("rga") \in Captures \cup {None}
        /\ \A c \in Buffers : Queued(c)' \in Nat
             /\ Queued(c)' + One(Evicted("rga") = c) = Queued(c) + One(cbuf = c)
      BY <1>0, <1>2, <2>1, PushStep DEF Deliver, Nodes
  <2>3. r \in [Buffers -> Int]
        /\ \A c \in Buffers : r[c] = refs[c] - One(cold = c) - One(Evicted("rga") = c)
    <3>1. Evicted("rga") \in Buffers \cup {None}
        BY <2>2 DEF Buffers
    <3>. QED
        BY <2>1, <3>1, ChangedCounts
  <2>. HIDE DEF r
  <2>4. ASSUME NEW c \in Buffers
        PROVE  r[c] = Held(c)' /\ r[c] <= refs[c]
    <3>1. Queued(c) \in Nat /\ c # None /\ refs[c] = Held(c) /\ refs[c] \in Nat
        BY <1>0, HeldNat, NoneAssumption DEF Buffers, RefsBalanced, TypeOK
    <3>2. /\ r[c] = refs[c] - One(cold = c) - One(Evicted("rga") = c)
          /\ Queued(c)' \in Nat
          /\ Queued(c)' + One(Evicted("rga") = c) = Queued(c) + One(cbuf = c)
        BY <2>2, <2>3
    <3>. QED
        BY <1>2, <3>1, <3>2 DEF Deliver, Held, One, rga, screen, display, ocr, main
  <2>5. SetRefs(r) /\ streaming' = streaming
      BY <1>2 DEF Deliver, r
  <2>. QED
      BY <2>2, <2>3, <2>4, <2>5, CountsFollow DEF Counted, Buffers
<1>3. CASE CaptureExit
    BY <1>3, QuietFrame DEF CaptureExit, rga, screen, display, ocr, main
<1>. QED
    BY <1>1, <1>2, <1>3 DEF CaptureStep

\* The RGA worker's steps.
LEMMA RgaCounts ==
    ASSUME TypeOK, RefsBalanced, CameraOwnsRest, LocalsHeld,
           RgaStep \/ RgaBlitFails
    PROVE  Counted' /\ QueuesOK'
<1>0. QueuesOK
    BY DEF TypeOK, QueuesOK
<1>a. ASSUME NEW c \in Buffers
      PROVE  Queued(c) \in Nat /\ c # None /\ refs[c] = Held(c) /\ refs[c] \in Nat
    BY <1>0, HeldNat, NoneAssumption DEF Buffers, RefsBalanced, TypeOK
<1>1. CASE RgaTake
  <2>1. /\ QueuesOK'
        /\ \A c : Queued(c)' \in Nat /\ Queued(c) = Queued(c)' + One(Head(queue["rga"]) = c)
      BY <1>0, <1>1, TakeStep DEF RgaTake, Nodes
  <2>2. rin = None /\ rin' = Head(queue["rga"])
      BY <1>1 DEF RgaTake, LocalsHeld
  <2>3. ASSUME NEW c \in Buffers
        PROVE  Held(c)' = Held(c)
      BY <1>1, <1>a, <2>1, <2>2 DEF RgaTake, Held, One, capture, feed, screen, display, ocr, main
  <2>. QED
      BY <1>1, <2>1, <2>3, HandOver DEF RgaTake, feed
<1>2. CASE \E b \in Outputs : RgaAcquire(b)
  <2>1. PICK b \in Outputs : RgaAcquire(b)
      BY <1>2
  <2>. DEFINE r == Plus(refs, b)
  <2>2. b \in Buffers /\ rout = None /\ b # None /\ b \notin Captures
      BY <2>1, NoneAssumption, DisjointPools DEF Buffers, RgaAcquire, LocalsHeld
  <2>3. r \in [Buffers -> Int] /\ \A c \in Buffers : r[c] = refs[c] + One(b = c)
      BY <2>2, ChangedCounts
  <2>. HIDE DEF r
  <2>4. QueuesOK' /\ \A c : Queued(c)' = Queued(c)
      BY <1>0, <2>1 DEF RgaAcquire, QueuesOK, Queued
  <2>5. ASSUME NEW c \in Buffers
        PROVE  r[c] = Held(c)' /\ (c \in Captures => r[c] <= refs[c])
    <3>1. r[c] = refs[c] + One(b = c) /\ Queued(c)' = Queued(c)
        BY <2>3, <2>4
    <3>2. Held(c)' = Held(c) + One(b = c)
        BY <1>a, <2>1, <2>2, <3>1
           DEF RgaAcquire, Held, One, capture, feed, screen, display, ocr, main
    <3>3. c \in Captures => b # c
        BY <2>2
    <3>. QED
        BY <1>a, <3>1, <3>2, <3>3 DEF One
  <2>6. SetRefs(r) /\ streaming' = streaming
      BY <2>1 DEF RgaAcquire, r
  <2>. QED
      BY <2>3, <2>4, <2>5, <2>6, CountsFollow DEF Counted, Buffers
<1>3. CASE RgaNoOutput
    BY <1>3, QuietFrame DEF RgaNoOutput, capture, feed, screen, display, ocr, main
<1>4. CASE RgaBlit
    BY <1>4, QuietFrame DEF RgaBlit, capture, feed, screen, display, ocr, main
<1>5. CASE RgaBlitFails
  <2>. DEFINE r == Minus(refs, rout)
  <2>1. rout \in Buffers \cup {None}
      BY DEF TypeOK, Buffers
  <2>2. r \in [Buffers -> Int] /\ \A c \in Buffers : r[c] = refs[c] - One(rout = c)
      BY <2>1, ChangedCounts
  <2>. HIDE DEF r
  <2>3. QueuesOK' /\ \A c : Queued(c)' = Queued(c)
      BY <1>0, <1>5 DEF RgaBlitFails, QueuesOK, Queued
  <2>4. ASSUME NEW c \in Buffers
        PROVE  r[c] = Held(c)' /\ r[c] <= refs[c]
    <3>1. r[c] = refs[c] - One(rout = c) /\ Queued(c)' = Queued(c)
        BY <2>2, <2>3
    <3>. QED
        BY <1>5, <1>a, <3>1 DEF RgaBlitFails, Held, One, capture, feed, screen, display, ocr, main
  <2>5. SetRefs(r) /\ streaming' = streaming
      BY <1>5 DEF RgaBlitFails, r
  <2>. QED
      BY <2>2, <2>3, <2>4, <2>5, CountsFollow DEF Counted, Buffers
<1>6. ASSUME NEW n \in {"display", "ocr"}, NEW next, EmitTo(n, next), rout # None
      PROVE  Counted' /\ QueuesOK'
  <2>1. CASE Busy(n)
      BY <1>6, <2>1, QuietFrame DEF EmitTo, capture, feed, screen, display, ocr, main
  <2>2. CASE ~Busy(n)
    <3>. DEFINE r == Minus(Plus(refs, rout), Evicted(n))
    <3>1. rout \in Outputs
        BY <1>6 DEF TypeOK
    <3>2. /\ QueuesOK'
          /\ Evicted(n) \in Outputs \cup {None}
          /\ \A c \in Buffers : Queued(c)' \in Nat
               /\ Queued(c)' + One(Evicted(n) = c) = Queued(c) + One(rout = c)
        BY <1>0, <1>6, <2>2, <3>1, PushStep DEF EmitTo, Nodes
    <3>3. rout \in Buffers /\ Evicted(n) \in Buffers \cup {None}
        BY <3>1, <3>2 DEF Buffers
    <3>4. r \in [Buffers -> Int]
          /\ \A c \in Buffers : r[c] = refs[c] + One(rout = c) - One(Evicted(n) = c)
        BY <1>6, <3>3, ChangedCounts
    <3>. HIDE DEF r
    <3>5. ASSUME NEW c \in Buffers
          PROVE  r[c] = Held(c)' /\ (c \in Captures => r[c] <= refs[c])
      <4>1. /\ r[c] = refs[c] + One(rout = c) - One(Evicted(n) = c)
            /\ Queued(c)' \in Nat
            /\ Queued(c)' + One(Evicted(n) = c) = Queued(c) + One(rout = c)
          BY <3>2, <3>4
      <4>2. c \in Captures => rout # c
          BY <3>1, DisjointPools
      <4>. QED
          BY <1>6, <1>a, <2>2, <4>1, <4>2
             DEF EmitTo, Held, One, capture, feed, screen, display, ocr, main
    <3>6. SetRefs(r) /\ streaming' = streaming
        BY <1>6, <2>2 DEF EmitTo, r
    <3>. QED
        BY <3>2, <3>4, <3>5, <3>6, CountsFollow DEF Counted, Buffers
  <2>. QED
      BY <2>1, <2>2
<1>7. CASE RgaEmitDisplay \/ RgaEmitOcr
    BY <1>6, <1>7 DEF RgaEmitDisplay, RgaEmitOcr, LocalsHeld
<1>8. CASE RgaDone
  <2>. DEFINE r == Minus(Minus(refs, rout), rin)
  <2>1. rout \in Buffers \cup {None} /\ rin \in Buffers \cup {None}
      BY DEF TypeOK, Buffers
  <2>2. r \in [Buffers -> Int]
        /\ \A c \in Buffers : r[c] = refs[c] - One(rout = c) - One(rin = c)
      BY <2>1, ChangedCounts
  <2>. HIDE DEF r
  <2>3. QueuesOK' /\ \A c : Queued(c)' = Queued(c)
      BY <1>0, <1>8 DEF RgaDone, QueuesOK, Queued
  <2>4. ASSUME NEW c \in Buffers
        PROVE  r[c] = Held(c)' /\ r[c] <= refs[c]
    <3>1. r[c] = refs[c] - One(rout = c) - One(rin = c) /\ Queued(c)' = Queued(c)
        BY <2>2, <2>3
    <3>. QED
        BY <1>8, <1>a, <3>1 DEF RgaDone, Held, One, capture, feed, screen, display, ocr, main
  <2>5. SetRefs(r) /\ streaming' = streaming
      BY <1>8 DEF RgaDone, r
  <2>. QED
      BY <2>2, <2>3, <2>4, <2>5, CountsFollow DEF Counted, Buffers
<1>9. CASE RgaExit
    BY <1>9, QuietFrame DEF RgaExit, capture, feed, screen, display, ocr, main
<1>. QED
    BY <1>1, <1>2, <1>3, <1>4, <1>5, <1>7, <1>8, <1>9 DEF RgaStep

\* The display worker's steps, and the controller's flip.
LEMMA DisplayCounts ==
    ASSUME TypeOK, RefsBalanced, CameraOwnsRest, LocalsHeld,
           DisplayStep \/ PresentFails \/ WaitFails \/ Flip
    PROVE  Counted' /\ QueuesOK'
<1>0. QueuesOK
    BY DEF TypeOK, QueuesOK
<1>a. ASSUME NEW c \in Buffers
      PROVE  Queued(c) \in Nat /\ c # None /\ refs[c] = Held(c) /\ refs[c] \in Nat
    BY <1>0, HeldNat, NoneAssumption DEF Buffers, RefsBalanced, TypeOK
<1>b. din \in Buffers \cup {None} /\ current \in Buffers \cup {None}
    BY DEF TypeOK, Buffers
<1>c. dpc \in {"present", "wait", "done"} => din \in Outputs /\ din # None
    BY DEF TypeOK, LocalsHeld
<1>d. ASSUME UNCHANGED queue
      PROVE  QueuesOK' /\ \A c : Queued(c)' = Queued(c)
    BY <1>0, <1>d DEF QueuesOK, Queued
<1>1. CASE DisplayTake
  <2>1. /\ QueuesOK'
        /\ \A c : Queued(c)' \in Nat /\ Queued(c) = Queued(c)' + One(Head(queue["display"]) = c)
      BY <1>0, <1>1, TakeStep DEF DisplayTake, Nodes
  <2>2. din = None /\ din' = Head(queue["display"]) /\ dpc = "check" /\ dpc' = "present"
      BY <1>1 DEF DisplayTake, LocalsHeld
  <2>3. ASSUME NEW c \in Buffers
        PROVE  Held(c)' = Held(c)
      BY <1>1, <1>a, <2>1, <2>2 DEF DisplayTake, Held, One, capture, feed, rga, screen, ocr, main
  <2>. QED
      BY <1>1, <2>1, <2>3, HandOver DEF DisplayTake, feed
<1>2. CASE PresentFirst \/ PresentFlip
  <2>. DEFINE r == Plus(refs, din)
  <2>1. din \in Outputs /\ din # None /\ din \in Buffers
      BY <1>2, <1>c DEF PresentFirst, PresentFlip, Buffers
  <2>2. r \in [Buffers -> Int] /\ \A c \in Buffers : r[c] = refs[c] + One(din = c)
      BY <2>1, ChangedCounts
  <2>. HIDE DEF r
  <2>3. QueuesOK' /\ \A c : Queued(c)' = Queued(c)
      BY <1>2, <1>d DEF PresentFirst, PresentFlip
  <2>4. ASSUME NEW c \in Buffers
        PROVE  r[c] = Held(c)' /\ (c \in Captures => r[c] <= refs[c])
    <3>1. r[c] = refs[c] + One(din = c) /\ Queued(c)' = Queued(c)
        BY <2>2, <2>3
    <3>2. Held(c)' = Held(c) + One(din = c)
      <4>1. CASE PresentFirst
          BY <1>a, <3>1, <4>1 DEF PresentFirst, Held, One, capture, feed, rga, ocr, main
      <4>2. CASE PresentFlip
          BY <1>a, <3>1, <4>2 DEF PresentFlip, Held, One, capture, feed, rga, ocr, main
      <4>. QED
          BY <1>2, <4>1, <4>2
    <3>3. c \in Captures => din # c
        BY <2>1, DisjointPools
    <3>. QED
        BY <1>a, <3>1, <3>2, <3>3 DEF One
  <2>5. SetRefs(r) /\ streaming' = streaming
      BY <1>2 DEF PresentFirst, PresentFlip, r
  <2>. QED
      BY <2>2, <2>3, <2>4, <2>5, CountsFollow DEF Counted, Buffers
<1>3. ASSUME MakeCurrent, dpc = "wait",
             UNCHANGED <<streaming, capture, queue, rga, din, ocr, main>>
      PROVE  Counted' /\ QueuesOK'
  <2>. DEFINE r == Minus(refs, current)
  <2>2. r \in [Buffers -> Int] /\ \A c \in Buffers : r[c] = refs[c] - One(current = c)
      BY <1>b, ChangedCounts
  <2>. HIDE DEF r
  <2>3. QueuesOK' /\ \A c : Queued(c)' = Queued(c)
      BY <1>3, <1>d
  <2>4. ASSUME NEW c \in Buffers
        PROVE  r[c] = Held(c)' /\ r[c] <= refs[c]
    <3>1. r[c] = refs[c] - One(current = c) /\ Queued(c)' = Queued(c)
        BY <2>2, <2>3
    <3>2. Held(c)' = Held(c) - One(current = c)
        BY <1>3, <1>a, <3>1 DEF MakeCurrent, Held, One, capture, feed, rga, ocr, main
    <3>. QED
        BY <1>a, <3>1, <3>2 DEF One
  <2>5. SetRefs(r) /\ streaming' = streaming
      BY <1>3 DEF MakeCurrent, r
  <2>. QED
      BY <2>2, <2>3, <2>4, <2>5, CountsFollow DEF Counted, Buffers
<1>4. CASE FlipDone
    BY <1>3, <1>4 DEF FlipDone
<1>5. CASE ReadDeadEvent
  <2>1. CASE MakeCurrent
      BY <1>3, <1>5, <2>1 DEF ReadDeadEvent
  <2>2. CASE UNCHANGED <<refs, feed, current, dpc>>
      BY <1>5, <2>2, QuietFrame DEF ReadDeadEvent, capture, feed, rga, ocr, main
  <2>. QED
      BY <1>5, <2>1, <2>2 DEF ReadDeadEvent
<1>6. ASSUME NEW p \in {"wait", "done"}, dpc = p, p = "wait" => dpc' = "done",
             p = "done" => din' = None /\ dpc' = "check", p = "wait" => din' = din,
             SetRefs(Minus(refs, din)),
             UNCHANGED <<streaming, capture, queue, rga, current, ocr, main>>
      PROVE  Counted' /\ QueuesOK'
  <2>. DEFINE r == Minus(refs, din)
  <2>2. r \in [Buffers -> Int] /\ \A c \in Buffers : r[c] = refs[c] - One(din = c)
      BY <1>b, ChangedCounts
  <2>. HIDE DEF r
  <2>3. QueuesOK' /\ \A c : Queued(c)' = Queued(c)
      BY <1>6, <1>d
  <2>4. ASSUME NEW c \in Buffers
        PROVE  r[c] = Held(c)' /\ r[c] <= refs[c]
    <3>1. r[c] = refs[c] - One(din = c) /\ Queued(c)' = Queued(c)
        BY <2>2, <2>3
    <3>2. Held(c)' = Held(c) - One(din = c)
        BY <1>6, <1>a, <3>1 DEF Held, One, capture, feed, rga, ocr, main
    <3>. QED
        BY <1>a, <3>1, <3>2 DEF One
  <2>5. SetRefs(r) /\ streaming' = streaming
      BY <1>6 DEF r
  <2>. QED
      BY <2>2, <2>3, <2>4, <2>5, CountsFollow DEF Counted, Buffers
<1>7. CASE WaitFails
  <2>1. CASE scan = din
      BY <1>3, <1>7, <2>1 DEF WaitFails
  <2>2. CASE scan # din
      BY <1>6, <1>7, <2>2 DEF WaitFails
  <2>. QED
      BY <2>1, <2>2
<1>8. CASE DisplayDone
    BY <1>6, <1>8 DEF DisplayDone, screen
<1>9. CASE PresentFails \/ DisplayExit \/ Flip
    BY <1>9, QuietFrame
       DEF PresentFails, DisplayExit, Flip, capture, feed, rga, screen, display, ocr, main
<1>. QED
    BY <1>1, <1>2, <1>4, <1>5, <1>7, <1>8, <1>9 DEF DisplayStep

\* The OCR worker's steps.
LEMMA OcrCounts ==
    ASSUME TypeOK, RefsBalanced, CameraOwnsRest, LocalsHeld,
           OcrTake \/ OcrDone \/ OcrExit
    PROVE  Counted' /\ QueuesOK'
<1>0. QueuesOK
    BY DEF TypeOK, QueuesOK
<1>a. ASSUME NEW c \in Buffers
      PROVE  Queued(c) \in Nat /\ c # None /\ refs[c] = Held(c) /\ refs[c] \in Nat
    BY <1>0, HeldNat, NoneAssumption DEF Buffers, RefsBalanced, TypeOK
<1>1. CASE OcrTake
  <2>1. /\ QueuesOK'
        /\ \A c : Queued(c)' \in Nat /\ Queued(c) = Queued(c)' + One(Head(queue["ocr"]) = c)
      BY <1>0, <1>1, TakeStep DEF OcrTake, Nodes
  <2>2. oin = None /\ oin' = Head(queue["ocr"])
      BY <1>1 DEF OcrTake, LocalsHeld
  <2>3. ASSUME NEW c \in Buffers
        PROVE  Held(c)' = Held(c)
    <3>1. Queued(c)' \in Nat /\ Queued(c) = Queued(c)' + One(oin' = c) /\ c # None
        BY <1>a, <2>1, <2>2
    <3>2. UNCHANGED <<latest, cbuf, cold, mbuf, rin, rout, din, dpc, current>>
        BY <1>1 DEF OcrTake, capture, feed, rga, screen, display, main
    <3>. QED
        BY <2>2, <3>1, <3>2 DEF Held, One
  <2>. QED
      BY <1>1, <2>1, <2>3, HandOver DEF OcrTake, feed
<1>2. CASE OcrDone
  <2>. DEFINE r == Minus(refs, oin)
  <2>1. oin \in Buffers \cup {None}
      BY DEF TypeOK, Buffers
  <2>2. r \in [Buffers -> Int] /\ \A c \in Buffers : r[c] = refs[c] - One(oin = c)
      BY <2>1, ChangedCounts
  <2>. HIDE DEF r
  <2>3. QueuesOK' /\ \A c : Queued(c)' = Queued(c)
      BY <1>0, <1>2 DEF OcrDone, QueuesOK, Queued
  <2>4. ASSUME NEW c \in Buffers
        PROVE  r[c] = Held(c)' /\ r[c] <= refs[c]
    <3>1. r[c] = refs[c] - One(oin = c) /\ Queued(c)' = Queued(c)
        BY <2>2, <2>3
    <3>2. Held(c)' = Held(c) - One(oin = c)
        BY <1>2, <1>a, <3>1 DEF OcrDone, Held, One, capture, feed, rga, screen, display, main
    <3>. QED
        BY <1>a, <3>1, <3>2 DEF One
  <2>5. SetRefs(r) /\ streaming' = streaming
      BY <1>2 DEF OcrDone, r
  <2>. QED
      BY <2>2, <2>3, <2>4, <2>5, CountsFollow DEF Counted, Buffers
<1>3. CASE OcrExit
    BY <1>3, QuietFrame DEF OcrExit, capture, feed, rga, screen, display, main
<1>. QED
    BY <1>1, <1>2, <1>3

\* The main thread's steps while the program runs, and those of cleanup.
LEMMA MainCounts ==
    ASSUME TypeOK, RefsBalanced, CameraOwnsRest, LocalsHeld, ThreadTold,
           Look \/ Looked \/ StopCapture \/ Shutdown
    PROVE  Counted' /\ QueuesOK'
<1>0. QueuesOK
    BY DEF TypeOK, QueuesOK
<1>a. ASSUME NEW c \in Buffers
      PROVE  Queued(c) \in Nat /\ c # None /\ refs[c] = Held(c) /\ refs[c] \in Nat
    BY <1>0, HeldNat, NoneAssumption DEF Buffers, RefsBalanced, TypeOK
<1>b. latest \in Buffers \cup {None} /\ mbuf \in Buffers \cup {None}
      /\ current \in Buffers \cup {None}
    BY DEF TypeOK, Buffers
<1>d. ASSUME UNCHANGED queue
      PROVE  QueuesOK' /\ \A c : Queued(c)' = Queued(c)
    BY <1>0, <1>d DEF QueuesOK, Queued
<1>1. CASE Look
  <2>. DEFINE r == Plus(refs, latest)
  <2>1. latest \in Buffers /\ latest # None /\ mbuf = None
      BY <1>1, <1>b DEF Look
  <2>2. r \in [Buffers -> Int] /\ \A c \in Buffers : r[c] = refs[c] + One(latest = c)
      BY <2>1, ChangedCounts
  <2>. HIDE DEF r
  <2>3. QueuesOK' /\ \A c : Queued(c)' = Queued(c)
      BY <1>1, <1>d DEF Look
  <2>4. ASSUME NEW c \in Buffers
        PROVE  r[c] = Held(c)' /\ (refs[c] > 0 \/ r[c] <= refs[c])
    <3>1. r[c] = refs[c] + One(latest = c) /\ Queued(c)' = Queued(c)
        BY <2>2, <2>3
    <3>2. Held(c)' = Held(c) + One(latest = c)
        BY <1>1, <1>a, <2>1, <3>1
           DEF Look, Held, One, capture, feed, rga, screen, display, ocr
    <3>3. latest = c => refs[c] > 0
        BY <1>0, HeldIsCounted
    <3>. QED
        BY <1>a, <3>1, <3>2, <3>3 DEF One
  <2>5. SetRefs(r) /\ streaming' = streaming
      BY <1>1 DEF Look, r
  <2>. QED
      BY <2>2, <2>3, <2>4, <2>5, CountsFollow DEF Counted, Buffers
<1>2. CASE Looked
  <2>. DEFINE r == Minus(refs, mbuf)
  <2>2. r \in [Buffers -> Int] /\ \A c \in Buffers : r[c] = refs[c] - One(mbuf = c)
      BY <1>b, ChangedCounts
  <2>. HIDE DEF r
  <2>3. QueuesOK' /\ \A c : Queued(c)' = Queued(c)
      BY <1>2, <1>d DEF Looked
  <2>4. ASSUME NEW c \in Buffers
        PROVE  r[c] = Held(c)' /\ r[c] <= refs[c]
    <3>1. r[c] = refs[c] - One(mbuf = c) /\ Queued(c)' = Queued(c)
        BY <2>2, <2>3
    <3>2. Held(c)' = Held(c) - One(mbuf = c)
        BY <1>2, <1>a, <3>1 DEF Looked, Held, One, capture, feed, rga, screen, display, ocr
    <3>. QED
        BY <1>a, <3>1, <3>2 DEF One
  <2>5. SetRefs(r) /\ streaming' = streaming
      BY <1>2 DEF Looked, r
  <2>. QED
      BY <2>2, <2>3, <2>4, <2>5, CountsFollow DEF Counted, Buffers
<1>3. CASE StreamOff
  <2>1. QueuesOK'
      BY <1>3, <1>d DEF StreamOff
  <2>2. \A c \in Buffers : Held(c)' = Held(c)
      BY <1>3 DEF StreamOff, Held, Queued, capture, feed, rga, screen, display, ocr
  <2>3. RefsBalanced' /\ refs' \in [Buffers -> Nat]
      BY <1>3, <2>2 DEF StreamOff, RefsBalanced, TypeOK
  <2>4. ~capRunning' /\ capRunning' \in BOOLEAN
      BY <1>3 DEF StreamOff, ThreadTold, TypeOK
  <2>. QED
      BY <1>3, <2>1, <2>3, <2>4 DEF StreamOff, Counted, CameraOwnsRest, TypeOK
<1>4. CASE JoinCapture
  <2>. DEFINE r == Minus(refs, latest)
  <2>2. r \in [Buffers -> Int] /\ \A c \in Buffers : r[c] = refs[c] - One(latest = c)
      BY <1>b, ChangedCounts
  <2>. HIDE DEF r
  <2>3. QueuesOK' /\ \A c : Queued(c)' = Queued(c)
      BY <1>4, <1>d DEF JoinCapture
  <2>4. ASSUME NEW c \in Buffers
        PROVE  r[c] = Held(c)' /\ r[c] <= refs[c]
    <3>1. r[c] = refs[c] - One(latest = c) /\ Queued(c)' = Queued(c)
        BY <2>2, <2>3
    <3>2. Held(c)' = Held(c) - One(latest = c)
        BY <1>4, <1>a, <3>1 DEF JoinCapture, Held, One, rga, screen, display, ocr
    <3>. QED
        BY <1>a, <3>1, <3>2 DEF One
  <2>5. SetRefs(r) /\ streaming' = streaming
      BY <1>4 DEF JoinCapture, r
  <2>. QED
      BY <2>2, <2>3, <2>4, <2>5, CountsFollow DEF Counted, Buffers
<1>5. CASE DrainNodes
  <2>. DEFINE r == [b \in Buffers |-> refs[b] - Queued(b)]
  <2>1. r \in [Buffers -> Int] /\ \A c \in Buffers : r[c] = refs[c] - Queued(c)
      BY <1>a
  <2>2. queue' = [n \in Nodes |-> <<>>]
      BY <1>5 DEF DrainNodes
  <2>3. QueuesOK'
      BY <2>2, BoundsAssumption DEF QueuesOK, Nodes
  <2>4. \A c : Queued(c)' = 0
      BY <2>2, OccursEmpty DEF Queued, Nodes
  <2>5. SetRefs(r) /\ streaming' = streaming
      BY <1>5 DEF DrainNodes
  <2>6. UNCHANGED <<latest, cbuf, cold, mbuf, rin, rout, din, dpc, current, oin>>
      BY <1>5 DEF DrainNodes, capture, feed, rga, screen, display, ocr
  <2>. HIDE DEF r
  <2>7. ASSUME NEW c \in Buffers
        PROVE  r[c] = Held(c)' /\ r[c] <= refs[c]
    <3>1. r[c] = refs[c] - Queued(c) /\ Queued(c)' = 0
        BY <2>1, <2>4
    <3>2. Held(c)' = Held(c) - Queued(c)
        BY <1>a, <2>6, <3>1 DEF Held, One
    <3>. QED
        BY <1>a, <3>1, <3>2
  <2>. QED
      BY <2>1, <2>3, <2>5, <2>7, CountsFollow DEF Counted, Buffers
<1>6. CASE SinkDestroy
  <2>. DEFINE r == Minus(refs, current)
  <2>2. r \in [Buffers -> Int] /\ \A c \in Buffers : r[c] = refs[c] - One(current = c)
      BY <1>b, ChangedCounts
  <2>. HIDE DEF r
  <2>3. QueuesOK' /\ \A c : Queued(c)' = Queued(c)
      BY <1>6, <1>d DEF SinkDestroy
  <2>4. ASSUME NEW c \in Buffers
        PROVE  r[c] = Held(c)' /\ r[c] <= refs[c]
    <3>1. r[c] = refs[c] - One(current = c) /\ Queued(c)' = Queued(c)
        BY <2>2, <2>3
    <3>2. Held(c)' = Held(c) - One(current = c)
        BY <1>6, <1>a, <3>1 DEF SinkDestroy, Held, One, capture, feed, rga, display, ocr
    <3>. QED
        BY <1>a, <3>1, <3>2 DEF One
  <2>5. SetRefs(r) /\ streaming' = streaming
      BY <1>6 DEF SinkDestroy, r
  <2>. QED
      BY <2>2, <2>3, <2>4, <2>5, CountsFollow DEF Counted, Buffers
<1>7. CASE StopCapture \/ JoinOcr \/ JoinDisplay \/ JoinRga \/ SinkStays \/ PoolsDestroy
    BY <1>7, QuietFrame
       DEF StopCapture, JoinOcr, JoinDisplay, JoinRga, JoinNode, SinkStays, PoolsDestroy,
           capture, feed, rga, screen, display, ocr
<1>. QED
    BY <1>1, <1>2, <1>3, <1>4, <1>5, <1>6, <1>7 DEF Shutdown

-----------------------------------------------------------------------------
(* Types, the steps' locals, the order of cleanup and the screen. *)

\* The part of the types that is not of counts and queues.
RestOK ==
    /\ frameId \in [Buffers -> 0 .. MaxFrame] /\ seq \in 0 .. MaxFrame
    /\ streaming \in BOOLEAN
    /\ latest \in Captures \cup {None} /\ cbuf \in Captures \cup {None}
    /\ cold \in Captures \cup {None} /\ rin \in Captures \cup {None}
    /\ mbuf \in Captures \cup {None}
    /\ rout \in Outputs \cup {None} /\ din \in Outputs \cup {None}
    /\ oin \in Outputs \cup {None} /\ current \in Outputs \cup {None}
    /\ scan \in Outputs \cup {None} /\ pending \in Outputs \cup {None}
    /\ running \in [Nodes -> BOOLEAN]
    /\ cpc \in {"loop", "deliver", "exited"}
    /\ rpc \in {"check", "acquire", "blit", "emitDisplay", "emitOcr", "done", "exited"}
    /\ dpc \in {"check", "present", "wait", "done", "exited"}
    /\ opc \in {"check", "read", "exited"}
    /\ flipOf \in {"live", "dead"} /\ events \subseteq {"live", "dead"}
    /\ faulted \in BOOLEAN
    /\ mpc \in {"run", "streamOff", "joinCapture", "joinOcr", "joinDisplay",
                "joinRga", "drain", "sink", "kept", "pools", "closed", "leaked"}

\* The types are those of the counts, of the queues and of the rest.
LEMMA TypeParts ==
    TypeOK <=> /\ refs \in [Buffers -> Nat] /\ camera \subseteq Captures
               /\ capRunning \in BOOLEAN /\ queueError \in BOOLEAN
               /\ QueuesOK /\ RestOK
BY DEF TypeOK, QueuesOK, RestOK

\* Each step keeps every type.
LEMMA RestStep == ASSUME TypeOK, LocalsHeld, Next PROVE RestOK'
<1>0. RestOK
    BY TypeParts
<1>1. CASE CaptureStep \/ CaptureExit
  <2>1. CASE \E a \in Captures : Dequeue(a)
      BY <1>0, <2>1, BoundsAssumption
         DEF Dequeue, RestOK, Buffers, rga, screen, display, ocr, main
  <2>2. CASE Deliver \/ CaptureExit
    <3>1. CASE Deliver
        BY <1>0, <3>1 DEF Deliver, RestOK, rga, screen, display, ocr, main
    <3>2. CASE CaptureExit
      <4>1. /\ streaming' \in BOOLEAN
            /\ running' \in [Nodes -> BOOLEAN]
          BY <1>0, <3>2 DEF CaptureExit, RestOK, capture
      <4>. QED
          BY <1>0, <3>2, <4>1 DEF CaptureExit, RestOK, rga, screen, display, ocr, main
    <3>. QED
        BY <2>2, <3>1, <3>2
  <2>. QED
      BY <1>1, <2>1, <2>2 DEF CaptureStep
<1>2. CASE RgaStep \/ RgaBlitFails
  <2>1. CASE \E b \in Outputs : RgaAcquire(b)
    <3>1. PICK b \in Outputs : RgaAcquire(b)
        BY <1>0, <2>1
    <3>2. rin \in Buffers /\ b \in Buffers
        BY <1>0, <3>1 DEF RgaAcquire, LocalsHeld, RestOK, Buffers
    <3>3. frameId' \in [Buffers -> 0 .. MaxFrame]
        BY <1>0, <3>1, <3>2 DEF RgaAcquire, RestOK
    <3>. QED
        BY <1>0, <3>1, <3>3 DEF RgaAcquire, RestOK, capture, feed, screen, display, ocr, main
  <2>2. CASE RgaTake
    <3>1. Head(queue["rga"]) \in Captures
        BY <1>0, <2>2 DEF RgaTake, TypeOK
    <3>. QED
        BY <1>0, <2>2, <3>1 DEF RgaTake, RestOK, capture, feed, screen, display, ocr, main
  <2>3. CASE RgaNoOutput \/ RgaBlit \/ RgaBlitFails \/ RgaDone \/ RgaExit
    <3>1. CASE RgaNoOutput
        BY <1>0, <3>1 DEF RgaNoOutput, RestOK, capture, feed, screen, display, ocr, main
    <3>2. CASE RgaBlit
        BY <1>0, <3>2 DEF RgaBlit, RestOK, capture, feed, screen, display, ocr, main
    <3>3. CASE RgaBlitFails
        BY <1>0, <3>3 DEF RgaBlitFails, RestOK, capture, feed, screen, display, ocr, main
    <3>4. CASE RgaDone
        BY <1>0, <3>4 DEF RgaDone, RestOK, capture, feed, screen, display, ocr, main
    <3>5. CASE RgaExit
        BY <1>0, <3>5 DEF RgaExit, RestOK, capture, feed, screen, display, ocr, main
    <3>. QED
        BY <2>3, <3>1, <3>2, <3>3, <3>4, <3>5
  <2>4. CASE RgaEmitDisplay \/ RgaEmitOcr
    <3>1. CASE RgaEmitDisplay
        BY <1>0, <3>1
           DEF RgaEmitDisplay, EmitTo, RestOK, capture, feed, screen, display, ocr, main
    <3>2. CASE RgaEmitOcr
        BY <1>0, <3>2 DEF RgaEmitOcr, EmitTo, RestOK, capture, feed, screen, display, ocr, main
    <3>. QED
        BY <2>4, <3>1, <3>2
  <2>. QED
      BY <1>2, <2>1, <2>2, <2>3, <2>4 DEF RgaStep
<1>3. CASE DisplayStep \/ PresentFails \/ WaitFails \/ Flip
  <2>1. CASE DisplayTake
    <3>1. Head(queue["display"]) \in Outputs
        BY <1>0, <2>1 DEF DisplayTake, TypeOK
    <3>. QED
        BY <1>0, <2>1, <3>1 DEF DisplayTake, RestOK, capture, feed, rga, screen, ocr, main
  <2>2. CASE PresentFirst \/ PresentFlip \/ FlipDone
    <3>1. CASE PresentFirst
        BY <1>0, <3>1 DEF PresentFirst, RestOK, capture, feed, rga, ocr, main
    <3>2. CASE PresentFlip
        BY <1>0, <3>2 DEF PresentFlip, RestOK, capture, feed, rga, ocr, main
    <3>3. CASE FlipDone
        BY <1>0, <3>3 DEF FlipDone, MakeCurrent, RestOK, capture, feed, rga, ocr, main
    <3>. QED
        BY <2>2, <3>1, <3>2, <3>3
  <2>3. CASE ReadDeadEvent
      BY <1>0, <2>3 DEF ReadDeadEvent, MakeCurrent, RestOK, capture, feed, rga, ocr, main
  <2>4. CASE WaitFails
      BY <1>0, <2>4 DEF WaitFails, MakeCurrent, RestOK, capture, feed, rga, ocr, main
  <2>5. CASE DisplayDone \/ DisplayExit \/ PresentFails \/ Flip
    <3>1. CASE DisplayDone
        BY <1>0, <3>1 DEF DisplayDone, RestOK, capture, feed, rga, screen, display, ocr, main
    <3>2. CASE DisplayExit
        BY <1>0, <3>2 DEF DisplayExit, RestOK, capture, feed, rga, screen, display, ocr, main
    <3>3. CASE PresentFails
        BY <1>0, <3>3 DEF PresentFails, RestOK, capture, feed, rga, screen, display, ocr, main
    <3>4. CASE Flip
        BY <1>0, <3>4 DEF Flip, RestOK, capture, feed, rga, screen, display, ocr, main
    <3>. QED
        BY <2>5, <3>1, <3>2, <3>3, <3>4
  <2>. QED
      BY <1>3, <2>1, <2>2, <2>3, <2>4, <2>5 DEF DisplayStep
<1>4. CASE OcrTake \/ OcrDone \/ OcrExit
  <2>1. CASE OcrTake
    <3>1. Head(queue["ocr"]) \in Outputs
        BY <1>0, <2>1 DEF OcrTake, TypeOK
    <3>. QED
        BY <1>0, <2>1, <3>1 DEF OcrTake, RestOK, capture, feed, rga, screen, display, main
  <2>2. CASE OcrDone \/ OcrExit
    <3>1. CASE OcrDone
        BY <1>0, <3>1 DEF OcrDone, RestOK, capture, feed, rga, screen, display, main
    <3>2. CASE OcrExit
        BY <1>0, <3>2 DEF OcrExit, RestOK, capture, feed, rga, screen, display, main
    <3>. QED
        BY <2>2, <3>1, <3>2
  <2>. QED
      BY <1>4, <2>1, <2>2
<1>5. CASE Look \/ Looked \/ StopCapture \/ StreamOff \/ JoinCapture
  <2>1. CASE Look
      BY <1>0, <2>1 DEF Look, RestOK, capture, feed, rga, screen, display, ocr
  <2>2. CASE Looked
      BY <1>0, <2>2 DEF Looked, RestOK, capture, feed, rga, screen, display, ocr
  <2>3. CASE StopCapture
    <3>1. /\ streaming' \in BOOLEAN
          /\ running' \in [Nodes -> BOOLEAN]
        BY <1>0, <2>3 DEF StopCapture, RestOK, capture
    <3>. QED
        BY <1>0, <2>3, <3>1 DEF StopCapture, RestOK, capture, feed, rga, screen, display, ocr
  <2>4. CASE StreamOff
    <3>1. /\ streaming' \in BOOLEAN
          /\ running' \in [Nodes -> BOOLEAN]
        BY <1>0, <2>4 DEF StreamOff, RestOK, capture
    <3>. QED
        BY <1>0, <2>4, <3>1 DEF StreamOff, RestOK, capture, feed, rga, screen, display, ocr
  <2>5. CASE JoinCapture
    <3>1. /\ streaming' \in BOOLEAN
          /\ running' \in [Nodes -> BOOLEAN]
        BY <1>0, <2>5 DEF JoinCapture, RestOK, capture
    <3>. QED
        BY <1>0, <2>5, <3>1 DEF JoinCapture, RestOK, capture, feed, rga, screen, display, ocr
  <2>. QED
      BY <1>5, <2>1, <2>2, <2>3, <2>4, <2>5
<1>6. CASE JoinOcr \/ JoinDisplay \/ JoinRga
  <2>1. CASE JoinOcr
      BY <1>0, <2>1 DEF JoinOcr, JoinNode, RestOK, capture, feed, rga, screen, display, ocr
  <2>2. CASE JoinDisplay
      BY <1>0, <2>2 DEF JoinDisplay, JoinNode, RestOK, capture, feed, rga, screen, display, ocr
  <2>3. CASE JoinRga
      BY <1>0, <2>3 DEF JoinRga, JoinNode, RestOK, capture, feed, rga, screen, display, ocr
  <2>. QED
      BY <1>6, <2>1, <2>2, <2>3
<1>7. CASE DrainNodes \/ SinkDestroy \/ SinkStays \/ PoolsDestroy
  <2>1. CASE DrainNodes
      BY <1>0, <2>1 DEF DrainNodes, RestOK, capture, feed, rga, screen, display, ocr
  <2>2. CASE SinkDestroy
      BY <1>0, <2>2 DEF SinkDestroy, RestOK, capture, feed, rga, screen, display, ocr
  <2>3. CASE SinkStays
      BY <1>0, <2>3 DEF SinkStays, RestOK, capture, feed, rga, screen, display, ocr
  <2>4. CASE PoolsDestroy
      BY <1>0, <2>4 DEF PoolsDestroy, RestOK, capture, feed, rga, screen, display, ocr
  <2>. QED
      BY <1>7, <2>1, <2>2, <2>3, <2>4
<1>. QED
    BY <1>1, <1>2, <1>3, <1>4, <1>5, <1>6, <1>7 DEF Next, Shutdown

\* Each thread has in its locals what its step needs.
LEMMA LocalsStep == ASSUME TypeOK, LocalsHeld, Next PROVE LocalsHeld'
<1>1. CASE CaptureStep \/ CaptureExit
    BY <1>1, NoneAssumption
       DEF CaptureStep, Dequeue, Deliver, CaptureExit, LocalsHeld, rga, screen, display,
           ocr, main
<1>2. CASE RgaStep \/ RgaBlitFails
  <2>1. CASE RgaTake
    <3>1. Head(queue["rga"]) \in Captures
        BY <2>1 DEF RgaTake, TypeOK
    <3>. QED
        BY <2>1, <3>1, NoneAssumption
           DEF RgaTake, LocalsHeld, capture, feed, screen, display, ocr, main
  <2>2. CASE RgaBlitFails \/ \E b \in Outputs : RgaAcquire(b)
      BY <2>2, NoneAssumption
         DEF RgaBlitFails, RgaAcquire, LocalsHeld, capture, feed, screen, display, ocr, main
  <2>3. CASE RgaNoOutput \/ RgaBlit \/ RgaDone \/ RgaExit
      BY <2>3 DEF RgaNoOutput, RgaBlit, RgaDone, RgaExit, LocalsHeld,
                  capture, feed, screen, display, ocr, main
  <2>4. CASE RgaEmitDisplay \/ RgaEmitOcr
      BY <2>4 DEF RgaEmitDisplay, RgaEmitOcr, EmitTo, LocalsHeld,
                  capture, feed, screen, display, ocr, main
  <2>. QED
      BY <1>2, <2>1, <2>2, <2>3, <2>4 DEF RgaStep
<1>3. CASE DisplayStep \/ PresentFails \/ WaitFails \/ Flip
  <2>1. CASE DisplayTake
    <3>1. Head(queue["display"]) \in Outputs
        BY <2>1 DEF DisplayTake, TypeOK
    <3>. QED
        BY <2>1, <3>1, NoneAssumption
           DEF DisplayTake, LocalsHeld, capture, feed, rga, screen, ocr, main
  <2>2. CASE PresentFirst \/ PresentFlip \/ FlipDone \/ ReadDeadEvent \/ WaitFails
      BY <2>2 DEF PresentFirst, PresentFlip, FlipDone, ReadDeadEvent, WaitFails,
                  MakeCurrent, LocalsHeld, capture, feed, rga, ocr, main
  <2>3. CASE DisplayDone \/ DisplayExit \/ PresentFails \/ Flip
      BY <2>3 DEF DisplayDone, DisplayExit, PresentFails, Flip, LocalsHeld,
                  capture, feed, rga, screen, display, ocr, main
  <2>. QED
      BY <1>3, <2>1, <2>2, <2>3 DEF DisplayStep
<1>4. CASE OcrTake \/ OcrDone \/ OcrExit
  <2>1. CASE OcrTake
    <3>1. Head(queue["ocr"]) \in Outputs
        BY <2>1 DEF OcrTake, TypeOK
    <3>. QED
        BY <2>1, <3>1, NoneAssumption
           DEF OcrTake, LocalsHeld, capture, feed, rga, screen, display, main
  <2>2. CASE OcrDone \/ OcrExit
      BY <2>2 DEF OcrDone, OcrExit, LocalsHeld, capture, feed, rga, screen, display, main
  <2>. QED
      BY <1>4, <2>1, <2>2
<1>5. CASE Look \/ Looked \/ StopCapture \/ StreamOff \/ JoinCapture
    BY <1>5 DEF Look, Looked, StopCapture, StreamOff, JoinCapture, LocalsHeld,
                capture, feed, rga, screen, display, ocr
<1>6. CASE JoinOcr \/ JoinDisplay \/ JoinRga
    BY <1>6 DEF JoinOcr, JoinDisplay, JoinRga, JoinNode, LocalsHeld,
                capture, feed, rga, screen, display, ocr
<1>7. CASE DrainNodes \/ SinkDestroy \/ SinkStays \/ PoolsDestroy
    BY <1>7 DEF DrainNodes, SinkDestroy, SinkStays, PoolsDestroy, LocalsHeld,
                capture, feed, rga, screen, display, ocr
<1>. QED
    BY <1>1, <1>2, <1>3, <1>4, <1>5, <1>6, <1>7 DEF Next, Shutdown

-----------------------------------------------------------------------------

\* Each step of cleanup finds done what the earlier ones were there for.
LEMMA DismantledStep == ASSUME TypeOK, LocalsHeld, Dismantled, Next PROVE Dismantled'
<1>1. CASE \E a \in Captures : Dequeue(a)
    BY <1>1 DEF Dequeue, Dismantled, rga, screen, display, ocr, main
<1>2. CASE \E b \in Outputs : RgaAcquire(b)
    BY <1>2 DEF RgaAcquire, Dismantled, capture, feed, screen, display, ocr, main
<1>3. CASE Deliver
    BY <1>3 DEF Deliver, Dismantled, rga, screen, display, ocr, main
<1>4. CASE CaptureExit
    BY <1>4 DEF CaptureExit, Dismantled, rga, screen, display, ocr, main
<1>5. CASE RgaTake
    BY <1>5 DEF RgaTake, Dismantled, capture, feed, screen, display, ocr, main
<1>6. CASE RgaNoOutput
    BY <1>6 DEF RgaNoOutput, Dismantled, capture, feed, screen, display, ocr, main
<1>7. CASE RgaBlit
    BY <1>7 DEF RgaBlit, Dismantled, capture, feed, screen, display, ocr, main
<1>8. CASE RgaBlitFails
    BY <1>8 DEF RgaBlitFails, Dismantled, capture, feed, screen, display, ocr, main
<1>9. CASE RgaEmitDisplay
    BY <1>9 DEF RgaEmitDisplay, EmitTo, Dismantled, capture, feed, screen, display, ocr, main
<1>10. CASE RgaEmitOcr
    BY <1>10 DEF RgaEmitOcr, EmitTo, Dismantled, capture, feed, screen, display, ocr, main
<1>11. CASE RgaDone
    BY <1>11 DEF RgaDone, Dismantled, capture, feed, screen, display, ocr, main
<1>12. CASE RgaExit
    BY <1>12 DEF RgaExit, Dismantled, capture, feed, screen, display, ocr, main
<1>13. CASE DisplayTake
    BY <1>13 DEF DisplayTake, Dismantled, capture, feed, rga, screen, display, ocr, main
<1>14. CASE PresentFirst
    BY <1>14 DEF PresentFirst, Dismantled, capture, feed, rga, screen, display, ocr, main
<1>15. CASE PresentFlip
    BY <1>15 DEF PresentFlip, Dismantled, capture, feed, rga, screen, display, ocr, main
<1>16. CASE FlipDone
    BY <1>16 DEF FlipDone, MakeCurrent, Dismantled, capture, feed, rga, screen, display, ocr, main
<1>17. CASE ReadDeadEvent
    BY <1>17
       DEF ReadDeadEvent, MakeCurrent, Dismantled, capture, feed, rga, screen, display, ocr,
           main
<1>18. CASE DisplayDone
    BY <1>18 DEF DisplayDone, Dismantled, capture, feed, rga, screen, display, ocr, main
<1>19. CASE DisplayExit
    BY <1>19 DEF DisplayExit, Dismantled, capture, feed, rga, screen, display, ocr, main
<1>20. CASE PresentFails
    BY <1>20 DEF PresentFails, Dismantled, capture, feed, rga, screen, display, ocr, main
<1>21. CASE WaitFails
    BY <1>21
       DEF WaitFails, MakeCurrent, Dismantled, capture, feed, rga, screen, display, ocr, main
<1>22. CASE Flip
    BY <1>22 DEF Flip, Dismantled, capture, feed, rga, screen, display, ocr, main
<1>23. CASE OcrTake
    BY <1>23 DEF OcrTake, Dismantled, capture, feed, rga, screen, display, main
<1>24. CASE OcrDone
    BY <1>24 DEF OcrDone, Dismantled, capture, feed, rga, screen, display, main
<1>25. CASE OcrExit
    BY <1>25 DEF OcrExit, Dismantled, capture, feed, rga, screen, display, main
<1>26. CASE Look
    BY <1>26 DEF Look, Dismantled, capture, feed, rga, screen, display, ocr
<1>27. CASE Looked
    BY <1>27 DEF Looked, Dismantled, capture, feed, rga, screen, display, ocr
<1>28. CASE StopCapture
    BY <1>28 DEF StopCapture, Dismantled, capture, feed, rga, screen, display, ocr
<1>29. CASE StreamOff
    BY <1>29 DEF StreamOff, Dismantled, capture, feed, rga, screen, display, ocr
<1>30. CASE JoinCapture
    BY <1>30 DEF JoinCapture, Dismantled, capture, feed, rga, screen, display, ocr
<1>31. CASE JoinOcr
    BY <1>31 DEF JoinOcr, JoinNode, Dismantled, capture, feed, rga, screen, display, ocr
<1>32. CASE JoinDisplay
    BY <1>32 DEF JoinDisplay, JoinNode, Dismantled, capture, feed, rga, screen, display, ocr
<1>33. CASE JoinRga
    BY <1>33 DEF JoinRga, JoinNode, Dismantled, capture, feed, rga, screen, display, ocr
<1>34. CASE DrainNodes
    BY <1>34 DEF DrainNodes, Dismantled, capture, feed, rga, screen, display, ocr
<1>35. CASE SinkDestroy
    BY <1>35 DEF SinkDestroy, Dismantled, capture, feed, rga, screen, display, ocr
<1>36. CASE SinkStays
    BY <1>36 DEF SinkStays, Dismantled, capture, feed, rga, screen, display, ocr
<1>37. CASE PoolsDestroy
    BY <1>37 DEF PoolsDestroy, Dismantled, capture, feed, rga, screen, display, ocr
<1>. QED
    BY <1>1, <1>2, <1>3, <1>4, <1>5, <1>6, <1>7, <1>8, <1>9, <1>10, <1>11, <1>12,
       <1>13, <1>14, <1>15, <1>16, <1>17, <1>18, <1>19, <1>20, <1>21, <1>22, <1>23,
       <1>24, <1>25, <1>26, <1>27, <1>28, <1>29, <1>30, <1>31, <1>32, <1>33, <1>34,
       <1>35, <1>36, <1>37
       DEF Next, CaptureStep, RgaStep, DisplayStep, Shutdown

\* Nothing starts the capture thread again: what comes free can only stop it.
LEMMA RunningFalls ==
    ASSUME TypeOK, NEW r, SetRefs(r), ~capRunning
    PROVE  ~capRunning'
<1>1. CASE UNCHANGED feed
    BY <1>1 DEF feed
<1>2. CASE \E lost : capRunning' = (capRunning /\ lost = {})
    BY <1>2
<1>. QED
    BY <1>1, <1>2 DEF SetRefs, Recycle

\* The thread stays told.
LEMMA ToldStep == ASSUME TypeOK, ThreadTold, Next PROVE ThreadTold'
<1>1. ASSUME UNCHANGED <<feed, mpc>>
      PROVE  ThreadTold'
    BY <1>1 DEF feed, ThreadTold
<1>2. ASSUME NEW r, SetRefs(r), mpc' = "run" => mpc = "run", mpc = "run" => mpc' = "run"
      PROVE  ThreadTold'
    BY <1>2, RunningFalls DEF ThreadTold
<1>3. CASE \E a \in Captures : Dequeue(a)
    BY <1>3 DEF Dequeue, ThreadTold, main
<1>4. CASE CaptureExit \/ StopCapture
    BY <1>4 DEF CaptureExit, StopCapture, ThreadTold
<1>5. CASE Deliver \/ RgaDone \/ RgaBlitFails \/ \E b \in Outputs : RgaAcquire(b)
    BY <1>2, <1>5 DEF Deliver, RgaDone, RgaBlitFails, RgaAcquire, main
<1>6. CASE RgaTake \/ RgaNoOutput \/ RgaBlit \/ RgaExit
    BY <1>1, <1>6 DEF RgaTake, RgaNoOutput, RgaBlit, RgaExit, main
<1>7. CASE RgaEmitDisplay \/ RgaEmitOcr
  <2>1. PICK n, next : EmitTo(n, next)
      BY <1>7 DEF RgaEmitDisplay, RgaEmitOcr
  <2>2. CASE Busy(n)
      BY <1>1, <2>1, <2>2 DEF EmitTo, main
  <2>3. CASE ~Busy(n)
      BY <1>2, <2>1, <2>3 DEF EmitTo, main
  <2>. QED
      BY <2>2, <2>3
<1>8. CASE DisplayTake \/ DisplayExit \/ PresentFails \/ Flip
    BY <1>1, <1>8 DEF DisplayTake, DisplayExit, PresentFails, Flip, main
<1>9. CASE PresentFirst \/ PresentFlip \/ DisplayDone \/ FlipDone
    BY <1>2, <1>9 DEF PresentFirst, PresentFlip, DisplayDone, FlipDone, MakeCurrent, main
<1>10. CASE ReadDeadEvent
    BY <1>1, <1>2, <1>10 DEF ReadDeadEvent, MakeCurrent, main
<1>11. CASE WaitFails
    BY <1>2, <1>11 DEF WaitFails, MakeCurrent, main
<1>12. CASE OcrTake \/ OcrDone \/ OcrExit
    BY <1>1, <1>2, <1>12 DEF OcrTake, OcrDone, OcrExit, main
<1>13. CASE Look \/ Looked
    BY <1>2, <1>13 DEF Look, Looked
<1>14. CASE StreamOff \/ JoinOcr \/ JoinDisplay \/ JoinRga \/ SinkStays \/ PoolsDestroy
  <2>1. capRunning' = capRunning /\ mpc # "run"
      BY <1>14 DEF StreamOff, JoinOcr, JoinDisplay, JoinRga, JoinNode, SinkStays,
                   PoolsDestroy, feed
  <2>. QED
      BY <2>1 DEF ThreadTold
<1>15. CASE JoinCapture \/ DrainNodes \/ SinkDestroy
  <2>1. mpc # "run" /\ \E r : SetRefs(r)
      BY <1>15 DEF JoinCapture, DrainNodes, SinkDestroy
  <2>. QED
      BY <2>1, RunningFalls DEF ThreadTold
<1>. QED
    BY <1>3, <1>4, <1>5, <1>6, <1>7, <1>8, <1>9, <1>10, <1>11, <1>12, <1>13, <1>14, <1>15
       DEF Next, CaptureStep, RgaStep, DisplayStep, Shutdown

\* As long as no wait fails, every step leaves the screen where the display worker
\* believes it to be.
LEMMA ScreenStep ==
    ASSUME TypeOK, LocalsHeld, Dismantled, ScreenKnown, Next PROVE ScreenKnown'
<1>1. CASE \E a \in Captures : Dequeue(a)
    BY <1>1, NoneAssumption
       DEF Dequeue, ScreenKnown, LocalsHeld, Dismantled, rga, screen, display, ocr, main
<1>2. CASE \E b \in Outputs : RgaAcquire(b)
    BY <1>2, NoneAssumption
       DEF RgaAcquire, ScreenKnown, LocalsHeld, Dismantled, capture, feed, screen, display, ocr,
           main
<1>3. CASE Deliver
    BY <1>3, NoneAssumption
       DEF Deliver, ScreenKnown, LocalsHeld, Dismantled, rga, screen, display, ocr, main
<1>4. CASE CaptureExit
    BY <1>4, NoneAssumption
       DEF CaptureExit, ScreenKnown, LocalsHeld, Dismantled, rga, screen, display, ocr,
           main
<1>5. CASE RgaTake
    BY <1>5, NoneAssumption
       DEF RgaTake, ScreenKnown, LocalsHeld, Dismantled, capture, feed, screen, display, ocr,
           main
<1>6. CASE RgaNoOutput
    BY <1>6, NoneAssumption
       DEF RgaNoOutput, ScreenKnown, LocalsHeld, Dismantled, capture, feed, screen, display,
           ocr, main
<1>7. CASE RgaBlit
    BY <1>7, NoneAssumption
       DEF RgaBlit, ScreenKnown, LocalsHeld, Dismantled, capture, feed, screen, display, ocr,
           main
<1>8. CASE RgaBlitFails
    BY <1>8, NoneAssumption
       DEF RgaBlitFails, ScreenKnown, LocalsHeld, Dismantled, capture, feed, screen, display,
           ocr, main
<1>9. CASE RgaEmitDisplay
    BY <1>9, NoneAssumption
       DEF RgaEmitDisplay, EmitTo, ScreenKnown, LocalsHeld, Dismantled, capture, feed, screen,
           display, ocr, main
<1>10. CASE RgaEmitOcr
    BY <1>10, NoneAssumption
       DEF RgaEmitOcr, EmitTo, ScreenKnown, LocalsHeld, Dismantled, capture, feed, screen,
           display, ocr, main
<1>11. CASE RgaDone
    BY <1>11, NoneAssumption
       DEF RgaDone, ScreenKnown, LocalsHeld, Dismantled, capture, feed, screen, display, ocr,
           main
<1>12. CASE RgaExit
    BY <1>12, NoneAssumption
       DEF RgaExit, ScreenKnown, LocalsHeld, Dismantled, capture, feed, screen, display, ocr,
           main
<1>13. CASE DisplayTake
    BY <1>13, NoneAssumption
       DEF DisplayTake, ScreenKnown, LocalsHeld, Dismantled, capture, feed, rga, screen,
           display, ocr, main
<1>14. CASE PresentFirst
    BY <1>14, NoneAssumption
       DEF PresentFirst, ScreenKnown, LocalsHeld, Dismantled, capture, feed, rga, screen,
           display, ocr, main
<1>15. CASE PresentFlip
    BY <1>15, NoneAssumption
       DEF PresentFlip, ScreenKnown, LocalsHeld, Dismantled, capture, feed, rga, screen,
           display, ocr, main
<1>16. CASE FlipDone
    BY <1>16, NoneAssumption
       DEF FlipDone, MakeCurrent, ScreenKnown, LocalsHeld, Dismantled, capture, feed, rga,
           screen, display, ocr, main
<1>17. CASE ReadDeadEvent
    BY <1>17, NoneAssumption
       DEF ReadDeadEvent, MakeCurrent, ScreenKnown, LocalsHeld, Dismantled, capture, feed, rga,
           screen, display, ocr, main
<1>18. CASE DisplayDone
    BY <1>18, NoneAssumption
       DEF DisplayDone, ScreenKnown, LocalsHeld, Dismantled, capture, feed, rga, screen,
           display, ocr, main
<1>19. CASE DisplayExit
    BY <1>19, NoneAssumption
       DEF DisplayExit, ScreenKnown, LocalsHeld, Dismantled, capture, feed, rga, screen,
           display, ocr, main
<1>20. CASE PresentFails
    BY <1>20, NoneAssumption
       DEF PresentFails, ScreenKnown, LocalsHeld, Dismantled, capture, feed, rga, screen,
           display, ocr, main
<1>21. CASE WaitFails
    BY <1>21, NoneAssumption
       DEF WaitFails, MakeCurrent, ScreenKnown, LocalsHeld, Dismantled, capture, feed, rga,
           screen, display, ocr, main
<1>22. CASE Flip
    BY <1>22, NoneAssumption
       DEF Flip, ScreenKnown, LocalsHeld, Dismantled, capture, feed, rga, screen, display, ocr,
           main
<1>23. CASE OcrTake
    BY <1>23, NoneAssumption
       DEF OcrTake, ScreenKnown, LocalsHeld, Dismantled, capture, feed, rga, screen, display,
           main
<1>24. CASE OcrDone
    BY <1>24, NoneAssumption
       DEF OcrDone, ScreenKnown, LocalsHeld, Dismantled, capture, feed, rga, screen, display,
           main
<1>25. CASE OcrExit
    BY <1>25, NoneAssumption
       DEF OcrExit, ScreenKnown, LocalsHeld, Dismantled, capture, feed, rga, screen, display,
           main
<1>26. CASE Look
    BY <1>26, NoneAssumption
       DEF Look, ScreenKnown, LocalsHeld, Dismantled, capture, feed, rga, screen, display, ocr
<1>27. CASE Looked
    BY <1>27, NoneAssumption
       DEF Looked, ScreenKnown, LocalsHeld, Dismantled, capture, feed, rga, screen, display, ocr
<1>28. CASE StopCapture
    BY <1>28, NoneAssumption
       DEF StopCapture, ScreenKnown, LocalsHeld, Dismantled, capture, feed, rga, screen,
           display, ocr
<1>29. CASE StreamOff
    BY <1>29, NoneAssumption
       DEF StreamOff, ScreenKnown, LocalsHeld, Dismantled, capture, feed, rga, screen, display,
           ocr
<1>30. CASE JoinCapture
    BY <1>30, NoneAssumption
       DEF JoinCapture, ScreenKnown, LocalsHeld, Dismantled, capture, feed, rga, screen,
           display, ocr
<1>31. CASE JoinOcr
    BY <1>31, NoneAssumption
       DEF JoinOcr, JoinNode, ScreenKnown, LocalsHeld, Dismantled, capture, feed, rga, screen,
           display, ocr
<1>32. CASE JoinDisplay
    BY <1>32, NoneAssumption
       DEF JoinDisplay, JoinNode, ScreenKnown, LocalsHeld, Dismantled, capture, feed, rga,
           screen, display, ocr
<1>33. CASE JoinRga
    BY <1>33, NoneAssumption
       DEF JoinRga, JoinNode, ScreenKnown, LocalsHeld, Dismantled, capture, feed, rga, screen,
           display, ocr
<1>34. CASE DrainNodes
    BY <1>34, NoneAssumption
       DEF DrainNodes, ScreenKnown, LocalsHeld, Dismantled, capture, feed, rga, screen, display,
           ocr
<1>35. CASE SinkDestroy
    BY <1>35, NoneAssumption
       DEF SinkDestroy, ScreenKnown, LocalsHeld, Dismantled, capture, feed, rga, screen,
           display, ocr
<1>36. CASE SinkStays
    BY <1>36, NoneAssumption
       DEF SinkStays, ScreenKnown, LocalsHeld, Dismantled, capture, feed, rga, screen, display,
           ocr
<1>37. CASE PoolsDestroy
    BY <1>37, NoneAssumption
       DEF PoolsDestroy, ScreenKnown, LocalsHeld, Dismantled, capture, feed, rga, screen,
           display, ocr
<1>. QED
    BY <1>1, <1>2, <1>3, <1>4, <1>5, <1>6, <1>7, <1>8, <1>9, <1>10, <1>11, <1>12,
       <1>13, <1>14, <1>15, <1>16, <1>17, <1>18, <1>19, <1>20, <1>21, <1>22, <1>23,
       <1>24, <1>25, <1>26, <1>27, <1>28, <1>29, <1>30, <1>31, <1>32, <1>33, <1>34,
       <1>35, <1>36, <1>37
       DEF Next, CaptureStep, RgaStep, DisplayStep, Shutdown

\* Taking a frame brings no other into a queue, and it was in one.
LEMMA TakenWasQueued ==
    ASSUME QueuesOK, NEW n \in Nodes, queue[n] # <<>>,
           queue' = [queue EXCEPT ![n] = Tail(@)]
    PROVE  /\ InQueue(Head(queue[n])) /\ Head(queue[n]) \in Buffers
           /\ \A b : InQueue(b)' => InQueue(b)
<1>1. queue[n] \in Seq(Buffers) /\ Len(queue[n]) \in Nat /\ Len(queue[n]) >= 1
    BY DEF QueuesOK
<1>2. InQueue(Head(queue[n])) /\ Head(queue[n]) \in Buffers
  <2>1. 1 \in 1 .. Len(queue[n]) /\ Head(queue[n]) = queue[n][1]
      BY <1>1
  <2>. QED
      BY <1>1, <2>1 DEF InQueue
<1>3. ASSUME NEW b, NEW m \in Nodes, NEW i \in 1 .. Len(queue'[m]), queue'[m][i] = b
      PROVE  InQueue(b)
  <2>1. CASE m = n
    <3>1. queue'[m] = Tail(queue[n])
        BY <2>1 DEF QueuesOK
    <3>2. i + 1 \in 1 .. Len(queue[n]) /\ queue[n][i + 1] = b
      <4>1. /\ Len(Tail(queue[n])) = Len(queue[n]) - 1
            /\ \A k \in 1 .. Len(Tail(queue[n])) : Tail(queue[n])[k] = queue[n][k + 1]
          BY <1>1
      <4>2. i \in 1 .. Len(Tail(queue[n])) /\ Tail(queue[n])[i] = b
          BY <1>3, <3>1
      <4>. QED
          BY <1>1, <4>1, <4>2
    <3>. QED
        BY <3>2 DEF InQueue
  <2>2. CASE m # n
      BY <1>3, <2>2 DEF QueuesOK, InQueue
  <2>. QED
      BY <2>1, <2>2
<1>. QED
    BY <1>2, <1>3 DEF InQueue

\* The buffer that the RGA starts to write was nowhere, and every step of others
\* leaves it so.
LEMMA WrittenStep ==
    ASSUME TypeOK, RefsBalanced, LocalsHeld, WrittenAlone, Next, QueuesOK'
    PROVE  WrittenAlone'
<1>0. QueuesOK
    BY TypeParts
<1>a. ASSUME UNCHANGED <<rpc, rout, din, oin, current, queue>>
      PROVE  WrittenAlone'
    BY <1>a DEF WrittenAlone, InQueue
<1>b. ASSUME rpc' # "blit"
      PROVE  WrittenAlone'
    BY <1>b DEF WrittenAlone
<1>c. ASSUME UNCHANGED <<rpc, rout, oin, queue>>, din' \in {din, None},
             current' \in {current, din, None}, rout = None => rpc # "blit"
      PROVE  WrittenAlone'
    BY <1>c DEF WrittenAlone, InQueue
<1>d. rpc = "blit" => rout # None /\ rout \in Outputs
    BY DEF LocalsHeld, TypeOK
<1>1. CASE \E a \in Captures : Dequeue(a)
    BY <1>1, <1>a DEF Dequeue, rga, screen, display, ocr
<1>2. CASE \E b \in Outputs : RgaAcquire(b)
  <2>1. PICK b \in Outputs : RgaAcquire(b)
      BY <1>2
  <2>2. b \in Buffers /\ refs[b] = 0
      BY <2>1 DEF RgaAcquire, Buffers
  <2>3. ~InQueue(b) /\ b \notin {din, oin, current}
      BY <1>0, <2>2, FreeIsNowhere
  <2>. QED
      BY <2>1, <2>3 DEF RgaAcquire, WrittenAlone, InQueue, screen, display, ocr
<1>3. CASE Deliver
  <2>1. ASSUME rpc = "blit", InQueue(rout)'
        PROVE  FALSE
    <3>1. queue' = [queue EXCEPT !["rga"] = Pushed("rga", cbuf)] /\ rout' = rout
        BY <1>3 DEF Deliver, rga
    <3>2. PICK m \in Nodes : \E i \in 1 .. Len(queue'[m]) : queue'[m][i] = rout
        BY <2>1, <3>1 DEF InQueue
    <3>3. m # "rga"
        BY <1>d, <2>1, <3>2, DisjointPools DEF QueuesOK
    <3>. QED
        BY <1>0, <2>1, <3>1, <3>2, <3>3 DEF QueuesOK, WrittenAlone, InQueue
  <2>. QED
      BY <1>3, <2>1 DEF Deliver, WrittenAlone, rga, screen, display, ocr
<1>4. CASE DisplayTake
  <2>1. InQueue(Head(queue["display"])) /\ \A b : InQueue(b)' => InQueue(b)
      BY <1>0, <1>4, TakenWasQueued DEF DisplayTake, Nodes
  <2>2. rout' = rout
      BY <1>4 DEF DisplayTake, rga
  <2>3. InQueue(rout)' => InQueue(rout)
      BY <2>1, <2>2 DEF InQueue
  <2>. QED
      BY <1>4, <2>1, <2>3 DEF DisplayTake, WrittenAlone, rga, screen, ocr
<1>5. CASE OcrTake
  <2>1. InQueue(Head(queue["ocr"])) /\ \A b : InQueue(b)' => InQueue(b)
      BY <1>0, <1>5, TakenWasQueued DEF OcrTake, Nodes
  <2>2. rout' = rout
      BY <1>5 DEF OcrTake, rga
  <2>3. InQueue(rout)' => InQueue(rout)
      BY <2>1, <2>2 DEF InQueue
  <2>. QED
      BY <1>5, <2>1, <2>3 DEF OcrTake, WrittenAlone, rga, screen, display
<1>6. CASE OcrDone
    BY <1>6, <1>d, <1>0 DEF OcrDone, WrittenAlone, InQueue, rga, screen, display
<1>7. CASE (RgaStep /\ ~(\E b \in Outputs : RgaAcquire(b))) \/ RgaBlitFails
    BY <1>7, <1>b DEF RgaStep, RgaTake, RgaNoOutput, RgaBlit, RgaBlitFails, RgaEmitDisplay,
                      RgaEmitOcr, EmitTo, RgaDone, RgaExit
<1>8. CASE PresentFirst \/ PresentFlip \/ FlipDone \/ DisplayDone \/ DisplayExit
           \/ PresentFails \/ Flip
    BY <1>8, <1>c, <1>d
       DEF PresentFirst, PresentFlip, FlipDone, MakeCurrent, DisplayDone, DisplayExit,
           PresentFails, Flip, rga, screen, display, ocr
<1>9. CASE ReadDeadEvent \/ WaitFails
    BY <1>9, <1>c, <1>d DEF ReadDeadEvent, WaitFails, MakeCurrent, rga, ocr
<1>10. CASE CaptureExit \/ OcrExit \/ Look \/ Looked \/ StopCapture
    BY <1>10, <1>a DEF CaptureExit, OcrExit, Look, Looked, StopCapture, rga, screen,
                       display, ocr
<1>11. CASE StreamOff \/ JoinCapture \/ JoinOcr \/ JoinDisplay \/ JoinRga
    BY <1>11, <1>a DEF StreamOff, JoinCapture, JoinOcr, JoinDisplay, JoinRga, JoinNode,
                       rga, screen, display, ocr
<1>12. CASE DrainNodes
  <2>1. ~InQueue(rout)'
      BY <1>12 DEF DrainNodes, InQueue, Nodes
  <2>. QED
      BY <1>12, <2>1 DEF DrainNodes, WrittenAlone, rga, screen, display, ocr
<1>13. CASE SinkDestroy \/ SinkStays \/ PoolsDestroy
    BY <1>13, <1>c, <1>d DEF SinkDestroy, SinkStays, PoolsDestroy, rga, screen, display, ocr
<1>. QED
    BY <1>1, <1>2, <1>3, <1>4, <1>5, <1>6, <1>7, <1>8, <1>9, <1>10, <1>11, <1>12, <1>13
       DEF Next, CaptureStep, DisplayStep, Shutdown

-----------------------------------------------------------------------------
(* The order of frames along the path. *)

\* What the queues name are buffers of their pools.
LEMMA EntriesTyped ==
    QueuesOK => Entries("rga") \subseteq Captures /\ Entries("display") \subseteq Outputs
BY DEF QueuesOK, Entries

\* A queue in order stays so without its head, which comes before all the others.
LEMMA OrderTail ==
    ASSUME NEW S, NEW q \in Seq(S), q # <<>>, InOrder(q)
    PROVE  /\ InOrder(Tail(q))
           /\ \E k \in 1 .. Len(q) : Head(q) = q[k]
           /\ \A i \in 1 .. Len(Tail(q)) :
                /\ \E k \in 1 .. Len(q) : Tail(q)[i] = q[k]
                /\ frameId[Head(q)] <= frameId[Tail(q)[i]]
<1>1. /\ Len(q) \in Nat /\ Len(q) >= 1 /\ Head(q) = q[1]
      /\ Len(Tail(q)) = Len(q) - 1
      /\ \A i \in 1 .. Len(Tail(q)) : Tail(q)[i] = q[i + 1]
    OBVIOUS
<1>2. \A i \in 1 .. Len(Tail(q)) : i + 1 \in 1 .. Len(q) /\ i \in Nat
    BY <1>1
<1>3. 1 \in 1 .. Len(q)
    BY <1>1
<1>4. InOrder(Tail(q))
  <2>. SUFFICES ASSUME NEW i \in 1 .. Len(Tail(q)), NEW j \in 1 .. Len(Tail(q)), i <= j
                PROVE  frameId[Tail(q)[i]] <= frameId[Tail(q)[j]]
      BY DEF InOrder
  <2>1. i + 1 <= j + 1 /\ i + 1 \in 1 .. Len(q) /\ j + 1 \in 1 .. Len(q)
      BY <1>1
  <2>. QED
      BY <1>1, <2>1 DEF InOrder
<1>5. ASSUME NEW i \in 1 .. Len(Tail(q))
      PROVE  frameId[Head(q)] <= frameId[Tail(q)[i]]
  <2>1. 1 <= i + 1 /\ i + 1 \in 1 .. Len(q)
      BY <1>1
  <2>. QED
      BY <1>1, <1>3, <2>1 DEF InOrder
<1>. QED
    BY <1>1, <1>2, <1>3, <1>4, <1>5

\* A queue in order stays so when a frame comes in that is none of the earlier.
LEMMA OrderPush ==
    ASSUME NEW S, None \notin S, NEW n, queue[n] \in Seq(S), Len(queue[n]) <= Depth,
           NEW b \in S, frameId[b] \in Nat, InOrder(queue[n]),
           \A x \in Entries(n) : frameId[x] <= frameId[b]
    PROVE  /\ InOrder(Pushed(n, b))
           /\ \A i \in 1 .. Len(Pushed(n, b)) : Pushed(n, b)[i] \in Entries(n) \cup {b}
<1>. DEFINE q == queue[n]
            p == Pushed(n, b)
<1>1. /\ p \in Seq(S)
      /\ \A i \in 1 .. Len(p) :
           IF i = Len(p)
           THEN p[i] = b
           ELSE \E j \in 1 .. Len(q) : p[i] = q[j] /\ j = IF Full(n) THEN i + 1 ELSE i
    BY PushedShape
<1>. HIDE DEF p
<1>2. \A i \in 1 .. Len(p) : p[i] \in Entries(n) \cup {b}
    BY <1>1 DEF Entries
<1>3. ASSUME NEW i \in 1 .. Len(p), NEW j \in 1 .. Len(p), i <= j
      PROVE  frameId[p[i]] <= frameId[p[j]]
  <2>0. Len(p) \in Nat
      BY <1>1
  <2>1. CASE j = Len(p)
      BY <1>1, <1>2, <2>1
  <2>2. CASE j # Len(p)
    <3>1. i # Len(p) /\ i \in Nat /\ j \in Nat
        BY <1>3, <2>0, <2>2
    <3>2. PICK k \in 1 .. Len(q) : p[i] = q[k] /\ k = IF Full(n) THEN i + 1 ELSE i
        BY <1>1, <3>1
    <3>3. PICK l \in 1 .. Len(q) : p[j] = q[l] /\ l = IF Full(n) THEN j + 1 ELSE j
        BY <1>1, <2>2
    <3>4. k <= l
        BY <1>3, <3>1, <3>2, <3>3
    <3>. QED
        BY <3>2, <3>3, <3>4 DEF InOrder
  <2>. QED
      BY <2>1, <2>2
<1>. QED
    BY <1>2, <1>3 DEF InOrder, p

\* Frames that leave the path, and a frame that becomes the current one, disturb no
\* order.
LEMMA OrderFrame ==
    ASSUME TypeOK, PathOrdered, UNCHANGED <<frameId, seq>>,
           queue'["rga"] = queue["rga"], queue'["display"] = queue["display"],
           current' \in {current, din, None}, din' \in {din, None}, cbuf' = cbuf,
           rin' \in {rin, None}, rout' \in {rout, None}, rin' = rin \/ rout' = None
    PROVE  PathOrdered'
<1>1. Entries("rga")' = Entries("rga") /\ Entries("display")' = Entries("display")
    BY DEF Entries
<1>2. Shown' \subseteq Shown /\ Coming' \subseteq Coming
    BY <1>1 DEF Shown, Coming
<1>3. InOrder(queue["display"])' /\ InOrder(queue["rga"])'
    BY DEF PathOrdered, InOrder
<1>4. /\ \A b \in Buffers : frameId'[b] <= seq'
      /\ rout' # None => frameId'[rout'] = frameId'[rin']
      /\ \A x \in Shown', y \in Coming' : frameId'[x] <= frameId'[y]
    BY <1>2 DEF PathOrdered
<1>5. current' # None /\ din' # None => frameId'[current'] <= frameId'[din']
  <2>1. din # None => frameId[din] \in Nat
      BY DEF TypeOK, Buffers
  <2>. QED
      BY <2>1 DEF PathOrdered
<1>6. /\ \A x \in {current', din'} \ {None}, y \in Entries("display")' :
           frameId'[x] <= frameId'[y]
      /\ rin' # None => \A y \in Entries("rga")' : frameId'[rin'] <= frameId'[y]
      /\ cbuf' # None =>
           \A x \in ({rin'} \cup Entries("rga")') \ {None} : frameId'[x] <= frameId'[cbuf']
    BY <1>1 DEF PathOrdered
<1>. QED
    BY <1>3, <1>4, <1>5, <1>6 DEF PathOrdered

\* The steps that move frames along, each in the order of their numbers.
LEMMA PathStep ==
    ASSUME TypeOK, RefsBalanced, CameraOwnsRest, LocalsHeld, PathOrdered, Next
    PROVE  PathOrdered'
<1>0. QueuesOK /\ RestOK
    BY TypeParts
<1>a. /\ Entries("rga") \subseteq Captures /\ Entries("display") \subseteq Outputs
      /\ \A b \in Buffers : frameId[b] \in Nat /\ b # None /\ seq \in Nat
    BY <1>0, EntriesTyped, NoneAssumption DEF RestOK, Buffers
<1>b. Shown \subseteq Outputs /\ Coming \subseteq Captures
    BY <1>0, <1>a DEF Shown, Coming, RestOK
<1>c. ASSUME NEW b \in Buffers, refs[b] = 0
      PROVE  b \notin Shown \cup Coming \cup Entries("rga") \cup Entries("display") \cup {rout}
  <2>1. ~InQueue(b) /\ b \notin {rin, rout, cbuf, din, current}
      BY <1>0, <1>c, FreeIsNowhere
  <2>2. b \notin Entries("rga") /\ b \notin Entries("display")
      BY <2>1 DEF InQueue, Entries, Nodes
  <2>. QED
      BY <2>1, <2>2 DEF Shown, Coming
<1>1. CASE \E a \in Captures : Dequeue(a)
  <2>1. PICK a \in Captures : Dequeue(a)
      BY <1>1
  <2>2. a \in Buffers /\ refs[a] = 0 /\ cbuf = None /\ cbuf' = a
        /\ UNCHANGED <<queue, rin, rout, din, current>>
      BY <2>1 DEF Dequeue, CameraOwnsRest, Buffers, LocalsHeld, rga, screen, display
  <2>3. /\ seq' \in Nat /\ seq <= seq'
        /\ frameId' = [frameId EXCEPT ![a] = seq]
      BY <1>0, <2>1, BoundsAssumption DEF Dequeue, RestOK
  <2>4. frameId'[a] = seq /\ \A b \in Buffers \ {a} : frameId'[b] = frameId[b]
      BY <1>0, <2>2, <2>3 DEF RestOK
  <2>5. a \notin Shown \cup Coming \cup Entries("rga") \cup Entries("display") \cup {rout}
      BY <2>2, <1>c
  <2>6. Entries("rga")' = Entries("rga") /\ Entries("display")' = Entries("display")
      BY <2>2 DEF Entries
  <2>7. Shown' = Shown /\ Coming' = Coming \cup {a}
      BY <1>a, <2>2, <2>6 DEF Shown, Coming
  <2>8. \A b \in Buffers : frameId'[b] <= seq'
      BY <1>a, <2>2, <2>3, <2>4 DEF PathOrdered
  <2>9. rout' # None => frameId'[rout'] = frameId'[rin']
    <3>1. rout # None => rout \in Buffers /\ rin \in Buffers /\ rin \in Coming
        BY <1>0 DEF RestOK, Buffers, LocalsHeld, Coming
    <3>. QED
        BY <2>2, <2>4, <2>5, <3>1 DEF PathOrdered
  <2>10. \A x \in Shown' \cup Coming \cup Entries("rga") \cup Entries("display") :
           frameId'[x] = frameId[x] /\ frameId'[x] <= frameId'[a]
    <3>1. \A x \in Shown \cup Coming \cup Entries("rga") \cup Entries("display") :
            x \in Buffers \ {a}
        BY <1>a, <1>b, <2>5 DEF Buffers
    <3>. QED
        BY <2>4, <2>7, <3>1 DEF PathOrdered
  <2>11. \A x \in Shown', y \in Coming' : frameId'[x] <= frameId'[y]
      BY <2>7, <2>10 DEF PathOrdered
  <2>12. InOrder(queue["display"])' /\ InOrder(queue["rga"])'
      BY <2>2, <2>10 DEF PathOrdered, InOrder, Entries
  <2>13. /\ current' # None /\ din' # None => frameId'[current'] <= frameId'[din']
         /\ \A x \in {current', din'} \ {None}, y \in Entries("display")' :
              frameId'[x] <= frameId'[y]
    <3>1. \A x \in {current, din} \ {None} : x \in Shown
        BY DEF Shown
    <3>. QED
        BY <2>2, <2>6, <2>7, <2>10, <3>1 DEF PathOrdered
  <2>14. /\ rin' # None => \A y \in Entries("rga")' : frameId'[rin'] <= frameId'[y]
         /\ cbuf' # None =>
              \A x \in ({rin'} \cup Entries("rga")') \ {None} : frameId'[x] <= frameId'[cbuf']
    <3>1. rin # None => rin \in Coming
        BY DEF Coming
    <3>. QED
        BY <2>2, <2>6, <2>10, <3>1 DEF PathOrdered
  <2>. QED
      BY <2>8, <2>9, <2>11, <2>12, <2>13, <2>14 DEF PathOrdered
<1>2. CASE Deliver
  <2>1. /\ cbuf \in Captures /\ cbuf # None /\ cbuf' = None
        /\ queue' = [queue EXCEPT !["rga"] = Pushed("rga", cbuf)]
        /\ UNCHANGED <<frameId, seq, rin, rout, din, current>>
      BY <1>0, <1>2 DEF Deliver, LocalsHeld, RestOK, rga, screen, display
  <2>2. queue'["rga"] = Pushed("rga", cbuf) /\ queue'["display"] = queue["display"]
      BY <1>0, <2>1 DEF QueuesOK, Nodes
  <2>3. \A x \in Entries("rga") : frameId[x] <= frameId[cbuf]
      BY <1>a, <2>1, NoneAssumption DEF PathOrdered
  <2>4. /\ InOrder(Pushed("rga", cbuf))
        /\ \A i \in 1 .. Len(Pushed("rga", cbuf)) :
             Pushed("rga", cbuf)[i] \in Entries("rga") \cup {cbuf}
    <3>1. /\ None \notin Captures /\ queue["rga"] \in Seq(Captures)
          /\ Len(queue["rga"]) <= Depth /\ frameId[cbuf] \in Nat
          /\ InOrder(queue["rga"])
        BY <1>0, <1>a, <2>1, NoneAssumption DEF QueuesOK, Nodes, Buffers, PathOrdered
    <3>. QED
        BY <2>1, <2>3, <3>1, OrderPush
  <2>5. Entries("rga")' \subseteq Entries("rga") \cup {cbuf}
        /\ Entries("display")' = Entries("display")
      BY <2>2, <2>4 DEF Entries
  <2>6. Shown' = Shown /\ Coming' \subseteq Coming
      BY <2>1, <2>5 DEF Shown, Coming
  <2>7. InOrder(queue["display"])' /\ InOrder(queue["rga"])'
      BY <2>1, <2>2, <2>4 DEF PathOrdered, InOrder
  <2>8. rin' # None => \A y \in Entries("rga")' : frameId'[rin'] <= frameId'[y]
      BY <2>1, <2>5 DEF PathOrdered
  <2>. QED
      BY <2>1, <2>5, <2>6, <2>7, <2>8 DEF PathOrdered
<1>3. CASE RgaTake
  <2>1. /\ queue["rga"] # <<>> /\ rin = None /\ rout = None /\ rin' = Head(queue["rga"])
        /\ queue' = [queue EXCEPT !["rga"] = Tail(@)]
        /\ UNCHANGED <<frameId, seq, cbuf, rout, din, current>>
      BY <1>3 DEF RgaTake, LocalsHeld, capture, feed, screen, display
  <2>2. queue'["rga"] = Tail(queue["rga"]) /\ queue'["display"] = queue["display"]
      BY <1>0, <2>1 DEF QueuesOK, Nodes
  <2>3. /\ InOrder(Tail(queue["rga"]))
        /\ Head(queue["rga"]) \in Entries("rga")
        /\ \A i \in 1 .. Len(Tail(queue["rga"])) :
             /\ Tail(queue["rga"])[i] \in Entries("rga")
             /\ frameId[Head(queue["rga"])] <= frameId[Tail(queue["rga"])[i]]
      BY <1>0, <2>1, OrderTail DEF QueuesOK, PathOrdered, Entries
  <2>4. /\ Entries("rga")' \subseteq Entries("rga")
        /\ Entries("display")' = Entries("display")
        /\ \A y \in Entries("rga")' : frameId[Head(queue["rga"])] <= frameId[y]
      BY <2>2, <2>3 DEF Entries
  <2>5. Shown' = Shown /\ Coming' \subseteq Coming
      BY <2>1, <2>3, <2>4 DEF Shown, Coming
  <2>6. InOrder(queue["display"])' /\ InOrder(queue["rga"])'
      BY <2>1, <2>2, <2>3 DEF PathOrdered, InOrder
  <2>7. cbuf' # None =>
          \A x \in ({rin'} \cup Entries("rga")') \ {None} : frameId'[x] <= frameId'[cbuf']
      BY <2>1, <2>3, <2>4 DEF PathOrdered
  <2>. QED
      BY <2>1, <2>4, <2>5, <2>6, <2>7 DEF PathOrdered
<1>4. CASE \E b \in Outputs : RgaAcquire(b)
  <2>1. PICK b \in Outputs : RgaAcquire(b)
      BY <1>4
  <2>2. /\ b \in Buffers /\ refs[b] = 0 /\ rin \in Buffers /\ rin # b /\ rout' = b
        /\ UNCHANGED <<seq, queue, cbuf, rin, din, current>>
        /\ frameId' = [frameId EXCEPT ![b] = frameId[rin]]
      BY <1>0, <2>1, DisjointPools
         DEF RgaAcquire, LocalsHeld, RestOK, Buffers, capture, feed, screen, display
  <2>3. frameId'[b] = frameId[rin] /\ \A c \in Buffers \ {b} : frameId'[c] = frameId[c]
      BY <1>0, <2>2 DEF RestOK
  <2>4. Entries("rga")' = Entries("rga") /\ Entries("display")' = Entries("display")
      BY <2>2 DEF Entries
  <2>5. Shown' = Shown /\ Coming' = Coming
      BY <2>2, <2>4 DEF Shown, Coming
  <2>6. \A x \in Shown \cup Coming \cup Entries("rga") \cup Entries("display") :
          frameId'[x] = frameId[x]
    <3>1. \A x \in Shown \cup Coming \cup Entries("rga") \cup Entries("display") :
            x \in Buffers \ {b}
        BY <1>a, <1>b, <1>c, <2>2 DEF Buffers
    <3>. QED
        BY <2>3, <3>1
  <2>7. \A c \in Buffers : frameId'[c] <= seq'
      BY <2>2, <2>3 DEF PathOrdered
  <2>8. rout' # None => frameId'[rout'] = frameId'[rin']
      BY <2>2, <2>3
  <2>9. InOrder(queue["display"])' /\ InOrder(queue["rga"])'
      BY <2>2, <2>6 DEF PathOrdered, InOrder, Entries
  <2>10. /\ current' # None /\ din' # None => frameId'[current'] <= frameId'[din']
         /\ \A x \in {current', din'} \ {None}, y \in Entries("display")' :
              frameId'[x] <= frameId'[y]
    <3>1. \A x \in {current, din} \ {None} : x \in Shown
        BY DEF Shown
    <3>. QED
        BY <2>2, <2>4, <2>6, <3>1 DEF PathOrdered
  <2>11. /\ rin' # None => \A y \in Entries("rga")' : frameId'[rin'] <= frameId'[y]
         /\ cbuf' # None =>
              \A x \in ({rin'} \cup Entries("rga")') \ {None} : frameId'[x] <= frameId'[cbuf']
    <3>1. \A x \in {rin, cbuf} \ {None} : x \in Coming
        BY DEF Coming
    <3>. QED
        BY <2>2, <2>4, <2>6, <3>1 DEF PathOrdered
  <2>. QED
      BY <2>5, <2>6, <2>7, <2>8, <2>9, <2>10, <2>11 DEF PathOrdered
<1>5. CASE RgaEmitDisplay
  <2>1. /\ rin # None /\ rout # None /\ rout \in Outputs /\ ~Busy("display")
        /\ queue' = [queue EXCEPT !["display"] = Pushed("display", rout)]
        /\ UNCHANGED <<frameId, seq, cbuf, rin, rout, din, current>>
      BY <1>0, <1>5
         DEF RgaEmitDisplay, EmitTo, Busy, LocalsHeld, RestOK, capture, feed, screen, display
  <2>2. queue'["display"] = Pushed("display", rout) /\ queue'["rga"] = queue["rga"]
      BY <1>0, <2>1 DEF QueuesOK, Nodes
  <2>3. /\ frameId[rout] = frameId[rin] /\ rin \in Coming
        /\ \A x \in Shown : frameId[x] <= frameId[rout]
        /\ \A y \in Coming : frameId[rout] <= frameId[y]
    <3>1. frameId[rout] = frameId[rin] /\ rin \in Coming
        BY <2>1 DEF PathOrdered, Coming
    <3>2. \A y \in Coming : frameId[rin] <= frameId[y]
      <4>1. frameId[rin] \in Nat
          BY <1>a, <1>b, <3>1 DEF Buffers
      <4>. QED
          BY <2>1, <4>1 DEF PathOrdered, Coming
    <3>. QED
        BY <3>1, <3>2 DEF PathOrdered
  <2>4. /\ InOrder(Pushed("display", rout))
        /\ \A i \in 1 .. Len(Pushed("display", rout)) :
             Pushed("display", rout)[i] \in Entries("display") \cup {rout}
    <3>1. /\ None \notin Outputs /\ queue["display"] \in Seq(Outputs)
          /\ Len(queue["display"]) <= Depth /\ frameId[rout] \in Nat
          /\ InOrder(queue["display"])
        BY <1>0, <1>a, <2>1, NoneAssumption DEF QueuesOK, Nodes, Buffers, PathOrdered
    <3>2. \A x \in Entries("display") : frameId[x] <= frameId[rout]
        BY <1>a, <2>3, NoneAssumption DEF Shown
    <3>. QED
        BY <2>1, <3>1, <3>2, OrderPush
  <2>5. Entries("display")' \subseteq Entries("display") \cup {rout}
        /\ Entries("rga")' = Entries("rga")
      BY <2>2, <2>4 DEF Entries
  <2>6. Shown' \subseteq Shown \cup {rout} /\ Coming' = Coming
      BY <2>1, <2>5 DEF Shown, Coming
  <2>7. InOrder(queue["display"])' /\ InOrder(queue["rga"])'
      BY <2>1, <2>2, <2>4 DEF PathOrdered, InOrder
  <2>8. \A x \in {current', din'} \ {None}, y \in Entries("display")' :
          frameId'[x] <= frameId'[y]
    <3>1. \A x \in {current, din} \ {None} : x \in Shown
        BY DEF Shown
    <3>. QED
        BY <2>1, <2>3, <2>5, <3>1 DEF PathOrdered
  <2>9. \A x \in Shown', y \in Coming' : frameId'[x] <= frameId'[y]
      BY <2>1, <2>3, <2>6 DEF PathOrdered
  <2>. QED
      BY <2>1, <2>5, <2>7, <2>8, <2>9 DEF PathOrdered
<1>6. CASE DisplayTake
  <2>1. /\ queue["display"] # <<>> /\ din = None /\ din' = Head(queue["display"])
        /\ queue' = [queue EXCEPT !["display"] = Tail(@)]
        /\ UNCHANGED <<frameId, seq, cbuf, rin, rout, current>>
      BY <1>6 DEF DisplayTake, LocalsHeld, capture, feed, rga, screen
  <2>2. queue'["display"] = Tail(queue["display"]) /\ queue'["rga"] = queue["rga"]
      BY <1>0, <2>1 DEF QueuesOK, Nodes
  <2>3. /\ InOrder(Tail(queue["display"]))
        /\ Head(queue["display"]) \in Entries("display")
        /\ \A i \in 1 .. Len(Tail(queue["display"])) :
             /\ Tail(queue["display"])[i] \in Entries("display")
             /\ frameId[Head(queue["display"])] <= frameId[Tail(queue["display"])[i]]
      BY <1>0, <2>1, OrderTail DEF QueuesOK, PathOrdered, Entries
  <2>4. /\ Entries("display")' \subseteq Entries("display")
        /\ Entries("rga")' = Entries("rga")
        /\ \A y \in Entries("display")' : frameId[Head(queue["display"])] <= frameId[y]
      BY <2>2, <2>3 DEF Entries
  <2>5. Shown' \subseteq Shown /\ Coming' = Coming
      BY <2>1, <2>3, <2>4 DEF Shown, Coming
  <2>6. InOrder(queue["display"])' /\ InOrder(queue["rga"])'
      BY <2>1, <2>2, <2>3 DEF PathOrdered, InOrder
  <2>7. /\ current' # None /\ din' # None => frameId'[current'] <= frameId'[din']
        /\ \A x \in {current', din'} \ {None}, y \in Entries("display")' :
             frameId'[x] <= frameId'[y]
      BY <2>1, <2>3, <2>4 DEF PathOrdered
  <2>. QED
      BY <2>1, <2>4, <2>5, <2>6, <2>7 DEF PathOrdered
<1>7. CASE DrainNodes
  <2>1. Entries("rga")' = {} /\ Entries("display")' = {}
        /\ queue'["rga"] = <<>> /\ queue'["display"] = <<>>
      BY <1>7 DEF DrainNodes, Entries, Nodes
  <2>2. UNCHANGED <<frameId, seq, cbuf, rin, rout, din, current>>
      BY <1>7 DEF DrainNodes, capture, feed, rga, screen, display
  <2>3. Shown' \subseteq Shown /\ Coming' \subseteq Coming
      BY <2>1, <2>2 DEF Shown, Coming
  <2>4. InOrder(queue["display"])' /\ InOrder(queue["rga"])'
      BY <2>1 DEF InOrder
  <2>. QED
      BY <2>1, <2>2, <2>3, <2>4 DEF PathOrdered
<1>8. CASE RgaEmitOcr \/ OcrTake
  <2>1. queue'["rga"] = queue["rga"] /\ queue'["display"] = queue["display"]
      BY <1>0, <1>8 DEF RgaEmitOcr, EmitTo, OcrTake, QueuesOK, Nodes
  <2>. QED
      BY <1>8, <2>1, OrderFrame
         DEF RgaEmitOcr, EmitTo, OcrTake, capture, feed, rga, screen, display
<1>9. CASE RgaNoOutput \/ RgaBlit \/ RgaBlitFails \/ RgaDone \/ RgaExit
    BY <1>9, OrderFrame
       DEF RgaNoOutput, RgaBlit, RgaBlitFails, RgaDone, RgaExit, capture, feed, screen, display
<1>10. CASE PresentFirst \/ PresentFlip \/ FlipDone \/ ReadDeadEvent \/ WaitFails
    BY <1>10, OrderFrame
       DEF PresentFirst, PresentFlip, FlipDone, ReadDeadEvent, WaitFails, MakeCurrent,
           capture, feed, rga
<1>11. CASE DisplayDone \/ DisplayExit \/ PresentFails \/ Flip
    BY <1>11, OrderFrame
       DEF DisplayDone, DisplayExit, PresentFails, Flip, capture, feed, rga, screen, display
<1>12. CASE CaptureExit \/ OcrDone \/ OcrExit \/ Look \/ Looked \/ StopCapture
    BY <1>12, OrderFrame
       DEF CaptureExit, OcrDone, OcrExit, Look, Looked, StopCapture,
           capture, feed, rga, screen, display
<1>13. CASE StreamOff \/ JoinCapture \/ JoinOcr \/ JoinDisplay \/ JoinRga
    BY <1>13, OrderFrame
       DEF StreamOff, JoinCapture, JoinOcr, JoinDisplay, JoinRga, JoinNode,
           capture, feed, rga, screen, display
<1>14. CASE SinkDestroy \/ SinkStays \/ PoolsDestroy
    BY <1>14, OrderFrame
       DEF SinkDestroy, SinkStays, PoolsDestroy, capture, feed, rga, screen, display
<1>. QED
    BY <1>1, <1>2, <1>3, <1>4, <1>5, <1>6, <1>7, <1>8, <1>9, <1>10, <1>11, <1>12, <1>13,
       <1>14
       DEF Next, CaptureStep, RgaStep, DisplayStep, Shutdown

-----------------------------------------------------------------------------
(* The inductive invariant. *)

\* When the pools are to go, no count is left.
LEMMA PoolsIdle ==
    ASSUME TypeOK, RefsBalanced, LocalsHeld, Dismantled, mpc = "pools", NEW b \in Buffers
    PROVE  refs[b] = 0
<1>1. /\ queue["rga"] = <<>> /\ queue["display"] = <<>> /\ queue["ocr"] = <<>>
      /\ latest = None /\ cpc = "exited" /\ rpc = "exited" /\ dpc = "exited"
      /\ opc = "exited" /\ current = None
    BY DEF Dismantled, Nodes
<1>2. Queued(b) = 0
    BY <1>1, OccursEmpty DEF Queued
<1>3. cbuf = None /\ cold = None /\ rin = None /\ rout = None /\ din = None /\ oin = None
      /\ mbuf = None
    BY <1>1 DEF LocalsHeld
<1>4. b # None
    BY NoneAssumption DEF Buffers
<1>. QED
    BY <1>1, <1>2, <1>3, <1>4 DEF RefsBalanced, Held, One

\* The path starts with all buffers free.
LEMMA InitIInv == Init => IInv
<1>. SUFFICES ASSUME Init
              PROVE  IInv
    OBVIOUS
<1>1. /\ queue = [n \in Nodes |-> <<>>]
      /\ queue["rga"] = <<>> /\ queue["display"] = <<>> /\ queue["ocr"] = <<>>
    BY DEF Init, Nodes
<1>2. QueuesOK
    BY <1>1, BoundsAssumption DEF QueuesOK, Nodes
<1>3. RestOK
  <2>1. frameId \in [Buffers -> 0 .. MaxFrame] /\ seq \in 0 .. MaxFrame
      BY BoundsAssumption DEF Init
  <2>2. running \in [Nodes -> BOOLEAN] /\ streaming \in BOOLEAN
        /\ faulted \in BOOLEAN
      BY DEF Init
  <2>. QED
      BY <2>1, <2>2 DEF Init, RestOK
<1>4. /\ refs \in [Buffers -> Nat] /\ camera \subseteq Captures
      /\ capRunning \in BOOLEAN /\ queueError \in BOOLEAN
    BY DEF Init
<1>5. TypeOK
    BY <1>2, <1>3, <1>4, TypeParts
<1>6. RefsBalanced
  <2>. SUFFICES ASSUME NEW b \in Buffers
                PROVE  refs[b] = Held(b)
      BY DEF RefsBalanced
  <2>1. Queued(b) = 0
      BY <1>1, OccursEmpty DEF Queued
  <2>2. b # None
      BY NoneAssumption DEF Buffers
  <2>. QED
      BY <2>1, <2>2 DEF Init, Held, One
<1>7. CameraOwnsRest
    BY DEF Init, CameraOwnsRest, Buffers
<1>8. LocalsHeld /\ Dismantled /\ ThreadTold /\ ScreenKnown /\ WrittenAlone
      /\ NothingLeaked
    BY DEF Init, LocalsHeld, Dismantled, ThreadTold, ScreenKnown, WrittenAlone,
           NothingLeaked
<1>9. PathOrdered
  <2>1. Entries("rga") = {} /\ Entries("display") = {}
      BY <1>1 DEF Entries
  <2>2. Shown = {} /\ Coming = {}
      BY <2>1 DEF Init, Shown, Coming
  <2>3. InOrder(queue["display"]) /\ InOrder(queue["rga"])
      BY <1>1 DEF InOrder
  <2>. QED
      BY <2>1, <2>2, <2>3 DEF Init, PathOrdered
<1>. QED
    BY <1>5, <1>6, <1>7, <1>8, <1>9 DEF IInv

\* And every step keeps its order.
LEMMA StepIInv == IInv /\ [Next]_vars => IInv'
<1>1. ASSUME IInv, Next
      PROVE  IInv'
  <2>0. TypeOK /\ RefsBalanced /\ CameraOwnsRest /\ LocalsHeld /\ Dismantled
        /\ ThreadTold /\ ScreenKnown /\ WrittenAlone /\ PathOrdered /\ NothingLeaked
      BY <1>1 DEF IInv
  <2>1. Counted' /\ QueuesOK'
    <3>1. CASE CaptureStep \/ CaptureExit
        BY <2>0, <3>1, CaptureCounts
    <3>2. CASE RgaStep \/ RgaBlitFails
        BY <2>0, <3>2, RgaCounts
    <3>3. CASE DisplayStep \/ PresentFails \/ WaitFails \/ Flip
        BY <2>0, <3>3, DisplayCounts
    <3>4. CASE OcrTake \/ OcrDone \/ OcrExit
        BY <2>0, <3>4, OcrCounts
    <3>5. CASE Look \/ Looked \/ StopCapture \/ Shutdown
        BY <2>0, <3>5, MainCounts
    <3>. QED
        BY <1>1, <3>1, <3>2, <3>3, <3>4, <3>5 DEF Next
  <2>2. RestOK' /\ LocalsHeld'
      BY <1>1, <2>0, RestStep, LocalsStep
  <2>3. (TypeOK <=> /\ refs \in [Buffers -> Nat] /\ camera \subseteq Captures
                    /\ capRunning \in BOOLEAN /\ queueError \in BOOLEAN
                    /\ QueuesOK /\ RestOK)'
      BY TypeParts, PTL
  <2>4. TypeOK' /\ RefsBalanced' /\ CameraOwnsRest'
      BY <2>1, <2>2, <2>3 DEF Counted
  <2>5. Dismantled'
      BY <1>1, <2>0, DismantledStep
  <2>10. ThreadTold'
      BY <1>1, <2>0, ToldStep
  <2>6. ScreenKnown'
      BY <1>1, <2>0, ScreenStep
  <2>7. WrittenAlone'
      BY <1>1, <2>0, <2>1, WrittenStep
  <2>8. PathOrdered'
      BY <1>1, <2>0, PathStep
  <2>9. NothingLeaked'
    <3>1. CASE PoolsDestroy
        BY <2>0, <3>1, PoolsIdle DEF PoolsDestroy, NothingLeaked
    <3>2. CASE Shutdown /\ ~PoolsDestroy
        BY <2>0, <3>2
           DEF Shutdown, StreamOff, JoinCapture, JoinOcr, JoinDisplay, JoinRga, JoinNode,
               DrainNodes, SinkDestroy, SinkStays, NothingLeaked
    <3>3. CASE ~Shutdown
      <4>1. mpc' = mpc \/ mpc' = "streamOff"
          BY <1>1, <3>3
             DEF Next, CaptureStep, Dequeue, Deliver, CaptureExit, RgaStep, RgaTake,
                 RgaAcquire, RgaNoOutput, RgaBlit, RgaBlitFails, RgaEmitDisplay,
                 RgaEmitOcr, EmitTo, RgaDone, RgaExit, DisplayStep, DisplayTake,
                 PresentFirst, PresentFlip, PresentFails, FlipDone, ReadDeadEvent,
                 WaitFails, DisplayDone, DisplayExit, Flip, OcrTake, OcrDone, OcrExit,
                 Look, Looked, StopCapture, main
      <4>. QED
          BY <2>0, <4>1 DEF NothingLeaked
    <3>. QED
        BY <3>1, <3>2, <3>3
  <2>. QED
      BY <2>2, <2>4, <2>5, <2>6, <2>7, <2>8, <2>9, <2>10 DEF IInv
<1>2. ASSUME IInv, UNCHANGED vars
      PROVE  IInv'
  <2>1. UNCHANGED <<refs, frameId, camera, streaming, seq, latest, capRunning, queueError,
                    cpc, cbuf, cold, queue, running>>
        /\ UNCHANGED <<rpc, rin, rout, current, scan, pending, flipOf, events, faulted,
                       dpc, din, opc, oin, mpc, mbuf>>
      BY <1>2 DEF vars, capture, feed, rga, screen, display, ocr, main
  <2>2. TypeOK'
      BY <1>2, <2>1 DEF IInv, TypeOK
  <2>3. RefsBalanced' /\ CameraOwnsRest'
      BY <1>2, <2>1 DEF IInv, RefsBalanced, CameraOwnsRest, Held, Queued
  <2>4. LocalsHeld' /\ Dismantled' /\ ThreadTold' /\ ScreenKnown' /\ NothingLeaked'
      BY <1>2, <2>1 DEF IInv, LocalsHeld, Dismantled, ThreadTold, ScreenKnown, NothingLeaked
  <2>5. WrittenAlone'
      BY <1>2, <2>1 DEF IInv, WrittenAlone, InQueue
  <2>6. PathOrdered'
      BY <1>2, <2>1, OrderFrame DEF IInv
  <2>. QED
      BY <2>2, <2>3, <2>4, <2>5, <2>6 DEF IInv
<1>. QED
    BY <1>1, <1>2

\* The inductive invariant holds in every reachable state.
THEOREM FlowInvariance == Spec => []IInv
BY InitIInv, StepIInv, PTL DEF Spec

-----------------------------------------------------------------------------
\* Counts tell the places that hold a buffer, over all the hand-overs between five
\* threads, and while the stream is on what nobody holds is with the camera, unless
\* a requeueing has failed, and then the capture thread has been told to go
\* (node_forward_borrowed, rga_process, ocr_drm_sink_present, capture_recycle).
THEOREM PathIsSound == Spec => []PathSound
<1>1. IInv => PathSound
    BY DEF IInv, PathSound
<1>. QED
    BY <1>1, FlowInvariance, PTL

\* The RGA never writes a buffer in a queue, in work, or on the screen, as long as no
\* wait for a flip has failed (rga_process; drm_sink.h:5).
THEOREM WritesAreUnseen == Spec => []WritesUnseen
<1>1. IInv => WritesUnseen
  <2>. SUFFICES ASSUME IInv, rpc = "blit"
                PROVE  /\ Queued(rout) = 0
                       /\ rout \notin {din, oin, current}
                       /\ faulted \/ rout \notin {scan, pending}
      BY DEF WritesUnseen
  <2>1. QueuesOK
      BY TypeParts DEF IInv
  <2>2. ~InQueue(rout) /\ rout \notin {din, oin, current} /\ rout # None
      BY DEF IInv, WrittenAlone, LocalsHeld
  <2>3. Queued(rout) = 0
      BY <2>1, <2>2, QueuedSome
  <2>4. faulted \/ rout \notin {scan, pending}
      BY <2>2 DEF IInv, ScreenKnown
  <2>. QED
      BY <2>2, <2>3, <2>4
<1>. QED
    BY <1>1, FlowInvariance, PTL

\* Cleanup touches queues and pools when their threads have gone, turns the screen dark
\* before the pools go, and finds no reference left over (cleanup, main.c).
THEOREM CleanupIsSound == Spec => []CleanupSound
<1>1. IInv => CleanupSound
    BY DEF IInv, Dismantled, CleanupSound, CleanupOrder
<1>. QED
    BY <1>1, FlowInvariance, PTL

\* The picture never goes back in time, whatever is evicted and whatever fails
\* (ocr_node_push_input, ocr_drm_sink_present).
THEOREM ScreenGoesForward == Spec => ShowsForward
<1>. DEFINE Forward == current # None /\ current' # None
                         => frameId[current] <= frameId'[current']
<1>1. ASSUME IInv, Next
      PROVE  Forward
  <2>0. TypeOK /\ RefsBalanced /\ LocalsHeld /\ PathOrdered /\ QueuesOK
      BY <1>1, TypeParts DEF IInv
  <2>1. current # None => current \in Buffers /\ frameId[current] \in Nat
      BY <2>0 DEF TypeOK, Buffers
  <2>2. ASSUME UNCHANGED <<current, frameId>>
        PROVE  Forward
      BY <2>1, <2>2
  <2>3. ASSUME NEW b \in Buffers, refs[b] = 0, UNCHANGED current,
               \A c \in Buffers \ {b} : frameId'[c] = frameId[c]
        PROVE  Forward
    <3>1. b # current
        BY <2>0, <2>3, FreeIsNowhere
    <3>. QED
        BY <2>1, <2>3, <3>1
  <2>4. ASSUME MakeCurrent, UNCHANGED frameId
        PROVE  Forward
      BY <2>0, <2>4 DEF MakeCurrent, PathOrdered
  <2>5. CASE \E a \in Captures : Dequeue(a)
    <3>1. PICK a \in Captures : Dequeue(a)
        BY <2>5
    <3>2. a \in Buffers /\ refs[a] = 0 /\ UNCHANGED current
          /\ \A c \in Buffers \ {a} : frameId'[c] = frameId[c]
        BY <1>1, <3>1 DEF Dequeue, IInv, TypeOK, CameraOwnsRest, Buffers, screen
    <3>. QED
        BY <2>3, <3>2
  <2>6. CASE \E b \in Outputs : RgaAcquire(b)
    <3>1. PICK b \in Outputs : RgaAcquire(b)
        BY <2>6
    <3>2. b \in Buffers /\ refs[b] = 0 /\ UNCHANGED current
          /\ \A c \in Buffers \ {b} : frameId'[c] = frameId[c]
        BY <2>0, <3>1 DEF RgaAcquire, TypeOK, Buffers, screen
    <3>. QED
        BY <2>3, <3>2
  <2>7. CASE Deliver \/ CaptureExit \/ OcrTake \/ OcrDone \/ OcrExit
      BY <2>2, <2>7 DEF Deliver, CaptureExit, OcrTake, OcrDone, OcrExit, screen
  <2>8. CASE RgaTake \/ RgaNoOutput \/ RgaBlit \/ RgaBlitFails \/ RgaEmitDisplay
             \/ RgaEmitOcr \/ RgaDone \/ RgaExit
      BY <2>2, <2>8 DEF RgaTake, RgaNoOutput, RgaBlit, RgaBlitFails, RgaEmitDisplay,
                        RgaEmitOcr, EmitTo, RgaDone, RgaExit, screen
  <2>9. CASE DisplayTake \/ PresentFirst \/ PresentFlip \/ DisplayDone \/ DisplayExit
             \/ PresentFails \/ Flip
      BY <2>2, <2>9 DEF DisplayTake, PresentFirst, PresentFlip, DisplayDone, DisplayExit,
                        PresentFails, Flip, screen
  <2>10. CASE FlipDone \/ ReadDeadEvent \/ WaitFails
      BY <2>2, <2>4, <2>10 DEF FlipDone, ReadDeadEvent, WaitFails
  <2>11. CASE Look \/ Looked \/ StopCapture \/ StreamOff \/ JoinCapture \/ DrainNodes
      BY <2>2, <2>11 DEF Look, Looked, StopCapture, StreamOff, JoinCapture, DrainNodes,
                         screen
  <2>12. CASE JoinOcr \/ JoinDisplay \/ JoinRga \/ SinkDestroy \/ SinkStays
              \/ PoolsDestroy
      BY <2>2, <2>12 DEF JoinOcr, JoinDisplay, JoinRga, JoinNode, SinkDestroy, SinkStays,
                         PoolsDestroy, screen
  <2>. QED
      BY <1>1, <2>5, <2>6, <2>7, <2>8, <2>9, <2>10, <2>11, <2>12
         DEF Next, CaptureStep, RgaStep, DisplayStep, Shutdown
<1>2. IInv /\ [Next]_vars => [Forward]_vars
    BY <1>1
<1>. QED
    BY <1>2, FlowInvariance, PTL DEF Spec, ShowsForward
=============================================================================
