---------------------------- MODULE DeviceProofs ----------------------------
(***************************************************************************)
(* The parts around the video path, each for every value of its constants: *)
(* the ring of app/comm/ringbuffer.c implements the bounded queue of its   *)
(* header, and its two threads never copy into and out of one slot at a    *)
(* time; the message bus leaves no message without a signal, and the       *)
(* capture key no level without a work that reports it; the event loop     *)
(* starts no callback of a removed registration; both fan controllers are  *)
(* at a level the temperature justifies, and the application's gives the   *)
(* channel back as it found it; the motion sensor's buffer is accounted    *)
(* for, and a light value is of one sample; and a frame gets the pose that *)
(* was recorded around its exposure.                                       *)
(***************************************************************************)
EXTENDS Devices, FiniteSets, FiniteSetTheorems, SequenceTheorems, TLAPS

-----------------------------------------------------------------------------
(* The arithmetic of the masked index: what % keeps and what it tells apart. *)

\* What \div and % are.
LEMMA Division ==
  ASSUME NEW a \in Int, NEW c \in Int, c > 0
  PROVE  a = (a \div c) * c + (a % c)
BY Z3

\* Every number is a multiple of the capacity and a remainder below it.
LEMMA Quotient ==
  ASSUME NEW a \in Nat, NEW c \in Nat \ {0}
  PROVE  /\ a % c \in 0 .. c - 1
         /\ \E q \in Nat : a = q * c + (a % c)
<1>1. a = (a \div c) * c + (a % c)
  BY Division, SMT
<1>2. a % c \in 0 .. c - 1 /\ a \div c \in Int
  BY SMT
<1>3. a \div c \in Nat
  <2>1. SUFFICES ASSUME a \div c < 0 PROVE FALSE
    BY <1>2, SMT
  <2>2. (a \div c) * c <= (-1) * c
    BY <1>2, <2>1, Z3
  <2>3. QED
    BY <1>1, <1>2, <2>2, SMT
<1>4. QED
  BY <1>1, <1>2, <1>3

\* ... and that remainder is the only one.
LEMMA Remainder ==
  ASSUME NEW c \in Nat \ {0}, NEW q \in Nat, NEW r \in 0 .. c - 1
  PROVE  (q * c + r) % c = r
BY SMT

\* Positions less than a lap apart have different slots.
LEMMA Apart ==
  ASSUME NEW a \in Nat, NEW c \in Nat \ {0}, NEW d \in 1 .. c - 1
  PROVE  a % c # (a + d) % c
<1> DEFINE r == a % c
<1>1. PICK q \in Nat : a = q * c + r
  BY Quotient
<1>2. r \in 0 .. c - 1
  BY Quotient
<1> HIDE DEF r
<1>3. CASE r + d < c
  <2>1. (q * c + (r + d)) % c = r + d
    BY <1>2, <1>3, Remainder
  <2>2. a + d = q * c + (r + d)
    BY <1>1, <1>2, SMT
  <2>3. QED
    BY <1>2, <2>1, <2>2 DEF r
<1>4. CASE r + d >= c
  <2>1. r + d - c \in 0 .. c - 1 /\ q + 1 \in Nat
    BY <1>2, <1>4, SMT
  <2>2. ((q + 1) * c + (r + d - c)) % c = r + d - c
    BY <2>1, Remainder
  <2>3. a + d = (q + 1) * c + (r + d - c)
    BY <1>1, <1>2, Z3
  <2>4. QED
    BY <1>2, <2>2, <2>3 DEF r
<1>5. QED
  BY <1>2, <1>3, <1>4

\* A wrap that is a multiple of the capacity moves no slot.
LEMMA Lap ==
  ASSUME NEW a \in Nat, NEW c \in Nat \ {0}, NEW w \in Nat, w % c = 0
  PROVE  (w + a) % c = a % c
<1>1. PICK q \in Nat : a = q * c + (a % c)
  BY Quotient
<1>2. PICK p \in Nat : w = p * c + (w % c)
  BY Quotient
<1>3. a % c \in 0 .. c - 1
  BY Quotient
<1>4. ((p + q) * c + (a % c)) % c = a % c
  BY <1>3, Remainder
<1>5. w + a = (p + q) * c + (a % c)
  BY <1>1, <1>2, <1>3, SMT
<1>6. QED
  BY <1>4, <1>5

-----------------------------------------------------------------------------
(* The ring: how many elements it holds, and which slot an index means. *)

\* The next position of an index, which starts again at the wrap.
LEMMA Advance ==
  ASSUME NEW p \in 0 .. Wrap - 1
  PROVE  (p + 1) % Wrap = IF p + 1 = Wrap THEN 0 ELSE p + 1
<1>1. Wrap \in Nat \ {0}
  BY RingAssumption
<1>2. CASE p + 1 = Wrap
  <2>1. (1 * Wrap + 0) % Wrap = 0
    BY <1>1, Remainder, SMT
  <2>2. QED
    BY <1>1, <1>2, <2>1, SMT
<1>3. CASE p + 1 # Wrap
  <2>1. (0 * Wrap + (p + 1)) % Wrap = p + 1
    BY <1>1, <1>3, Remainder, SMT
  <2>2. QED
    BY <1>1, <1>3, <2>1, SMT
<1>4. QED
  BY <1>2, <1>3

\* The distance between two indices, whether or not the first is a lap ahead.
LEMMA Distance ==
  ASSUME NEW h \in 0 .. Wrap - 1, NEW t \in 0 .. Wrap - 1
  PROVE  (h + Wrap - t) % Wrap = IF h >= t THEN h - t ELSE h + Wrap - t
<1>1. Wrap \in Nat \ {0}
  BY RingAssumption
<1>2. CASE h >= t
  <2>1. (1 * Wrap + (h - t)) % Wrap = h - t
    BY <1>1, <1>2, Remainder, SMT
  <2>2. h + Wrap - t = 1 * Wrap + (h - t)
    BY <1>1, <1>2, SMT
  <2>3. QED
    BY <1>2, <2>1, <2>2
<1>3. CASE ~(h >= t)
  <2>1. (0 * Wrap + (h + Wrap - t)) % Wrap = h + Wrap - t
    BY <1>1, <1>3, Remainder, SMT
  <2>2. h + Wrap - t = 0 * Wrap + (h + Wrap - t)
    BY <1>1, <1>3, SMT
  <2>3. QED
    BY <1>3, <2>1, <2>2
<1>4. QED
  BY <1>2, <1>3

\* The producer's slot is the one Size positions after the consumer's.
LEMMA HeadSlot ==
  ASSUME head \in 0 .. Wrap - 1, tail \in 0 .. Wrap - 1
  PROVE  Index(head) = Index(tail + Size)
<1>0. Size = IF head >= tail THEN head - tail ELSE head + Wrap - tail
  BY Distance DEF Size
<1>1. CASE head >= tail
  BY <1>0, <1>1, SMT DEF Index
<1>2. CASE ~(head >= tail)
  <2>0. Count \in Nat \ {0} /\ Wrap \in Nat /\ Wrap % Count = 0 /\ head \in Nat
    BY RingAssumption
  <2>1. (Wrap + head) % Count = head % Count
    BY <2>0, Lap
  <2>2. tail + Size = Wrap + head
    BY <1>0, <1>2, SMT, RingAssumption
  <2>3. QED
    BY <2>1, <2>2 DEF Index
<1>3. QED
  BY <1>1, <1>2

\* The slot of the position after a consumer's, on both sides of the wrap.
LEMMA NextSlot ==
  ASSUME NEW p \in 0 .. Wrap - 1, NEW k \in Nat
  PROVE  Index(((p + 1) % Wrap) + k) = Index(p + 1 + k)
<1>1. CASE p + 1 = Wrap
  <2>0. Count \in Nat \ {0} /\ Wrap \in Nat /\ Wrap % Count = 0 /\ k \in Nat
    BY RingAssumption
  <2>1. (Wrap + k) % Count = k % Count
    BY <2>0, Lap
  <2>2. ((p + 1) % Wrap) + k = k
    BY <1>1, Advance, SMT
  <2>3. QED
    BY <1>1, <2>1, <2>2 DEF Index
<1>2. CASE p + 1 # Wrap
  BY <1>2, Advance DEF Index
<1>3. QED
  BY <1>1, <1>2

\* An index always names a slot.
LEMMA IndexIsSlot ==
  ASSUME NEW p \in Nat
  PROVE  Index(p) \in 0 .. Count - 1
BY Quotient, RingAssumption DEF Index

-----------------------------------------------------------------------------
(* The inductive invariant. *)

\* A push has checked that there is room, and what it has copied is in its slot.
ProducerKnows ==
    /\ prod.at # "idle" => Size < Count /\ prod.item \in Items
    /\ prod.at = "publish" => slots[Index(head)] = prod.item

\* A pop has checked that there is an element, and holds the oldest one.
ConsumerKnows ==
    /\ cons.at # "idle" => Size > 0
    /\ cons.at = "publish" => cons.item = slots[Index(tail)]

IInv == TypeOK /\ Size <= Count /\ ProducerKnows /\ ConsumerKnows

\* A torn copy would need an empty or a full ring.
LEMMA SlotsApart ==
  ASSUME IInv, prod.at # "idle", cons.at # "idle"
  PROVE  Index(head) # Index(tail)
<1>0. Size = IF head >= tail THEN head - tail ELSE head + Wrap - tail
  BY Distance DEF Size, IInv, TypeOK
<1>1. Size \in 1 .. Count - 1 /\ tail \in Nat /\ Count \in Nat \ {0}
  BY <1>0, SMT, RingAssumption DEF IInv, TypeOK, ProducerKnows, ConsumerKnows
<1>2. Index(head) = Index(tail + Size)
  BY HeadSlot DEF IInv, TypeOK
<1>3. QED
  BY <1>1, <1>2, Apart DEF Index

\* The ring is smaller than what its indices count.
LEMMA Bounds == Count \in Nat /\ Count > 0 /\ Wrap \in Nat /\ Wrap > Count
BY RingAssumption

\* What a push and a pop do to the number of elements.
LEMMA SizePushed ==
  ASSUME TypeOK, TypeOK', Size < Count,
         head' = (head + 1) % Wrap, tail' = tail
  PROVE  Size' = Size + 1
<1>1. Size = IF head >= tail THEN head - tail ELSE head + Wrap - tail
  BY Distance DEF Size, TypeOK
<1>2. Size' = IF head' >= tail' THEN head' - tail' ELSE head' + Wrap - tail'
  BY Distance DEF Size, TypeOK
<1>3. head' = IF head + 1 = Wrap THEN 0 ELSE head + 1
  BY Advance DEF TypeOK
<1>4. QED
  BY <1>1, <1>2, <1>3, Bounds, SMT DEF TypeOK

LEMMA SizePopped ==
  ASSUME TypeOK, TypeOK', Size > 0,
         tail' = (tail + 1) % Wrap, head' = head
  PROVE  Size' = Size - 1
<1>1. Size = IF head >= tail THEN head - tail ELSE head + Wrap - tail
  BY Distance DEF Size, TypeOK
<1>2. Size' = IF head' >= tail' THEN head' - tail' ELSE head' + Wrap - tail'
  BY Distance DEF Size, TypeOK
<1>3. tail' = IF tail + 1 = Wrap THEN 0 ELSE tail + 1
  BY Advance DEF TypeOK
<1>4. QED
  BY <1>1, <1>2, <1>3, Bounds, SMT DEF TypeOK

LEMMA InitIInv ==
  ASSUME Init
  PROVE  IInv
<1>1. TypeOK
  BY SMT, RingAssumption DEF Init, TypeOK, Idle
<1>2. Size = 0
  BY <1>1, Distance, SMT DEF Init, Size, TypeOK
<1>3. QED
  BY <1>1, <1>2, SMT, RingAssumption DEF Init, IInv, ProducerKnows, ConsumerKnows, Idle

LEMMA StepTypeOK ==
  ASSUME IInv, [Next]_vars
  PROVE  TypeOK'
<1> USE DEF IInv, TypeOK
<1>1. ASSUME NEW e \in Items, PushCheck(e) PROVE TypeOK'
  BY <1>1, SMT DEF PushCheck
<1>2. CASE PushCopy
  <2>1. Index(head) \in 0 .. Count - 1
    BY IndexIsSlot
  <2>2. prod.item \in Items \cup {None}
    OBVIOUS
  <2>3. slots' \in [0..(Count - 1) -> Items \cup {None}]
    BY <1>2, <2>1, <2>2 DEF PushCopy
  <2>4. QED
    BY <1>2, <2>3, SMT DEF PushCopy
<1>3. CASE PushPublish
  <2>1. head' \in 0 .. Wrap - 1
    BY <1>3, Advance, SMT, RingAssumption DEF PushPublish
  <2>2. QED
    BY <1>3, <2>1, SMT DEF PushPublish, Idle
<1>4. CASE PopCheck
  BY <1>4, SMT DEF PopCheck
<1>5. CASE PopCopy
  <2>1. Index(tail) \in 0 .. Count - 1
    BY IndexIsSlot
  <2>2. slots[Index(tail)] \in Items \cup {None}
    BY <2>1
  <2>3. QED
    BY <1>5, <2>2, SMT DEF PopCopy
<1>6. CASE PopPublish
  <2>1. tail' \in 0 .. Wrap - 1
    BY <1>6, Advance, SMT, RingAssumption DEF PopPublish
  <2>2. QED
    BY <1>6, <2>1, SMT DEF PopPublish, Idle
<1>7. CASE UNCHANGED vars
  BY <1>7 DEF vars
<1>8. QED
  BY <1>1, <1>2, <1>3, <1>4, <1>5, <1>6, <1>7 DEF Next

LEMMA StepIInv ==
  ASSUME IInv, [Next]_vars
  PROVE  IInv'
<1> USE DEF Index
<1>1. TypeOK'
  BY StepTypeOK
<1>2. Size \in Nat /\ Count \in Nat /\ (tail # head <=> Size > 0)
  <2>1. Size = IF head >= tail THEN head - tail ELSE head + Wrap - tail
    BY Distance DEF Size, IInv, TypeOK
  <2>2. QED
    BY <2>1, SMT, RingAssumption DEF IInv, TypeOK
<1>3. ASSUME NEW e \in Items, PushCheck(e) PROVE IInv'
  <2>1. Size' = Size /\ Size < Count
    BY <1>2, <1>3, SMT DEF PushCheck, Size, Full
  <2>2. ProducerKnows'
    BY <1>3, <2>1 DEF PushCheck, ProducerKnows
  <2>3. ConsumerKnows'
    BY <1>3, <2>1 DEF PushCheck, IInv, ConsumerKnows
  <2>4. QED
    BY <1>1, <1>2, <2>1, <2>2, <2>3, SMT DEF IInv
<1>4. CASE PushCopy
  <2>1. Size' = Size
    BY <1>4 DEF PushCopy, Size
  <2>2. Index(head) \in 0 .. Count - 1
    BY IndexIsSlot DEF IInv, TypeOK
  <2>3. prod'.at = "publish" /\ prod'.item = prod.item /\ slots'[Index(head)] = prod.item
    BY <1>4, <2>2 DEF PushCopy, IInv, TypeOK
  <2>4. ProducerKnows'
    BY <1>4, <2>1, <2>3 DEF PushCopy, IInv, ProducerKnows
  <2>5. cons.at # "idle" => slots'[Index(tail)] = slots[Index(tail)]
    BY <1>4, SlotsApart DEF PushCopy, IInv, TypeOK
  <2>6. ConsumerKnows'
    BY <1>4, <2>1, <2>5 DEF PushCopy, IInv, ConsumerKnows
  <2>7. QED
    BY <1>1, <2>1, <2>4, <2>6 DEF IInv
<1>5. CASE PushPublish
  <2>1. Size < Count
    BY <1>5 DEF PushPublish, IInv, ProducerKnows
  <2>2. Size' = Size + 1
    BY <1>1, <1>5, <2>1, SizePushed DEF PushPublish, IInv
  <2>3. ProducerKnows'
    BY <1>5 DEF PushPublish, ProducerKnows, Idle
  <2>4. ConsumerKnows'
    BY <1>2, <1>5, <2>2, SMT DEF PushPublish, IInv, ConsumerKnows
  <2>5. QED
    BY <1>1, <1>2, <2>1, <2>2, <2>3, <2>4, SMT DEF IInv
<1>6. CASE PopCheck
  <2>1. Size' = Size /\ Size > 0
    BY <1>2, <1>6 DEF PopCheck, Size
  <2>2. cons'.at = "copy"
    BY <1>6 DEF PopCheck, IInv, TypeOK
  <2>3. ProducerKnows'
    BY <1>6, <2>1 DEF PopCheck, IInv, ProducerKnows
  <2>4. QED
    BY <1>1, <2>1, <2>2, <2>3 DEF IInv, ConsumerKnows
<1>7. CASE PopCopy
  <2>1. Size' = Size
    BY <1>7 DEF PopCopy, Size
  <2>2. ProducerKnows'
    BY <1>7, <2>1 DEF PopCopy, IInv, ProducerKnows
  <2>3. ConsumerKnows'
    BY <1>7, <2>1 DEF PopCopy, IInv, ConsumerKnows
  <2>4. QED
    BY <1>1, <2>1, <2>2, <2>3 DEF IInv
<1>8. CASE PopPublish
  <2>1. Size > 0
    BY <1>8 DEF PopPublish, IInv, ConsumerKnows
  <2>2. Size' = Size - 1
    BY <1>1, <1>8, <2>1, SizePopped DEF PopPublish, IInv
  <2>3. Size' <= Count /\ (Size < Count => Size' < Count)
    BY <1>2, <2>1, <2>2, SMT DEF IInv
  <2>4. ProducerKnows'
    BY <1>8, <2>3 DEF PopPublish, IInv, ProducerKnows
  <2>5. ConsumerKnows'
    BY <1>8 DEF PopPublish, ConsumerKnows, Idle
  <2>6. QED
    BY <1>1, <2>3, <2>4, <2>5 DEF IInv
<1>9. CASE UNCHANGED vars
  <2>1. Size' = Size
    BY <1>9 DEF vars, Size
  <2>2. QED
    BY <1>1, <1>9, <2>1 DEF vars, IInv, ProducerKnows, ConsumerKnows
<1>10. QED
  BY <1>3, <1>4, <1>5, <1>6, <1>7, <1>8, <1>9 DEF Next

-----------------------------------------------------------------------------
(* The ring implements the bounded queue of ringbuffer.h. *)

\* What the ring shows of the queue.
LEMMA ContentsAre ==
  ASSUME TypeOK
  PROVE  /\ Size \in Nat
         /\ Contents \in Seq(Items \cup {None}) /\ Len(Contents) = Size
         /\ \A i \in 1 .. Size : Contents[i] = slots[Index(tail + i - 1)]
<1>1. Size \in Nat
  BY Distance, SMT, RingAssumption DEF Size, TypeOK
<1>2. ASSUME NEW i \in 1 .. Size PROVE slots[Index(tail + i - 1)] \in Items \cup {None}
  <2>1. tail + i - 1 \in Nat
    BY <1>1, SMT, RingAssumption DEF TypeOK
  <2>2. Index(tail + i - 1) \in 0 .. Count - 1
    BY <2>1, IndexIsSlot
  <2>3. QED
    BY <2>2 DEF TypeOK
<1>3. \A i \in 1 .. Size : Contents[i] = slots[Index(tail + i - 1)]
  BY DEF Contents
<1>4. Contents \in [1 .. Size -> Items \cup {None}]
  BY <1>2 DEF Contents
<1>5. Contents \in Seq(Items \cup {None})
  BY <1>1, <1>4, SeqDef
<1>6. 1 .. Size = 1 .. Len(Contents) /\ Len(Contents) \in Nat
  BY <1>4, <1>5, LenProperties
<1>7. QED
  BY <1>1, <1>3, <1>5, <1>6, SMT

LEMMA ContentsNext ==
  ASSUME TypeOK'
  PROVE  /\ Size' \in Nat
         /\ Contents' \in Seq(Items \cup {None}) /\ Len(Contents') = Size'
         /\ \A i \in 1 .. Size' : Contents'[i] = slots'[Index(tail' + i - 1)]
<1>1. (TypeOK =>
         /\ Size \in Nat
         /\ Contents \in Seq(Items \cup {None}) /\ Len(Contents) = Size
         /\ \A i \in 1 .. Size : Contents[i] = slots[Index(tail + i - 1)])'
  BY ContentsAre, PTL
<1>2. QED
  BY <1>1, RingAssumption DEF Index

\* The copy goes to a slot that the queue does not have yet.
LEMMA CopyIsUnseen ==
  ASSUME IInv, IInv', PushCopy
  PROVE  Contents' = Contents
<1>1. Size' = Size /\ tail' = tail
  BY DEF PushCopy, Size
<1>2. ASSUME NEW i \in 1 .. Size PROVE Contents'[i] = Contents[i]
  <2>0. Size \in Nat /\ Size < Count /\ Count \in Nat \ {0} /\ tail \in Nat
    BY ContentsAre, SMT, RingAssumption DEF IInv, TypeOK, ProducerKnows, PushCopy
  <2>1. tail + i - 1 \in Nat /\ Size - i + 1 \in 1 .. Count - 1
    BY <2>0, SMT
  <2>2. Index(tail + i - 1) # Index((tail + i - 1) + (Size - i + 1))
    BY <2>0, <2>1, Apart DEF Index
  <2>3. (tail + i - 1) + (Size - i + 1) = tail + Size
    BY <2>0, <2>1, SMT
  <2>4. Index(tail + i - 1) # Index(head)
    BY <2>2, <2>3, HeadSlot DEF IInv, TypeOK
  <2>5. Index(tail + i - 1) \in 0 .. Count - 1
    BY <2>1, IndexIsSlot
  <2>6. slots'[Index(tail + i - 1)] = slots[Index(tail + i - 1)]
    BY <2>4, <2>5 DEF PushCopy, IInv, TypeOK
  <2>7. QED
    BY <1>1, <2>6, ContentsAre, ContentsNext DEF IInv
<1>3. QED
  BY <1>1, <1>2, ContentsAre, ContentsNext, SeqEqual DEF IInv

LEMMA PublishPushes ==
  ASSUME IInv, IInv', PushPublish
  PROVE  Fifo!Push(prod.item)
<1>1. /\ Size < Count /\ Size' = Size + 1
      /\ prod.item \in Items /\ slots[Index(head)] = prod.item
  BY SizePushed DEF PushPublish, IInv, ProducerKnows
<1> DEFINE more == Append(Contents, prod.item)
<1>2. /\ more \in Seq(Items \cup {None}) /\ Len(more) = Size + 1
      /\ \A i \in 1 .. Size + 1 : more[i] = IF i = Size + 1 THEN prod.item ELSE Contents[i]
  BY <1>1, ContentsAre, AppendProperties, SMT DEF IInv
<1> HIDE DEF more
<1>3. ASSUME NEW i \in 1 .. Size + 1 PROVE Contents'[i] = more[i]
  <2>1. Contents'[i] = slots[Index(tail + i - 1)]
    BY <1>1, ContentsNext DEF PushPublish, IInv
  <2>2. CASE i = Size + 1
    <3>1. tail + i - 1 = tail + Size
      BY <2>2, ContentsAre, SMT, RingAssumption DEF IInv, TypeOK
    <3>2. QED
      BY <1>1, <1>2, <2>1, <2>2, <3>1, HeadSlot DEF IInv, TypeOK
  <2>3. CASE i # Size + 1
    <3>1. i \in 1 .. Size
      BY <2>3, ContentsAre, SMT DEF IInv
    <3>2. QED
      BY <1>2, <2>1, <2>3, <3>1, ContentsAre DEF IInv
  <2>4. QED
    BY <2>2, <2>3
<1>4. Contents' = more
  BY <1>1, <1>2, <1>3, ContentsNext, SeqEqual DEF IInv
<1>5. Len(Contents) < Count /\ taken' = taken
  BY <1>1, ContentsAre DEF IInv, PushPublish
<1>6. QED
  BY <1>4, <1>5 DEF Fifo!Push, more

LEMMA PublishPops ==
  ASSUME IInv, IInv', PopPublish
  PROVE  Fifo!Pop
<1>1. /\ Size > 0 /\ Size' = Size - 1 /\ Size \in Nat
      /\ cons.item = slots[Index(tail)] /\ tail \in 0 .. Wrap - 1
  BY SizePopped, ContentsAre DEF PopPublish, IInv, ConsumerKnows, TypeOK
<1>2. Contents # <<>>
  BY <1>1, ContentsAre, EmptySeq, SMT DEF IInv
<1>3. /\ Tail(Contents) \in Seq(Items \cup {None}) /\ Len(Tail(Contents)) = Size - 1
      /\ \A i \in 1 .. Size - 1 : Tail(Contents)[i] = Contents[i + 1]
  BY <1>1, <1>2, ContentsAre, HeadTailProperties DEF IInv
<1>4. ASSUME NEW i \in 1 .. Size - 1 PROVE Contents'[i] = Contents[i + 1]
  <2>1. Contents'[i] = slots[Index(((tail + 1) % Wrap) + i - 1)]
    BY <1>1, ContentsNext DEF PopPublish, IInv
  <2>2. PICK k \in Nat : k = i - 1 /\ i + 1 \in 1 .. Size
    BY <1>1, SMT
  <2>3. (tail + 1) % Wrap \in Nat
    BY <1>1, Advance, SMT, RingAssumption
  <2>4. ((tail + 1) % Wrap) + i - 1 = ((tail + 1) % Wrap) + k
    BY <2>2, <2>3, SMT
  <2>5. Index(((tail + 1) % Wrap) + k) = Index(tail + 1 + k)
    BY <1>1, NextSlot
  <2>6. tail + 1 + k = tail + (i + 1) - 1
    BY <1>1, <2>2, SMT, RingAssumption
  <2>7. Contents[i + 1] = slots[Index(tail + (i + 1) - 1)]
    BY <2>2, ContentsAre DEF IInv
  <2>8. QED
    BY <2>1, <2>4, <2>5, <2>6, <2>7
<1>5. Contents' = Tail(Contents)
  BY <1>1, <1>3, <1>4, ContentsNext, SeqEqual DEF IInv
<1>6. Head(Contents) = slots[Index(tail)]
  <2>1. tail + 1 - 1 = tail /\ 1 \in 1 .. Size
    BY <1>1, SMT, RingAssumption
  <2>2. Contents[1] = slots[Index(tail)]
    BY <2>1, ContentsAre DEF IInv
  <2>3. QED
    BY <1>2, <2>2, ContentsAre, HeadTailProperties DEF IInv
<1>7. QED
  BY <1>1, <1>2, <1>5, <1>6 DEF Fifo!Pop, PopPublish

\* A push enters the queue and a pop leaves it when the own index is published.
LEMMA RingImplementsStep ==
  ASSUME IInv, IInv', [Next]_vars
  PROVE  [Fifo!Next]_<<Contents, taken>>
<1>1. ASSUME UNCHANGED <<head, tail, slots, taken>>
      PROVE  UNCHANGED <<Contents, taken>>
  BY <1>1 DEF Contents, Size
<1>2. CASE PushCopy
  BY <1>2, CopyIsUnseen DEF PushCopy
<1>3. CASE PushPublish
  <2>1. prod.item \in Items
    BY <1>3 DEF PushPublish, IInv, ProducerKnows
  <2>2. QED
    BY <1>3, <2>1, PublishPushes DEF Fifo!Next
<1>4. CASE PopPublish
  BY <1>4, PublishPops DEF Fifo!Next
<1>5. CASE (\E e \in Items : PushCheck(e)) \/ PopCheck \/ PopCopy \/ UNCHANGED vars
  BY <1>1, <1>5 DEF PushCheck, PopCheck, PopCopy, vars
<1>6. QED
  BY <1>2, <1>3, <1>4, <1>5 DEF Next

-----------------------------------------------------------------------------
(* The inductive invariant holds in every reachable state: the types, never
   more elements than slots, and what each thread knows between its check and
   the publication of its index. *)
THEOREM RingInvariance ==
  Spec => []IInv
<1>1. Init => IInv
  BY InitIInv
<1>2. IInv /\ [Next]_vars => IInv'
  BY StepIInv
<1>3. QED
  BY <1>1, <1>2, PTL DEF Spec

(* ringbuffer.c is the queue its header describes: nothing is lost, doubled,
   reordered or read before it was written, at any position of the indices,
   their wrap included, and no slot is read while it is being written. *)
THEOREM RingImplementsFifo ==
  Spec => RingIsFifo
<1>1. Init => Fifo!Init
  <2>1. SUFFICES ASSUME Init PROVE Fifo!Init
    OBVIOUS
  <2>2. Size = 0 /\ TypeOK
    BY <2>1, InitIInv, Distance, SMT DEF Init, Size, IInv, TypeOK
  <2>3. Contents = <<>>
    BY <2>2, ContentsAre, EmptySeq
  <2>4. QED
    BY <2>1, <2>3 DEF Init, Fifo!Init
<1>2. IInv /\ IInv' /\ [Next]_vars => [Fifo!Next]_<<Contents, taken>>
  BY RingImplementsStep
<1>3. IInv => TypeOK /\ NoTornCopy
  BY SlotsApart DEF IInv, NoTornCopy
<1>4. QED
  BY <1>1, <1>2, <1>3, RingInvariance, PTL DEF Spec, RingIsFifo, FifoSpec, Fifo!Spec

-----------------------------------------------------------------------------
(* The message bus.                                                        *)

(* The signals, given or about to be, that exceed the messages. *)
Excess == signals + Pending - Len(queue)

(* How many there are where the receiver stands: between its pop and its read
   of the eventfd one more, between its read and its pop one less; and each
   poster leaves one at most whose message was taken before it signalled.  A
   watcher, which pops for a signal only, leaves none. *)
BusKnows ==
    /\ kind = "watcher" => recv \in {"idle", "consume"}
    /\ kind = "watcher" /\ recv = "idle" => Excess = 0
    /\ kind = "watcher" /\ recv = "consume" => Excess = 1 /\ signals > 0
    /\ recv = "consume" => Excess \in 1 .. Cardinality(Posters) + 1
    /\ recv \in {"idle", "poll", "consumePolled"} =>
         Excess \in 0 .. Cardinality(Posters)
    /\ recv = "consumePolled" => signals > 0
    /\ recv = "popPolled" => Excess \in -1 .. Cardinality(Posters) - 1
    /\ recv = "popPolled" /\ queue = <<>> => Excess >= 0

BusIInv == BusTypeOK /\ BusKnows

\* The posters about to signal: counted, and one more or less with a push or
\* a signal.
LEMMA PendingCounted ==
  /\ Cardinality(Posters) \in Nat
  /\ Pending \in 0 .. Cardinality(Posters)
<1> DEFINE S == {p \in Posters : poster[p] = "signal"}
<1>1. IsFiniteSet(Posters) /\ S \subseteq Posters
  BY BusAssumption
<1>2. /\ Cardinality(Posters) \in Nat
      /\ Cardinality(S) \in Nat /\ Cardinality(S) <= Cardinality(Posters)
  <2>1. IsFiniteSet(S) /\ Cardinality(S) <= Cardinality(Posters)
    BY <1>1, FS_Subset
  <2>2. QED
    BY <1>1, <2>1, FS_CardinalityType
<1>3. QED
  BY <1>2 DEF Pending

LEMMA PendingMoves ==
  ASSUME BusTypeOK, NEW p \in Posters
  PROVE  /\ poster[p] = "idle" /\ poster' = [poster EXCEPT ![p] = "signal"]
              => Pending' = Pending + 1
         /\ poster[p] = "signal" /\ poster' = [poster EXCEPT ![p] = "idle"]
              => Pending' = Pending - 1 /\ Pending > 0
<1> DEFINE S == {q \in Posters : poster[q] = "signal"}
           T == {q \in Posters : poster'[q] = "signal"}
<1>1. IsFiniteSet(S) /\ Cardinality(S) \in Nat
  BY BusAssumption, FS_Subset, FS_CardinalityType
<1>2. Pending = Cardinality(S) /\ Pending' = Cardinality(T)
  BY DEF Pending
<1>3. ASSUME poster[p] = "idle", poster' = [poster EXCEPT ![p] = "signal"]
      PROVE  Pending' = Pending + 1
  <2>1. T = S \cup {p} /\ p \notin S
    BY <1>3 DEF BusTypeOK
  <2>2. Cardinality(T) = Cardinality(S) + 1
    BY <1>1, <2>1, FS_AddElement
  <2>3. QED
    BY <1>2, <2>2
<1>4. ASSUME poster[p] = "signal", poster' = [poster EXCEPT ![p] = "idle"]
      PROVE  Pending' = Pending - 1 /\ Pending > 0
  <2>1. T = S \ {p} /\ p \in S
    BY <1>4 DEF BusTypeOK
  <2>2. Cardinality(T) = Cardinality(S) - 1
    BY <1>1, <2>1, FS_RemoveElement
  <2>3. Cardinality(S) # 0
    BY <1>1, <2>1, FS_EmptySet
  <2>4. QED
    BY <1>1, <1>2, <2>2, <2>3
<1>5. QED
  BY <1>3, <1>4

\* Every step of a poster or of the receiver keeps the count.
LEMMA BusStep ==
  ASSUME BusIInv, [BusNext]_busVars
  PROVE  BusIInv'
<1> USE BusAssumption DEF BusIInv
<1> DEFINE C == Cardinality(Posters)
<1>1. /\ C \in Nat /\ Pending \in 0 .. C /\ Pending' \in 0 .. C
      /\ signals \in Nat /\ queue \in Seq(Msgs) /\ Len(queue) \in Nat
      /\ Len(queue) <= Capacity /\ Capacity \in Nat
      /\ queue = <<>> <=> Len(queue) = 0
  <2>1. C \in Nat /\ Pending \in 0 .. C
    BY PendingCounted
  <2>2. (Pending \in 0 .. C)'
    BY PendingCounted, PTL
  <2>3. QED
    BY <2>1, <2>2 DEF BusTypeOK
<1>2. ASSUME NEW p \in Posters, PostPush(p)
      PROVE  BusIInv'
  <2>1. PICK m \in Msgs : queue' = Append(queue, m)
    BY <1>2 DEF PostPush
  <2>2. /\ queue' \in Seq(Msgs) /\ Len(queue') = Len(queue) + 1
        /\ queue' # <<>>
    BY <1>1, <2>1
  <2>3. /\ Pending' = Pending + 1 /\ signals' = signals
        /\ poster' \in [Posters -> {"idle", "signal"}]
        /\ kind' = kind /\ recv' = recv /\ Len(queue) < Capacity
    BY <1>2, PendingMoves DEF PostPush, BusTypeOK
  <2>4. Excess' = Excess
    BY <1>1, <2>2, <2>3 DEF Excess
  <2>5. BusKnows'
    BY <1>1, <2>2, <2>3, <2>4 DEF BusKnows
  <2>6. BusTypeOK'
    BY <1>1, <2>2, <2>3 DEF BusTypeOK
  <2>7. QED
    BY <2>5, <2>6
<1>3. ASSUME NEW p \in Posters, PostSignal(p)
      PROVE  BusIInv'
  <2>1. /\ Pending' = Pending - 1 /\ Pending > 0
        /\ signals' = signals + 1 /\ queue' = queue
        /\ poster' \in [Posters -> {"idle", "signal"}]
        /\ kind' = kind /\ recv' = recv
    BY <1>3, PendingMoves DEF PostSignal, BusTypeOK
  <2>2. Excess' = Excess
    BY <1>1, <2>1 DEF Excess
  <2>3. BusKnows'
    BY <1>1, <2>1, <2>2 DEF BusKnows
  <2>4. signals + 1 <= Capacity + C + 1
    BY <1>1, <2>1 DEF BusTypeOK, BusKnows, Excess, Places
  <2>5. BusTypeOK'
    BY <1>1, <2>1, <2>4 DEF BusTypeOK
  <2>6. QED
    BY <2>3, <2>5
<1>4. ASSUME UNCHANGED poster PROVE Pending' = Pending
  BY <1>4 DEF Pending
<1>5. CASE RecvPop
  <2>1. /\ Len(queue') = Len(queue) - 1 /\ queue' \in Seq(Msgs)
        /\ recv = "idle" /\ recv' = "consume" /\ kind' = kind
        /\ signals' = signals /\ Pending' = Pending /\ poster' = poster
        /\ kind = "watcher" => signals > 0
    BY <1>1, <1>4, <1>5 DEF RecvPop
  <2>2. Excess' = Excess + 1
    BY <1>1, <2>1 DEF Excess
  <2>3. BusKnows'
    BY <1>1, <2>1, <2>2 DEF BusKnows
  <2>4. BusTypeOK'
    BY <1>1, <2>1 DEF BusTypeOK, Places
  <2>5. QED
    BY <2>3, <2>4
<1>6. CASE RecvWait
  BY <1>1, <1>4, <1>6
     DEF RecvWait, BusKnows, BusTypeOK, Excess, Places
<1>7. CASE Consume
  <2>1. /\ recv = "consume" /\ recv' = "idle" /\ kind' = kind
        /\ signals' = Consumed /\ Pending' = Pending /\ poster' = poster
        /\ queue' = queue
    BY <1>4, <1>7 DEF Consume
  <2>2. /\ signals' \in Nat /\ signals' <= signals
        /\ signals > 0 => Excess' = Excess - 1
        /\ signals = 0 => Excess' = Excess /\ Excess = Pending - Len(queue)
    BY <1>1, <2>1 DEF Excess, Consumed
  <2>3. BusKnows'
    BY <1>1, <2>1, <2>2 DEF BusKnows, BusTypeOK
  <2>4. BusTypeOK'
    BY <1>1, <2>1, <2>2 DEF BusTypeOK, Places
  <2>5. QED
    BY <2>3, <2>4
<1>8. CASE PollWakes
  BY <1>1, <1>4, <1>8
     DEF PollWakes, BusKnows, BusTypeOK, Excess, Places
<1>9. CASE PollTimesOut
  BY <1>1, <1>4, <1>9
     DEF PollTimesOut, BusKnows, BusTypeOK, Excess, Places
<1>10. CASE ConsumePolled
  <2>1. /\ recv = "consumePolled" /\ recv' = "popPolled" /\ kind' = kind
        /\ signals' = signals - 1 /\ Pending' = Pending /\ poster' = poster
        /\ queue' = queue /\ signals > 0
    BY <1>1, <1>4, <1>10 DEF ConsumePolled, Consumed, BusKnows
  <2>2. Excess' = Excess - 1
    BY <1>1, <2>1 DEF Excess
  <2>3. BusKnows'
    BY <1>1, <2>1, <2>2 DEF BusKnows, Excess
  <2>4. BusTypeOK'
    BY <1>1, <2>1 DEF BusTypeOK, Places
  <2>5. QED
    BY <2>3, <2>4
<1>11. CASE PopPolled
  <2>1. /\ recv = "popPolled" /\ recv' = "idle" /\ kind' = kind
        /\ signals' = signals /\ Pending' = Pending /\ poster' = poster
    BY <1>4, <1>11 DEF PopPolled
  <2>2. /\ queue' \in Seq(Msgs)
        /\ queue = <<>> => Len(queue') = 0
        /\ queue # <<>> => Len(queue') = Len(queue) - 1
    BY <1>1, <1>11 DEF PopPolled
  <2>3. Excess' \in 0 .. C
    BY <1>1, <2>1, <2>2 DEF BusKnows, Excess
  <2>4. BusKnows'
    BY <1>1, <2>1, <2>3 DEF BusKnows
  <2>5. BusTypeOK'
    BY <1>1, <2>1, <2>2 DEF BusTypeOK, Places
  <2>6. QED
    BY <2>4, <2>5
<1>12. CASE UNCHANGED busVars
  BY <1>4, <1>12 DEF busVars, BusKnows, BusTypeOK, Excess
<1>13. QED
  BY <1>2, <1>3, <1>5, <1>6, <1>7, <1>8, <1>9, <1>10, <1>11, <1>12
     DEF BusNext, Receive

\* msgbus.c: for any number of posting threads and any capacity, the signals
\* exceed the messages by what the receiver's place and the posters explain.
THEOREM BusInvariance == BusSpec => []BusIInv
<1>1. BusInit => BusIInv
  <2>1. SUFFICES ASSUME BusInit PROVE BusIInv
    OBVIOUS
  <2>2. poster = [p \in Posters |-> "idle"]
    BY <2>1 DEF BusInit
  <2>3. {p \in Posters : poster[p] = "signal"} = {}
    BY <2>2
  <2>4. Pending = 0
    BY <2>3, FS_EmptySet DEF Pending
  <2>5. /\ queue \in Seq(Msgs) /\ Len(queue) = 0
        /\ signals = 0 /\ recv = "idle" /\ kind \in {"caller", "watcher"}
        /\ poster \in [Posters -> {"idle", "signal"}]
    BY <2>1 DEF BusInit
  <2>6. BusTypeOK
    BY <2>5, PendingCounted, BusAssumption DEF BusTypeOK, Places
  <2>7. BusKnows
    BY <2>4, <2>5, PendingCounted DEF BusKnows, Excess
  <2>8. QED
    BY <2>6, <2>7 DEF BusIInv
<1>2. BusIInv /\ [BusNext]_busVars => BusIInv'
  BY BusStep
<1>3. QED
  BY <1>1, <1>2, PTL DEF BusSpec

\* The count covers the queue.
LEMMA BusCovers ==
  ASSUME BusIInv
  PROVE  SignalsCover
<1>1. /\ signals \in Nat /\ Len(queue) \in Nat /\ Pending \in Nat
      /\ queue = <<>> <=> Len(queue) = 0
  BY PendingCounted DEF BusIInv, BusTypeOK
<1>2. QED
  BY <1>1, PendingCounted
     DEF BusIInv, BusTypeOK, BusKnows, Excess, SignalsCover, Places

-----------------------------------------------------------------------------
(* The capture key.                                                        *)

(* The key's variables, and why a report comes late enough: the delay still
   to run and the quiet time make up the debounce time, and the work runs
   only while the interrupt is on and the system awake. *)
KeyTypes ==
    /\ pin \in BOOLEAN /\ pressed \in BOOLEAN
    /\ irq \in BOOLEAN /\ missed \in BOOLEAN
    /\ delay \in -1 .. Debounce /\ calm \in 0 .. Debounce
    /\ keyPm \in {"awake", "cancelled", "asleep"}

PickedUp == keyPm # "asleep" /\ pressed # pin => delay >= 0 \/ missed

Quiet ==
    /\ delay >= 0 => delay + calm >= Debounce
    /\ ~irq => delay = -1 /\ keyPm = "awake"
    /\ keyPm # "awake" => delay \in {-1, Debounce}

KeyIInv == KeyTypes /\ PickedUp /\ Quiet

\* Every step keeps the invariant, and changes the report after quiet only.
LEMMA KeyStep ==
  ASSUME KeyIInv, [KeyNext]_keyVars
  PROVE  KeyIInv' /\ (pressed' # pressed => calm = Debounce)
<1> USE KeyAssumption DEF KeyIInv
<1>1. CASE RequestIrq
  <2>1. irq' \in BOOLEAN /\ irq'
    BY <1>1, Zenon DEF RequestIrq
  <2>2. QED
    BY <1>1, <2>1 DEF RequestIrq, KeyTypes, PickedUp, Quiet
<1>2. CASE Edge
  <2>1. pin' \in BOOLEAN /\ pressed' = pressed /\ calm' = 0
    BY <1>2, Zenon DEF Edge
  <2>2. CASE irq /\ keyPm # "asleep"
    <3>1. missed' \in BOOLEAN /\ delay' = Debounce
      BY <1>2, <2>2, Zenon DEF Edge, Schedule
    <3>2. QED
      BY <1>2, <2>1, <2>2, <3>1 DEF Edge, KeyTypes, PickedUp, Quiet
  <2>3. CASE ~irq
    <3>1. missed' \in BOOLEAN /\ missed' /\ delay' = delay
      BY <1>2, <2>3, Zenon DEF Edge
    <3>2. QED
      BY <1>2, <2>1, <2>3, <3>1 DEF Edge, KeyTypes, PickedUp, Quiet
  <2>4. CASE irq /\ keyPm = "asleep"
    <3>1. missed' \in BOOLEAN /\ delay' = delay
      BY <1>2, <2>4, Zenon DEF Edge
    <3>2. QED
      BY <1>2, <2>1, <2>4, <3>1 DEF Edge, KeyTypes, PickedUp, Quiet
  <2>5. QED
    BY <2>2, <2>3, <2>4
<1>3. CASE Tick
  BY <1>3 DEF Tick, KeyTypes, PickedUp, Quiet
<1>4. CASE ReportWork
  <2>1. missed' \in BOOLEAN /\ pressed' \in BOOLEAN
        /\ (pressed' = pin \/ (missed' /\ pressed' = pressed))
    BY <1>4, Zenon DEF ReportWork, KeyTypes
  <2>2. QED
    BY <1>4, <2>1 DEF ReportWork, KeyTypes, PickedUp, Quiet
<1>5. CASE CancelWork
  <2>1. missed' \in BOOLEAN /\ (missed \/ delay >= 0 => missed')
    BY <1>5, Zenon DEF CancelWork
  <2>2. QED
    BY <1>5, <2>1 DEF CancelWork, KeyTypes, PickedUp, Quiet
<1>6. CASE ArmWakeup
  BY <1>6 DEF ArmWakeup, KeyTypes, PickedUp, Quiet
<1>7. CASE KeyResume
  <2>1. missed' \in BOOLEAN
    BY <1>7, Zenon DEF KeyResume
  <2>2. QED
    BY <1>7, <2>1 DEF KeyResume, KeyTypes, PickedUp, Quiet
<1>8. CASE UNCHANGED keyVars
  BY <1>8 DEF keyVars, KeyTypes, PickedUp, Quiet
<1>9. QED
  BY <1>1, <1>2, <1>3, <1>4, <1>5, <1>6, <1>7, <1>8 DEF KeyNext

\* gpio_capture_key.c: for any debounce time, and across sleep, an unreported
\* level has its work ahead, and that work is not early.
THEOREM KeyInvariance == KeySpec => []KeyIInv
<1>1. KeyInit => KeyIInv
  <2>1. SUFFICES ASSUME KeyInit PROVE KeyIInv
    OBVIOUS
  <2>2. /\ pin \in BOOLEAN /\ pressed = pin
        /\ irq \in BOOLEAN /\ missed \in BOOLEAN
    BY <2>1, Zenon DEF KeyInit
  <2>3. delay = -1 /\ keyPm = "awake" /\ calm = Debounce
    BY <2>1 DEF KeyInit
  <2>4. QED
    BY <2>2, <2>3, KeyAssumption DEF KeyIInv, KeyTypes, PickedUp, Quiet
<1>2. KeyIInv /\ [KeyNext]_keyVars => KeyIInv'
  BY KeyStep
<1>3. QED
  BY <1>1, <1>2, PTL DEF KeySpec

\* gpio_capture_key.c: no bounce is reported, whatever the debounce time.
THEOREM KeyReportsStable == KeySpec => Debounced
<1>1. KeyIInv /\ [KeyNext]_keyVars
        => [pressed' # pressed => calm = Debounce]_keyVars
  BY KeyStep
<1>2. QED
  BY <1>1, KeyInvariance, PTL DEF KeySpec, Debounced

-----------------------------------------------------------------------------
(* The kernel's fan.                                                       *)

(* The types of what the fan's two properties read. *)
KFanTypes ==
    /\ bound \in BOOLEAN /\ suspended \in BOOLEAN
    /\ level \in 0 .. Top /\ seen \subseteq Int
    /\ work \in {"idle", "queued", "tail"}
    /\ fanPm \in {"awake", "cancelled", "asleep"}

(* Between the two steps of a suspend no work is left, and a driver is not
   removed on its way through one. *)
KFanIInv ==
    /\ KFanTypes /\ KernelFanSafe
    /\ fanPm = "cancelled" => work = "idle"
    /\ ~bound => fanPm = "awake"

\* The thresholds of the overlay, read out of their tuple.
LEMMA ThresholdValues ==
  /\ Top = 3
  /\ Thresholds[1] = 40 /\ Thresholds[2] = 55 /\ Thresholds[3] = 65
BY DEF Top, Thresholds

\* The thresholds a temperature has reached; below zero it is taken to have
\* reached them all.
LEMMA ReachedLevel ==
  ASSUME NEW t \in KernelTemps
  PROVE  /\ LevelReached(t) \in 0 .. Top
         /\ t < 0 => LevelReached(t) = Top
         /\ t >= 0 => /\ LevelReached(t) < Top => t < Thresholds[LevelReached(t) + 1]
                      /\ LevelReached(t) > 0 => t >= Thresholds[LevelReached(t)]
<1> DEFINE u == Unsigned(t)
           P(n) == /\ \A m \in 1 .. n : u >= Thresholds[m]
                   /\ n = Top \/ u < Thresholds[n + 1]
<1>0. /\ t \in Int /\ u \in Int
      /\ t < 0 => u >= 65
      /\ t >= 0 => u = t
  BY KFanAssumption, ThresholdValues DEF Unsigned
<1> HIDE DEF u
<1>1. \E n \in 0 .. Top : P(n)
  <2>1. CASE u < 40
    <3>1. 0 \in 0 .. Top /\ P(0)
      BY <1>0, <2>1, ThresholdValues
    <3>2. QED
      BY <3>1
  <2>2. CASE u >= 40 /\ u < 55
    <3>1. 1 \in 0 .. Top /\ P(1)
      BY <1>0, <2>2, ThresholdValues
    <3>2. QED
      BY <3>1
  <2>3. CASE u >= 55 /\ u < 65
    <3>1. 2 \in 0 .. Top /\ P(2)
      BY <1>0, <2>3, ThresholdValues
    <3>2. QED
      BY <3>1
  <2>4. CASE u >= 65
    <3>1. 3 \in 0 .. Top /\ P(3)
      BY <1>0, <2>4, ThresholdValues
    <3>2. QED
      BY <3>1
  <2>5. QED
    BY <1>0, <2>1, <2>2, <2>3, <2>4
<1>2. LevelReached(t) = CHOOSE n \in 0 .. Top : P(n)
  BY DEF LevelReached, u
<1>3. LevelReached(t) \in 0 .. Top /\ P(LevelReached(t))
  BY <1>1, <1>2
<1>4. t < 0 => LevelReached(t) = Top
  BY <1>0, <1>3, ThresholdValues
<1>5. t >= 0 => /\ LevelReached(t) < Top => t < Thresholds[LevelReached(t) + 1]
                /\ LevelReached(t) > 0 => t >= Thresholds[LevelReached(t)]
  BY <1>0, <1>3, ThresholdValues
<1>6. QED
  BY <1>3, <1>4, <1>5

\* Whatever the present level and the temperature, the target level is a
\* level that the temperature has not outgrown, and is left only below the
\* hysteresis; below zero it is the top.
LEMMA TargetLevelJustified ==
  ASSUME NEW l \in 0 .. Top, NEW t \in KernelTemps
  PROVE  /\ TargetLevel(l, t) \in 0 .. Top
         /\ t < 0 => TargetLevel(l, t) = Top
         /\ t >= 0 =>
              /\ TargetLevel(l, t) < Top =>
                   t < Thresholds[TargetLevel(l, t) + 1]
              /\ TargetLevel(l, t) > 0 =>
                   t > Thresholds[TargetLevel(l, t)] - Hysteresis
<1>1. /\ LevelReached(t) \in 0 .. Top
      /\ t < 0 => LevelReached(t) = Top
      /\ t >= 0 => /\ LevelReached(t) < Top => t < Thresholds[LevelReached(t) + 1]
                   /\ LevelReached(t) > 0 => t >= Thresholds[LevelReached(t)]
  BY ReachedLevel
<1>2. t \in Int /\ Top = 3
  BY KFanAssumption, ThresholdValues
<1>3. CASE LevelReached(t) < l /\ t > Thresholds[l] - Hysteresis
  <2>1. TargetLevel(l, t) = l
    BY <1>3 DEF TargetLevel
  <2>2. ~(t < 0)
    BY <1>1, <1>2, <1>3
  <2>3. t >= 0
    BY <1>2, <2>2
  <2>4. l < Top => t < Thresholds[l + 1]
    BY <1>1, <1>2, <1>3, <2>3, ThresholdValues
  <2>5. QED
    BY <1>3, <2>1, <2>2, <2>4
<1>4. CASE ~(LevelReached(t) < l /\ t > Thresholds[l] - Hysteresis)
  <2>1. TargetLevel(l, t) = LevelReached(t)
    BY <1>4 DEF TargetLevel
  <2>2. t >= 0 /\ LevelReached(t) > 0 => t > Thresholds[LevelReached(t)] - Hysteresis
    BY <1>1, <1>2, ThresholdValues DEF Hysteresis
  <2>3. QED
    BY <1>1, <2>1, <2>2
<1>5. QED
  BY <1>3, <1>4

\* An update leaves the fan at a level that the temperature it read
\* justifies, and touches nothing else.
LEMMA UpdateAutoJustified ==
  ASSUME KFanTypes, LevelJustified, UpdateAuto
  PROVE  level' \in 0 .. Top /\ seen' \subseteq Int /\ LevelJustified'
<1>1. ASSUME NEW t \in KernelTemps, level' = TargetLevel(level, t), seen' = {t}
      PROVE  level' \in 0 .. Top /\ seen' \subseteq Int /\ LevelJustified'
  <2>1. level \in 0 .. Top /\ t \in Int
    BY KFanAssumption DEF KFanTypes
  <2>2. CASE t < 0
    BY <1>1, <2>1, <2>2, TargetLevelJustified DEF LevelJustified
  <2>3. CASE ~(t < 0)
    <3>1. t >= 0
      BY <2>1, <2>3
    <3>2. QED
      BY <1>1, <2>1, <2>3, <3>1, TargetLevelJustified DEF LevelJustified
  <2>4. QED
    BY <2>2, <2>3
<1>2. ASSUME level' \in 0 .. Top, seen' = {}
      PROVE  level' \in 0 .. Top /\ seen' \subseteq Int /\ LevelJustified'
  BY <1>2 DEF LevelJustified
<1>3. \/ \E t \in KernelTemps : level' = TargetLevel(level, t) /\ seen' = {t}
      \/ level' = level /\ seen' = {}
      \/ level' = Top /\ seen' = {}
  BY DEF UpdateAuto
<1>4. level \in 0 .. Top /\ Top \in 0 .. Top
  BY ThresholdValues DEF KFanTypes
<1>5. QED
  BY <1>1, <1>2, <1>3, <1>4

\* Every step of the work, of hwmon and of the power management keeps it.
LEMMA KFanStep ==
  ASSUME KFanIInv, [KFanNext]_kfanVars
  PROVE  KFanIInv'
<1> USE DEF KFanIInv, KFanTypes, KernelFanSafe, WorkArmed
<1>1. CASE Work
  <2>1. CASE ~suspended /\ mode = "auto"
    BY <1>1, <2>1, UpdateAutoJustified DEF Work
  <2>2. CASE ~(~suspended /\ mode = "auto")
    BY <1>1, <2>2 DEF Work, LevelJustified
  <2>3. QED
    BY <2>1, <2>2
<1>2. CASE WorkTail
  BY <1>2 DEF WorkTail, LevelJustified
<1>3. ASSUME NEW d \in ManualDuties, WritePwm(d)
      PROVE  KFanIInv'
  BY <1>3 DEF WritePwm, LevelJustified
<1>4. ASSUME NEW m \in {"auto", "manual"}, WriteMode(m)
      PROVE  KFanIInv'
  <2>1. CASE m = "auto"
    BY <1>4, <2>1, UpdateAutoJustified DEF WriteMode
  <2>2. CASE m # "auto"
    BY <1>4, <2>2 DEF WriteMode, LevelJustified
  <2>3. QED
    BY <2>1, <2>2
<1>5. CASE StopWork
  BY <1>5 DEF StopWork, LevelJustified
<1>6. CASE Suspend
  BY <1>6 DEF Suspend, LevelJustified
<1>7. CASE FanResume
  BY <1>7 DEF FanResume, LevelJustified
<1>8. CASE Cleanup
  <2>1. bound' \in BOOLEAN /\ ~bound' /\ suspended' \in BOOLEAN
    BY <1>8, Zenon DEF Cleanup
  <2>2. /\ fanPm' = "awake" /\ seen' = {} /\ work' = "idle"
        /\ level' = level
    BY <1>8 DEF Cleanup
  <2>3. QED
    BY <2>1, <2>2 DEF LevelJustified
<1>9. CASE UNCHANGED kfanVars
  BY <1>9 DEF kfanVars, LevelJustified
<1>10. QED
  BY <1>1, <1>2, <1>3, <1>4, <1>5, <1>6, <1>7, <1>8, <1>9 DEF KFanNext

\* pwm_fan_ocr.c: whatever the temperatures, the manual duties and the failing
\* accesses, the work's schedule survives sleep and removal, and the level is
\* one the last temperature justifies: below zero, where the driver compares an
\* int with a u32, the top one.
THEOREM KFanInvariance == KFanSpec => []KFanIInv
<1>1. KFanInit => KFanIInv
  <2>1. SUFFICES ASSUME KFanInit PROVE KFanIInv
    OBVIOUS
  <2>2. /\ bound \in BOOLEAN /\ bound
        /\ suspended \in BOOLEAN /\ ~suspended
    BY <2>1, Zenon DEF KFanInit
  <2>3. level = 0 /\ work = "queued" /\ fanPm = "awake" /\ seen = {}
    BY <2>1 DEF KFanInit
  <2>4. QED
    BY <2>2, <2>3, ThresholdValues DEF KFanIInv, KFanTypes, KernelFanSafe,
       WorkArmed, LevelJustified
<1>2. KFanIInv /\ [KFanNext]_kfanVars => KFanIInv'
  BY KFanStep
<1>3. QED
  BY <1>1, <1>2, PTL DEF KFanSpec

-----------------------------------------------------------------------------
(* The application's fan.                                                  *)

(* The types of the channel, of a list of writes and of a controller. *)
Attributes == {"enable", "duty", "period"}
Channel == [exported : BOOLEAN, enable : Nat, period : Nat, duty : Nat]
Writes == Seq(Attributes \X Nat)
Stages == {"off", "locked", "capture", "setup", "on", "undo", "kept"}
Controller ==
    [pc : Stages, todo : Writes, failed : BOOLEAN, auto : BOOLEAN,
     owned : BOOLEAN, orig : Seq(Channel), level : 0 .. FanMaxLevel,
     temp : Int]

FanTypes ==
    /\ pwm \in Channel /\ found \in Channel
    /\ lock \in Procs \cup {Nobody}
    /\ ctrl \in [Procs -> Controller]

(* The writes of a list from the k-th on. *)
Left(w, k) == SubSeq(w, k, Len(w))

(* A controller works on a channel it exported or took over, or on one whose
   former state it has kept. *)
Owned(c) == c.owned /\ c.orig = <<>>
Borrowed(c) ==
    ~c.owned /\ c.orig = <<found>> /\ found.exported /\ pwm.exported

(* What the writes done so far have made of the channel, during the set-up
   and, unless one failed, on the way back. *)
Setting(c) ==
    /\ pwm.exported
    /\ \E k \in 1 .. 5 :
         /\ c.todo = Left(SetupWrites, k)
         /\ k >= 4 => pwm.period = Period
         /\ k >= 5 => pwm.duty = 0

Restoring(c) ==
    \E k \in 1 .. 6 :
      /\ c.todo = Left(RestoreWrites(found), k)
      /\ ~c.failed => /\ k >= 4 => pwm.period = found.period
                      /\ k >= 5 => pwm.duty = found.duty
                      /\ k >= 6 => pwm.enable = found.enable

(* FanDriven of the controller that runs. *)
Fitting(l, t) ==
    /\ l < FanMaxLevel => t < Up[l + 1]
    /\ l > 0 => t >= Down[l]

Driving(c) ==
    /\ pwm.exported
    /\ pwm.enable = 1 /\ pwm.period = Period /\ pwm.duty = c.level
    /\ c.temp > 0 => Fitting(c.level, c.temp)

Knows(c) ==
    /\ c.pc \in {"locked", "capture"} =>
         pwm = found /\ ~c.owned /\ c.orig = <<>>
    /\ c.pc \in {"locked", "capture", "setup"} => c.level = 0 /\ c.temp = 0
    /\ c.pc = "capture" => pwm.exported
    /\ c.pc \in {"setup", "on", "undo", "kept"} => Owned(c) \/ Borrowed(c)
    /\ c.pc = "setup" => Setting(c)
    /\ c.pc = "on" => Driving(c)
    /\ c.pc = "undo" /\ ~c.owned => Restoring(c)

FanIInv ==
    /\ FanTypes
    /\ \A p \in Procs : ctrl[p].pc = "off" <=> lock # p
    /\ \A p \in Procs : Knows(ctrl[p])
    /\ FanGivenBack

-----------------------------------------------------------------------------
\* What is left of a list, element by element.
LEMMA LeftIs ==
  ASSUME NEW S, NEW w \in Seq(S), NEW k \in 1 .. Len(w) + 1
  PROVE  /\ Left(w, k) \in Seq(S)
         /\ Len(Left(w, k)) = Len(w) + 1 - k
         /\ \A i \in 1 .. Len(w) + 1 - k : Left(w, k)[i] = w[k + i - 1]
<1>1. Len(w) \in Nat
  OBVIOUS
<1>2. QED
  BY <1>1 DEF Left

\* Taking the first write off what is left of a list.
LEMMA LeftMoves ==
  ASSUME NEW S, NEW w \in Seq(S), NEW k \in 1 .. Len(w) + 1
  PROVE  /\ Left(w, k) \in Seq(S)
         /\ Len(Left(w, k)) = Len(w) + 1 - k
         /\ Left(w, k) # <<>> <=> k <= Len(w)
         /\ k <= Len(w) => /\ Left(w, k)[1] = w[k]
                           /\ Tail(Left(w, k)) = Left(w, k + 1)
<1> DEFINE s == Left(w, k)
           n == Len(w) - k
<1>1. Len(w) \in Nat
  OBVIOUS
<1>2. /\ s \in Seq(S) /\ Len(s) = Len(w) + 1 - k
      /\ \A i \in 1 .. Len(w) + 1 - k : s[i] = w[k + i - 1]
  BY LeftIs
<1>3. s # <<>> <=> k <= Len(w)
  BY <1>1, <1>2
<1>4. ASSUME k <= Len(w)
      PROVE  s[1] = w[k] /\ Tail(s) = Left(w, k + 1)
  <2>1. \A i \in 1 .. n + 1 : s[i] = w[k + i - 1]
    <3>1. Len(w) + 1 - k = n + 1
      BY <1>1
    <3>2. QED
      BY <1>2, <3>1
  <2>2. s[1] = w[k]
    <3>1. 1 \in 1 .. n + 1 /\ k + 1 - 1 = k
      BY <1>1, <1>4
    <3>2. QED
      BY <2>1, <3>1
  <2>3. /\ Left(w, k + 1) \in Seq(S) /\ Len(Left(w, k + 1)) = n
        /\ \A i \in 1 .. n : Left(w, k + 1)[i] = w[k + i]
    <3> DEFINE m == k + 1
    <3>1. m \in 1 .. Len(w) + 1 /\ Len(w) + 1 - m = n
      BY <1>1, <1>4
    <3>2. \A i \in 1 .. n : m + i - 1 = k + i
      BY <1>1
    <3> HIDE DEF m
    <3>3. /\ Left(w, m) \in Seq(S) /\ Len(Left(w, m)) = Len(w) + 1 - m
          /\ \A i \in 1 .. Len(w) + 1 - m : Left(w, m)[i] = w[m + i - 1]
      BY <3>1, LeftIs
    <3>4. /\ Left(w, m) \in Seq(S) /\ Len(Left(w, m)) = n
          /\ \A i \in 1 .. n : Left(w, m)[i] = w[k + i]
      BY <3>1, <3>2, <3>3
    <3>5. QED
      BY <3>4 DEF m
  <2>4. /\ Tail(s) \in Seq(S) /\ Len(Tail(s)) = n
        /\ \A i \in 1 .. n : Tail(s)[i] = s[i + 1]
    <3> HIDE DEF s
    <3>1. n \in Nat /\ Len(s) = n + 1
      BY <1>1, <1>2, <1>4
    <3>2. QED
      BY <1>2, <3>1
  <2>5. ASSUME NEW i \in 1 .. n
        PROVE  Tail(s)[i] = Left(w, k + 1)[i]
    <3>1. i + 1 \in 1 .. n + 1 /\ k + (i + 1) - 1 = k + i
      BY <1>1
    <3>2. Tail(s)[i] = s[i + 1] /\ Left(w, k + 1)[i] = w[k + i]
      BY <2>3, <2>4
    <3>3. s[i + 1] = w[k + i]
      BY <2>1, <3>1
    <3>4. QED
      BY <3>2, <3>3
  <2>6. QED
    BY <2>2, <2>3, <2>4, <2>5, SeqEqual
<1>5. QED
  BY <1>2, <1>3, <1>4

\* Nothing is taken off yet.
LEMMA WholeLeft ==
  ASSUME NEW S, NEW w \in Seq(S)
  PROVE  Left(w, 1) = w
<1>1. /\ Left(w, 1) \in Seq(S) /\ Len(Left(w, 1)) = Len(w)
      /\ \A i \in 1 .. Len(w) : Left(w, 1)[i] = w[i]
  BY DEF Left
<1>2. QED
  BY <1>1, SeqEqual

\* The two lists of five writes, one by one.
LEMMA SetupWritesAre ==
  /\ SetupWrites \in Writes /\ Len(SetupWrites) = 5
  /\ SetupWrites[3][1] = "period" /\ SetupWrites[3][2] = Period
  /\ SetupWrites[4][1] = "duty" /\ SetupWrites[4][2] = 0
  /\ SetupWrites[5][1] = "enable" /\ SetupWrites[5][2] = 1
BY DEF SetupWrites, Writes, Attributes, Period

LEMMA RestoreWritesAre ==
  ASSUME NEW o \in Channel
  PROVE  /\ RestoreWrites(o) \in Writes /\ Len(RestoreWrites(o)) = 5
         /\ RestoreWrites(o)[3][1] = "period"
         /\ RestoreWrites(o)[3][2] = o.period
         /\ RestoreWrites(o)[4][1] = "duty"
         /\ RestoreWrites(o)[4][2] = o.duty
         /\ RestoreWrites(o)[5][1] = "enable"
         /\ RestoreWrites(o)[5][2] = o.enable
BY DEF RestoreWrites, Writes, Attributes, Channel

\* A write changes the attribute it names, when it succeeds, and nothing else.
LEMMA WriteChanges ==
  ASSUME pwm \in Channel, NEW a \in Attributes, NEW v \in Nat,
         NEW ok \in BOOLEAN, Write(a, v, ok)
  PROVE  /\ pwm' \in Channel /\ pwm'.exported = pwm.exported
         /\ ~ok => pwm' = pwm
         /\ ok /\ a = "enable" => /\ pwm'.enable = v
                                  /\ pwm'.period = pwm.period
                                  /\ pwm'.duty = pwm.duty
         /\ ok /\ a = "duty" => /\ pwm'.duty = v
                                /\ pwm'.period = pwm.period
                                /\ pwm'.enable = pwm.enable
         /\ ok /\ a = "period" => /\ pwm'.period = v
                                  /\ pwm'.duty = pwm.duty
                                  /\ pwm'.enable = pwm.enable
<1>1. CASE ok
  <2>1. pwm' = [pwm EXCEPT ![a] = v]
    BY <1>1 DEF Write
  <2>2. CASE a = "enable"
    BY <1>1, <2>1, <2>2 DEF Channel
  <2>3. CASE a = "duty"
    BY <1>1, <2>1, <2>3 DEF Channel
  <2>4. CASE a = "period"
    BY <1>1, <2>1, <2>4 DEF Channel
  <2>5. QED
    BY <2>2, <2>3, <2>4 DEF Attributes
<1>2. CASE ~ok
  BY <1>2 DEF Write
<1>3. QED
  BY <1>1, <1>2

-----------------------------------------------------------------------------
\* The level that fits a temperature, from whatever level.
LEMMA FanThresholds ==
  /\ FanMaxLevel = 4
  /\ Up[1] = 45 /\ Up[2] = 55 /\ Up[3] = 65 /\ Up[4] = 75
  /\ Down[1] = 42 /\ Down[2] = 52 /\ Down[3] = 62 /\ Down[4] = 72
BY DEF FanMaxLevel, Up, Down

LEMMA TargetFits ==
  ASSUME NEW l \in 0 .. FanMaxLevel, NEW t \in Int
  PROVE  Target(l, t) \in 0 .. FanMaxLevel /\ Fitting(Target(l, t), t)
<1> DEFINE Raised(n) == /\ \A m \in l .. n - 1 : t >= Up[m + 1]
                        /\ n = FanMaxLevel \/ t < Up[n + 1]
           up == CHOOSE n \in l .. FanMaxLevel : Raised(n)
           Lowered(u, n) == /\ \A m \in n + 1 .. u : t < Down[m]
                            /\ n = 0 \/ t >= Down[n]
           down == CHOOSE n \in 0 .. up : Lowered(up, n)
<1>1. \E n \in l .. FanMaxLevel : Raised(n)
  <2>1. CASE l = FanMaxLevel \/ t < Up[l + 1]
    <3>1. l \in l .. FanMaxLevel /\ Raised(l)
      BY <2>1, FanThresholds
    <3>2. QED
      BY <3>1
  <2>2. ASSUME NEW n \in 1 .. FanMaxLevel, l < n, t >= Up[n],
               n = FanMaxLevel \/ t < Up[n + 1]
        PROVE  n \in l .. FanMaxLevel /\ Raised(n)
    <3>1. ASSUME NEW m \in l .. n - 1 PROVE t >= Up[m + 1]
      BY <2>2, <3>1, FanThresholds
    <3>2. QED
      BY <2>2, <3>1, FanThresholds
  <2>3. CASE l < FanMaxLevel /\ t >= Up[l + 1]
    <3>1. \E n \in 1 .. FanMaxLevel :
            l < n /\ t >= Up[n] /\ (n = FanMaxLevel \/ t < Up[n + 1])
      <4>1. CASE t < 55
        BY <2>3, <4>1, FanThresholds
      <4>2. CASE t >= 55 /\ t < 65
        BY <2>3, <4>2, FanThresholds
      <4>3. CASE t >= 65 /\ t < 75
        BY <2>3, <4>3, FanThresholds
      <4>4. CASE t >= 75
        BY <2>3, <4>4, FanThresholds
      <4>5. QED
        BY <4>1, <4>2, <4>3, <4>4
    <3>2. QED
      BY <2>2, <3>1
  <2>4. QED
    BY <2>1, <2>3, FanThresholds
<1>2. up \in l .. FanMaxLevel /\ Raised(up)
  BY <1>1
<1> HIDE DEF up
<1>3. \E n \in 0 .. up : Lowered(up, n)
  <2>1. CASE up = 0 \/ t >= Down[up]
    <3>1. up \in 0 .. up /\ Lowered(up, up)
      BY <1>2, <2>1, FanThresholds
    <3>2. QED
      BY <3>1
  <2>2. ASSUME NEW n \in 0 .. FanMaxLevel, n < up, t < Down[n + 1],
               n = 0 \/ t >= Down[n]
        PROVE  n \in 0 .. up /\ Lowered(up, n)
    <3>1. ASSUME NEW m \in n + 1 .. up PROVE t < Down[m]
      BY <1>2, <2>2, <3>1, FanThresholds
    <3>2. QED
      BY <1>2, <2>2, <3>1, FanThresholds
  <2>3. CASE up > 0 /\ t < Down[up]
    <3>1. \E n \in 0 .. FanMaxLevel :
            n < up /\ t < Down[n + 1] /\ (n = 0 \/ t >= Down[n])
      <4>1. CASE t < 42
        BY <1>2, <2>3, <4>1, FanThresholds
      <4>2. CASE t >= 42 /\ t < 52
        BY <1>2, <2>3, <4>2, FanThresholds
      <4>3. CASE t >= 52 /\ t < 62
        BY <1>2, <2>3, <4>3, FanThresholds
      <4>4. CASE t >= 62
        BY <1>2, <2>3, <4>4, FanThresholds
      <4>5. QED
        BY <4>1, <4>2, <4>3, <4>4
    <3>2. QED
      BY <2>2, <3>1
  <2>4. QED
    BY <1>2, <2>1, <2>3, FanThresholds
<1>4. down \in 0 .. up /\ Lowered(up, down)
  BY <1>3
<1>5. Target(l, t) = down
  BY DEF Target, up
<1> HIDE DEF down
<1>6. down < FanMaxLevel => t < Up[down + 1]
  <2>1. CASE down = up
    BY <1>2, <2>1
  <2>2. CASE down < up
    <3>1. t < Down[down + 1]
      BY <1>2, <1>4, <2>2
    <3>2. QED
      BY <1>2, <1>4, <2>2, <3>1, FanThresholds
  <2>3. QED
    BY <1>2, <1>4, <2>1, <2>2, FanThresholds
<1>7. QED
  BY <1>2, <1>4, <1>5, <1>6, FanThresholds DEF Fitting

-----------------------------------------------------------------------------
\* One process at most has a controller that is not off, and a step of it
\* leaves the others off: what is known of them stays true.
LEMMA HolderMoves ==
  ASSUME FanIInv, NEW p \in Procs,
         lock \in {p, Nobody}, lock' \in {p, Nobody},
         pwm' \in Channel, found' \in Channel,
         ctrl' \in [Procs -> Controller],
         \A q \in Procs \ {p} : ctrl'[q] = ctrl[q],
         ctrl'[p].pc = "off" <=> lock' # p,
         Knows(ctrl[p])', FanGivenBack'
  PROVE  FanIInv'
<1>1. ASSUME NEW q \in Procs \ {p}
      PROVE  ctrl'[q].pc = "off" /\ lock' # q /\ Knows(ctrl[q])'
  <2>1. ctrl'[q].pc = "off" /\ lock' # q
    BY <1>1, FanAssumption DEF FanIInv
  <2>2. QED
    BY <2>1 DEF Knows
<1>2. FanTypes'
  BY DEF FanTypes
<1>3. \A q \in Procs : (ctrl[q].pc = "off" <=> lock # q)'
  BY <1>1
<1>4. \A q \in Procs : Knows(ctrl[q])'
  BY <1>1
<1>5. QED
  BY <1>2, <1>3, <1>4 DEF FanIInv

\* A controller that is off knows nothing.
LEMMA OffIsController ==
  /\ Off \in Controller /\ Off.pc = "off"
  /\ ~Off.owned /\ Off.orig = <<>> /\ Off.level = 0 /\ Off.temp = 0
BY DEF Off, Controller, Stages, Writes, FanMaxLevel

\* Whoever gives the lock up with the channel as found, or unexported.
LEMMA Releases ==
  ASSUME FanIInv, NEW p \in Procs, lock = p, Reset(p), lock' = Nobody,
         pwm' \in Channel, found' \in Channel,
         pwm' = found' \/ ~pwm'.exported
  PROVE  FanIInv'
<1>1. /\ ctrl' \in [Procs -> Controller] /\ ctrl'[p] = Off
      /\ \A q \in Procs \ {p} : ctrl'[q] = ctrl[q]
  BY OffIsController DEF Reset, FanIInv, FanTypes
<1>2. Knows(ctrl[p])'
  BY <1>1, OffIsController DEF Knows
<1>3. FanGivenBack'
  BY DEF FanGivenBack
<1>4. lock' # p
  BY FanAssumption
<1>5. QED
  BY <1>1, <1>2, <1>3, <1>4, HolderMoves, OffIsController

\* The holder's step that keeps the lock.
LEMMA HolderStays ==
  ASSUME FanIInv, NEW p \in Procs, lock = p, lock' = p, found' = found,
         pwm' \in Channel,
         ctrl' \in [Procs -> Controller],
         \A q \in Procs \ {p} : ctrl'[q] = ctrl[q],
         ctrl'[p].pc # "off", Knows(ctrl[p])'
  PROVE  FanIInv'
<1>1. FanGivenBack' /\ found' \in Channel
  BY FanAssumption DEF FanGivenBack, FanIInv, FanTypes
<1>2. QED
  BY <1>1, HolderMoves

\* Who is not off holds the lock.
LEMMA HolderHolds ==
  ASSUME FanIInv, NEW p \in Procs, ctrl[p].pc # "off"
  PROVE  /\ lock = p /\ ctrl[p] \in Controller /\ Knows(ctrl[p])
         /\ pwm \in Channel /\ found \in Channel
         /\ ctrl \in [Procs -> Controller]
BY DEF FanIInv, FanTypes

\* The way back begins with all its writes ahead.
LEMMA WayBackBegins ==
  ASSUME NEW c \in Controller, found \in Channel,
         Owned(c) \/ (c.orig = <<found>> /\ ~c.owned)
  PROVE  /\ WayBack(c) \in Controller /\ WayBack(c).pc = "undo"
         /\ WayBack(c).owned = c.owned /\ WayBack(c).orig = c.orig
         /\ c.orig = <<found>> =>
              WayBack(c).todo = Left(RestoreWrites(found), 1)
<1>1. DisableWrites \in Writes /\ <<>> \in Writes
  BY DEF DisableWrites, Writes, Attributes
<1>2. RestoreWrites(found) \in Writes /\ Len(RestoreWrites(found)) = 5
  BY RestoreWritesAre
<1>3. Left(RestoreWrites(found), 1) = RestoreWrites(found)
  BY <1>2, WholeLeft DEF Writes
<1>4. CASE Owned(c)
  <2>1. WayBack(c) = [c EXCEPT !.pc = "undo", !.failed = FALSE,
                               !.todo = DisableWrites]
    BY <1>4 DEF WayBack, Owned
  <2>2. c.orig # <<found>>
    BY <1>4 DEF Owned
  <2>3. QED
    BY <1>1, <1>4, <2>1, <2>2 DEF Owned, Controller, Stages
<1>5. CASE c.orig = <<found>> /\ ~c.owned
  <2>1. WayBack(c) = [c EXCEPT !.pc = "undo", !.failed = FALSE,
                               !.todo = RestoreWrites(found)]
    BY <1>5 DEF WayBack
  <2>2. QED
    BY <1>2, <1>3, <1>5, <2>1 DEF Controller, Stages
<1>6. QED
  BY <1>4, <1>5

\* A step that begins the way back with the channel still what it was.
LEMMA TakesWayBack ==
  ASSUME FanIInv, NEW p \in Procs, lock = p, lock' = p, found' = found,
         pwm' \in Channel, pwm.exported => pwm'.exported,
         NEW c \in Controller, Owned(c) \/ Borrowed(c),
         ctrl' = [ctrl EXCEPT ![p] = WayBack(c)]
  PROVE  FanIInv'
<1>1. ctrl \in [Procs -> Controller] /\ found \in Channel
  BY DEF FanIInv, FanTypes
<1>2. /\ WayBack(c) \in Controller /\ WayBack(c).pc = "undo"
      /\ WayBack(c).owned = c.owned /\ WayBack(c).orig = c.orig
      /\ c.orig = <<found>> =>
              WayBack(c).todo = Left(RestoreWrites(found), 1)
  BY <1>1, WayBackBegins DEF Borrowed
<1>3. /\ ctrl' \in [Procs -> Controller] /\ ctrl'[p] = WayBack(c)
      /\ \A q \in Procs \ {p} : ctrl'[q] = ctrl[q]
  BY <1>1, <1>2
<1>4. (Owned(ctrl[p]) \/ Borrowed(ctrl[p]))'
  BY <1>2, <1>3 DEF Owned, Borrowed
<1>5. ctrl'[p].owned \/ Restoring(ctrl[p])'
  <2>1. CASE Owned(c)
    BY <1>2, <1>3, <2>1 DEF Owned
  <2>2. CASE Borrowed(c)
    <3>1. ctrl'[p].todo = Left(RestoreWrites(found), 1)
      BY <1>2, <1>3, <2>2 DEF Borrowed
    <3>2. QED
      BY <3>1 DEF Restoring
  <2>3. QED
    BY <2>1, <2>2
<1>6. Knows(ctrl[p])'
  BY <1>2, <1>3, <1>4, <1>5 DEF Knows
<1>7. QED
  BY <1>2, <1>3, <1>6, HolderStays

-----------------------------------------------------------------------------
\* Each action of a process keeps the invariant.
LEMMA AcquireKeeps ==
  ASSUME FanIInv, NEW p \in Procs, NEW auto \in BOOLEAN, AcquireLock(p, auto)
  PROVE  FanIInv'
<1> DEFINE c == [Off EXCEPT !.pc = "locked", !.auto = auto]
<1>1. /\ c \in Controller /\ c.pc = "locked" /\ ~c.owned /\ c.orig = <<>>
      /\ c.level = 0 /\ c.temp = 0
  BY OffIsController DEF Controller, Stages
<1> HIDE DEF c
<1>2. /\ pwm \in Channel /\ ctrl \in [Procs -> Controller]
      /\ lock = Nobody /\ lock' = p /\ found' = pwm /\ pwm' = pwm
      /\ ctrl' = [ctrl EXCEPT ![p] = c]
  BY DEF AcquireLock, FanIInv, FanTypes, c
<1>3. /\ ctrl' \in [Procs -> Controller] /\ ctrl'[p] = c
      /\ \A q \in Procs \ {p} : ctrl'[q] = ctrl[q]
  BY <1>1, <1>2
<1>4. Knows(ctrl[p])'
  BY <1>1, <1>2, <1>3 DEF Knows
<1>5. FanGivenBack'
  BY <1>2 DEF FanGivenBack
<1>6. QED
  BY <1>1, <1>2, <1>3, <1>4, <1>5, HolderMoves

\* Giving up before anything was written.
LEMMA ChannelMissingKeeps ==
  ASSUME FanIInv, NEW p \in Procs, ChannelMissing(p)
  PROVE  FanIInv'
<1>1. lock = p /\ pwm \in Channel /\ found \in Channel /\ Knows(ctrl[p])
  BY HolderHolds DEF ChannelMissing
<1>2. pwm = found
  BY <1>1 DEF ChannelMissing, Knows
<1>3. QED
  BY <1>1, <1>2, Releases DEF ChannelMissing, Release

\* The set-up begins with all its writes ahead.
LEMMA SettingBegins ==
  ASSUME FanIInv, NEW p \in Procs, lock = p, lock' = p, found' = found,
         pwm' \in Channel, pwm'.exported,
         ctrl' \in [Procs -> Controller],
         \A q \in Procs \ {p} : ctrl'[q] = ctrl[q],
         ctrl'[p].pc = "setup", ctrl'[p].todo = SetupWrites,
         ctrl'[p].level = 0, ctrl'[p].temp = 0,
         (Owned(ctrl[p]) \/ Borrowed(ctrl[p]))'
  PROVE  FanIInv'
<1>1. SetupWrites = Left(SetupWrites, 1)
  BY SetupWritesAre, WholeLeft DEF Writes
<1>2. Setting(ctrl[p])'
  BY <1>1 DEF Setting
<1>3. Knows(ctrl[p])'
  BY <1>2 DEF Knows
<1>4. QED
  BY <1>3, HolderStays

\* Taking over an export, or going on to capture its state.
LEMMA FoundExportedKeeps ==
  ASSUME FanIInv, NEW p \in Procs, FoundExported(p)
  PROVE  FanIInv'
<1>1. /\ lock = p /\ pwm \in Channel /\ found \in Channel
      /\ ctrl \in [Procs -> Controller] /\ ctrl[p] \in Controller
      /\ pwm = found /\ ~ctrl[p].owned /\ ctrl[p].orig = <<>>
      /\ ctrl[p].level = 0 /\ ctrl[p].temp = 0
      /\ lock' = lock /\ found' = found /\ pwm' = pwm /\ pwm.exported
  BY HolderHolds DEF FoundExported, Knows
<1>2. CASE ctrl[p].auto
  <2> DEFINE c == [ctrl[p] EXCEPT !.pc = "setup", !.owned = TRUE,
                                  !.todo = SetupWrites]
  <2>1. /\ c \in Controller /\ c.pc = "setup" /\ c.todo = SetupWrites
        /\ c.owned /\ c.orig = <<>> /\ c.level = 0 /\ c.temp = 0
    BY <1>1, SetupWritesAre DEF Controller, Stages
  <2> HIDE DEF c
  <2>2. ctrl' = [ctrl EXCEPT ![p] = c]
    BY <1>2 DEF FoundExported, c
  <2>3. /\ ctrl' \in [Procs -> Controller] /\ ctrl'[p] = c
        /\ \A q \in Procs \ {p} : ctrl'[q] = ctrl[q]
    BY <1>1, <2>1, <2>2
  <2>4. Owned(ctrl[p])'
    BY <2>1, <2>3 DEF Owned
  <2>5. QED
    BY <1>1, <2>1, <2>3, <2>4, SettingBegins
<1>3. CASE ~ctrl[p].auto
  <2> DEFINE c == [ctrl[p] EXCEPT !.pc = "capture"]
  <2>1. /\ c \in Controller /\ c.pc = "capture" /\ ~c.owned
        /\ c.orig = <<>> /\ c.level = 0 /\ c.temp = 0
    BY <1>1 DEF Controller, Stages
  <2> HIDE DEF c
  <2>2. ctrl' = [ctrl EXCEPT ![p] = c]
    BY <1>3 DEF FoundExported, c
  <2>3. /\ ctrl' \in [Procs -> Controller] /\ ctrl'[p] = c
        /\ \A q \in Procs \ {p} : ctrl'[q] = ctrl[q]
    BY <1>1, <2>1, <2>2
  <2>4. Knows(ctrl[p])'
    BY <1>1, <2>1, <2>3 DEF Knows
  <2>5. QED
    BY <1>1, <2>1, <2>3, <2>4, HolderStays
<1>4. QED
  BY <1>2, <1>3

\* An export of one's own.
LEMMA ExportKeeps ==
  ASSUME FanIInv, NEW p \in Procs, Export(p)
  PROVE  FanIInv'
<1> DEFINE mine == [ctrl[p] EXCEPT !.owned = TRUE]
<1>1. /\ lock = p /\ pwm \in Channel /\ found \in Channel
      /\ ctrl \in [Procs -> Controller] /\ ctrl[p] \in Controller
      /\ ctrl[p].orig = <<>> /\ ctrl[p].level = 0 /\ ctrl[p].temp = 0
      /\ lock' = lock /\ found' = found
      /\ pwm' = [pwm EXCEPT !.exported = TRUE]
  BY HolderHolds DEF Export, Knows
<1>2. /\ mine \in Controller /\ mine.owned /\ mine.orig = <<>>
      /\ mine.level = 0 /\ mine.temp = 0
  BY <1>1 DEF Controller
<1>3. pwm' \in Channel /\ pwm'.exported
  BY <1>1 DEF Channel
<1>4. CASE ctrl' = [ctrl EXCEPT ![p] =
                     [mine EXCEPT !.pc = "setup", !.todo = SetupWrites]]
  <2> DEFINE c == [mine EXCEPT !.pc = "setup", !.todo = SetupWrites]
  <2>1. /\ c \in Controller /\ c.pc = "setup" /\ c.todo = SetupWrites
        /\ c.owned /\ c.orig = <<>> /\ c.level = 0 /\ c.temp = 0
    BY <1>2, SetupWritesAre DEF Controller, Stages
  <2>2. ctrl' = [ctrl EXCEPT ![p] = c]
    BY <1>4
  <2> HIDE DEF c, mine
  <2>3. /\ ctrl' \in [Procs -> Controller] /\ ctrl'[p] = c
        /\ \A q \in Procs \ {p} : ctrl'[q] = ctrl[q]
    BY <1>1, <2>1, <2>2
  <2>4. Owned(ctrl[p])'
    BY <2>1, <2>3 DEF Owned
  <2>5. QED
    BY <1>1, <1>3, <2>1, <2>3, <2>4, SettingBegins
<1>5. CASE ctrl' = [ctrl EXCEPT ![p] = WayBack(mine)]
  <2> HIDE DEF mine
  <2>1. Owned(mine)
    BY <1>2 DEF Owned
  <2>2. QED
    BY <1>1, <1>2, <1>3, <1>5, <2>1, TakesWayBack
<1>6. QED
  BY <1>4, <1>5 DEF Export

\* The former state is kept, or the lock given up.
LEMMA CaptureKeeps ==
  ASSUME FanIInv, NEW p \in Procs, CaptureExternal(p)
  PROVE  FanIInv'
<1>1. /\ lock = p /\ pwm \in Channel /\ found \in Channel
      /\ ctrl \in [Procs -> Controller] /\ ctrl[p] \in Controller
      /\ pwm = found /\ pwm.exported /\ ~ctrl[p].owned
      /\ ctrl[p].level = 0 /\ ctrl[p].temp = 0
      /\ found' = found /\ pwm' = pwm
  BY HolderHolds DEF CaptureExternal, Knows
<1>2. CASE /\ ctrl' = [ctrl EXCEPT ![p].pc = "setup", ![p].orig = <<pwm>>,
                                   ![p].todo = SetupWrites]
           /\ lock' = lock
  <2>1. <<pwm>> \in Seq(Channel)
    BY <1>1
  <2>2. /\ ctrl' \in [Procs -> Controller]
        /\ ctrl'[p].pc = "setup" /\ ctrl'[p].orig = <<pwm>>
        /\ ctrl'[p].todo = SetupWrites /\ ctrl'[p].owned = ctrl[p].owned
        /\ ctrl'[p].level = 0 /\ ctrl'[p].temp = 0
        /\ \A q \in Procs \ {p} : ctrl'[q] = ctrl[q]
    BY <1>1, <1>2, <2>1, SetupWritesAre DEF Controller, Stages
  <2>3. Borrowed(ctrl[p])'
    BY <1>1, <2>2 DEF Borrowed
  <2>4. QED
    BY <1>1, <1>2, <2>2, <2>3, SettingBegins
<1>3. CASE Release(p)
  BY <1>1, <1>3, Releases DEF Release
<1>4. QED
  BY <1>2, <1>3 DEF CaptureExternal

\* One write of the set-up: on to the next, running, or the way back.
LEMMA SetupKeeps ==
  ASSUME FanIInv, NEW p \in Procs, SetupWrite(p)
  PROVE  FanIInv'
<1> DEFINE c == ctrl[p]
<1>1. /\ lock = p /\ pwm \in Channel /\ found \in Channel
      /\ ctrl \in [Procs -> Controller] /\ c \in Controller
      /\ Owned(c) \/ Borrowed(c)
      /\ Setting(c) /\ lock' = lock /\ found' = found
  BY HolderHolds DEF SetupWrite, Knows
<1>2. PICK k \in 1 .. 5 : /\ c.todo = Left(SetupWrites, k)
                          /\ k >= 4 => pwm.period = Period
                          /\ k >= 5 => pwm.duty = 0
  BY <1>1 DEF Setting
<1>3. /\ c.todo[1] = SetupWrites[k] /\ Len(c.todo) = 6 - k
      /\ Tail(c.todo) = Left(SetupWrites, k + 1) /\ Tail(c.todo) \in Writes
  <2>1. /\ SetupWrites \in Seq(Attributes \X Nat) /\ Len(SetupWrites) = 5
        /\ k \in 1 .. Len(SetupWrites) + 1
        /\ k + 1 \in 1 .. Len(SetupWrites) + 1
    BY SetupWritesAre DEF Writes
  <2>2. Left(SetupWrites, k + 1) \in Writes
    BY <2>1, LeftMoves DEF Writes
  <2>3. k <= Len(SetupWrites)
    BY <2>1
  <2>4. /\ Len(Left(SetupWrites, k)) = Len(SetupWrites) + 1 - k
        /\ Left(SetupWrites, k)[1] = SetupWrites[k]
        /\ Tail(Left(SetupWrites, k)) = Left(SetupWrites, k + 1)
    BY <2>1, <2>3, LeftMoves, Zenon
  <2>5. Len(c.todo) = 6 - k
    BY <1>2, <2>1, <2>4
  <2>6. QED
    BY <1>2, <2>2, <2>4, <2>5, Zenon
<1>4. /\ SetupWrites[k] \in Attributes \X Nat
      /\ SetupWrites[k][1] \in Attributes /\ SetupWrites[k][2] \in Nat
  <2>1. SetupWrites[k] \in Attributes \X Nat
    BY SetupWritesAre, ElementOfSeq DEF Writes
  <2>2. QED
    BY <2>1
<1>5. PICK ok \in BOOLEAN :
        /\ Write(SetupWrites[k][1], SetupWrites[k][2], ok)
        /\ ctrl' =
             IF ~ok THEN [ctrl EXCEPT ![p] = WayBack(c)]
             ELSE IF Len(c.todo) = 1
             THEN [ctrl EXCEPT ![p].pc = "on", ![p].todo = <<>>]
             ELSE [ctrl EXCEPT ![p].todo = Tail(c.todo)]
  <2>1. PICK ok \in BOOLEAN :
          /\ Write(c.todo[1][1], c.todo[1][2], ok)
          /\ ctrl' =
               IF ~ok THEN [ctrl EXCEPT ![p] = WayBack(c)]
               ELSE IF Len(c.todo) = 1
               THEN [ctrl EXCEPT ![p].pc = "on", ![p].todo = <<>>]
               ELSE [ctrl EXCEPT ![p].todo = Tail(c.todo)]
    BY DEF SetupWrite
  <2>2. QED
    BY <1>3, <2>1
<1>6. pwm' \in Channel /\ pwm'.exported = pwm.exported
  BY <1>1, <1>4, <1>5, WriteChanges
<1>7. CASE ~ok
  BY <1>1, <1>5, <1>6, <1>7, TakesWayBack
<1>8. CASE ok /\ k = 5
  <2> DEFINE d == [c EXCEPT !.pc = "on", !.todo = <<>>]
  <2>1. ctrl' = [ctrl EXCEPT ![p] = d]
    <3>1. Len(c.todo) = 1
      BY <1>3, <1>8
    <3>2. ctrl' = [ctrl EXCEPT ![p].pc = "on", ![p].todo = <<>>]
      BY <1>5, <1>8, <3>1
    <3>3. QED
      BY <1>1, <3>2
  <2>2. /\ d \in Controller /\ d.pc = "on" /\ d.owned = c.owned
        /\ d.orig = c.orig /\ d.level = 0 /\ d.temp = 0
    <3>1. <<>> \in Writes
      BY DEF Writes
    <3>2. c.level = 0 /\ c.temp = 0
      BY HolderHolds DEF SetupWrite, Knows
    <3>3. QED
      BY <1>1, <3>1, <3>2 DEF Controller, Stages
  <2> HIDE DEF d
  <2>3. /\ ctrl' \in [Procs -> Controller] /\ ctrl'[p] = d
        /\ \A q \in Procs \ {p} : ctrl'[q] = ctrl[q]
    BY <1>1, <2>1, <2>2
  <2>4. pwm'.enable = 1 /\ pwm'.period = Period /\ pwm'.duty = 0
    <3>1. Write("enable", 1, ok) /\ "enable" \in Attributes /\ 1 \in Nat
      BY <1>5, <1>8, SetupWritesAre DEF Attributes
    <3>2. /\ pwm'.enable = 1 /\ pwm'.period = pwm.period
          /\ pwm'.duty = pwm.duty
      BY <1>1, <1>8, <3>1, WriteChanges
    <3>3. QED
      BY <1>2, <1>8, <3>2
  <2>5. Driving(ctrl[p])'
    BY <1>1, <1>6, <2>2, <2>3, <2>4 DEF Driving, Setting
  <2>6. (Owned(ctrl[p]) \/ Borrowed(ctrl[p]))'
    BY <1>1, <1>6, <2>2, <2>3 DEF Owned, Borrowed
  <2>7. Knows(ctrl[p])'
    BY <2>2, <2>3, <2>5, <2>6 DEF Knows
  <2>8. QED
    BY <1>1, <1>6, <2>2, <2>3, <2>7, HolderStays
<1>9. CASE ok /\ k < 5
  <2> DEFINE d == [c EXCEPT !.todo = Tail(c.todo)]
  <2>1. ctrl' = [ctrl EXCEPT ![p] = d]
    <3>1. Len(c.todo) # 1
      BY <1>3, <1>9
    <3>2. ctrl' = [ctrl EXCEPT ![p].todo = Tail(c.todo)]
      BY <1>5, <1>9, <3>1
    <3>3. QED
      BY <1>1, <3>2
  <2>2. /\ d \in Controller /\ d.pc = "setup" /\ d.owned = c.owned
        /\ d.orig = c.orig /\ d.todo = Left(SetupWrites, k + 1)
        /\ d.level = 0 /\ d.temp = 0
    <3>1. c.level = 0 /\ c.temp = 0 /\ c.pc = "setup"
      BY HolderHolds DEF SetupWrite, Knows
    <3>2. QED
      BY <1>1, <1>3, <3>1 DEF Controller
  <2> HIDE DEF d
  <2>3. /\ ctrl' \in [Procs -> Controller] /\ ctrl'[p] = d
        /\ \A q \in Procs \ {p} : ctrl'[q] = ctrl[q]
    BY <1>1, <2>1, <2>2
  <2>4. k = 3 => pwm'.period = Period
    BY <1>1, <1>4, <1>5, <1>9, SetupWritesAre, WriteChanges
  <2>5. k = 4 => pwm'.period = Period /\ pwm'.duty = 0
    <3>1. SUFFICES ASSUME k = 4
                   PROVE  pwm'.period = Period /\ pwm'.duty = 0
      OBVIOUS
    <3>2. Write("duty", 0, ok) /\ "duty" \in Attributes /\ 0 \in Nat
      BY <1>5, <3>1, SetupWritesAre DEF Attributes
    <3>3. pwm'.duty = 0 /\ pwm'.period = pwm.period
      BY <1>1, <1>9, <3>2, WriteChanges
    <3>4. QED
      BY <1>2, <3>1, <3>3
  <2>6. Setting(ctrl[p])'
    <3>1. /\ k + 1 \in 1 .. 5
          /\ k + 1 >= 4 => pwm'.period = Period
          /\ k + 1 >= 5 => pwm'.duty = 0
      BY <1>9, <2>4, <2>5
    <3>2. pwm'.exported /\ ctrl'[p].todo = Left(SetupWrites, k + 1)
      BY <1>1, <1>6, <2>2, <2>3 DEF Setting
    <3>3. QED
      BY <3>1, <3>2 DEF Setting
  <2>7. (Owned(ctrl[p]) \/ Borrowed(ctrl[p]))'
    BY <1>1, <1>6, <2>2, <2>3 DEF Owned, Borrowed
  <2>8. Knows(ctrl[p])'
    BY <2>2, <2>3, <2>6, <2>7 DEF Knows
  <2>9. QED
    BY <1>1, <1>6, <2>2, <2>3, <2>8, HolderStays
<1>10. QED
  BY <1>7, <1>8, <1>9

\* A speed step of a running controller: its level follows the write.
LEMMA SetLevelKeeps ==
  ASSUME FanIInv, NEW p \in Procs, ctrl[p].pc = "on",
         lock' = lock, found' = found,
         NEW l \in 0 .. FanMaxLevel, NEW t \in Int, SetLevel(p, l, t),
         t > 0 => Fitting(l, t)
  PROVE  FanIInv'
<1> DEFINE c == ctrl[p]
<1>1. /\ lock = p /\ pwm \in Channel /\ found \in Channel
      /\ ctrl \in [Procs -> Controller] /\ c \in Controller
      /\ Owned(c) \/ Borrowed(c)
      /\ Driving(c)
  BY HolderHolds DEF Knows
<1>2. PICK ok \in BOOLEAN :
        /\ Write("duty", l, ok)
        /\ ctrl' = [ctrl EXCEPT ![p].level = IF ok THEN l ELSE c.level,
                                ![p].temp = IF ok THEN t ELSE 0]
  BY DEF SetLevel
<1>3. "duty" \in Attributes /\ l \in Nat
  BY FanThresholds DEF Attributes
<1>4. /\ pwm' \in Channel /\ pwm'.exported = pwm.exported
      /\ pwm'.enable = pwm.enable /\ pwm'.period = pwm.period
      /\ pwm'.duty = IF ok THEN l ELSE pwm.duty
  BY <1>1, <1>2, <1>3, WriteChanges
<1>5. /\ ctrl' \in [Procs -> Controller]
      /\ ctrl'[p].pc = "on" /\ ctrl'[p].owned = c.owned
      /\ ctrl'[p].orig = c.orig
      /\ ctrl'[p].level = IF ok THEN l ELSE c.level
      /\ ctrl'[p].temp = IF ok THEN t ELSE 0
      /\ \A q \in Procs \ {p} : ctrl'[q] = ctrl[q]
  <2> DEFINE m == IF ok THEN l ELSE c.level
             u == IF ok THEN t ELSE 0
  <2>1. m \in 0 .. FanMaxLevel /\ u \in Int
    BY <1>1 DEF Controller
  <2>2. ctrl' = [ctrl EXCEPT ![p].level = m, ![p].temp = u]
    BY <1>2
  <2> HIDE DEF m, u
  <2>3. /\ ctrl' \in [Procs -> Controller]
        /\ ctrl'[p].pc = "on" /\ ctrl'[p].owned = c.owned
        /\ ctrl'[p].orig = c.orig
        /\ ctrl'[p].level = m /\ ctrl'[p].temp = u
        /\ \A q \in Procs \ {p} : ctrl'[q] = ctrl[q]
    BY <1>1, <2>1, <2>2 DEF Controller
  <2>4. QED
    BY <2>3 DEF m, u
<1>6. Driving(ctrl[p])'
  <2>1. CASE ok
    <3>1. /\ pwm'.exported /\ pwm'.enable = 1 /\ pwm'.period = Period
          /\ pwm'.duty = l /\ ctrl'[p].level = l /\ ctrl'[p].temp = t
      BY <1>1, <1>4, <1>5, <2>1 DEF Driving
    <3>2. QED
      BY <3>1 DEF Driving, Fitting
  <2>2. CASE ~ok
    BY <1>1, <1>4, <1>5, <2>2 DEF Driving
  <2>3. QED
    BY <2>1, <2>2
<1>7. (Owned(ctrl[p]) \/ Borrowed(ctrl[p]))'
  BY <1>1, <1>4, <1>5 DEF Owned, Borrowed
<1>8. Knows(ctrl[p])'
  BY <1>5, <1>6, <1>7 DEF Knows
<1>9. QED
  BY <1>1, <1>4, <1>5, <1>8, HolderStays

\* A tick of main's with a temperature ...
LEMMA UpdateKeeps ==
  ASSUME FanIInv, NEW p \in Procs, NEW t \in Temps, Update(p, t)
  PROVE  FanIInv'
<1> DEFINE c == ctrl[p]
<1>1. /\ lock = p /\ pwm \in Channel /\ found \in Channel
      /\ ctrl \in [Procs -> Controller] /\ c \in Controller
      /\ Owned(c) \/ Borrowed(c)
      /\ Driving(c) /\ c.pc = "on" /\ lock' = lock /\ found' = found
  BY HolderHolds DEF Update, Knows
<1>2. /\ c.level \in 0 .. FanMaxLevel /\ t \in Int
      /\ Target(c.level, t) \in 0 .. FanMaxLevel
      /\ Fitting(Target(c.level, t), t)
  BY <1>1, FanAssumption, TargetFits DEF Controller
<1>3. CASE Target(c.level, t) # c.level
  <2>1. SetLevel(p, Target(c.level, t), t)
    BY <1>3 DEF Update
  <2>2. QED
    BY <1>1, <1>2, <2>1, SetLevelKeeps
<1>4. CASE Target(c.level, t) = c.level
  <2>1. ctrl' = [ctrl EXCEPT ![p].temp = t] /\ pwm' = pwm
    BY <1>4 DEF Update
  <2>2. /\ ctrl' \in [Procs -> Controller]
        /\ ctrl'[p].pc = "on" /\ ctrl'[p].owned = c.owned
        /\ ctrl'[p].orig = c.orig /\ ctrl'[p].level = c.level
        /\ ctrl'[p].temp = t
        /\ \A q \in Procs \ {p} : ctrl'[q] = ctrl[q]
    BY <1>1, <1>2, <2>1 DEF Controller
  <2>3. Driving(ctrl[p])'
    BY <1>1, <1>2, <1>4, <2>1, <2>2 DEF Driving, Fitting
  <2>4. (Owned(ctrl[p]) \/ Borrowed(ctrl[p]))'
    BY <1>1, <2>1, <2>2 DEF Owned, Borrowed
  <2>5. Knows(ctrl[p])'
    BY <2>2, <2>3, <2>4 DEF Knows
  <2>6. QED
    BY <1>1, <2>1, <2>2, <2>5, HolderStays
<1>5. QED
  BY <1>3, <1>4

\* ... and one without.
LEMMA FullSpeedKeeps ==
  ASSUME FanIInv, NEW p \in Procs, FullSpeed(p)
  PROVE  FanIInv'
<1>1. FanMaxLevel \in 0 .. FanMaxLevel /\ 0 \in Int
  BY FanThresholds
<1>2. QED
  BY <1>1, SetLevelKeeps DEF FullSpeed

\* The way back is taken, ...
LEMMA DestroyKeeps ==
  ASSUME FanIInv, NEW p \in Procs, Destroy(p)
  PROVE  FanIInv'
<1>1. /\ lock = p /\ pwm \in Channel /\ ctrl[p] \in Controller
      /\ Owned(ctrl[p]) \/ Borrowed(ctrl[p])
  BY HolderHolds DEF Destroy, Knows
<1>2. QED
  BY <1>1, TakesWayBack DEF Destroy

\* ... one write of it done, the next ones tried even after a failure, ...
LEMMA UndoKeeps ==
  ASSUME FanIInv, NEW p \in Procs, UndoWrite(p)
  PROVE  FanIInv'
<1> DEFINE c == ctrl[p]
<1>1. /\ lock = p /\ pwm \in Channel /\ found \in Channel
      /\ ctrl \in [Procs -> Controller] /\ c \in Controller
      /\ Owned(c) \/ Borrowed(c)
      /\ ~c.owned => Restoring(c)
      /\ c.pc = "undo" /\ c.todo # <<>> /\ c.todo \in Writes
      /\ lock' = lock /\ found' = found
  BY HolderHolds DEF UndoWrite, Knows, Controller
<1>2. PICK ok \in BOOLEAN :
        /\ Write(c.todo[1][1], c.todo[1][2], ok)
        /\ ctrl' = [ctrl EXCEPT ![p].todo = Tail(c.todo),
                                ![p].failed = c.failed \/ ~ok]
  BY DEF UndoWrite
<1>3. /\ c.todo[1] \in Attributes \X Nat /\ Tail(c.todo) \in Writes
      /\ c.todo[1][1] \in Attributes /\ c.todo[1][2] \in Nat
  <2>1. c.todo[1] \in Attributes \X Nat /\ Tail(c.todo) \in Writes
    BY <1>1 DEF Writes
  <2>2. QED
    BY <2>1
<1>4. pwm' \in Channel /\ pwm'.exported = pwm.exported
  BY <1>1, <1>2, <1>3, WriteChanges
<1>5. /\ ctrl' \in [Procs -> Controller]
      /\ ctrl'[p].pc = "undo" /\ ctrl'[p].owned = c.owned
      /\ ctrl'[p].orig = c.orig /\ ctrl'[p].todo = Tail(c.todo)
      /\ ~ctrl'[p].failed => ok /\ ~c.failed
      /\ \A q \in Procs \ {p} : ctrl'[q] = ctrl[q]
  BY <1>1, <1>2, <1>3 DEF Controller
<1>6. (Owned(ctrl[p]) \/ Borrowed(ctrl[p]))'
  BY <1>1, <1>4, <1>5 DEF Owned, Borrowed
<1>7. ~ctrl'[p].owned => Restoring(ctrl[p])'
  <2> DEFINE w == RestoreWrites(found)
  <2>1. SUFFICES ASSUME ~c.owned PROVE Restoring(ctrl[p])'
    BY <1>5
  <2>2. PICK k \in 1 .. 6 :
          /\ c.todo = Left(w, k)
          /\ ~c.failed => /\ k >= 4 => pwm.period = found.period
                          /\ k >= 5 => pwm.duty = found.duty
                          /\ k >= 6 => pwm.enable = found.enable
    BY <1>1, <2>1 DEF Restoring
  <2>3. w \in Seq(Attributes \X Nat) /\ Len(w) = 5
    BY <1>1, RestoreWritesAre DEF Writes
  <2>4. k <= 5 /\ c.todo[1] = w[k] /\ Tail(c.todo) = Left(w, k + 1)
    <3>1. k \in 1 .. Len(w) + 1
      BY <2>3
    <3>2. k <= Len(w)
      BY <1>1, <2>2, <2>3, <3>1, LeftMoves, Zenon
    <3>3. /\ Left(w, k)[1] = w[k]
          /\ Tail(Left(w, k)) = Left(w, k + 1)
      BY <2>3, <3>1, <3>2, LeftMoves, Zenon
    <3>4. QED
      BY <2>2, <2>3, <3>2, <3>3
  <2>5. ASSUME ok, ~c.failed
        PROVE  /\ k >= 3 => pwm'.period = found.period
               /\ k >= 4 => pwm'.duty = found.duty
               /\ k >= 5 => pwm'.enable = found.enable
    <3>1. Write(w[k][1], w[k][2], ok)
      BY <1>2, <2>4
    <3>2. CASE k = 3
      <4>1. /\ Write("period", found.period, ok)
            /\ "period" \in Attributes /\ found.period \in Nat
        BY <1>1, <3>1, <3>2, RestoreWritesAre DEF Attributes, Channel
      <4>2. pwm'.period = found.period
        BY <1>1, <2>5, <4>1, WriteChanges
      <4>3. QED
        BY <3>2, <4>2
    <3>3. CASE k = 4
      <4>1. /\ Write("duty", found.duty, ok)
            /\ "duty" \in Attributes /\ found.duty \in Nat
        BY <1>1, <3>1, <3>3, RestoreWritesAre DEF Attributes, Channel
      <4>2. pwm'.duty = found.duty /\ pwm'.period = pwm.period
        BY <1>1, <2>5, <4>1, WriteChanges
      <4>3. QED
        BY <2>2, <2>5, <3>3, <4>2
    <3>4. CASE k = 5
      <4>1. /\ Write("enable", found.enable, ok)
            /\ "enable" \in Attributes /\ found.enable \in Nat
        BY <1>1, <3>1, <3>4, RestoreWritesAre DEF Attributes, Channel
      <4>2. /\ pwm'.enable = found.enable /\ pwm'.period = pwm.period
            /\ pwm'.duty = pwm.duty
        BY <1>1, <2>5, <4>1, WriteChanges
      <4>3. QED
        BY <2>2, <2>5, <3>4, <4>2
    <3>5. QED
      BY <2>4, <3>2, <3>3, <3>4
  <2>6. /\ k + 1 \in 1 .. 6 /\ ctrl'[p].todo = Left(w, k + 1)
        /\ ~ctrl'[p].failed =>
             /\ k + 1 >= 4 => pwm'.period = found.period
             /\ k + 1 >= 5 => pwm'.duty = found.duty
             /\ k + 1 >= 6 => pwm'.enable = found.enable
    BY <1>5, <2>4, <2>5
  <2>7. QED
    BY <1>1, <2>6 DEF Restoring, RestoreWrites
<1>8. Knows(ctrl[p])'
  BY <1>5, <1>6, <1>7 DEF Knows
<1>9. QED
  BY <1>1, <1>4, <1>5, <1>8, HolderStays

\* A step to "kept" leaves everything for another try.
LEMMA Keeps ==
  ASSUME FanIInv, NEW p \in Procs, ctrl[p].pc = "undo",
         lock' = lock, found' = found, pwm' = pwm,
         ctrl' = [ctrl EXCEPT ![p].pc = "kept"]
  PROVE  FanIInv'
<1>1. /\ lock = p /\ pwm \in Channel
      /\ ctrl \in [Procs -> Controller] /\ ctrl[p] \in Controller
      /\ Owned(ctrl[p]) \/ Borrowed(ctrl[p])
  BY HolderHolds DEF Knows
<1>2. /\ ctrl' \in [Procs -> Controller]
      /\ ctrl'[p].pc = "kept" /\ ctrl'[p].owned = ctrl[p].owned
      /\ ctrl'[p].orig = ctrl[p].orig
      /\ \A q \in Procs \ {p} : ctrl'[q] = ctrl[q]
  BY <1>1 DEF Controller, Stages
<1>3. (Owned(ctrl[p]) \/ Borrowed(ctrl[p]))'
  BY <1>1, <1>2 DEF Owned, Borrowed
<1>4. Knows(ctrl[p])'
  BY <1>2, <1>3 DEF Knows
<1>5. QED
  BY <1>1, <1>2, <1>4, HolderStays

\* ... the borrowed channel given back or kept for another try, ...
LEMMA RestoredKeeps ==
  ASSUME FanIInv, NEW p \in Procs, Restored(p)
  PROVE  FanIInv'
<1> DEFINE c == ctrl[p]
<1>1. /\ lock = p /\ pwm \in Channel /\ found \in Channel
      /\ Borrowed(c) /\ Restoring(c)
      /\ c.pc = "undo" /\ c.todo = <<>>
      /\ found' = found /\ pwm' = pwm
  BY HolderHolds DEF Restored, Knows, Owned
<1>2. CASE c.failed
  <2>1. ctrl' = [ctrl EXCEPT ![p].pc = "kept"] /\ lock' = lock
    BY <1>2 DEF Restored
  <2>2. QED
    BY <1>1, <2>1, Keeps
<1>3. CASE ~c.failed
  <2> DEFINE w == RestoreWrites(found)
  <2>1. PICK k \in 1 .. 6 :
          /\ c.todo = Left(w, k)
          /\ k >= 4 => pwm.period = found.period
          /\ k >= 5 => pwm.duty = found.duty
          /\ k >= 6 => pwm.enable = found.enable
    BY <1>1, <1>3, Zenon DEF Restoring
  <2>2. w \in Seq(Attributes \X Nat) /\ Len(w) = 5
    BY <1>1, RestoreWritesAre DEF Writes
  <2>3. k = 6
    <3>1. k \in 1 .. Len(w) + 1 /\ Left(w, k) = <<>>
      BY <1>1, <2>1, <2>2
    <3>2. ~(k <= Len(w))
      BY <2>2, <3>1, LeftMoves, Zenon
    <3>3. QED
      BY <2>2, <3>2
  <2>4. /\ pwm.exported = found.exported /\ pwm.enable = found.enable
        /\ pwm.period = found.period /\ pwm.duty = found.duty
    BY <1>1, <2>1, <2>3 DEF Borrowed, Channel
  <2>5. pwm = found
    BY <1>1, <2>4 DEF Channel
  <2>6. Release(p)
    BY <1>3 DEF Restored
  <2>7. QED
    BY <1>1, <2>5, <2>6, Releases DEF Release
<1>4. QED
  BY <1>2, <1>3

\* ... the exported one unexported or kept.
LEMMA UnexportKeeps ==
  ASSUME FanIInv, NEW p \in Procs, Unexport(p)
  PROVE  FanIInv'
<1>1. /\ lock = p /\ pwm \in Channel /\ found \in Channel
      /\ ctrl[p].pc = "undo" /\ found' = found
  BY HolderHolds DEF Unexport
<1>2. CASE pwm' = [pwm EXCEPT !.exported = FALSE] /\ Release(p)
  <2>1. pwm' \in Channel /\ ~pwm'.exported
    BY <1>1, <1>2 DEF Channel
  <2>2. QED
    BY <1>1, <1>2, <2>1, Releases DEF Release
<1>3. CASE /\ ctrl' = [ctrl EXCEPT ![p].pc = "kept"]
           /\ pwm' = pwm /\ lock' = lock
  BY <1>1, <1>3, Keeps
<1>4. QED
  BY <1>2, <1>3 DEF Unexport

\* A process that dies leaves the channel as it is.
LEMMA CrashKeeps ==
  ASSUME FanIInv, NEW p \in Procs, Crash(p)
  PROVE  FanIInv'
<1>1. /\ lock = p /\ pwm \in Channel /\ pwm' = pwm /\ found' = pwm
      /\ lock' = Nobody /\ Reset(p)
  BY HolderHolds DEF Crash
<1>2. QED
  BY <1>1, Releases

\* Every step of every process keeps the invariant.
LEMMA FanStep ==
  ASSUME FanIInv, [FanNext]_fanVars
  PROVE  FanIInv'
<1>1. ASSUME NEW p \in Procs, NEW auto \in BOOLEAN, AcquireLock(p, auto)
      PROVE  FanIInv'
  BY <1>1, AcquireKeeps
<1>2. ASSUME NEW p \in Procs, NEW t \in Temps, Update(p, t)
      PROVE  FanIInv'
  BY <1>2, UpdateKeeps
<1>3. ASSUME NEW p \in Procs,
             \/ ChannelMissing(p) \/ FoundExported(p) \/ Export(p)
             \/ CaptureExternal(p) \/ SetupWrite(p) \/ FullSpeed(p)
             \/ Destroy(p) \/ UndoWrite(p) \/ Restored(p) \/ Unexport(p)
             \/ Crash(p)
      PROVE  FanIInv'
  BY <1>3, ChannelMissingKeeps, FoundExportedKeeps, ExportKeeps,
     CaptureKeeps, SetupKeeps, FullSpeedKeeps, DestroyKeeps, UndoKeeps,
     RestoredKeeps, UnexportKeeps, CrashKeeps
<1>4. CASE UNCHANGED fanVars
  BY <1>4 DEF fanVars, FanIInv, FanTypes, FanGivenBack, Knows, Owned,
     Borrowed, Setting, Driving, Restoring, RestoreWrites
<1>5. QED
  BY <1>1, <1>2, <1>3, <1>4 DEF FanNext

\* fan_ctrl.c: for any number of processes, any state the channel may boot in
\* and any failing writes and crashes, one process drives the channel and
\* knows how far its set-up or its way back has got.
THEOREM FanInvariance == FanSpec => []FanIInv
<1>1. FanInit => FanIInv
  <2>1. SUFFICES ASSUME FanInit PROVE FanIInv
    OBVIOUS
  <2>2. /\ pwm \in Channel /\ found = pwm /\ lock = Nobody
        /\ ctrl = [p \in Procs |-> Off]
    BY <2>1, FanAssumption DEF FanInit, Channel
  <2>3. FanTypes
    BY <2>2, OffIsController DEF FanTypes
  <2>4. \A p \in Procs : ctrl[p].pc = "off" /\ lock # p
    BY <2>2, OffIsController, FanAssumption
  <2>5. \A p \in Procs : Knows(ctrl[p])
    BY <2>4 DEF Knows
  <2>6. QED
    BY <2>2, <2>3, <2>4, <2>5 DEF FanIInv, FanGivenBack
<1>2. FanIInv /\ [FanNext]_fanVars => FanIInv'
  BY FanStep
<1>3. QED
  BY <1>1, <1>2, PTL DEF FanSpec

\* What the invariant says of the fan that runs.
LEMMA FanIsDriven ==
  ASSUME FanIInv
  PROVE  FanSafe
<1>1. ASSUME NEW p \in Procs, ctrl[p].pc = "on"
      PROVE  lock = p /\ Driving(ctrl[p])
  BY <1>1, HolderHolds DEF Knows
<1>2. FanDriven
  BY <1>1 DEF FanDriven, Driving, Fitting
<1>3. QED
  BY <1>2 DEF FanSafe, FanIInv

-----------------------------------------------------------------------------
(* The event loop's variables. *)
Registrations == [fd : Fds, active : BOOLEAN, user : Contexts]

LoopTypes ==
    /\ DOMAIN item \subseteq LoopItems
    /\ item \in [DOMAIN item -> Registrations]
    /\ watched \subseteq LoopItems
    /\ batch \in Seq(LoopItems \cup {Wake})
    /\ copy \subseteq Copies
    /\ copy # {} => runner = "copied"

(* An item fetched is still allocated, for the descriptor whose event it was
   fetched with. *)
Own(i) ==
    i \in DOMAIN item /\ i \in DOMAIN fetched /\ fetched[i] = item[i].fd

BatchOwn == \A k \in 1 .. Len(batch) : batch[k] # Wake => Own(batch[k])

(* So is a copy's item, and the copy is that of the registration in force
   unless a removal or a change came in between. *)
CopyOwn ==
    \A c \in copy :
      Own(c.item) /\ item[c.item].fd = c.fd /\ (InForce(c) \/ overtaken)

(* Two registrations in force are of two descriptors. *)
OneItemEach ==
    \A i, j \in DOMAIN item :
      item[i].active /\ item[j].active /\ item[i].fd = item[j].fd => i = j

(* The kernel knows the registrations in force. *)
WatchedActive == watched = {i \in DOMAIN item : item[i].active}

LoopIInv ==
    LoopTypes /\ BatchOwn /\ CopyOwn /\ OneItemEach /\ WatchedActive

\* What add leaves: one more item, in force, where there was none for its
\* descriptor.
LEMMA AddKeeps ==
  ASSUME LoopIInv, NEW fd \in Fds, NEW user \in Contexts, Add(fd, user)
  PROVE  LoopIInv'
<1> DEFINE new == [fd |-> fd, active |-> TRUE, user |-> user]
<1>1. PICK i \in LoopItems \ DOMAIN item :
        /\ item' = [j \in DOMAIN item \cup {i} |->
                      IF j = i THEN new ELSE item[j]]
        /\ watched' = watched \cup {i}
  BY DEF Add
<1>2. /\ DOMAIN item' = DOMAIN item \cup {i}
      /\ item'[i] = new
      /\ \A j \in DOMAIN item : item'[j] = item[j] /\ j # i
  BY <1>1
<1>3. /\ \A j \in DOMAIN item : item[j] \in Registrations
      /\ \A j \in DOMAIN item : ~(item[j].active /\ item[j].fd = fd)
      /\ UNCHANGED <<batch, copy, fetched, overtaken, runner>>
  BY DEF Add, Active, LoopIInv, LoopTypes, dispatching
<1>4. LoopTypes'
  <2>1. new \in Registrations
    BY DEF Registrations
  <2>2. item' \in [DOMAIN item' -> Registrations]
    BY <1>1, <1>2, <1>3, <2>1
  <2>3. QED
    BY <1>1, <1>2, <1>3, <2>2 DEF LoopIInv, LoopTypes
<1>5. BatchOwn'
  BY <1>2, <1>3 DEF LoopIInv, BatchOwn, Own
<1>6. CopyOwn'
  BY <1>2, <1>3 DEF LoopIInv, CopyOwn, Own, InForce
<1>7. item'[i].active /\ item'[i].fd = fd
  BY <1>2
<1>8. OneItemEach'
  BY <1>2, <1>3, <1>7 DEF LoopIInv, OneItemEach
<1>9. WatchedActive'
  BY <1>1, <1>2, <1>7 DEF LoopIInv, WatchedActive
<1>10. QED
  BY <1>4, <1>5, <1>6, <1>8, <1>9 DEF LoopIInv

\* What del and mod have in common: one registration in force is written, its
\* descriptor stays, and a copy of it in hand is overtaken.
LEMMA WriteKeeps ==
  ASSUME LoopIInv, NEW fd \in Fds, NEW i \in Active(fd),
         NEW reg \in Registrations, reg.fd = item[i].fd,
         item' = [item EXCEPT ![i] = reg],
         overtaken' = (overtaken \/ InHand(i)),
         UNCHANGED <<runner, dispatching>>
  PROVE  /\ item' \in [DOMAIN item' -> Registrations]
         /\ DOMAIN item' = DOMAIN item /\ i \in DOMAIN item
         /\ item[i].active /\ item'[i] = reg
         /\ \A j \in DOMAIN item : j # i => item'[j] = item[j]
         /\ BatchOwn' /\ CopyOwn' /\ OneItemEach'
<1>1. i \in DOMAIN item /\ item[i].active /\ item[i].fd = fd
  BY DEF Active
<1>2. item \in [DOMAIN item -> Registrations]
  BY DEF LoopIInv, LoopTypes
<1>3. /\ DOMAIN item' = DOMAIN item /\ item'[i] = reg
      /\ \A j \in DOMAIN item : j # i => item'[j] = item[j]
      /\ item' \in [DOMAIN item' -> Registrations]
  BY <1>1, <1>2
<1>4. \A j \in DOMAIN item : item'[j].fd = item[j].fd
  BY <1>3
<1>5. UNCHANGED <<batch, copy, fetched>>
  BY DEF dispatching
<1>6. \A j : Own(j) => Own(j)'
  BY <1>3, <1>4, <1>5 DEF Own
<1>7. BatchOwn'
  BY <1>5, <1>6 DEF LoopIInv, BatchOwn
<1>8. ASSUME NEW c \in copy
      PROVE  Own(c.item)' /\ item'[c.item].fd = c.fd
             /\ (InForce(c)' \/ overtaken')
  <2>1. Own(c.item) /\ item[c.item].fd = c.fd /\ (InForce(c) \/ overtaken)
    BY DEF LoopIInv, CopyOwn
  <2>2. c.item \in DOMAIN item
    BY <2>1 DEF Own
  <2>3. CASE c.item = i
    BY <1>4, <1>6, <2>1, <2>2, <2>3 DEF InHand
  <2>4. CASE c.item # i
    BY <1>3, <1>4, <1>6, <2>1, <2>2, <2>4 DEF InForce
  <2>5. QED
    BY <2>3, <2>4
<1>9. CopyOwn'
  BY <1>5, <1>8 DEF CopyOwn
<1>10. ASSUME NEW j \in DOMAIN item, NEW k \in DOMAIN item,
              item'[j].active, item'[k].active, item'[j].fd = item'[k].fd
       PROVE  j = k
  <2>1. item[j].active /\ item[k].active
    BY <1>1, <1>3, <1>10
  <2>2. QED
    BY <1>4, <1>10, <2>1 DEF LoopIInv, OneItemEach
<1>11. OneItemEach'
  BY <1>3, <1>10 DEF OneItemEach
<1>12. QED
  BY <1>1, <1>3, <1>7, <1>9, <1>11

\* What del leaves: one item less in force, and none less allocated.
LEMMA DelKeeps ==
  ASSUME LoopIInv, NEW fd \in Fds, Del(fd)
  PROVE  LoopIInv'
<1>1. PICK i \in Active(fd) :
        /\ item' = [item EXCEPT ![i].active = FALSE]
        /\ watched' = watched \ {i}
        /\ overtaken' = (overtaken \/ InHand(i))
  BY DEF Del
<1>2. item[i] \in Registrations /\ i \in DOMAIN item
  BY DEF Active, LoopIInv, LoopTypes
<1> DEFINE reg == [item[i] EXCEPT !.active = FALSE]
<1>3. reg \in Registrations /\ reg.fd = item[i].fd /\ reg.active = FALSE
  BY <1>2 DEF Registrations
<1>4. item' = [item EXCEPT ![i] = reg]
  BY <1>1
<1>5. UNCHANGED <<runner, dispatching>>
  BY DEF Del
<1> HIDE DEF reg
<1>6. /\ item' \in [DOMAIN item' -> Registrations]
      /\ DOMAIN item' = DOMAIN item /\ item'[i] = reg
      /\ \A j \in DOMAIN item : j # i => item'[j] = item[j]
      /\ BatchOwn' /\ CopyOwn' /\ OneItemEach'
  BY <1>1, <1>3, <1>4, <1>5, WriteKeeps
<1>7. LoopTypes'
  BY <1>1, <1>5, <1>6 DEF LoopIInv, LoopTypes, dispatching
<1>8. WatchedActive'
  BY <1>1, <1>2, <1>3, <1>6 DEF LoopIInv, WatchedActive
<1>9. QED
  BY <1>6, <1>7, <1>8 DEF LoopIInv

\* What mod leaves: the same registrations in force, one with other data.
LEMMA ModKeeps ==
  ASSUME LoopIInv, NEW fd \in Fds, NEW user \in Contexts, Mod(fd, user)
  PROVE  LoopIInv'
<1>1. PICK i \in Active(fd) :
        /\ item' = [item EXCEPT ![i].user = user]
        /\ overtaken' = (overtaken \/ InHand(i))
  BY DEF Mod
<1>2. item[i] \in Registrations /\ i \in DOMAIN item /\ item[i].active
  BY DEF Active, LoopIInv, LoopTypes
<1> DEFINE reg == [item[i] EXCEPT !.user = user]
<1>3. reg \in Registrations /\ reg.fd = item[i].fd /\ reg.active
  BY <1>2 DEF Registrations
<1>4. item' = [item EXCEPT ![i] = reg]
  BY <1>1
<1>5. UNCHANGED <<runner, dispatching, watched>>
  BY DEF Mod
<1> HIDE DEF reg
<1>6. /\ item' \in [DOMAIN item' -> Registrations]
      /\ DOMAIN item' = DOMAIN item /\ item'[i] = reg
      /\ \A j \in DOMAIN item : j # i => item'[j] = item[j]
      /\ BatchOwn' /\ CopyOwn' /\ OneItemEach'
  BY <1>1, <1>3, <1>4, <1>5, WriteKeeps
<1>7. LoopTypes'
  BY <1>5, <1>6 DEF LoopIInv, LoopTypes, dispatching
<1>8. WatchedActive'
  BY <1>2, <1>3, <1>5, <1>6 DEF LoopIInv, WatchedActive
<1>9. QED
  BY <1>6, <1>7, <1>8 DEF LoopIInv

\* epoll_wait hands out what the kernel watches.
LEMMA WaitKeeps ==
  ASSUME LoopIInv, Wait
  PROVE  LoopIInv'
<1>1. PICK S \in SUBSET (watched \cup IF wake THEN {Wake} ELSE {}) :
        /\ batch' \in Orders(S)
        /\ fetched' = [i \in S \ {Wake} |-> item[i].fd]
  BY DEF Wait
<1>2. UNCHANGED <<item, watched, copy, overtaken>> /\ copy = {}
  BY DEF Wait, registry, LoopIInv, LoopTypes
<1>3. /\ S \subseteq DOMAIN item \cup {Wake}
      /\ DOMAIN item \subseteq LoopItems
  BY <1>1 DEF LoopIInv, LoopTypes, WatchedActive
<1>4. IsFiniteSet(S) /\ Cardinality(S) \in Nat
  <2>1. IsFiniteSet(LoopItems \cup {Wake})
    BY LoopAssumption, FS_AddElement
  <2>2. QED
    BY <1>3, <2>1, FS_Subset, FS_CardinalityType
<1>5. batch' \in Seq(S) /\ \A k \in 1 .. Len(batch') : batch'[k] \in S
  <2>1. batch' \in [1 .. Cardinality(S) -> S]
    BY <1>1 DEF Orders
  <2>2. batch' \in Seq(S)
    BY <1>4, <2>1, SeqDef
  <2>3. QED
    BY <2>2, ElementOfSeq
<1>6. batch' \in Seq(LoopItems \cup {Wake})
  <2>1. S \subseteq LoopItems \cup {Wake}
    BY <1>3
  <2>2. QED
    BY <1>5, <2>1
<1>7. BatchOwn'
  <2>1. ASSUME NEW k \in 1 .. Len(batch'), batch'[k] # Wake
        PROVE  Own(batch[k])'
    <3>1. batch'[k] \in S \ {Wake} /\ batch'[k] \in DOMAIN item
      BY <1>3, <1>5, <2>1
    <3>2. QED
      BY <1>1, <1>2, <3>1 DEF Own
  <2>2. QED
    BY <2>1 DEF BatchOwn, Own
<1>8. CopyOwn'
  BY <1>2 DEF CopyOwn
<1>9. QED
  BY <1>2, <1>6, <1>7, <1>8
     DEF LoopIInv, LoopTypes, OneItemEach, WatchedActive

\* Looking at the next event: a removed item is passed over.
LEMMA DispatchKeeps ==
  ASSUME LoopIInv, Dispatch
  PROVE  LoopIInv'
<1>1. /\ batch # <<>> /\ batch' = Tail(batch) /\ copy = {}
      /\ UNCHANGED <<item, watched, fetched, overtaken>>
      /\ batch \in Seq(LoopItems \cup {Wake})
  BY DEF Dispatch, LoopIInv, LoopTypes, registry
<1>2. /\ batch' \in Seq(LoopItems \cup {Wake}) /\ Len(batch) \in Nat
      /\ Len(batch) >= 1 /\ Head(batch) = batch[1]
      /\ Len(batch') = Len(batch) - 1
      /\ \A k \in 1 .. Len(batch') : batch'[k] = batch[k + 1]
  BY <1>1
<1>3. BatchOwn'
  <2>1. \A j : Own(j)' = Own(j)
    BY <1>1 DEF Own
  <2>2. QED
    BY <1>2, <2>1 DEF LoopIInv, BatchOwn
<1>4. CASE Head(batch) = Wake
  <2>1. copy' = {}
    BY <1>1, <1>4 DEF Dispatch
  <2>2. QED
    BY <1>1, <1>2, <1>3, <2>1
       DEF LoopIInv, LoopTypes, CopyOwn, OneItemEach, WatchedActive
<1>5. CASE Head(batch) # Wake
  <2>1. PICK i : i = Head(batch)
    OBVIOUS
  <2>2. Own(i) /\ i \in DOMAIN item /\ i \in LoopItems
    BY <1>2, <1>5, <2>1 DEF LoopIInv, LoopTypes, BatchOwn, Own
  <2>3. item[i] \in Registrations
    BY <2>2 DEF LoopIInv, LoopTypes
  <2>4. /\ copy' = Snapshot(i)
        /\ runner' = IF copy' = {} THEN "dispatch" ELSE "copied"
    BY <1>5, <2>1 DEF Dispatch
  <2>5. ASSUME NEW c \in copy'
        PROVE  /\ c \in Copies
               /\ Own(c.item)' /\ item'[c.item].fd = c.fd /\ InForce(c)'
    <3>1. /\ item[i].active
          /\ c = [item |-> i, fd |-> item[i].fd, user |-> item[i].user]
      BY <2>4 DEF Snapshot
    <3>2. item[i] = [fd |-> item[i].fd, active |-> TRUE,
                     user |-> item[i].user]
      BY <2>3, <3>1 DEF Registrations
    <3>3. c \in Copies
      BY <2>2, <2>3, <3>1 DEF Copies, Registrations
    <3>4. c.item = i /\ c.fd = item[i].fd /\ c.user = item[i].user
      BY <3>1
    <3>5. QED
      BY <1>1, <2>2, <3>2, <3>3, <3>4 DEF Own, InForce
  <2>6. LoopTypes' /\ CopyOwn'
    BY <1>1, <1>2, <2>4, <2>5 DEF LoopIInv, LoopTypes, CopyOwn
  <2>7. QED
    BY <1>1, <1>3, <2>6 DEF LoopIInv, OneItemEach, WatchedActive
<1>6. QED
  BY <1>4, <1>5

\* Every other step leaves items and kernel alone, and fetches and copies
\* nothing.
LEMMA LoopStep ==
  ASSUME LoopIInv, [LoopNext]_loopVars
  PROVE  LoopIInv'
<1>1. ASSUME NEW fd \in Fds, NEW user \in Contexts,
             Del(fd) \/ Add(fd, user) \/ Mod(fd, user)
      PROVE  LoopIInv'
  BY <1>1, AddKeeps, DelKeeps, ModKeeps
<1>2. ASSUME UNCHANGED <<item, watched, batch>>,
             copy' = {} \/ UNCHANGED <<copy, fetched, overtaken, runner>>,
             copy' = {} => batch = <<>> \/ fetched' = fetched
      PROVE  LoopIInv'
  <2>1. LoopTypes' /\ OneItemEach' /\ WatchedActive'
    BY <1>2 DEF LoopIInv, LoopTypes, OneItemEach, WatchedActive
  <2>2. BatchOwn'
    <3>1. CASE batch = <<>>
      BY <1>2, <3>1 DEF BatchOwn
    <3>2. CASE fetched' = fetched
      BY <1>2, <3>2 DEF LoopIInv, BatchOwn, Own
    <3>3. QED
      BY <1>2, <3>1, <3>2
  <2>3. CopyOwn'
    <3>1. CASE copy' = {}
      BY <3>1 DEF CopyOwn
    <3>2. CASE UNCHANGED <<copy, fetched, overtaken, runner>>
      <4>1. UNCHANGED <<item, copy, fetched, overtaken>>
        BY <1>2, <3>2
      <4>2. \A c : Own(c.item)' = Own(c.item) /\ InForce(c)' = InForce(c)
        BY <4>1 DEF Own, InForce
      <4>3. QED
        BY <4>1, <4>2 DEF LoopIInv, CopyOwn
    <3>3. QED
      BY <1>2, <3>1, <3>2
  <2>4. QED
    BY <2>1, <2>2, <2>3 DEF LoopIInv
<1>3. runner # "copied" => copy = {}
  BY DEF LoopIInv, LoopTypes
<1>4. CASE \/ Run \/ Drain \/ Test \/ CallbackStarts \/ CallbackReturns \/ BatchDone
           \/ RunFails
  BY <1>2, <1>3, <1>4 DEF Run, Drain, Test, Leave, RunFails, CallbackStarts,
     CallbackReturns, BatchDone, registry, dispatching
<1>5. CASE Stop \/ StopWrites \/ UNCHANGED loopVars
  BY <1>2, <1>5 DEF Stop, StopWrites, loopVars, registry, dispatching
<1>6. ASSUME NEW fd \in Fds, Del(fd)
      PROVE  LoopIInv'
  BY <1>6, DelKeeps
<1>7. QED
  BY <1>1, <1>4, <1>5, <1>6, WaitKeeps, DispatchKeeps DEF LoopNext, Loop

\* event_loop.c: for any descriptors, any size of a batch and any order of
\* its events, what a batch or a copy points to is still allocated for the
\* descriptor it was fetched with, a copy is that of the registration in force
\* unless a del or mod came after it, and the kernel watches the registrations
\* in force, one for a descriptor.
THEOREM LoopInvariance == LoopSpec => []LoopIInv
<1>1. LoopInit => LoopIInv
  BY DEF LoopInit, LoopIInv, LoopTypes, BatchOwn, CopyOwn, OneItemEach,
     WatchedActive
<1>2. LoopIInv /\ [LoopNext]_loopVars => LoopIInv'
  BY LoopStep
<1>3. QED
  BY <1>1, <1>2, PTL DEF LoopSpec

\* The invariant says what DispatchesLive does.
LEMMA LoopIsExact ==
  ASSUME LoopIInv
  PROVE  /\ \A k \in 1 .. Len(batch) :
              batch[k] # Wake => batch[k] \in DOMAIN item
         /\ \A fd \in Fds : Cardinality(Active(fd)) <= 1
         /\ watched = UNION {Active(fd) : fd \in Fds}
         /\ \A c \in copy : StartsInForce(c)
<1>1. ASSUME NEW fd \in Fds
      PROVE  Cardinality(Active(fd)) <= 1
  <2>1. CASE Active(fd) = {}
    BY <2>1, FS_EmptySet
  <2>2. ASSUME NEW i \in Active(fd)
        PROVE  Cardinality(Active(fd)) <= 1
    <3>1. Active(fd) = {i}
      BY <2>2 DEF Active, LoopIInv, OneItemEach
    <3>2. Cardinality({i}) = 1
      BY FS_Singleton
    <3>3. QED
      BY <3>1, <3>2
  <2>3. QED
    BY <2>1, <2>2
<1>2. \A i \in DOMAIN item : item[i].fd \in Fds
  BY DEF LoopIInv, LoopTypes, Registrations
<1>3. watched = UNION {Active(fd) : fd \in Fds}
  BY <1>2 DEF LoopIInv, WatchedActive, Active
<1>4. \A c \in copy : StartsInForce(c)
  BY DEF LoopIInv, CopyOwn, Own, StartsInForce
<1>5. QED
  BY <1>1, <1>3, <1>4 DEF LoopIInv, BatchOwn, Own

\* event_loop.c: a callback starts for the descriptor whose event was fetched
\* and with the registration in force when its copy was taken; only a del or
\* mod between the copy and the call, which the header warns of, comes too
\* late for it.
THEOREM LoopDispatchesLive == LoopSpec => DispatchesLive
<1> DEFINE P == \A k \in 1 .. Len(batch) :
                  batch[k] # Wake => batch[k] \in DOMAIN item
           Q == \A fd \in Fds : Cardinality(Active(fd)) <= 1
           R == watched = UNION {Active(fd) : fd \in Fds}
           S == \A c \in copy : StartsInForce(c)
<1>1. LoopIInv => P /\ Q /\ R /\ S
  BY LoopIsExact
<1>2. LoopSpec => []P /\ []Q /\ []R /\ []S
  <2> HIDE DEF P, Q, R, S
  <2>1. QED
    BY <1>1, LoopInvariance, PTL
<1>3. QED
  BY <1>2, PTL DEF DispatchesLive

(* The flags of the loop and of the thread that stops it. *)
LoopFlags ==
    /\ loopRunning \in BOOLEAN /\ wake \in BOOLEAN /\ asked \in BOOLEAN
    /\ overtaken \in BOOLEAN
    /\ runner \in {"out", "drain", "test", "wait", "dispatch", "copied",
                   "callback"}
    /\ stopper \in {"idle", "write"}

LEMMA LoopTyped == LoopSpec => []LoopTypeOK
<1>1. LoopInit => LoopFlags
  BY DEF LoopInit, LoopFlags
<1>2. LoopFlags /\ [LoopNext]_loopVars => LoopFlags'
  <2>1. ASSUME LoopFlags, NEW fd \in Fds, NEW user \in Contexts,
               Add(fd, user) \/ Mod(fd, user)
        PROVE  LoopFlags'
    BY <2>1 DEF LoopFlags, Add, Mod, InHand
  <2>2. ASSUME LoopFlags, NEW fd \in Fds, Del(fd)
        PROVE  LoopFlags'
    BY <2>2 DEF LoopFlags, Del, InHand
  <2>3. LoopFlags /\ (Run \/ Stop \/ StopWrites) => LoopFlags'
    BY DEF LoopFlags, Run, Stop, StopWrites, registry
  <2>4. LoopFlags /\ (Drain \/ Test \/ RunFails \/ Wait) => LoopFlags'
    BY DEF LoopFlags, Drain, Test, RunFails, Leave, Wait, registry
  <2>5. LoopFlags /\ (Dispatch \/ CallbackStarts) => LoopFlags'
    BY DEF LoopFlags, Dispatch, CallbackStarts, registry
  <2>6. LoopFlags /\ (CallbackReturns \/ BatchDone) => LoopFlags'
    BY DEF LoopFlags, CallbackReturns, BatchDone, registry
  <2>7. LoopFlags /\ UNCHANGED loopVars => LoopFlags'
    BY DEF LoopFlags, loopVars, registry
  <2>8. QED
    BY <2>1, <2>2, <2>3, <2>4, <2>5, <2>6, <2>7 DEF LoopNext, Loop
<1>3. LoopIInv /\ LoopFlags => LoopTypeOK
  BY DEF LoopIInv, LoopTypes, Registrations, LoopFlags, LoopTypeOK
<1>4. QED
  BY <1>1, <1>2, <1>3, LoopInvariance, PTL DEF LoopSpec

-----------------------------------------------------------------------------
(* The light sensor.                                                       *)

(* Between its two transfers a reader has the mutex, and the high byte that
   the chip presents is that of the low byte it has. *)
ReadsPaired ==
    \A r \in Readers :
      /\ rd[r].pc \in {"low", "high"} =>
           mutex = r /\ rd[r].ch \in LightChannels
      /\ rd[r].pc = "high" => rd[r].low = latched[rd[r].ch]

PairIInv == PairTypeOK /\ ReadsPaired /\ OneSample

\* Every transfer, conversion, fault and sleep keeps it.
LEMMA PairStep ==
  ASSUME PairIInv, [PairNext]_pairVars
  PROVE  PairIInv'
<1> DEFINE Bytes == 0 .. LightSamples - 1
           Reads == [pc : {"idle", "low", "high", "done"},
                     ch : LightChannels \cup {NoReader},
                     low : Bytes, high : Bytes]
<1>1. /\ 0 \in Bytes
      /\ \A s \in Bytes : (s + 1) % LightSamples \in Bytes
  BY PairAssumption
<1>2. NoRead \in Reads
  BY <1>1 DEF NoRead
<1>3. ASSUME NEW c \in LightChannels, Convert(c)
      PROVE  PairIInv'
  <2>1. sample' \in [LightChannels -> Bytes]
    <3> HIDE DEF Bytes
    <3>1. sample \in [LightChannels -> Bytes] /\ sample[c] \in Bytes
      BY DEF PairIInv, PairTypeOK, Bytes
    <3>2. QED
      BY <1>1, <1>3, <3>1 DEF Convert
  <2>2. UNCHANGED <<latched, active, mutex, rd, lightAsleep>>
    BY <1>3 DEF Convert
  <2>3. QED
    BY <2>1, <2>2 DEF PairIInv, PairTypeOK, ReadsPaired, OneSample
<1>4. ASSUME NEW r \in Readers, NEW c \in LightChannels, ReadRaw(r, c)
      PROVE  PairIInv'
  <2>1. /\ rd' = [rd EXCEPT ![r] = [NoRead EXCEPT !.pc = "low", !.ch = c]]
        /\ mutex' = r /\ mutex = NoReader
        /\ UNCHANGED <<sample, latched, active, lightAsleep>>
    BY <1>4 DEF ReadRaw, MayRead
  <2>2. [NoRead EXCEPT !.pc = "low", !.ch = c] \in Reads
    BY <1>1 DEF NoRead
  <2>3. \A q \in Readers : rd[q].pc \notin {"low", "high"}
    BY <2>1, PairAssumption DEF PairIInv, ReadsPaired
  <2>4. [NoRead EXCEPT !.pc = "low", !.ch = c].pc = "low"
        /\ [NoRead EXCEPT !.pc = "low", !.ch = c].ch = c
    BY DEF NoRead
  <2>5. QED
    BY <2>1, <2>2, <2>3, <2>4 DEF PairIInv, PairTypeOK, ReadsPaired, OneSample
<1>5. ASSUME NEW r \in Readers, ReadLow(r)
      PROVE  PairIInv'
  <2>1. rd[r].pc = "low" /\ rd[r].ch \in LightChannels /\ mutex = r
    BY <1>5 DEF ReadLow, PairIInv, ReadsPaired
  <2>2. PICK c \in LightChannels : c = rd[r].ch
    BY <2>1
  <2>3. /\ rd' = [rd EXCEPT ![r].pc = "high", ![r].low = sample[c]]
        /\ latched' = [latched EXCEPT ![c] = sample[c]]
        /\ UNCHANGED <<sample, active, mutex, lightAsleep>>
    BY <1>5, <2>2 DEF ReadLow
  <2>4. sample[c] \in Bytes
    BY DEF PairIInv, PairTypeOK
  <2>5. PairTypeOK'
    BY <2>3, <2>4 DEF PairIInv, PairTypeOK
  <2>6. /\ rd'[r].pc = "high" /\ rd'[r].ch = c /\ rd'[r].low = sample[c]
        /\ \A q \in Readers \ {r} : rd'[q] = rd[q]
    BY <2>2, <2>3 DEF PairIInv, PairTypeOK
  <2>7. latched'[c] = sample[c]
    BY <2>3 DEF PairIInv, PairTypeOK
  <2>8. \A q \in Readers \ {r} : rd[q].pc \notin {"low", "high"}
    BY <2>1 DEF PairIInv, ReadsPaired
  <2>9. QED
    BY <2>1, <2>3, <2>5, <2>6, <2>7, <2>8
    DEF PairIInv, ReadsPaired, OneSample
<1>6. ASSUME NEW r \in Readers, ReadHigh(r)
      PROVE  PairIInv'
  <2>1. /\ rd[r].pc = "high" /\ rd[r].ch \in LightChannels /\ mutex = r
        /\ rd[r].low = latched[rd[r].ch]
    BY <1>6 DEF ReadHigh, PairIInv, ReadsPaired
  <2>2. latched[rd[r].ch] \in Bytes
    BY <2>1 DEF PairIInv, PairTypeOK
  <2>3. /\ rd' = [rd EXCEPT ![r].pc = "done", ![r].high = latched[rd[r].ch]]
        /\ mutex' = NoReader
        /\ UNCHANGED <<sample, latched, active, lightAsleep>>
    BY <1>6 DEF ReadHigh
  <2>4. PairTypeOK'
    BY <2>2, <2>3 DEF PairIInv, PairTypeOK
  <2>5. /\ rd'[r].pc = "done" /\ rd'[r].low = rd'[r].high
        /\ \A q \in Readers \ {r} : rd'[q] = rd[q]
    BY <2>1, <2>3 DEF PairIInv, PairTypeOK
  <2>6. \A q \in Readers \ {r} : rd[q].pc \notin {"low", "high"}
    BY <2>1 DEF PairIInv, ReadsPaired
  <2>7. QED
    BY <2>3, <2>4, <2>5, <2>6 DEF PairIInv, ReadsPaired, OneSample
<1>7. ASSUME NEW r \in Readers, TransferFails(r)
      PROVE  PairIInv'
  <2>1. /\ rd[r].pc \in {"low", "high"} /\ mutex' = NoReader
        /\ rd' = [rd EXCEPT ![r] = NoRead]
        /\ UNCHANGED <<sample, latched, active, lightAsleep>>
    BY <1>7 DEF TransferFails
  <2>2. \A q \in Readers \ {r} : rd[q].pc \notin {"low", "high"}
    BY <2>1 DEF PairIInv, ReadsPaired
  <2>3. NoRead.pc = "idle"
    BY DEF NoRead
  <2>4. QED
    BY <1>2, <2>1, <2>2, <2>3 DEF PairIInv, PairTypeOK, ReadsPaired, OneSample
<1>8. ASSUME NEW r \in Readers, Return(r)
      PROVE  PairIInv'
  <2>1. /\ rd[r].pc = "done" /\ rd' = [rd EXCEPT ![r] = NoRead]
        /\ UNCHANGED <<sample, latched, active, mutex, lightAsleep>>
    BY <1>8 DEF Return
  <2>2. NoRead.pc = "idle"
    BY DEF NoRead
  <2>3. QED
    BY <1>2, <2>1, <2>2 DEF PairIInv, PairTypeOK, ReadsPaired, OneSample
<1>9. CASE LightSuspend \/ LightResume
  <2>1. UNCHANGED <<sample, latched, mutex, rd>>
    BY <1>9 DEF LightSuspend, LightResume
  <2>2. active' = active \/ active' = TRUE \/ active' = FALSE
    BY <1>9 DEF LightSuspend, LightResume
  <2>3. lightAsleep' = lightAsleep \/ lightAsleep' = TRUE \/ lightAsleep' = FALSE
    BY <1>9 DEF LightSuspend, LightResume
  <2>4. active' \in BOOLEAN /\ lightAsleep' \in BOOLEAN
    <3>1. active \in BOOLEAN /\ lightAsleep \in BOOLEAN
      BY DEF PairIInv, PairTypeOK
    <3>2. active' \in BOOLEAN
      BY <2>2, <3>1
    <3>3. lightAsleep' \in BOOLEAN
      BY <2>3, <3>1
    <3>4. QED
      BY <3>2, <3>3
  <2>5. QED
    BY <2>1, <2>4 DEF PairIInv, PairTypeOK, ReadsPaired, OneSample
<1>10. CASE UNCHANGED pairVars
  BY <1>10 DEF pairVars, PairIInv, PairTypeOK, ReadsPaired, OneSample
<1>11. QED
  BY <1>3, <1>4, <1>5, <1>6, <1>7, <1>8, <1>9, <1>10 DEF PairNext

\* iio_ap3216c.c: for any number of reading processes and of channels, whatever
\* the chip converts between two transfers and whichever of them fails.
THEOREM PairInvariance == PairSpec => []PairIInv
<1>1. ASSUME PairInit PROVE PairIInv
  <2>1. active \in BOOLEAN /\ lightAsleep \in BOOLEAN
    BY <1>1 DEF PairInit
  <2>2. /\ 0 \in 0 .. LightSamples - 1 /\ mutex = NoReader
        /\ latched = sample /\ sample = [c \in LightChannels |-> 0]
        /\ rd = [r \in Readers |-> NoRead]
    BY <1>1, PairAssumption DEF PairInit
  <2>3. PairTypeOK
    BY <2>1, <2>2 DEF PairTypeOK, NoRead
  <2>4. QED
    BY <2>2, <2>3 DEF PairIInv, ReadsPaired, OneSample, NoRead
<1>2. PairIInv /\ [PairNext]_pairVars => PairIInv'
  BY PairStep
<1>3. QED
  BY <1>1, <1>2, PTL DEF PairSpec

-----------------------------------------------------------------------------
(* The motion sensor.                                                      *)

(* The chip and the driver: no buffer before the probe; and unless a disable
   or a suspend has failed, the chip interrupts exactly while the buffer is
   on and the system awake. *)
HardwareKnown ==
    /\ kernel.bufOn \/ kernel.asleep => kernel.probed
    /\ ~upset =>
         /\ kernel.drdyEnabled = kernel.bufOn
         /\ kernel.probed /\ ~kernel.asleep =>
              chip.power /\ chip.drdy = kernel.bufOn

(* What a process believes of the buffer (sh) in a phase, when the buffer is
   on, something has failed (up) and a killed process left it on (left): never
   less than what is true, and the truth unless something failed. *)
Belief(ph, sh, on, up, left) ==
    /\ ph = "prepared" => sh = FALSE
    /\ ph \in {"prepared", "ready"} => (on => sh)
    /\ ph \in {"prepared", "ready"} /\ ~up => (sh => on)
    /\ ph = "locked" => (on => left)

(* Where the thread is (th) tells the flags running and started (ru, st), and
   where the calls are (ca) tells what the thread cannot do meanwhile. *)
Fits(ph, sh, ru, st, th, ca) ==
    /\ ph # "ready" => ca = "idle" /\ ru = FALSE /\ st = FALSE
    /\ st = TRUE <=> th # "none"
    /\ ru = TRUE => sh = TRUE /\ (th = "loop" \/ ca = "startThread")
    /\ ca = "startJoin" => st = TRUE
    /\ ca \in {"startEnable", "startThread", "startUndo"} => st = FALSE
    /\ ca = "startThread" => sh = TRUE
    /\ ca \notin {"idle", "startThread"} => ru = FALSE
    /\ ca = "stopJoin" => sh = FALSE

ImuIInv ==
    /\ ImuTypeOK
    /\ HardwareKnown
    /\ \A p \in Users : phase[p] # "out" <=> owner = p
    /\ owner = NoOwner => (kernel.bufOn => leftOn)
    /\ \A p \in Users :
         /\ Belief(phase[p], shadow[p], kernel.bufOn, upset, leftOn)
         /\ Fits(phase[p], shadow[p], running[p], started[p], thread[p],
                 call[p])

\* The types of what the driver changes.
DriverTypes ==
    /\ chip \in [power : BOOLEAN, drdy : BOOLEAN]
    /\ kernel \in [probed : BOOLEAN, asleep : BOOLEAN, drdyEnabled : BOOLEAN,
                   bufOn : BOOLEAN]
    /\ faults \in 0 .. MaxFaults /\ upset \in BOOLEAN

(* A step writes the reader of one process only. *)
ReaderTypes ==
    /\ phase \in [Users -> Phases] /\ shadow \in [Users -> BOOLEAN]
    /\ running \in [Users -> BOOLEAN] /\ started \in [Users -> BOOLEAN]
    /\ thread \in [Users -> Threads] /\ call \in [Users -> Calls]
    /\ closing \in [Users -> BOOLEAN]
    /\ kills \in 0 .. MaxKills /\ sleeps \in 0 .. MaxSleeps
    /\ leftOn \in BOOLEAN

OthersStay(p) ==
    \A q \in Users \ {p} :
      /\ phase'[q] = phase[q] /\ shadow'[q] = shadow[q]
      /\ running'[q] = running[q] /\ started'[q] = started[q]
      /\ thread'[q] = thread[q] /\ call'[q] = call[q]

\* One process at a time has the lock file; the others stay as they are.
LEMMA ReaderMoves ==
  ASSUME ImuIInv, NEW p \in Users, owner \in {p, NoOwner},
         ReaderTypes', DriverTypes', HardwareKnown', OthersStay(p),
         owner' \in {p, NoOwner}, phase'[p] # "out" <=> owner' = p,
         owner' = NoOwner => (kernel'.bufOn => leftOn'),
         Belief(phase'[p], shadow'[p], kernel'.bufOn, upset', leftOn'),
         Fits(phase'[p], shadow'[p], running'[p], started'[p], thread'[p],
              call'[p])
  PROVE  ImuIInv'
<1>1. \A q \in Users \ {p} : phase[q] = "out"
  BY ImuAssumption DEF ImuIInv
<1>2. ImuTypeOK'
  BY DEF ImuTypeOK, DriverTypes, ReaderTypes
<1>3. ASSUME NEW q \in Users \ {p}
      PROVE  /\ Belief(phase'[q], shadow'[q], kernel'.bufOn, upset', leftOn')
             /\ Fits(phase'[q], shadow'[q], running'[q], started'[q],
                     thread'[q], call'[q])
  <2>1. Belief(phase'[q], shadow'[q], kernel'.bufOn, upset', leftOn')
    BY <1>1 DEF Belief, OthersStay
  <2>2. Fits(phase[q], shadow[q], running[q], started[q], thread[q], call[q])
    BY DEF ImuIInv
  <2>3. QED
    BY <2>1, <2>2 DEF OthersStay
<1>4. \A q \in Users : phase'[q] # "out" <=> owner' = q
  BY <1>1, ImuAssumption DEF OthersStay
<1>5. QED
  BY <1>2, <1>3, <1>4 DEF ImuIInv

\* Switching the buffer off, which leaves it off or has failed.
LEMMA TurnsOff ==
  ASSUME DriverTypes, HardwareKnown, KernelOff, UNCHANGED <<faults, upset>>
  PROVE  DriverTypes' /\ HardwareKnown' /\ ~kernel'.bufOn
BY DEF DriverTypes, HardwareKnown, KernelOff

LEMMA OffFails ==
  ASSUME DriverTypes, HardwareKnown, KernelOffFails
  PROVE  /\ DriverTypes' /\ HardwareKnown' /\ upset'
         /\ kernel'.bufOn => kernel.bufOn
<1>1. PICK b \in {kernel.bufOn, FALSE} : kernel' = [kernel EXCEPT !.bufOn = b]
  BY DEF KernelOffFails
<1>2. chip' = chip /\ upset' = TRUE /\ faults' = faults + 1
      /\ faults < MaxFaults
  BY DEF KernelOffFails, Fault
<1>3. faults' \in 0 .. MaxFaults
  BY <1>2, ImuAssumption DEF DriverTypes
<1>4. QED
  BY <1>1, <1>2, <1>3 DEF DriverTypes, HardwareKnown

\* Switching it on, in a system that is awake.
LEMMA TurnsOn ==
  ASSUME DriverTypes, HardwareKnown, Awake, KernelOn,
         UNCHANGED <<faults, upset>>
  PROVE  DriverTypes' /\ HardwareKnown' /\ kernel'.bufOn
BY DEF DriverTypes, HardwareKnown, KernelOn, Awake

\* What the driver does not see change.
LEMMA DriverStays ==
  ASSUME DriverTypes, HardwareKnown, UNCHANGED <<chip, kernel, upset>>,
         faults' \in 0 .. MaxFaults
  PROVE  DriverTypes' /\ HardwareKnown' /\ kernel'.bufOn = kernel.bufOn
BY DEF DriverTypes, HardwareKnown

LEMMA OneMoreFault ==
  ASSUME faults \in 0 .. MaxFaults, Fault
  PROVE  faults' \in 0 .. MaxFaults
BY ImuAssumption DEF Fault

\* set_iio_buffer_enabled(false) by the process that has the reader, whether
\* it succeeds or not.
LEMMA Disables ==
  ASSUME ImuIInv, NEW p \in Users, phase[p] = "ready",
         Disabled(p) \/ DisableFails(p)
  PROVE  /\ DriverTypes' /\ HardwareKnown'
         /\ \E b \in BOOLEAN : /\ shadow' = [shadow EXCEPT ![p] = b]
                               /\ kernel'.bufOn => b
                               /\ ~upset' => (b => kernel'.bufOn)
                               /\ Disabled(p) => b = FALSE
                               /\ b => shadow[p]
<1>1. /\ DriverTypes /\ HardwareKnown
      /\ shadow \in [Users -> BOOLEAN]
      /\ kernel.bufOn => shadow[p]
  BY DEF ImuIInv, ImuTypeOK, DriverTypes, Belief
<1>2. CASE Disabled(p)
  <2>1. shadow' = [shadow EXCEPT ![p] = FALSE] /\ UNCHANGED <<faults, upset>>
    BY <1>2 DEF Disabled
  <2>2. CASE shadow[p]
    <3>1. KernelOff
      BY <1>2, <2>2 DEF Disabled
    <3>2. DriverTypes' /\ HardwareKnown' /\ ~kernel'.bufOn
      BY <1>1, <2>1, <3>1, TurnsOff
    <3>3. QED
      BY <2>1, <3>2
  <2>3. CASE ~shadow[p]
    <3>1. UNCHANGED <<chip, kernel>>
      BY <1>2, <2>3 DEF Disabled
    <3>2. DriverTypes' /\ HardwareKnown' /\ ~kernel'.bufOn
      BY <1>1, <2>1, <2>3, <3>1 DEF DriverTypes, HardwareKnown
    <3>3. QED
      BY <2>1, <3>2
  <2>4. QED
    BY <2>2, <2>3
<1>3. CASE DisableFails(p) /\ ~Disabled(p)
  <2>1. shadow[p] /\ KernelOffFails /\ shadow' = shadow
    BY <1>3 DEF DisableFails
  <2>2. DriverTypes' /\ HardwareKnown' /\ upset'
    BY <1>1, <2>1, OffFails
  <2>3. shadow' = [shadow EXCEPT ![p] = TRUE]
    BY <1>1, <2>1
  <2>4. QED
    BY <1>3, <2>1, <2>2, <2>3
<1>4. QED
  BY <1>2, <1>3

\* What the invariant says of the parts and of one process.
LEMMA ReaderNow ==
  ASSUME ImuIInv, NEW p \in Users
  PROVE  /\ phase[p] # "out" <=> owner = p
         /\ Belief(phase[p], shadow[p], kernel.bufOn, upset, leftOn)
         /\ Fits(phase[p], shadow[p], running[p], started[p], thread[p],
                 call[p])
BY DEF ImuIInv

LEMMA TypesNow ==
  ASSUME ImuIInv
  PROVE  /\ DriverTypes /\ HardwareKnown /\ ReaderTypes
         /\ owner = NoOwner => (kernel.bufOn => leftOn)
BY DEF ImuIInv, ImuTypeOK, DriverTypes, ReaderTypes

\* A step of the process that has the reader, in a thread or a call of it.
LEMMA ReadyMoves ==
  ASSUME ImuIInv, NEW p \in Users, phase[p] = "ready",
         UNCHANGED <<owner, phase, leftOn>>,
         ReaderTypes', DriverTypes', HardwareKnown', OthersStay(p),
         kernel'.bufOn => shadow'[p],
         ~upset' => (shadow'[p] => kernel'.bufOn),
         Fits("ready", shadow'[p], running'[p], started'[p], thread'[p],
              call'[p])
  PROVE  ImuIInv'
<1>1. owner = p /\ owner' = p /\ p # NoOwner /\ phase'[p] = "ready"
  BY ReaderNow, ImuAssumption
<1>2. /\ owner \in {p, NoOwner} /\ owner' \in {p, NoOwner}
      /\ phase'[p] # "out" <=> owner' = p
      /\ owner' = NoOwner => (kernel'.bufOn => leftOn')
  BY <1>1
<1>3. shadow'[p] \in BOOLEAN
  BY DEF ReaderTypes
<1>4. /\ Belief(phase'[p], shadow'[p], kernel'.bufOn, upset', leftOn')
      /\ Fits(phase'[p], shadow'[p], running'[p], started'[p], thread'[p],
              call'[p])
  BY <1>1, <1>3 DEF Belief
<1>5. QED
  BY <1>2, <1>4, ReaderMoves

-----------------------------------------------------------------------------
(* Start.                                                                  *)

LEMMA StartKeeps ==
  ASSUME ImuIInv, NEW p \in Users, Start(p)
  PROVE  ImuIInv'
<1>1. /\ phase[p] = "ready" /\ running[p] = FALSE /\ call[p] = "idle"
      /\ UNCHANGED <<chip, kernel, owner, shadow, phase, running, started,
                     thread, faults, closing, kills, sleeps, leftOn, upset>>
  BY TypesNow DEF Start, At, ReaderTypes
<1>2. PICK ca \in {"startJoin", "startEnable"} :
        /\ call' = [call EXCEPT ![p] = ca]
        /\ ca = "startJoin" <=> started[p]
  BY DEF Start
<1>3. ReaderTypes' /\ OthersStay(p) /\ call'[p] = ca
  BY <1>1, <1>2, TypesNow DEF ReaderTypes, OthersStay, Calls
<1>4. DriverTypes' /\ HardwareKnown' /\ kernel'.bufOn = kernel.bufOn
  BY <1>1, TypesNow, DriverStays DEF DriverTypes
<1>5. /\ kernel'.bufOn => shadow'[p]
      /\ ~upset' => (shadow'[p] => kernel'.bufOn)
      /\ Fits("ready", shadow'[p], running'[p], started'[p], thread'[p],
              call'[p])
  BY <1>1, <1>2, <1>3, <1>4, ReaderNow, TypesNow
  DEF Belief, Fits, ReaderTypes
<1>6. QED
  BY <1>1, <1>3, <1>4, <1>5, ReadyMoves

LEMMA StartJoinKeeps ==
  ASSUME ImuIInv, NEW p \in Users, StartJoin(p)
  PROVE  ImuIInv'
<1>1. /\ call[p] = "startJoin" /\ thread[p] = "done"
      /\ started' = [started EXCEPT ![p] = FALSE]
      /\ thread' = [thread EXCEPT ![p] = "none"]
      /\ UNCHANGED <<owner, phase, running, closing, kills, sleeps, leftOn>>
      /\ \/ Disabled(p) /\ call' = [call EXCEPT ![p] = "startEnable"]
         \/ DisableFails(p) /\ call' = [call EXCEPT ![p] = "idle"]
  BY DEF StartJoin, At
<1>2. phase[p] = "ready" /\ running[p] = FALSE
  BY <1>1, ReaderNow, TypesNow DEF Fits, ReaderTypes
<1>3. PICK ca \in {"idle", "startEnable"} : call' = [call EXCEPT ![p] = ca]
  BY <1>1
<1>4. DriverTypes' /\ HardwareKnown'
  BY <1>1, <1>2, Disables
<1>5. PICK b \in BOOLEAN : /\ shadow' = [shadow EXCEPT ![p] = b]
                           /\ kernel'.bufOn => b
                           /\ ~upset' => (b => kernel'.bufOn)
  BY <1>1, <1>2, Disables
<1>6. /\ ReaderTypes' /\ OthersStay(p)
      /\ shadow'[p] = b /\ running'[p] = FALSE /\ started'[p] = FALSE
      /\ thread'[p] = "none" /\ call'[p] = ca
  BY <1>1, <1>2, <1>3, <1>5, TypesNow
  DEF ReaderTypes, OthersStay, Calls, Threads
<1>7. Fits("ready", b, FALSE, FALSE, "none", ca)
  BY DEF Fits
<1>8. QED
  BY <1>1, <1>2, <1>4, <1>5, <1>6, <1>7, ReadyMoves

\* set_iio_buffer_enabled(true).
LEMMA Enables ==
  ASSUME ImuIInv, NEW p \in Users, phase[p] = "ready", Awake, Enabled(p)
  PROVE  /\ DriverTypes' /\ HardwareKnown'
         /\ shadow' = [shadow EXCEPT ![p] = TRUE]
         /\ ~upset' => kernel'.bufOn
<1>1. /\ shadow' = [shadow EXCEPT ![p] = TRUE] /\ UNCHANGED <<faults, upset>>
      /\ DriverTypes /\ HardwareKnown
      /\ ~upset => (shadow[p] => kernel.bufOn)
  BY ReaderNow, TypesNow DEF Enabled, Belief
<1>2. CASE shadow[p]
  <2>1. UNCHANGED <<chip, kernel>>
    BY <1>2 DEF Enabled
  <2>2. DriverTypes' /\ HardwareKnown' /\ kernel'.bufOn = kernel.bufOn
    BY <1>1, <2>1, DriverStays DEF DriverTypes
  <2>3. QED
    BY <1>1, <1>2, <2>2
<1>3. CASE ~shadow[p]
  <2>1. KernelOn
    BY <1>3 DEF Enabled
  <2>2. DriverTypes' /\ HardwareKnown' /\ kernel'.bufOn
    BY <1>1, <2>1, TurnsOn
  <2>3. QED
    BY <1>1, <2>2
<1>4. QED
  BY <1>2, <1>3

LEMMA StartEnableKeeps ==
  ASSUME ImuIInv, NEW p \in Users, StartEnable(p)
  PROVE  ImuIInv'
<1>1. /\ Awake /\ call[p] = "startEnable"
      /\ UNCHANGED <<owner, phase, started, thread, closing, kills, sleeps,
                     leftOn>>
  BY DEF StartEnable, At
<1>2. /\ phase[p] = "ready" /\ running[p] = FALSE /\ started[p] = FALSE
      /\ thread[p] = "none"
  BY <1>1, ReaderNow, TypesNow DEF Fits, ReaderTypes
<1>3. CASE /\ Enabled(p)
           /\ running' = [running EXCEPT ![p] = TRUE]
           /\ call' = [call EXCEPT ![p] = "startThread"]
  <2>1. /\ DriverTypes' /\ HardwareKnown'
        /\ shadow' = [shadow EXCEPT ![p] = TRUE]
        /\ ~upset' => kernel'.bufOn
    BY <1>1, <1>2, <1>3, Enables
  <2>2. /\ ReaderTypes' /\ OthersStay(p)
        /\ shadow'[p] = TRUE /\ running'[p] = TRUE /\ started'[p] = FALSE
        /\ thread'[p] = "none" /\ call'[p] = "startThread"
    BY <1>1, <1>2, <1>3, <2>1, TypesNow DEF ReaderTypes, OthersStay, Calls
  <2>3. Fits("ready", TRUE, TRUE, FALSE, "none", "startThread")
    BY DEF Fits
  <2>4. QED
    BY <1>1, <1>2, <2>1, <2>2, <2>3, ReadyMoves
<1>4. CASE /\ EnableFails(p) /\ UNCHANGED running
           /\ call' = [call EXCEPT ![p] = "idle"]
  <2>1. Fault /\ UNCHANGED <<chip, kernel, shadow, upset>>
    BY <1>4 DEF EnableFails
  <2>2. DriverTypes' /\ HardwareKnown' /\ kernel'.bufOn = kernel.bufOn
    BY <2>1, TypesNow, DriverStays, OneMoreFault DEF DriverTypes
  <2>3. /\ ReaderTypes' /\ OthersStay(p)
        /\ shadow'[p] = shadow[p] /\ running'[p] = FALSE
        /\ started'[p] = FALSE /\ thread'[p] = "none" /\ call'[p] = "idle"
    BY <1>1, <1>2, <1>4, <2>1, TypesNow DEF ReaderTypes, OthersStay, Calls
  <2>4. /\ kernel'.bufOn => shadow'[p]
        /\ ~upset' => (shadow'[p] => kernel'.bufOn)
    BY <1>2, <2>1, <2>2, <2>3, ReaderNow DEF Belief
  <2>5. Fits("ready", shadow'[p], FALSE, FALSE, "none", "idle")
    BY DEF Fits
  <2>6. QED
    BY <1>1, <1>2, <2>2, <2>3, <2>4, <2>5, ReadyMoves
<1>5. QED
  BY <1>3, <1>4 DEF StartEnable

LEMMA StartThreadKeeps ==
  ASSUME ImuIInv, NEW p \in Users, StartThread(p)
  PROVE  ImuIInv'
<1>1. /\ call[p] = "startThread"
      /\ UNCHANGED <<chip, kernel, owner, shadow, phase, closing, kills,
                     sleeps, leftOn, upset>>
  BY DEF StartThread, At
<1>2. /\ phase[p] = "ready" /\ shadow[p] = TRUE /\ started[p] = FALSE
      /\ thread[p] = "none"
  BY <1>1, ReaderNow, TypesNow DEF Fits, ReaderTypes
<1>3. faults' \in 0 .. MaxFaults
  BY TypesNow, OneMoreFault DEF StartThread, DriverTypes
<1>4. DriverTypes' /\ HardwareKnown' /\ kernel'.bufOn = kernel.bufOn
  BY <1>1, <1>3, TypesNow, DriverStays
<1>5. /\ kernel'.bufOn => shadow'[p]
      /\ ~upset' => (shadow'[p] => kernel'.bufOn)
  BY <1>1, <1>2, <1>4, ReaderNow DEF Belief
<1>6. CASE /\ started' = [started EXCEPT ![p] = TRUE]
           /\ thread' = [thread EXCEPT ![p] = "loop"]
           /\ call' = [call EXCEPT ![p] = "idle"]
           /\ UNCHANGED <<running, faults>>
  <2>1. /\ ReaderTypes' /\ OthersStay(p)
        /\ shadow'[p] = TRUE /\ started'[p] = TRUE
        /\ thread'[p] = "loop" /\ call'[p] = "idle"
    BY <1>1, <1>2, <1>6, TypesNow
    DEF ReaderTypes, OthersStay, Calls, Threads
  <2>2. Fits("ready", TRUE, running'[p], TRUE, "loop", "idle")
    BY DEF Fits
  <2>3. QED
    BY <1>1, <1>2, <1>4, <1>5, <2>1, <2>2, ReadyMoves
<1>7. CASE /\ running' = [running EXCEPT ![p] = FALSE]
           /\ call' = [call EXCEPT ![p] = "startUndo"]
           /\ UNCHANGED <<started, thread>>
  <2>1. /\ ReaderTypes' /\ OthersStay(p)
        /\ shadow'[p] = TRUE /\ started'[p] = FALSE /\ running'[p] = FALSE
        /\ thread'[p] = "none" /\ call'[p] = "startUndo"
    BY <1>1, <1>2, <1>7, TypesNow DEF ReaderTypes, OthersStay, Calls
  <2>2. Fits("ready", TRUE, FALSE, FALSE, "none", "startUndo")
    BY DEF Fits
  <2>3. QED
    BY <1>1, <1>2, <1>4, <1>5, <2>1, <2>2, ReadyMoves
<1>8. QED
  BY <1>6, <1>7 DEF StartThread

LEMMA StartUndoKeeps ==
  ASSUME ImuIInv, NEW p \in Users, StartUndo(p)
  PROVE  ImuIInv'
<1>1. /\ call[p] = "startUndo" /\ phase[p] = "ready"
      /\ running[p] = FALSE /\ started[p] = FALSE /\ thread[p] = "none"
  BY ReaderNow, TypesNow DEF StartUndo, At, Fits, ReaderTypes
<1>2. Disabled(p) \/ DisableFails(p)
  BY DEF StartUndo
<1>3. DriverTypes' /\ HardwareKnown'
  BY <1>1, <1>2, Disables
<1>4. PICK b \in BOOLEAN : /\ shadow' = [shadow EXCEPT ![p] = b]
                           /\ kernel'.bufOn => b
                           /\ ~upset' => (b => kernel'.bufOn)
  BY <1>1, <1>2, Disables
<1>5. /\ call' = [call EXCEPT ![p] = "idle"]
      /\ UNCHANGED <<owner, phase, running, started, thread, closing, kills,
                     sleeps, leftOn>>
  BY DEF StartUndo
<1>6. /\ ReaderTypes' /\ OthersStay(p)
      /\ shadow'[p] = b /\ running'[p] = FALSE /\ started'[p] = FALSE
      /\ thread'[p] = "none" /\ call'[p] = "idle"
  BY <1>1, <1>4, <1>5, TypesNow DEF ReaderTypes, OthersStay, Calls
<1>7. Fits("ready", b, FALSE, FALSE, "none", "idle")
  BY DEF Fits
<1>8. QED
  BY <1>1, <1>3, <1>4, <1>5, <1>6, <1>7, ReadyMoves

-----------------------------------------------------------------------------
(* The thread.                                                             *)

LEMMA ThreadLeavesKeeps ==
  ASSUME ImuIInv, NEW p \in Users, ThreadLeaves(p)
  PROVE  ImuIInv'
<1>1. /\ thread[p] = "loop"
      /\ running' = [running EXCEPT ![p] = FALSE]
      /\ thread' = [thread EXCEPT ![p] = "disable"]
      /\ UNCHANGED <<chip, kernel, owner, shadow, phase, started, call,
                     closing, kills, sleeps, leftOn, upset>>
  BY DEF ThreadLeaves
<1>2. /\ phase[p] = "ready" /\ started[p] = TRUE /\ call[p] # "startThread"
      /\ shadow[p] \in BOOLEAN
  BY <1>1, ReaderNow, TypesNow DEF Fits, ReaderTypes
<1>3. faults' \in 0 .. MaxFaults
  BY TypesNow, OneMoreFault DEF ThreadLeaves, DriverTypes
<1>4. DriverTypes' /\ HardwareKnown' /\ kernel'.bufOn = kernel.bufOn
  BY <1>1, <1>3, TypesNow, DriverStays
<1>5. /\ ReaderTypes' /\ OthersStay(p)
      /\ shadow'[p] = shadow[p] /\ running'[p] = FALSE /\ started'[p] = TRUE
      /\ thread'[p] = "disable" /\ call'[p] = call[p]
  BY <1>1, <1>2, TypesNow DEF ReaderTypes, OthersStay, Threads
<1>6. /\ kernel'.bufOn => shadow'[p]
      /\ ~upset' => (shadow'[p] => kernel'.bufOn)
  BY <1>1, <1>2, <1>4, <1>5, ReaderNow DEF Belief
<1>7. Fits("ready", shadow[p], FALSE, TRUE, "disable", call[p])
  BY <1>2, ReaderNow DEF Fits
<1>8. QED
  BY <1>1, <1>2, <1>4, <1>5, <1>6, <1>7, ReadyMoves

LEMMA ThreadDisablesKeeps ==
  ASSUME ImuIInv, NEW p \in Users, ThreadDisables(p)
  PROVE  ImuIInv'
<1>1. /\ thread[p] = "disable"
      /\ thread' = [thread EXCEPT ![p] = "done"]
      /\ UNCHANGED <<owner, phase, running, started, call, closing, kills,
                     sleeps, leftOn>>
  BY DEF ThreadDisables
<1>2. /\ phase[p] = "ready" /\ started[p] = TRUE /\ call[p] # "startThread"
      /\ running[p] = FALSE
  BY <1>1, ReaderNow, TypesNow DEF Fits, ReaderTypes
<1>3. Disabled(p) \/ DisableFails(p)
  BY DEF ThreadDisables
<1>4. DriverTypes' /\ HardwareKnown'
  BY <1>2, <1>3, Disables
<1>5. PICK b \in BOOLEAN : /\ shadow' = [shadow EXCEPT ![p] = b]
                           /\ kernel'.bufOn => b
                           /\ ~upset' => (b => kernel'.bufOn)
                           /\ b => shadow[p]
  BY <1>2, <1>3, Disables
<1>6. /\ ReaderTypes' /\ OthersStay(p)
      /\ shadow'[p] = b /\ running'[p] = FALSE /\ started'[p] = TRUE
      /\ thread'[p] = "done" /\ call'[p] = call[p]
  BY <1>1, <1>2, <1>5, TypesNow DEF ReaderTypes, OthersStay, Threads
<1>7. Fits("ready", b, FALSE, TRUE, "done", call[p])
  BY <1>2, <1>5, ReaderNow DEF Fits
<1>8. QED
  BY <1>1, <1>2, <1>4, <1>5, <1>6, <1>7, ReadyMoves

-----------------------------------------------------------------------------
(* Stop and destroy.                                                       *)

LEMMA ReaderStopKeeps ==
  ASSUME ImuIInv, NEW p \in Users, ReaderStop(p)
  PROVE  ImuIInv'
<1>1. /\ phase[p] = "ready" /\ call[p] = "idle"
      /\ running' = [running EXCEPT ![p] = FALSE]
      /\ call' = [call EXCEPT ![p] = "stopDisable"]
      /\ UNCHANGED <<chip, kernel, owner, shadow, phase, started, thread,
                     faults, kills, sleeps, leftOn, upset>>
  BY DEF ReaderStop, At
<1>2. PICK d \in BOOLEAN : closing' = [closing EXCEPT ![p] = d]
  BY DEF ReaderStop
<1>3. DriverTypes' /\ HardwareKnown' /\ kernel'.bufOn = kernel.bufOn
  BY <1>1, TypesNow, DriverStays DEF DriverTypes
<1>4. /\ ReaderTypes' /\ OthersStay(p)
      /\ shadow'[p] = shadow[p] /\ running'[p] = FALSE
      /\ started'[p] = started[p] /\ thread'[p] = thread[p]
      /\ call'[p] = "stopDisable"
  BY <1>1, <1>2, TypesNow DEF ReaderTypes, OthersStay, Calls
<1>5. shadow[p] \in BOOLEAN
  BY TypesNow DEF ReaderTypes
<1>6. /\ kernel'.bufOn => shadow'[p]
      /\ ~upset' => (shadow'[p] => kernel'.bufOn)
  BY <1>1, <1>3, <1>4, <1>5, ReaderNow DEF Belief
<1>7. Fits("ready", shadow[p], FALSE, started[p], thread[p], "stopDisable")
  BY ReaderNow DEF Fits
<1>8. QED
  BY <1>1, <1>3, <1>4, <1>6, <1>7, ReadyMoves

LEMMA StopDisableKeeps ==
  ASSUME ImuIInv, NEW p \in Users, StopDisable(p)
  PROVE  ImuIInv'
<1>1. /\ call[p] = "stopDisable"
      /\ UNCHANGED <<owner, phase, running, started, thread, closing, kills,
                     sleeps, leftOn>>
      /\ \/ Disabled(p) /\ call' = [call EXCEPT ![p] = "stopJoin"]
         \/ DisableFails(p) /\ call' = [call EXCEPT ![p] = "stopJoinBad"]
  BY DEF StopDisable, At
<1>2. phase[p] = "ready" /\ running[p] = FALSE
  BY <1>1, ReaderNow, TypesNow DEF Fits, ReaderTypes
<1>3. DriverTypes' /\ HardwareKnown'
  BY <1>1, <1>2, Disables
<1>4. PICK b \in BOOLEAN : /\ shadow' = [shadow EXCEPT ![p] = b]
                           /\ kernel'.bufOn => b
                           /\ ~upset' => (b => kernel'.bufOn)
                           /\ Disabled(p) => b = FALSE
  BY <1>1, <1>2, Disables
<1>5. PICK ca \in {"stopJoin", "stopJoinBad"} :
        /\ call' = [call EXCEPT ![p] = ca]
        /\ ca = "stopJoin" => b = FALSE
  <2>1. CASE Disabled(p) /\ call' = [call EXCEPT ![p] = "stopJoin"]
    BY <1>4, <2>1
  <2>2. CASE DisableFails(p) /\ call' = [call EXCEPT ![p] = "stopJoinBad"]
    BY <2>2
  <2>3. QED
    BY <1>1, <2>1, <2>2
<1>6. /\ ReaderTypes' /\ OthersStay(p)
      /\ shadow'[p] = b /\ running'[p] = FALSE
      /\ started'[p] = started[p] /\ thread'[p] = thread[p] /\ call'[p] = ca
  BY <1>1, <1>2, <1>4, <1>5, TypesNow DEF ReaderTypes, OthersStay, Calls
<1>7. Fits("ready", b, FALSE, started[p], thread[p], ca)
  BY <1>5, ReaderNow DEF Fits
<1>8. QED
  BY <1>1, <1>2, <1>3, <1>4, <1>6, <1>7, ReadyMoves

LEMMA StopJoinKeeps ==
  ASSUME ImuIInv, NEW p \in Users, StopJoin(p)
  PROVE  ImuIInv'
<1>1. /\ call[p] \in {"stopJoin", "stopJoinBad"}
      /\ started' = [started EXCEPT ![p] = FALSE]
      /\ thread' = [thread EXCEPT ![p] = "none"]
      /\ call' = [call EXCEPT ![p] = "idle"]
      /\ closing' = [closing EXCEPT ![p] = FALSE]
      /\ UNCHANGED <<chip, kernel, running, faults, kills, sleeps, leftOn,
                     upset>>
  BY DEF StopJoin
<1>2. /\ phase[p] = "ready" /\ running[p] = FALSE /\ owner = p
      /\ shadow[p] \in BOOLEAN
      /\ call[p] = "stopJoin" => shadow[p] = FALSE
  BY <1>1, ReaderNow, TypesNow DEF Fits, ReaderTypes
<1>3. DriverTypes' /\ HardwareKnown' /\ kernel'.bufOn = kernel.bufOn
  BY <1>1, TypesNow, DriverStays DEF DriverTypes
<1>4. /\ kernel.bufOn => shadow[p]
      /\ ~upset => (shadow[p] => kernel.bufOn)
  BY <1>2, ReaderNow DEF Belief
<1>5. CASE closing[p] /\ call[p] = "stopJoin"
  <2>1. ReleaseControl(p) /\ shadow' = [shadow EXCEPT ![p] = FALSE]
    BY <1>5 DEF StopJoin
  <2>2. /\ ReaderTypes' /\ OthersStay(p) /\ owner' = NoOwner
        /\ phase'[p] = "out" /\ shadow'[p] = FALSE /\ running'[p] = FALSE
        /\ started'[p] = FALSE /\ thread'[p] = "none" /\ call'[p] = "idle"
    BY <1>1, <1>2, <2>1, TypesNow
    DEF ReleaseControl, ReaderTypes, OthersStay, Calls, Threads, Phases
  <2>3. ~kernel'.bufOn
    BY <1>2, <1>3, <1>4, <1>5
  <2>4. /\ Belief("out", FALSE, kernel'.bufOn, upset', leftOn')
        /\ Fits("out", FALSE, FALSE, FALSE, "none", "idle")
    BY DEF Belief, Fits
  <2>5. owner \in {p, NoOwner} /\ owner' # p
    BY <1>2, <2>2, ImuAssumption
  <2>6. QED
    BY <1>3, <2>2, <2>3, <2>4, <2>5, ReaderMoves
<1>6. CASE ~(closing[p] /\ call[p] = "stopJoin")
  <2>1. UNCHANGED <<owner, phase, shadow>>
    BY <1>6 DEF StopJoin
  <2>2. /\ ReaderTypes' /\ OthersStay(p)
        /\ shadow'[p] = shadow[p] /\ running'[p] = FALSE
        /\ started'[p] = FALSE /\ thread'[p] = "none" /\ call'[p] = "idle"
    BY <1>1, <1>2, <2>1, TypesNow
    DEF ReaderTypes, OthersStay, Calls, Threads
  <2>3. Fits("ready", shadow[p], FALSE, FALSE, "none", "idle")
    BY DEF Fits
  <2>4. /\ UNCHANGED <<owner, phase, leftOn>>
        /\ kernel'.bufOn => shadow'[p]
        /\ ~upset' => (shadow'[p] => kernel'.bufOn)
    BY <1>1, <1>3, <1>4, <2>1, <2>2
  <2>5. QED
    BY <1>2, <1>3, <2>2, <2>3, <2>4, ReadyMoves
<1>7. QED
  BY <1>5, <1>6

-----------------------------------------------------------------------------
(* Init, and the end of a process.                                         *)

LEMMA TakeLockKeeps ==
  ASSUME ImuIInv, NEW p \in Users, TakeLock(p)
  PROVE  ImuIInv'
<1>1. /\ call[p] = "idle" /\ phase[p] = "out" /\ owner = NoOwner
      /\ owner' = p /\ phase' = [phase EXCEPT ![p] = "locked"]
      /\ UNCHANGED <<chip, kernel, shadow, running, started, thread, call,
                     faults, closing, kills, sleeps, leftOn, upset>>
  BY DEF TakeLock, At
<1>2. DriverTypes' /\ HardwareKnown' /\ kernel'.bufOn = kernel.bufOn
  BY <1>1, TypesNow, DriverStays DEF DriverTypes
<1>3. /\ ReaderTypes' /\ OthersStay(p)
      /\ phase'[p] = "locked" /\ shadow'[p] = shadow[p]
      /\ running'[p] = running[p] /\ started'[p] = started[p]
      /\ thread'[p] = thread[p] /\ call'[p] = call[p]
  BY <1>1, TypesNow DEF ReaderTypes, OthersStay, Phases
<1>4. Belief("locked", shadow[p], kernel'.bufOn, upset', leftOn')
  BY <1>1, <1>2, TypesNow DEF Belief
<1>5. Fits("locked", shadow[p], running[p], started[p], thread[p], call[p])
  BY <1>1, ReaderNow DEF Fits
<1>6. /\ owner \in {p, NoOwner} /\ owner' \in {p, NoOwner}
      /\ owner' # NoOwner
  BY <1>1, ImuAssumption
<1>7. QED
  BY <1>1, <1>2, <1>3, <1>4, <1>5, <1>6, ReaderMoves

LEMMA PrepareKeeps ==
  ASSUME ImuIInv, NEW p \in Users, Prepare(p)
  PROVE  ImuIInv'
<1>1. /\ call[p] = "idle" /\ phase[p] = "locked"
      /\ UNCHANGED <<running, started, thread, call, closing, kills, sleeps>>
  BY DEF Prepare, At
<1>2. /\ owner = p /\ owner # NoOwner
      /\ kernel.bufOn => leftOn
  BY <1>1, ReaderNow, ImuAssumption DEF Belief
<1>3. CASE /\ IF kernel.bufOn THEN KernelOff ELSE UNCHANGED <<chip, kernel>>
           /\ shadow' = [shadow EXCEPT ![p] = FALSE]
           /\ phase' = [phase EXCEPT ![p] = "prepared"]
           /\ leftOn' = FALSE
           /\ UNCHANGED <<owner, faults, upset>>
  <2>1. DriverTypes' /\ HardwareKnown' /\ ~kernel'.bufOn
    <3>1. CASE kernel.bufOn
      BY <1>3, <3>1, TypesNow, TurnsOff
    <3>2. CASE ~kernel.bufOn
      BY <1>3, <3>2, TypesNow, DriverStays DEF DriverTypes
    <3>3. QED
      BY <3>1, <3>2
  <2>2. /\ ReaderTypes' /\ OthersStay(p)
        /\ phase'[p] = "prepared" /\ shadow'[p] = FALSE
        /\ running'[p] = running[p] /\ started'[p] = started[p]
        /\ thread'[p] = thread[p] /\ call'[p] = call[p]
    BY <1>1, <1>3, TypesNow DEF ReaderTypes, OthersStay, Phases
  <2>3. Belief("prepared", FALSE, kernel'.bufOn, upset', leftOn')
    BY <2>1 DEF Belief
  <2>4. Fits("prepared", FALSE, running[p], started[p], thread[p], call[p])
    BY <1>1, ReaderNow DEF Fits
  <2>5. owner \in {p, NoOwner} /\ owner' = p /\ owner' # NoOwner
    BY <1>2, <1>3
  <2>6. QED
    BY <2>1, <2>2, <2>3, <2>4, <2>5, ReaderMoves
<1>4. CASE /\ kernel.bufOn
           /\ KernelOffFails
           /\ shadow' = [shadow EXCEPT ![p] = TRUE]
           /\ ReleaseControl(p)
           /\ UNCHANGED leftOn
  <2>1. DriverTypes' /\ HardwareKnown'
    BY <1>4, TypesNow, OffFails
  <2>2. /\ ReaderTypes' /\ OthersStay(p) /\ owner' = NoOwner
        /\ phase'[p] = "out" /\ shadow'[p] = TRUE
        /\ running'[p] = running[p] /\ started'[p] = started[p]
        /\ thread'[p] = thread[p] /\ call'[p] = call[p]
    BY <1>1, <1>4, TypesNow
    DEF ReleaseControl, ReaderTypes, OthersStay, Phases
  <2>3. Belief("out", TRUE, kernel'.bufOn, upset', leftOn')
    BY DEF Belief
  <2>4. Fits("out", TRUE, running[p], started[p], thread[p], call[p])
    BY <1>1, ReaderNow DEF Fits
  <2>5. owner \in {p, NoOwner} /\ owner' # p /\ leftOn'
    BY <1>2, <1>4, <2>2
  <2>6. QED
    BY <2>1, <2>2, <2>3, <2>4, <2>5, ReaderMoves
<1>5. QED
  BY <1>3, <1>4 DEF Prepare

LEMMA DiscoverKeeps ==
  ASSUME ImuIInv, NEW p \in Users, Discover(p)
  PROVE  ImuIInv'
<1>1. /\ call[p] = "idle" /\ phase[p] = "prepared"
      /\ UNCHANGED <<chip, kernel, shadow, running, started, thread, call,
                     closing, kills, sleeps, leftOn, upset>>
  BY DEF Discover, At
<1>2. /\ owner = p /\ owner # NoOwner /\ shadow[p] = FALSE
      /\ ~kernel.bufOn
  BY <1>1, ReaderNow, ImuAssumption DEF Belief
<1>3. faults' \in 0 .. MaxFaults
  BY TypesNow, OneMoreFault DEF Discover, DriverTypes
<1>4. DriverTypes' /\ HardwareKnown' /\ kernel'.bufOn = kernel.bufOn
  BY <1>1, <1>3, TypesNow, DriverStays
<1>5. CASE phase' = [phase EXCEPT ![p] = "ready"] /\ owner' = owner
  <2>1. /\ ReaderTypes' /\ OthersStay(p)
        /\ phase'[p] = "ready" /\ shadow'[p] = FALSE
        /\ running'[p] = running[p] /\ started'[p] = started[p]
        /\ thread'[p] = thread[p] /\ call'[p] = call[p]
    BY <1>1, <1>2, <1>5, TypesNow DEF ReaderTypes, OthersStay, Phases
  <2>2. Belief("ready", FALSE, kernel'.bufOn, upset', leftOn')
    BY <1>2, <1>4 DEF Belief
  <2>3. Fits("ready", FALSE, running[p], started[p], thread[p], call[p])
    BY <1>1, <1>2, ReaderNow DEF Fits
  <2>4. owner \in {p, NoOwner} /\ owner' = p /\ owner' # NoOwner
    BY <1>2, <1>5
  <2>5. QED
    BY <1>4, <2>1, <2>2, <2>3, <2>4, ReaderMoves
<1>6. CASE ReleaseControl(p)
  <2>1. /\ ReaderTypes' /\ OthersStay(p) /\ owner' = NoOwner
        /\ phase'[p] = "out" /\ shadow'[p] = FALSE
        /\ running'[p] = running[p] /\ started'[p] = started[p]
        /\ thread'[p] = thread[p] /\ call'[p] = call[p]
    BY <1>1, <1>2, <1>6, TypesNow
    DEF ReleaseControl, ReaderTypes, OthersStay, Phases
  <2>2. Belief("out", FALSE, kernel'.bufOn, upset', leftOn')
    BY DEF Belief
  <2>3. Fits("out", FALSE, running[p], started[p], thread[p], call[p])
    BY <1>1, <1>2, ReaderNow DEF Fits
  <2>4. owner \in {p, NoOwner} /\ owner' # p
    BY <1>2, <2>1
  <2>5. QED
    BY <1>2, <1>4, <2>1, <2>2, <2>3, <2>4, ReaderMoves
<1>7. QED
  BY <1>5, <1>6 DEF Discover

LEMMA ImuCrashKeeps ==
  ASSUME ImuIInv, NEW p \in Users, ImuCrash(p)
  PROVE  ImuIInv'
<1>1. /\ kills < MaxKills /\ kills' = kills + 1 /\ phase[p] # "out"
      /\ leftOn' = (leftOn \/ kernel.bufOn) /\ ReleaseControl(p)
      /\ shadow' = [shadow EXCEPT ![p] = FALSE]
      /\ running' = [running EXCEPT ![p] = FALSE]
      /\ started' = [started EXCEPT ![p] = FALSE]
      /\ thread' = [thread EXCEPT ![p] = "none"]
      /\ call' = [call EXCEPT ![p] = "idle"]
      /\ closing' = [closing EXCEPT ![p] = FALSE]
      /\ UNCHANGED <<chip, kernel, faults, sleeps, upset>>
  BY DEF ImuCrash
<1>2. owner = p /\ owner # NoOwner
  BY <1>1, ReaderNow, ImuAssumption
<1>3. DriverTypes' /\ HardwareKnown' /\ kernel'.bufOn = kernel.bufOn
  BY <1>1, TypesNow, DriverStays DEF DriverTypes
<1>4. /\ kills' \in 0 .. MaxKills /\ leftOn' \in BOOLEAN
      /\ kernel'.bufOn => leftOn'
  <2>1. kernel.bufOn \in BOOLEAN /\ leftOn \in BOOLEAN
    BY TypesNow DEF DriverTypes, ReaderTypes
  <2>2. kills' \in 0 .. MaxKills
    BY <1>1, TypesNow, ImuAssumption DEF ReaderTypes
  <2>3. QED
    BY <1>1, <1>3, <2>1, <2>2
<1>5. /\ ReaderTypes' /\ OthersStay(p) /\ owner' = NoOwner
      /\ phase'[p] = "out" /\ shadow'[p] = FALSE /\ running'[p] = FALSE
      /\ started'[p] = FALSE /\ thread'[p] = "none" /\ call'[p] = "idle"
  BY <1>1, <1>4, TypesNow
  DEF ReleaseControl, ReaderTypes, OthersStay, Calls, Threads, Phases
<1>6. /\ Belief("out", FALSE, kernel'.bufOn, upset', leftOn')
      /\ Fits("out", FALSE, FALSE, FALSE, "none", "idle")
  BY DEF Belief, Fits
<1>7. owner \in {p, NoOwner} /\ owner' # p
  BY <1>2, <1>5
<1>8. QED
  BY <1>3, <1>4, <1>5, <1>6, <1>7, ReaderMoves

-----------------------------------------------------------------------------
(* The driver by itself.                                                   *)

\* A step of the driver that leaves the buffer as it is.
LEMMA DriverMoves ==
  ASSUME ImuIInv, UNCHANGED <<readerVars, kills, leftOn>>,
         DriverTypes', HardwareKnown', sleeps' \in 0 .. MaxSleeps,
         kernel'.bufOn = kernel.bufOn, upset => upset'
  PROVE  ImuIInv'
<1>1. UNCHANGED <<owner, phase, shadow, running, started, thread, call,
                  closing, kills, leftOn>>
  BY DEF readerVars
<1>2. ImuTypeOK'
  BY <1>1, TypesNow DEF ImuIInv, ImuTypeOK, DriverTypes
<1>3. ASSUME NEW p \in Users
      PROVE  /\ Belief(phase[p], shadow[p], kernel'.bufOn, upset', leftOn)
             /\ Fits(phase[p], shadow[p], running[p], started[p], thread[p],
                     call[p])
  <2>1. Belief(phase[p], shadow[p], kernel.bufOn, upset, leftOn)
    BY ReaderNow
  <2>2. Belief(phase[p], shadow[p], kernel'.bufOn, upset', leftOn)
    BY <2>1 DEF Belief
  <2>3. QED
    BY <2>2, ReaderNow
<1>4. QED
  BY <1>1, <1>2, <1>3 DEF ImuIInv

LEMMA ProbeKeeps ==
  ASSUME ImuIInv, Probe
  PROVE  ImuIInv'
<1>1. DriverTypes /\ HardwareKnown /\ sleeps \in 0 .. MaxSleeps
  BY TypesNow DEF ReaderTypes
<1>2. DriverTypes' /\ HardwareKnown' /\ kernel'.bufOn = kernel.bufOn
  BY <1>1 DEF Probe, DriverTypes, HardwareKnown
<1>3. /\ UNCHANGED <<readerVars, kills, leftOn>>
      /\ sleeps' \in 0 .. MaxSleeps /\ upset' = upset
  BY <1>1 DEF Probe
<1>4. QED
  BY <1>2, <1>3, DriverMoves

LEMMA ImuSuspendKeeps ==
  ASSUME ImuIInv, ImuSuspend
  PROVE  ImuIInv'
<1>1. DriverTypes /\ HardwareKnown /\ sleeps \in 0 .. MaxSleeps
  BY TypesNow DEF ReaderTypes
<1>2. /\ kernel.probed /\ ~kernel.asleep
      /\ sleeps' \in 0 .. MaxSleeps
      /\ UNCHANGED <<readerVars, kills, leftOn>>
  BY <1>1, ImuAssumption DEF ImuSuspend
<1>3. CASE /\ chip' = [power |-> FALSE, drdy |-> FALSE]
           /\ kernel' = [kernel EXCEPT !.asleep = TRUE]
           /\ UNCHANGED <<faults, upset>>
  <2>1. DriverTypes' /\ HardwareKnown' /\ kernel'.bufOn = kernel.bufOn
    BY <1>1, <1>2, <1>3 DEF DriverTypes, HardwareKnown
  <2>2. QED
    BY <1>2, <1>3, <2>1, DriverMoves
<1>4. CASE /\ Fault
           /\ \E d \in {chip.drdy, FALSE} : chip' = [chip EXCEPT !.drdy = d]
           /\ upset' = TRUE
           /\ UNCHANGED kernel
  <2>1. faults' \in 0 .. MaxFaults
    BY <1>1, <1>4, OneMoreFault DEF DriverTypes
  <2>2. DriverTypes' /\ HardwareKnown' /\ kernel'.bufOn = kernel.bufOn
    BY <1>1, <1>2, <1>4, <2>1 DEF DriverTypes, HardwareKnown
  <2>3. QED
    BY <1>2, <1>4, <2>2, DriverMoves
<1>5. QED
  BY <1>3, <1>4 DEF ImuSuspend

LEMMA ImuResumeKeeps ==
  ASSUME ImuIInv, ImuResume
  PROVE  ImuIInv'
<1>1. DriverTypes /\ HardwareKnown /\ sleeps \in 0 .. MaxSleeps
  BY TypesNow DEF ReaderTypes
<1>2. /\ kernel' = [kernel EXCEPT !.asleep = FALSE]
      /\ UNCHANGED <<readerVars, kills, sleeps, leftOn>>
  BY DEF ImuResume
<1>3. CASE /\ chip' = [power |-> TRUE, drdy |-> kernel.drdyEnabled]
           /\ UNCHANGED <<faults, upset>>
  <2>1. DriverTypes' /\ HardwareKnown' /\ kernel'.bufOn = kernel.bufOn
    BY <1>1, <1>2, <1>3 DEF DriverTypes, HardwareKnown
  <2>2. QED
    BY <1>1, <1>2, <1>3, <2>1, DriverMoves
<1>4. CASE /\ Fault
           /\ \E w \in BOOLEAN : chip' = [chip EXCEPT !.power = w]
           /\ upset' = TRUE
  <2>1. faults' \in 0 .. MaxFaults
    BY <1>1, <1>4, OneMoreFault DEF DriverTypes
  <2>2. DriverTypes' /\ HardwareKnown' /\ kernel'.bufOn = kernel.bufOn
    BY <1>1, <1>2, <1>4, <2>1 DEF DriverTypes, HardwareKnown
  <2>3. QED
    BY <1>1, <1>2, <1>4, <2>2, DriverMoves
<1>5. QED
  BY <1>3, <1>4 DEF ImuResume

LEMMA ImuStepKeeps ==
  ASSUME ImuIInv, [ImuNext]_imuVars
  PROVE  ImuIInv'
<1>1. ASSUME NEW p \in Users, Step(p)
      PROVE  ImuIInv'
  BY <1>1, TakeLockKeeps, PrepareKeeps, DiscoverKeeps, StartKeeps,
     StartJoinKeeps, StartEnableKeeps, StartThreadKeeps, StartUndoKeeps,
     ThreadLeavesKeeps, ThreadDisablesKeeps, ReaderStopKeeps,
     StopDisableKeeps, StopJoinKeeps DEF Step
<1>2. CASE Probe \/ ImuSuspend \/ ImuResume
  BY <1>2, ProbeKeeps, ImuSuspendKeeps, ImuResumeKeeps
<1>3. CASE UNCHANGED imuVars
  BY <1>3 DEF imuVars, ImuIInv, ImuTypeOK, HardwareKnown
<1>4. QED
  BY <1>1, <1>2, <1>3, ImuCrashKeeps DEF ImuNext

\* imu_reader.c and iio_icm42688_spi.c: for any number of processes, faults,
\* killed processes and suspends.
THEOREM ImuInvariance == ImuSpec => []ImuIInv
<1>1. ImuInit => ImuIInv
  <2>1. SUFFICES ASSUME ImuInit PROVE ImuIInv
    OBVIOUS
  <2>2. ImuTypeOK
    <3>1. /\ 0 \in 0 .. MaxFaults /\ 0 \in 0 .. MaxKills
          /\ 0 \in 0 .. MaxSleeps
      BY ImuAssumption
    <3>2. DriverTypes /\ owner \in Users \cup {NoOwner}
      BY <2>1, <3>1 DEF ImuInit, DriverTypes
    <3>3. ReaderTypes
      <4>1. /\ phase = [p \in Users |-> "out"]
            /\ thread = [p \in Users |-> "none"]
            /\ call = [p \in Users |-> "idle"]
            /\ shadow = [p \in Users |-> FALSE]
            /\ running = [p \in Users |-> FALSE]
            /\ started = [p \in Users |-> FALSE]
            /\ closing = [p \in Users |-> FALSE]
            /\ kills = 0 /\ sleeps = 0 /\ leftOn = FALSE
        BY <2>1 DEF ImuInit
      <4>2. "out" \in Phases /\ "none" \in Threads /\ "idle" \in Calls
        BY DEF Phases, Threads, Calls
      <4>3. QED
        BY <3>1, <4>1, <4>2 DEF ReaderTypes
    <3>4. QED
      BY <3>2, <3>3 DEF ImuTypeOK, DriverTypes, ReaderTypes
  <2>3. HardwareKnown
    BY <2>1 DEF ImuInit, HardwareKnown
  <2>4. \A p \in Users :
          /\ phase[p] = "out" /\ shadow[p] = FALSE /\ running[p] = FALSE
          /\ started[p] = FALSE /\ thread[p] = "none" /\ call[p] = "idle"
          /\ owner # p
    BY <2>1, ImuAssumption DEF ImuInit
  <2>5. ~kernel.bufOn
    BY <2>1 DEF ImuInit
  <2>6. QED
    BY <2>2, <2>3, <2>4, <2>5 DEF ImuIInv, Belief, Fits
<1>2. ImuIInv /\ [ImuNext]_imuVars => ImuIInv'
  BY ImuStepKeeps
<1>3. QED
  BY <1>1, <1>2, PTL DEF ImuSpec

\* What the invariant says of the buffer and of the thread.
LEMMA SensorIsSound ==
  ASSUME ImuIInv
  PROVE  BufferAccounted /\ ReaderIsFed
<1>1. BufferAccounted
  <2>1. \A p \in Users : phase[p] # "out" => owner = p
    BY DEF ImuIInv
  <2>2. ASSUME NEW p \in Users, phase[p] \in {"prepared", "ready"}
        PROVE  kernel.bufOn => shadow[p]
    BY <2>2, ReaderNow, TypesNow DEF Belief, ReaderTypes
  <2>3. QED
    BY <2>1, <2>2, TypesNow DEF BufferAccounted
<1>2. ReaderIsFed
  <2>1. SUFFICES ASSUME NEW p \in Users, thread[p] = "loop", running[p],
                        ~upset
                 PROVE  /\ kernel.bufOn
                        /\ ~kernel.asleep => chip.power /\ chip.drdy
    BY DEF ReaderIsFed
  <2>2. phase[p] = "ready" /\ shadow[p] = TRUE
    BY <2>1, ReaderNow, TypesNow DEF Fits, ReaderTypes
  <2>3. kernel.bufOn
    BY <2>1, <2>2, ReaderNow DEF Belief
  <2>4. QED
    BY <2>1, <2>3, TypesNow DEF HardwareKnown
<1>3. QED
  BY <1>1, <1>2

-----------------------------------------------------------------------------
(* The pose of a frame: the history, and the search as its steps. *)

PoseIInv == PoseTypeOK /\ HistoryOrdered /\ SearchExact

\* A pose younger than all recorded ones keeps the history in order, also
\* when the oldest makes room for it.
LEMMA PushedInOrder ==
  ASSUME NEW h \in Seq(Samples), NEW s \in Samples,
         Len(h) <= HistoryCap,
         \A i, j \in 1..Len(h) : i < j => h[i].ts < h[j].ts,
         \A i \in 1..Len(h) : h[i].ts < s.ts
  PROVE  /\ Pushed(h, s) \in Seq(Samples) /\ Len(Pushed(h, s)) <= HistoryCap
         /\ \A i, j \in 1..Len(Pushed(h, s)) :
              i < j => Pushed(h, s)[i].ts < Pushed(h, s)[j].ts
         /\ \A i \in 1..Len(Pushed(h, s)) : Pushed(h, s)[i].ts <= s.ts
<1> DEFINE g == IF Len(h) < HistoryCap THEN h ELSE Tail(h)
<1>1. HistoryCap \in Nat \ {0} /\ s.ts \in Nat
  BY PoseAssumption DEF Samples
<1>2. g \in Seq(Samples) /\ Len(g) < HistoryCap
  <2>1. CASE Len(h) < HistoryCap
    BY <2>1
  <2>2. CASE ~(Len(h) < HistoryCap)
    <3>1. h # <<>>
      BY <1>1, <2>2
    <3>2. Tail(h) \in Seq(Samples) /\ Len(Tail(h)) = Len(h) - 1
      BY <3>1
    <3>3. QED
      BY <1>1, <2>2, <3>2
  <2>3. QED
    BY <2>1, <2>2
<1>3. PICK k \in {0, 1} : Len(g) = Len(h) - k /\ \A i \in 1..Len(g) : g[i] = h[i + k]
  <2>1. CASE Len(h) < HistoryCap
    BY <2>1
  <2>2. CASE ~(Len(h) < HistoryCap)
    <3>1. h # <<>>
      BY <1>1, <2>2
    <3>2. /\ Len(Tail(h)) = Len(h) - 1
          /\ \A i \in 1..Len(Tail(h)) : Tail(h)[i] = h[i + 1]
      BY <3>1
    <3>3. QED
      BY <2>2, <3>2
  <2>3. QED
    BY <2>1, <2>2
<1>4. Pushed(h, s) = Append(g, s)
  BY DEF Pushed
<1> HIDE DEF g
<1>5. /\ Pushed(h, s) \in Seq(Samples)
      /\ Len(Pushed(h, s)) = Len(g) + 1
      /\ \A i \in 1..Len(g) : Pushed(h, s)[i] = g[i]
      /\ Pushed(h, s)[Len(g) + 1] = s
  BY <1>2, <1>4
<1>6. \A i \in 1..Len(g) : i + k \in 1..Len(h) /\ g[i] = h[i + k]
  BY <1>2, <1>3
<1>7. \A i \in 1..Len(h) : h[i].ts \in Nat
  <2>1. \A i \in 1..Len(h) : h[i] \in Samples
    OBVIOUS
  <2>2. QED
    BY <2>1 DEF Samples
<1>8. \A i, j \in 1..Len(Pushed(h, s)) :
        i < j => Pushed(h, s)[i].ts < Pushed(h, s)[j].ts
  <2> SUFFICES ASSUME NEW i \in 1..Len(Pushed(h, s)),
                      NEW j \in 1..Len(Pushed(h, s)), i < j
               PROVE  Pushed(h, s)[i].ts < Pushed(h, s)[j].ts
    OBVIOUS
  <2>1. i \in 1..Len(g) /\ Pushed(h, s)[i] = h[i + k] /\ i + k \in 1..Len(h)
    BY <1>2, <1>5, <1>6
  <2>2. CASE j = Len(g) + 1
    BY <1>5, <2>1, <2>2
  <2>3. CASE j # Len(g) + 1
    <3>0. Len(g) \in Nat /\ j \in 1..(Len(g) + 1)
      BY <1>2, <1>5
    <3>4. j \in 1..Len(g)
      BY <2>3, <3>0
    <3>1. j \in 1..Len(g) /\ Pushed(h, s)[j] = h[j + k] /\ j + k \in 1..Len(h)
      BY <1>5, <1>6, <3>4
    <3>2. i + k < j + k
      OBVIOUS
    <3>3. QED
      BY <2>1, <3>1, <3>2
  <2>4. QED
    BY <2>2, <2>3
<1>9. \A i \in 1..Len(Pushed(h, s)) : Pushed(h, s)[i].ts <= s.ts
  <2> SUFFICES ASSUME NEW i \in 1..Len(Pushed(h, s))
               PROVE  Pushed(h, s)[i].ts <= s.ts
    OBVIOUS
  <2>1. CASE i = Len(g) + 1
    BY <1>1, <1>5, <2>1
  <2>2. CASE i # Len(g) + 1
    <3>1. i \in 1..Len(g) /\ Pushed(h, s)[i] = h[i + k] /\ i + k \in 1..Len(h)
      BY <1>2, <1>5, <1>6, <2>2
    <3>2. QED
      BY <1>1, <1>7, <3>1
  <2>3. QED
    BY <2>1, <2>2
<1>10. Len(Pushed(h, s)) <= HistoryCap
  BY <1>1, <1>2, <1>5
<1>11. QED
  BY <1>5, <1>8, <1>9, <1>10

\* A sample either starts everything anew or is younger than every pose.
LEMMA TakenInOrder ==
  ASSUME PoseIInv, TakeSample
  PROVE  /\ history' \in Seq(Samples) /\ Len(history') <= HistoryCap
         /\ last' \in Nat /\ ring' \in Seq(Samples)
         /\ Len(ring') <= RingCount
         /\ HistoryOrdered'
<1> DEFINE s == Head(ring)
           h == IF StartsAnew(s) THEN <<>> ELSE history
<1>1. /\ ring \in Seq(Samples) /\ ring # <<>> /\ last \in Nat
      /\ history \in Seq(Samples) /\ Len(history) <= HistoryCap
      /\ Len(ring) <= RingCount /\ RingCount \in Nat
      /\ HistoryCap \in Nat \ {0}
  BY PoseAssumption DEF PoseIInv, PoseTypeOK, TakeSample
<1>2. /\ s \in Samples /\ s.ts \in Nat
      /\ ring' \in Seq(Samples) /\ Len(ring') <= RingCount
  <2>1. /\ Head(ring) \in Samples /\ Tail(ring) \in Seq(Samples)
        /\ Len(Tail(ring)) = Len(ring) - 1
    BY <1>1
  <2>2. QED
    BY <1>1, <2>1 DEF TakeSample, Samples
<1>3. last' = s.ts
  BY DEF TakeSample
<1>4. h \in Seq(Samples) /\ Len(h) <= HistoryCap
  BY <1>1
<1>5. /\ \A i, j \in 1..Len(h) : i < j => h[i].ts < h[j].ts
      /\ \A i \in 1..Len(h) : h[i].ts <= s.ts /\ h[i].ts \in Nat
      /\ s.ts > 0 => \A i \in 1..Len(h) : h[i].ts < s.ts
  <2>1. CASE StartsAnew(s)
    BY <2>1
  <2>2. CASE ~StartsAnew(s)
    <3>1. last = 0 \/ s.ts > last
      BY <1>1, <1>2, <2>2 DEF StartsAnew
    <3>2. /\ \A i, j \in 1..Len(h) : i < j => h[i].ts < h[j].ts
          /\ \A i \in 1..Len(h) : h[i].ts <= last
      BY <2>2 DEF PoseIInv, HistoryOrdered
    <3> HIDE DEF h, s
    <3>5. \A i \in 1..Len(h) : h[i] \in Samples
      BY <1>4
    <3>3. \A i \in 1..Len(h) : h[i].ts \in Nat
      BY <3>5 DEF Samples
    <3>4. QED
      BY <1>1, <1>2, <3>1, <3>2, <3>3
  <2>3. QED
    BY <2>1, <2>2
<1>6. \/ history' = h
      \/ history' = <<s>>
      \/ history' = Pushed(h, s) /\ s.ts > 0
  <2> DEFINE dt == IF last > 0 /\ ~StartsAnew(s) THEN s.ts - last ELSE 0
             Push == CASE PushResult(h, s) = 0 -> Pushed(h, s)
                       [] PushResult(h, s) = -2 -> <<s>>
                       [] OTHER -> h
  <2>1. history' = IF dt \in 0..MaxDt THEN Push ELSE h
    BY DEF TakeSample
  <2>2. PushResult(h, s) = 0 => s.ts > 0
    BY <1>2 DEF PushResult
  <2>3. PushResult(h, s) \in {0, -1, -2}
    BY DEF PushResult
  <2> HIDE DEF dt, h, s
  <2>4. Push \in {h, <<s>>} \/ (Push = Pushed(h, s) /\ s.ts > 0)
    BY <2>2, <2>3
  <2> HIDE DEF Push
  <2>5. QED
    BY <2>1, <2>4
<1> HIDE DEF h, s
<1>7. CASE history' = h
  BY <1>2, <1>3, <1>4, <1>5, <1>7 DEF HistoryOrdered
<1>8. CASE history' = <<s>>
  <2>1. <<s>> \in Seq(Samples) /\ Len(<<s>>) = 1 /\ <<s>>[1] = s
    BY <1>2
  <2>2. QED
    BY <1>1, <1>2, <1>3, <1>8, <2>1 DEF HistoryOrdered
<1>9. CASE history' = Pushed(h, s) /\ s.ts > 0
  <2>1. /\ Pushed(h, s) \in Seq(Samples) /\ Len(Pushed(h, s)) <= HistoryCap
        /\ \A i, j \in 1..Len(Pushed(h, s)) :
             i < j => Pushed(h, s)[i].ts < Pushed(h, s)[j].ts
        /\ \A i \in 1..Len(Pushed(h, s)) : Pushed(h, s)[i].ts <= s.ts
    BY <1>2, <1>4, <1>5, <1>9, PushedInOrder
  <2>2. QED
    BY <1>2, <1>3, <1>9, <2>1 DEF HistoryOrdered
<1>10. QED
  BY <1>6, <1>7, <1>8, <1>9

\* The initial states.
LEMMA PoseStarts == ASSUME PoseInit PROVE PoseIInv
<1>1. <<>> \in Seq(Samples) /\ Len(<<>>) = 0
  OBVIOUS
<1>2. QED
  BY <1>1, PoseAssumption
     DEF PoseInit, PoseIInv, PoseTypeOK, HistoryOrdered, SearchExact

\* An answer is of the history it was found in.
LEMMA AnswerExact ==
  ASSUME PoseIInv, NEW i \in 1..Len(history), NEW j \in 1..Len(history),
         frame # 0, Answer(i, j), UNCHANGED <<now, skew, ring, last, history>>,
         \/ j = i + 1 /\ history[i].ts <= frame /\ frame <= history[j].ts
         \/ i = 1 /\ j = 1 /\ frame <= history[i].ts
         \/ i = Len(history) /\ j = i /\ frame >= history[i].ts
  PROVE  PoseIInv'
<1>1. history \in Seq(Samples) /\ Len(history) \in Nat /\ frame \in 1..MaxTime
  BY PoseAssumption DEF PoseIInv, PoseTypeOK
<1>2. history[i] \in Samples /\ history[j] \in Samples
  BY <1>1
<1>3. /\ pose' = [target |-> frame, lo |-> history[i], hi |-> history[j]]
      /\ frame' = 0 /\ before' = 0 /\ after' = 0
  BY DEF Answer
<1>4. PoseTypeOK'
  BY <1>1, <1>2, <1>3, PoseAssumption DEF PoseIInv, PoseTypeOK
<1>5. HistoryOrdered'
  BY DEF PoseIInv, HistoryOrdered
<1>6. SearchExact'
  <2>1. pose'.target = frame /\ pose'.lo = history[i] /\ pose'.hi = history[j]
    BY <1>3
  <2>2. QED
    BY <1>3, <2>1 DEF SearchExact
<1>7. QED
  BY <1>4, <1>5, <1>6 DEF PoseIInv

\* Every step of the search keeps the moment of the frame between its ends.
LEMMA PoseSteps == ASSUME PoseIInv, [PoseNext]_poseVars PROVE PoseIInv'
<1> USE PoseAssumption
<1>0. /\ now \in Nat /\ frame \in Nat /\ last \in Nat /\ Len(history) \in Nat
      /\ history \in Seq(Samples) /\ MaxTime \in Nat
      /\ before \in 0..Len(history) /\ after \in 0..Len(history)
  BY DEF PoseIInv, PoseTypeOK
<1>s. \A i \in 1..Len(history) : history[i].ts \in Nat
  <2>1. \A i \in 1..Len(history) : history[i] \in Samples
    BY <1>0
  <2>2. QED
    BY <2>1 DEF Samples
<1>1. CASE PoseTick
  <2>1. ring' \in Seq(Samples) /\ Len(ring') <= RingCount
    <3>1. [ts |-> now' + skew, at |-> now'] \in Samples
      BY <1>0, <1>1 DEF PoseTick, PoseIInv, PoseTypeOK, Samples
    <3>2. CASE UNCHANGED ring
      BY <3>2 DEF PoseIInv, PoseTypeOK
    <3>3. CASE /\ Len(ring) < RingCount
               /\ ring' = Append(ring, [ts |-> now' + skew, at |-> now'])
      BY <3>1, <3>3 DEF PoseIInv, PoseTypeOK
    <3>4. QED
      BY <1>1, <3>2, <3>3 DEF PoseTick
  <2>2. QED
    BY <1>0, <1>1, <2>1
       DEF PoseTick, PoseIInv, PoseTypeOK, HistoryOrdered, SearchExact
<1>2. CASE SetClock
  BY <1>2 DEF SetClock, PoseIInv, PoseTypeOK, HistoryOrdered, SearchExact
<1>3. CASE FrameArrives
  <2>1. frame' \in 1..MaxTime /\ after = 0
    BY <1>0, <1>3 DEF FrameArrives, PoseIInv, PoseTypeOK, SearchExact
  <2>2. QED
    BY <1>3, <2>1
       DEF FrameArrives, PoseIInv, PoseTypeOK, HistoryOrdered, SearchExact
<1>4. CASE TakeSample
  <2>1. /\ history' \in Seq(Samples) /\ Len(history') <= HistoryCap
        /\ last' \in Nat /\ ring' \in Seq(Samples)
        /\ Len(ring') <= RingCount
        /\ HistoryOrdered'
    BY <1>4, TakenInOrder
  <2>2. /\ after = 0 /\ before = 0 /\ frame # 0
        /\ UNCHANGED <<now, skew, frame, before, after, pose>>
    BY <1>4 DEF TakeSample, PoseIInv, PoseTypeOK
  <2>3. Len(history') \in Nat
    BY <2>1
  <2>4. QED
    BY <2>1, <2>2, <2>3 DEF PoseIInv, PoseTypeOK, SearchExact
<1>5. CASE Query
  <2>0. /\ frame # 0 /\ after = 0 /\ before = 0
        /\ UNCHANGED <<now, skew, ring, last, history>>
    BY <1>5 DEF Query, PoseIInv, PoseTypeOK
  <2>1. CASE history = <<>>
    BY <1>5, <2>0, <2>1
       DEF Query, PoseIInv, PoseTypeOK, HistoryOrdered, SearchExact
  <2>2. CASE history # <<>> /\ frame <= history[1].ts
    <3>1. Answer(1, 1) /\ 1 \in 1..Len(history)
      BY <1>0, <1>s, <1>5, <2>2 DEF Query
    <3>2. QED
      BY <2>0, <2>2, <3>1, AnswerExact
  <2>3. CASE /\ history # <<>> /\ frame > history[1].ts
             /\ frame >= history[Len(history)].ts
    <3>1. Answer(Len(history), Len(history)) /\ Len(history) \in 1..Len(history)
      BY <1>0, <1>s, <1>5, <2>3 DEF Query
    <3>2. QED
      BY <2>0, <2>3, <3>1, AnswerExact
  <2>4. CASE /\ history # <<>> /\ frame > history[1].ts
             /\ frame < history[Len(history)].ts
    <3>1. Len(history) \in 1..Len(history) /\ 1 \in 1..Len(history)
      BY <1>0, <2>4
    <3>2. /\ before' = 1 /\ after' = Len(history) /\ UNCHANGED <<frame, pose>>
      BY <1>0, <1>s, <1>5, <2>4, <3>1 DEF Query
    <3>3. Len(history) # 1
      BY <2>4, <1>s, <3>1, <1>0
    <3>4. QED
      BY <1>0, <1>s, <2>0, <2>4, <3>1, <3>2, <3>3
         DEF PoseIInv, PoseTypeOK, HistoryOrdered, SearchExact
  <2>5. QED
    <3>1. history # <<>> => 1 \in 1..Len(history) /\ Len(history) \in 1..Len(history)
      BY <1>0
    <3>2. QED
      BY <1>0, <1>s, <2>1, <2>2, <2>3, <2>4, <3>1
<1>6. CASE Halve
  <2>1. /\ after # 0 /\ frame # 0 /\ 0 < before /\ before < after
        /\ history[before].ts <= frame /\ frame < history[after].ts
    BY <1>0, <1>6 DEF Halve, PoseIInv, SearchExact
  <2>2. Middle \in Nat /\ before < Middle /\ Middle < after
    BY <1>0, <1>6, <2>1 DEF Middle, Halve
  <2>3. Middle \in 1..Len(history) /\ history[Middle].ts \in Nat
    BY <1>0, <1>s, <2>1, <2>2
  <2>4. UNCHANGED <<now, skew, ring, last, history, frame, pose>>
    BY <1>6 DEF Halve
  <2>5. CASE NotAfter(Middle)
    <3>1. before' = Middle /\ after' = after /\ history[Middle].ts <= frame
      BY <1>6, <2>5 DEF Halve, NotAfter
    <3>2. QED
      BY <1>0, <2>1, <2>2, <2>3, <2>4, <3>1
         DEF PoseIInv, PoseTypeOK, HistoryOrdered, SearchExact
  <2>6. CASE ~NotAfter(Middle)
    <3>1. before' = before /\ after' = Middle /\ frame < history[Middle].ts
      BY <1>0, <1>6, <2>3, <2>6 DEF Halve, NotAfter
    <3>2. QED
      BY <1>0, <2>1, <2>2, <2>3, <2>4, <3>1
         DEF PoseIInv, PoseTypeOK, HistoryOrdered, SearchExact
  <2>7. QED
    BY <2>5, <2>6
<1>7. CASE Found
  <2>1. /\ after # 0 /\ frame # 0 /\ 0 < before /\ before < after
        /\ history[before].ts <= frame /\ frame < history[after].ts
        /\ after - before <= 1
    BY <1>0, <1>7 DEF Found, PoseIInv, SearchExact
  <2>2. /\ after = before + 1
        /\ before \in 1..Len(history) /\ after \in 1..Len(history)
    BY <1>0, <2>1
  <2>3. history[after].ts \in Nat
    BY <1>s, <2>2
  <2>4. frame <= history[after].ts
    BY <1>0, <2>1, <2>3
  <2>5. QED
    BY <1>7, <2>1, <2>2, <2>4, AnswerExact DEF Found
<1>8. CASE UNCHANGED poseVars
  BY <1>8 DEF poseVars, PoseIInv, PoseTypeOK, HistoryOrdered, SearchExact
<1>9. QED
  BY <1>1, <1>2, <1>3, <1>4, <1>5, <1>6, <1>7, <1>8 DEF PoseNext

\* Where both clocks agree, the exact answer is the pose of the frame's time.
LEMMA ExactIsRight ==
  ASSUME PoseIInv, \A i \in 1..Len(history) : history[i].ts = history[i].at
  PROVE  PoseRight
<1> SUFFICES ASSUME pose # <<>>, frame = 0, history # <<>>
             PROVE  \/ Encloses(pose)
                    \/ \A i \in 1..Len(history) : history[i].at >= pose.target
                    \/ \A i \in 1..Len(history) : history[i].at <= pose.target
  BY DEF PoseRight, PoseIInv, PoseTypeOK
<1>1. /\ history \in Seq(Samples) /\ Len(history) \in Nat
      /\ pose.target \in Nat
  BY DEF PoseIInv, PoseTypeOK
<1>2. \A i \in 1..Len(history) : history[i].at \in Nat
  <2>1. \A i \in 1..Len(history) : history[i] \in Samples
    BY <1>1
  <2>2. QED
    BY <2>1 DEF Samples
<1>3. \A i, j \in 1..Len(history) : i < j => history[i].at < history[j].at
  BY DEF PoseIInv, HistoryOrdered
<1>4. PICK i \in 1..Len(history), j \in 1..Len(history) :
        /\ pose.lo = history[i] /\ pose.hi = history[j]
        /\ \/ j = i + 1 /\ pose.lo.ts <= pose.target
                        /\ pose.target <= pose.hi.ts
           \/ i = 1 /\ j = 1 /\ pose.target <= pose.lo.ts
           \/ i = Len(history) /\ j = i /\ pose.target >= pose.lo.ts
  BY DEF PoseIInv, SearchExact
<1>5. pose.lo.ts = history[i].at /\ pose.hi.ts = history[j].at
  BY <1>4
<1>6. CASE j = i + 1 /\ pose.lo.ts <= pose.target /\ pose.target <= pose.hi.ts
  BY <1>4, <1>5, <1>6 DEF Encloses
<1>7. CASE i = 1 /\ j = 1 /\ pose.target <= pose.lo.ts
  <2>1. \A k \in 1..Len(history) : history[k].at >= history[1].at
    BY <1>1, <1>2, <1>3
  <2>2. QED
    BY <1>1, <1>2, <1>5, <1>7, <2>1
<1>8. CASE i = Len(history) /\ j = i /\ pose.target >= pose.lo.ts
  <2>1. \A k \in 1..Len(history) : history[k].at <= history[Len(history)].at
    BY <1>1, <1>2, <1>3
  <2>2. QED
    BY <1>1, <1>2, <1>5, <1>8, <2>1
<1>9. QED
  BY <1>4, <1>6, <1>7, <1>8

\* pose_history.c and main.c: the history is in order under any setting of
\* the clock, the search finds the two neighbours of the frame's time, and
\* while both clocks agree the frame gets the pose of that time.
THEOREM PoseIsFound == PoseSpec => []PoseFound
<1>1. PoseInit => PoseIInv
  BY PoseStarts
<1>2. PoseIInv /\ [PoseNext]_poseVars => PoseIInv'
  BY PoseSteps
<1>3. PoseIInv => PoseFound
  BY ExactIsRight DEF PoseIInv, PoseFound, PoseInTime
<1>4. QED
  BY <1>1, <1>2, <1>3, PTL DEF PoseSpec

-----------------------------------------------------------------------------
(* The properties of Devices that join two of the parts, which share no      *)
(* variable.                                                                 *)

\* msgbus.c and gpio_capture_key.c: whatever the order of pushes, signals,
\* polls and pops, no message is without a signal; whatever the edges,
\* failures and sleeps, no last level is without a work that reports it.
THEOREM NothingIsMissed == BusSpec /\ KeySpec => []NothingMissed
<1>1. BusIInv /\ KeyIInv => NothingMissed
  BY BusCovers DEF BusIInv, KeyIInv, KeyTypes, PickedUp, KeyPickedUp, NothingMissed
<1>2. QED
  BY <1>1, BusInvariance, KeyInvariance, PTL

\* fan_ctrl.c and pwm_fan_ocr.c: any number of processes, failing writes and
\* crashes leave the channel to its holder or as it was found; both fans run
\* at a level that the last temperature justifies, the kernel's at its top
\* level below zero.
THEOREM FansAreSafe == FanSpec /\ KFanSpec => []FansSafe
<1>1. FanIInv /\ KFanIInv => FansSafe
  BY FanIsDriven DEF FansSafe, KFanIInv
<1>2. QED
  BY <1>1, FanInvariance, KFanInvariance, PTL

\* event_loop.c and gpio_capture_key.c: however add, del, mod, stop and
\* dispatch interleave, a callback starts only by a registration that was in
\* force when its copy was taken; however the pin bounces, no level is reported
\* before it has been stable.
THEOREM NoEventIsStale == LoopSpec /\ KeySpec => NoStaleEvent
BY LoopTyped, LoopDispatchesLive, KeyReportsStable, PTL DEF NoStaleEvent

\* imu_reader.c, iio_icm42688_spi.c and iio_ap3216c.c: for any number of
\* processes, faults, killed processes and suspends, the IIO buffer is
\* accounted for and a running reader is fed, and a light value is of one
\* sample.
THEOREM SensorsAreSound == ImuSpec /\ PairSpec => []SensorsSound
<1>1. ImuIInv /\ PairIInv => SensorsSound
  BY SensorIsSound DEF ImuIInv, PairIInv, SensorsSound
<1>2. QED
  BY <1>1, ImuInvariance, PairInvariance, PTL
=============================================================================
