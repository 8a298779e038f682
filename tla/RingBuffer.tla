----------------------------- MODULE RingBuffer -----------------------------
(***************************************************************************)
(* The lock-free ring of app/comm/ringbuffer.c between one producer and    *)
(* one consumer (the IMU thread and the RGA worker; the message bus puts a *)
(* lock before the producers).  A push and a pop are each three steps:     *)
(* compare the indices, copy the element, publish the own index.  The      *)
(* indices run freely and wrap at Wrap, which stands for 2^64.             *)
(***************************************************************************)
EXTENDS Naturals, Sequences

CONSTANTS Items, Count, Wrap, None

(* The slot of an index must not jump where the index wraps: the code masks
   when Count is a power of two; any other Count divides no power of two, but
   no program lives long enough to wrap 64 bits. *)
ASSUME RingAssumption ==
    /\ Count \in Nat \ {0} /\ Wrap \in Nat
    /\ Wrap > Count /\ Wrap % Count = 0
    /\ None \notin Items

VARIABLES head, tail, \* free-running indices
          slots,      \* the elements
          prod,       \* [at, item]: where the producer is, what it pushes
          cons,       \* [at, item]: where the consumer is, what it has copied
          taken       \* the element the last pop returned

vars == <<head, tail, slots, prod, cons, taken>>

Index(pos) == pos % Count
Size == (head + Wrap - tail) % Wrap

\* Mutant: one element too many fits.
BugFull == Size > Count

Full == Size >= Count

Idle == [at |-> "idle", item |-> None]

Init ==
    /\ head = 0 /\ tail = 0
    /\ slots = [i \in 0..(Count - 1) |-> None]
    /\ prod = Idle /\ cons = Idle
    /\ taken = None

(* The producer's own index and the consumer's as last published; a full
   ring refuses the element, which is then lost to the caller. *)
PushCheck(e) ==
    /\ prod.at = "idle" /\ ~Full
    /\ prod' = [at |-> "copy", item |-> e]
    /\ UNCHANGED <<head, tail, slots, cons, taken>>

PushCopy ==
    /\ prod.at = "copy"
    /\ slots' = [slots EXCEPT ![Index(head)] = prod.item]
    /\ prod' = [prod EXCEPT !.at = "publish"]
    /\ UNCHANGED <<head, tail, cons, taken>>

PushPublish ==
    /\ prod.at = "publish"
    /\ head' = (head + 1) % Wrap
    /\ prod' = Idle
    /\ UNCHANGED <<tail, slots, cons, taken>>

PopCheck ==
    /\ cons.at = "idle" /\ tail # head
    /\ cons' = [cons EXCEPT !.at = "copy"]
    /\ UNCHANGED <<head, tail, slots, prod, taken>>

PopCopy ==
    /\ cons.at = "copy"
    /\ cons' = [at |-> "publish", item |-> slots[Index(tail)]]
    /\ UNCHANGED <<head, tail, slots, prod, taken>>

PopPublish ==
    /\ cons.at = "publish"
    /\ tail' = (tail + 1) % Wrap
    /\ taken' = cons.item
    /\ cons' = Idle
    /\ UNCHANGED <<head, slots, prod>>

Next ==
    \/ \E e \in Items : PushCheck(e)
    \/ PushCopy \/ PushPublish
    \/ PopCheck \/ PopCopy \/ PopPublish

Spec == Init /\ [][Next]_vars

(* The types of the variables. *)
TypeOK ==
    /\ head \in 0..(Wrap - 1) /\ tail \in 0..(Wrap - 1)
    /\ slots \in [0..(Count - 1) -> Items \cup {None}]
    /\ prod \in [at : {"idle", "copy", "publish"}, item : Items \cup {None}]
    /\ cons \in [at : {"idle", "copy", "publish"}, item : Items \cup {None}]
    /\ taken \in Items \cup {None}

(* The two threads never copy into and out of one slot at the same time, at
   any position of the indices, their wrap included: a slot is the producer's
   until its index is published and the consumer's until its own is. *)
NoTornCopy ==
    prod.at = "copy" /\ cons.at = "copy" => Index(head) # Index(tail)

(* The ring implements the bounded queue: nothing is lost, doubled, reordered
   or read before it has been written. *)
Contents == [i \in 1..Size |-> slots[Index(tail + i - 1)]]
Fifo == INSTANCE BoundedFifo WITH queue <- Contents, Capacity <- Count
FifoSpec == Fifo!Spec

(* What both ends of a ring rely on, as one property. *)
RingIsFifo == [](TypeOK /\ NoTornCopy) /\ FifoSpec
=============================================================================
