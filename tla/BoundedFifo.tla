----------------------------- MODULE BoundedFifo -----------------------------
(***************************************************************************)
(* What app/comm/ringbuffer.h promises of a ring: elements come out once   *)
(* each and in the order in which they went in, and never more than        *)
(* Capacity of them are inside.                                            *)
(***************************************************************************)
EXTENDS Naturals, Sequences

CONSTANTS Items, Capacity, None

VARIABLES queue, \* the elements inside, oldest first
          taken  \* the element the last pop returned

Init == queue = <<>> /\ taken = None

Push(e) ==
    /\ Len(queue) < Capacity
    /\ queue' = Append(queue, e)
    /\ UNCHANGED taken

Pop ==
    /\ queue # <<>>
    /\ taken' = Head(queue)
    /\ queue' = Tail(queue)

Next == Pop \/ \E e \in Items : Push(e)

Spec == Init /\ [][Next]_<<queue, taken>>
=============================================================================
