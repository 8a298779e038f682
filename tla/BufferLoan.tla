----------------------------- MODULE BufferLoan -----------------------------
(***************************************************************************)
(* What the zero-copy pipeline needs from a buffer pool, without counts,   *)
(* lists or locks: an image slot is lent to one producer, shared by its    *)
(* readers, and lent again only after the last of them has returned it.    *)
(* The header src/app/pipeline/buffer_pool.h promises this to the capture, *)
(* the RGA, the display and the OCR stages.                                *)
(***************************************************************************)
EXTENDS FiniteSets

CONSTANTS Holders, Slots

VARIABLES
    shelf,   \* slots nobody borrows: they may be lent, or closed
    out,     \* slots lent out, or not yet taken back
    held     \* held[h]: slots h may read or write

vars == <<shelf, out, held>>

Borrowers(s) == {h \in Holders : s \in held[h]}

Init ==
    /\ shelf = {}
    /\ out = {}
    /\ held = [h \in Holders |-> {}]

\* A new slot joins the pool.
Stock(s) ==
    /\ s \notin shelf \cup out
    /\ shelf' = shelf \cup {s}
    /\ UNCHANGED <<out, held>>

\* Only a slot nobody borrows is lent, and to one holder.
Lend(h, s) ==
    /\ s \in shelf
    /\ Borrowers(s) = {}
    /\ shelf' = shelf \ {s}
    /\ out' = out \cup {s}
    /\ held' = [held EXCEPT ![h] = @ \cup {s}]

\* One who borrows a slot lets another share it.
Share(k, s) ==
    /\ Borrowers(s) # {}
    /\ held' = [held EXCEPT ![k] = @ \cup {s}]
    /\ UNCHANGED <<shelf, out>>

Move(h, k, s) ==
    /\ s \in held[h]
    /\ held' = [held EXCEPT ![h] = @ \ {s}, ![k] = @ \cup {s}]
    /\ UNCHANGED <<shelf, out>>

Return(h, s) ==
    /\ s \in held[h]
    /\ held' = [held EXCEPT ![h] = @ \ {s}]
    /\ UNCHANGED <<shelf, out>>

\* A slot goes back on the shelf when its last borrower has returned it.
TakeBack(s) ==
    /\ s \in out
    /\ Borrowers(s) = {}
    /\ out' = out \ {s}
    /\ shelf' = shelf \cup {s}
    /\ UNCHANGED held

\* The pool closes with every slot on the shelf.
Close ==
    /\ out = {}
    /\ shelf' = {}
    /\ UNCHANGED <<out, held>>

Next ==
    \/ Close
    \/ \E s \in Slots :
         \/ Stock(s) \/ TakeBack(s)
         \/ \E h \in Holders :
              \/ Lend(h, s) \/ Share(h, s) \/ Return(h, s)
              \/ \E k \in Holders \ {h} : Move(h, k, s)

Spec == Init /\ [][Next]_vars
=============================================================================
