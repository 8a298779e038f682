---------------------------- MODULE ReadingOrder -----------------------------
(***************************************************************************)
(* ocr_sort_boxes (src/app/ai/ocr_postproc.c): the boxes found are sorted  *)
(* by height on the page, cut into rows by a running mean, and each row is *)
(* sorted from left to right.  The detector finds them in an order that    *)
(* says nothing, and sorts twice, before and after it scales them          *)
(* (src/app/ai/ocr_det.c).  A box of the page is named by its place in the *)
(* list as it was found.                                                   *)
(***************************************************************************)
EXTENDS Integers, Sequences, FiniteSets, SequencesExt, FiniteSetsExt

CONSTANTS PageBoxes,   \* records [x, y, h, valid]: centre, height, flag
          MaxFound     \* bound: boxes in the list

ASSUME OrderAssumption ==
  /\ PageBoxes \subseteq [x : Int, y : Int, h : Nat \ {0}, valid : BOOLEAN]
  /\ MaxFound \in Nat

VARIABLES list,                  \* the list as it was found
          page,                  \* places in list, in the order made so far
          item,                  \* the box that is looked at or inserted next
          rowBegin, rowEnd, centreSum, heightSum, orderPc,
          begins                 \* history: where each row begins
row == <<rowBegin, rowEnd, centreSum, heightSum, begins>>
orderVars == <<list, page, item, row, orderPc>>

BoxAt(k) == list[page[k]]

OrderInit ==
  /\ list \in SeqOf(PageBoxes, MaxFound)
  /\ page = <<>> /\ item = 1
  /\ rowBegin = 1 /\ rowEnd = 1 /\ centreSum = 0 /\ heightSum = 0
  /\ begins = {} /\ orderPc = "valid"

KeepValid ==
  /\ orderPc = "valid" /\ item <= Len(list)
  /\ page' = IF list[item].valid THEN Append(page, item) ELSE page
  /\ item' = item + 1
  /\ UNCHANGED <<list, row, orderPc>>

ValidKept ==
  /\ orderPc = "valid" /\ item > Len(list)
  /\ orderPc' = IF Len(page) < 2 THEN "done" ELSE "y"
  /\ item' = 2
  /\ UNCHANGED <<list, page, row>>

\* The inner loop of insertion_sort_y and insertion_sort_x: down to place from,
\* the item passes the boxes that are greater, so equal ones keep their order.
Inserted(key, from) ==
  LET to == Min({k \in from..item :
                   \A j \in k..(item - 1) : BoxAt(j)[key] > BoxAt(item)[key]})
  IN  [k \in 1..Len(page) |-> IF k = to THEN page[item]
                              ELSE IF k \in (to + 1)..item THEN page[k - 1]
                              ELSE page[k]]

InsertY ==
  /\ orderPc = "y" /\ item <= Len(page)
  /\ page' = Inserted("y", 1) /\ item' = item + 1
  /\ UNCHANGED <<list, row, orderPc>>
YSorted ==
  /\ orderPc = "y" /\ item > Len(page)
  /\ rowBegin' = 1 /\ orderPc' = "row"
  /\ UNCHANGED <<list, page, item, rowEnd, centreSum, heightSum, begins>>

BeginRow ==
  /\ orderPc = "row" /\ rowBegin <= Len(page)
  /\ rowEnd' = rowBegin + 1
  /\ centreSum' = BoxAt(rowBegin).y /\ heightSum' = BoxAt(rowBegin).h
  /\ begins' = begins \cup {rowBegin} /\ orderPc' = "grow"
  /\ UNCHANGED <<list, page, item, rowBegin>>

\* A box belongs to a row of n when its centre is within half the row's mean
\* height of the row's mean centre, and always within three pixels; all
\* multiplied by twice the row's length.
InRow(n, centres, heights, b) ==
  \A d \in {n * b.y - centres, centres - n * b.y} :
    2 * d <= 6 * n \/ 2 * d <= heights

RowGoesOn == rowEnd <= Len(page)
             /\ InRow(rowEnd - rowBegin, centreSum, heightSum, BoxAt(rowEnd))
GrowRow ==
  /\ orderPc = "grow" /\ RowGoesOn
  /\ centreSum' = centreSum + BoxAt(rowEnd).y
  /\ heightSum' = heightSum + BoxAt(rowEnd).h
  /\ rowEnd' = rowEnd + 1
  /\ UNCHANGED <<list, page, item, rowBegin, orderPc, begins>>
EndRow ==
  /\ orderPc = "grow" /\ ~RowGoesOn
  /\ item' = rowBegin + 1 /\ orderPc' = "x"
  /\ UNCHANGED <<list, page, row>>

\* Mutant: a row is sorted as if it were the whole page.
BugRowStart == 1
RowStart == rowBegin
InsertX ==
  /\ orderPc = "x" /\ item < rowEnd
  /\ page' = Inserted("x", RowStart) /\ item' = item + 1
  /\ UNCHANGED <<list, row, orderPc>>
XSorted ==
  /\ orderPc = "x" /\ item >= rowEnd
  /\ rowBegin' = rowEnd /\ orderPc' = "row"
  /\ UNCHANGED <<list, page, item, rowEnd, centreSum, heightSum, begins>>

EndPage ==
  /\ orderPc = "row" /\ rowBegin > Len(page)
  /\ orderPc' = "done" /\ UNCHANGED <<list, page, item, row>>

OrderNext == KeepValid \/ ValidKept \/ InsertY \/ YSorted \/ BeginRow
             \/ GrowRow \/ EndRow \/ InsertX \/ XSorted \/ EndPage
OrderSpec == OrderInit /\ [][OrderNext]_orderVars

---------------------------------------------------------------------------
\* The valid boxes are all there once; what stands in a row goes from left to
\* right, and no box of a later row lies higher than one of an earlier row.
PageInOrder ==
  orderPc = "done" =>
    /\ IsInjective(page)
    /\ ToSet(page) = {i \in 1..Len(list) : list[i].valid}
    /\ \A j, k \in 1..Len(page) : j < k =>
         IF \E b \in begins : j < b /\ b <= k
         THEN BoxAt(j).y <= BoxAt(k).y
         ELSE BoxAt(j).x <= BoxAt(k).x

\* An order of the page by its definition: a cut into rows, each row read from
\* left to right and before every lower one; down the page a box belongs to
\* the row of those above it, and the first of a row not to the row before.
\* Only boxes with one centre are told apart by where they were found.
ComesFirst(s, t) ==
  \E k \in 1..3 : s[k] < t[k] /\ \A l \in 1..(k - 1) : s[l] = t[l]
IsReadingOrder(q) ==
  LET B(k) == list[q[k]]
      Down(j, k) ==
        ComesFirst(<<B(j).y, B(j).x, q[j]>>, <<B(k).y, B(k).x, q[k]>>)
      Across(j, k) ==
        ComesFirst(<<B(j).x, B(j).y, q[j]>>, <<B(k).x, B(k).y, q[k]>>)
      Fits(S, k) == InRow(Cardinality(S), MapThenSumSet(LAMBDA j : B(j).y, S),
                          MapThenSumSet(LAMBDA j : B(j).h, S), B(k))
  IN  \E cut \in SUBSET (2..Len(q)) :
        LET Row(k) == {j \in 1..Len(q) : \A b \in cut : b <= j <=> b <= k}
            Above(k) == {j \in Row(k) : Down(j, k)}
        IN  \A k \in 1..Len(q) :
              /\ \A j \in 1..(k - 1) :
                   IF j \in Row(k) THEN Across(j, k) ELSE Down(j, k)
              /\ IF Above(k) # {} THEN Fits(Above(k), k)
                 ELSE Min(Row(k)) > 1 => ~Fits(Row(Min(Row(k)) - 1), k)

\* What the code makes is such an order, and it is the only one: so the order
\* in which boxes with different centres were found has no influence, and
\* sorting again changes nothing.
OrderOfThePage ==
  orderPc = "done" =>
    {q \in [1..Len(page) -> ToSet(page)] : IsInjective(q) /\ IsReadingOrder(q)}
      = {page}
=============================================================================
