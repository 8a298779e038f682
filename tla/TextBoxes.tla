------------------------------ MODULE TextBoxes ------------------------------
(***************************************************************************)
(* Detection of text boxes (src/app/ai/ocr_postproc.c): the connected      *)
(* regions of the probability map are flooded one after the other, the     *)
(* best of them kept in a list of fixed length, and the list brought into  *)
(* reading order.  A region's score and its box are data: any score, the   *)
(* box as its pixels.                                                      *)
(***************************************************************************)
EXTENDS Integers, Sequences, FiniteSets, SequencesExt

CONSTANTS Width, Height,
          Maps,       \* the sets of pixels above the threshold to look at
          Scores,     \* mean probabilities; 0 is below box_thresh
          MaxBoxes    \* OCR_MAX_TEXT_BOXES

Pixels == 0..(Width * Height - 1)

ASSUME DetAssumption ==
  /\ Width \in Nat \ {0} /\ Height \in Nat \ {0}
  /\ Maps \subseteq SUBSET Pixels
  /\ Scores \subseteq Nat /\ MaxBoxes \in Nat \ {0}

X(p) == p % Width
Y(p) == p \div Width

VARIABLES map, binary, seed, queue, head, boxes,
          dropped   \* history: boxes that found no place in the list
detVars == <<map, binary, seed, queue, head, boxes, dropped>>

DetInit ==
  /\ map \in Maps /\ binary = map
  /\ seed = 0 /\ queue = <<>> /\ head = 1
  /\ boxes = <<>> /\ dropped = <<>>

Near(p, q) == /\ p # q
              /\ X(p) - X(q) \in -1..1 /\ Y(p) - Y(q) \in -1..1

Flooding == queue # <<>>

NextSeed ==
  /\ ~Flooding /\ seed \in Pixels
  /\ IF seed \in binary
     THEN queue' = <<seed>> /\ head' = 1 /\ binary' = binary \ {seed}
     ELSE UNCHANGED <<queue, head, binary>>
  /\ seed' = seed + 1
  /\ UNCHANGED <<map, boxes, dropped>>

\* A pixel is taken off the map when it enters the queue.
Marked(new) == binary \ new

\* The neighbours enter the queue one after the other; nothing depends on
\* their order.
Visit ==
  /\ Flooding /\ head <= Len(queue)
  /\ LET new == {q \in binary : Near(queue[head], q)}
     IN  queue' = queue \o SetToSeq(new) /\ binary' = Marked(new)
  /\ head' = head + 1
  /\ UNCHANGED <<map, seed, boxes, dropped>>

\* keep_best_box: a full list gives up its lowest box, if that is lower.
Lowest == CHOOSE i \in 1..Len(boxes) :
            \A j \in 1..Len(boxes) : /\ boxes[i].score <= boxes[j].score
                                     /\ j < i => boxes[i].score < boxes[j].score
Victim == Lowest

Keep(b) ==
  IF Len(boxes) < MaxBoxes
  THEN boxes' = Append(boxes, b) /\ UNCHANGED dropped
  ELSE IF b.score > boxes[Victim].score
  THEN /\ boxes' = [boxes EXCEPT ![Victim] = b]
       /\ dropped' = Append(dropped, boxes[Victim])
  ELSE dropped' = Append(dropped, b) /\ UNCHANGED boxes

\* Regions of fewer than three pixels are noise.
CloseRegion ==
  /\ Flooding /\ head > Len(queue)
  /\ queue' = <<>>
  /\ \E score \in Scores :
       IF Len(queue) < 3 \/ score = 0
       THEN UNCHANGED <<boxes, dropped>>
       ELSE Keep([pixels |-> ToSet(queue), score |-> score])
  /\ UNCHANGED <<map, binary, seed, head>>

DetNext == NextSeed \/ Visit \/ CloseRegion
DetSpec == DetInit /\ [][DetNext]_detVars

---------------------------------------------------------------------------
\* A region by its definition: closed under neighbourhood within the map,
\* and connected: no proper part of it is closed.
Closed(S) == \A p \in S : {q \in map : Near(p, q)} \subseteq S
IsRegion(S) ==
  /\ S \subseteq map /\ S # {} /\ Closed(S)
  /\ \A T \in SUBSET S : T \notin {{}, S} => ~Closed(T)

\* The work queue of one entry per pixel never overflows because no pixel
\* enters it twice; every box is one whole region; the boxes that found no
\* place are not better than the ones that were kept; and a scan that ends
\* has looked at every pixel of the map.
RegionsWhole ==
  /\ IsInjective(queue)
  /\ \A i \in 1..Len(boxes) : IsRegion(boxes[i].pixels)
  /\ \A i, j \in 1..Len(boxes) : i # j =>
       boxes[i].pixels \cap boxes[j].pixels = {}
  /\ \A i \in 1..Len(boxes), j \in 1..Len(dropped) :
       boxes[i].score >= dropped[j].score
  /\ seed \notin Pixels => binary = {}
=============================================================================
