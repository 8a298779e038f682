---------------------------- MODULE LiveViewProofs ---------------------------
(***************************************************************************)
(* Proofs about LiveView, for any set of texts: what is on the screen is   *)
(* never half drawn, and cleanup destroys nothing that is in use.          *)
(***************************************************************************)
EXTENDS LiveView, TLAPS

\* As long as the overlay is usable the display thread draws into the buffer that
\* is neither on the plane nor queued for it; only in its wait is that buffer
\* queued, or on the plane already.
DrawnUnseen ==
    usable => IF dpc = "vblank" THEN IF pending = Off THEN scan = draw ELSE pending = draw
                                ELSE pending = Off /\ scan # draw

\* Only the buffer to draw into can be half drawn, between clear and render.
OnlyDrawnTorn ==
    \A i \in {0, 1} : canvas[i] = Torn => usable /\ i = draw /\ dpc = "render"

\* Cleanup is past a join only when the thread has ended, and destroys in order.
Joined ==
    /\ mpc \notin {"run", "joinKey"} => kpc = "exited"
    /\ mpc \notin {"run", "joinKey", "joinOcr"} => opc = "exited"
    /\ mpc \notin {"run", "joinKey", "joinOcr", "joinDisplay"} => dpc = "exited"
    /\ ~overlay => mpc \in {"session", "done"} /\ scan = Off /\ pending = Off
    /\ ~session => mpc = "done"

\* The inductive invariant.
IInv == TypeOK /\ DrawnUnseen /\ OnlyDrawnTorn /\ Joined

-----------------------------------------------------------------------------
\* At first nothing is on the plane and nobody has ended.
LEMMA InitIInv == Init => IInv
<1>. SUFFICES ASSUME Init
              PROVE  IInv
    OBVIOUS
<1>1. /\ [text |-> text, status |-> status] \in Contents
      /\ Blank \in Contents /\ Blank # Torn
    BY NoTextAssumption DEF Init, Contents, Blank, Torn
<1>2. TypeOK
    BY <1>1 DEF Init, TypeOK
<1>3. OnlyDrawnTorn
    BY <1>1 DEF Init, OnlyDrawnTorn
<1>. QED
    BY <1>2, <1>3 DEF Init, IInv, DrawnUnseen, Joined, Off

\* The key thread and the OCR thread do not touch the planes, and end only in
\* their last steps.
LEMMA KeyAndOcrKeepIInv ==
    ASSUME IInv,
           \/ KeyDown \/ Request \/ KeyExit
           \/ OcrStep \/ RecogniseFails \/ (\E t \in Texts : Recognise(t))
    PROVE  IInv'
<1>. USE DEF IInv, DrawnUnseen, OnlyDrawnTorn, Joined, planes, published, resources
<1>1. CASE KeyDown
    BY <1>1 DEF KeyDown, TypeOK
<1>2. CASE Request
    BY <1>2 DEF Request, TypeOK
<1>3. CASE KeyExit
    BY <1>3 DEF KeyExit, TypeOK
<1>4. CASE OcrTake
    BY <1>4 DEF OcrTake, TypeOK
<1>5. CASE TakeRequest
    BY <1>5 DEF TakeRequest, TypeOK
<1>6. CASE Save
  <2>1. /\ unseen' \in BOOLEAN /\ since' \in BOOLEAN
        /\ [text |-> text', status |-> status'] \in Contents
      BY <1>6 DEF Save, NewGeneration, TypeOK, Contents
  <2>. QED
      BY <1>6, <2>1 DEF Save, TypeOK
<1>7. CASE OcrExit
    BY <1>7 DEF OcrExit, TypeOK
<1>8. CASE RecogniseFails
    BY <1>8 DEF RecogniseFails, TypeOK
<1>9. ASSUME NEW t \in Texts, Recognise(t)
      PROVE  IInv'
  <2>1. /\ unseen' \in BOOLEAN /\ since' \in BOOLEAN
        /\ [text |-> text', status |-> status'] \in Contents
      BY <1>9 DEF Recognise, NewGeneration, TypeOK, Contents
  <2>. QED
      BY <1>9, <2>1 DEF Recognise, TypeOK
<1>. QED
    BY <1>1, <1>2, <1>3, <1>4, <1>5, <1>6, <1>7, <1>8, <1>9 DEF OcrStep

\* The display thread draws where nobody looks, and changes the buffers over
\* only when the other one is on the plane.
LEMMA DisplayKeepsIInv ==
    ASSUME IInv, DisplayStep \/ Erase \/ Commit \/ CommitFails \/ VblankFails \/ Latch
    PROVE  IInv'
<1>. USE DEF IInv, DrawnUnseen, OnlyDrawnTorn, Joined, planes, published, resources
<1>1. CASE Snapshot
    BY <1>1 DEF Snapshot, TypeOK
<1>2. CASE Erase
  <2>1. [text |-> text', status |-> status'] \in Contents /\ snap' \in Contents
      BY <1>2 DEF Erase, TypeOK, Contents
  <2>. QED
      BY <1>2, <2>1 DEF Erase, TypeOK
<1>3. CASE Clear
    BY <1>3 DEF Clear, TypeOK
<1>4. CASE Render
  <2>1. Blank \in Contents /\ snap # Torn
      BY NoTextAssumption DEF TypeOK, Contents, Blank, Torn
  <2>. QED
      BY <1>4, <2>1 DEF Render, TypeOK
<1>5. CASE Commit
    BY <1>5 DEF Commit, TypeOK, Off
<1>6. CASE CommitFails
    BY <1>6 DEF CommitFails, TypeOK
<1>7. CASE Latch
    BY <1>7 DEF Latch, TypeOK, Off
<1>8. CASE Swap
    BY <1>8 DEF Swap, Other, TypeOK, Off
<1>9. CASE VblankFails
    BY <1>9 DEF VblankFails, TypeOK
<1>10. CASE Record
    BY <1>10 DEF Record, TypeOK
<1>11. CASE DisplayExit
    BY <1>11 DEF DisplayExit, TypeOK
<1>. QED
    BY <1>1, <1>2, <1>3, <1>4, <1>5, <1>6, <1>7, <1>8, <1>9, <1>10, <1>11
       DEF DisplayStep

\* Cleanup waits for each thread before it goes on.
LEMMA CleanupKeepsIInv ==
    ASSUME IInv, StopKey \/ Shutdown
    PROVE  IInv'
<1>. USE DEF IInv, DrawnUnseen, OnlyDrawnTorn, Joined, planes, published, resources
<1>1. CASE StopKey
    BY <1>1 DEF StopKey, TypeOK
<1>2. CASE JoinKey
    BY <1>2 DEF JoinKey, TypeOK
<1>3. CASE JoinOcr
    BY <1>3 DEF JoinOcr, TypeOK
<1>4. CASE JoinDisplay
    BY <1>4 DEF JoinDisplay, TypeOK
<1>5. CASE OverlayDestroy
    BY <1>5 DEF OverlayDestroy, TypeOK
<1>6. CASE OverlayStays
    BY <1>6 DEF OverlayStays, TypeOK
<1>7. CASE SessionDestroy
    BY <1>7 DEF SessionDestroy, TypeOK
<1>. QED
    BY <1>1, <1>2, <1>3, <1>4, <1>5, <1>6, <1>7 DEF Shutdown

\* Every step keeps the inductive invariant, a stuttering step trivially.
LEMMA StepIInv == IInv /\ [Next]_vars => IInv'
<1>1. CASE Next
    BY <1>1, KeyAndOcrKeepIInv, DisplayKeepsIInv, CleanupKeepsIInv DEF Next
<1>2. CASE UNCHANGED vars
    BY <1>2 DEF vars, published, planes, resources, IInv, TypeOK, DrawnUnseen,
                OnlyDrawnTorn, Joined
<1>. QED
    BY <1>1, <1>2

\* The inductive invariant holds in every reachable state.
THEOREM ViewInvariance == Spec => []IInv
BY InitIInv, StepIInv, PTL DEF Spec

-----------------------------------------------------------------------------
\* The user never sees a half-drawn overlay, whatever fails and whenever the
\* update takes effect (ocr_overlay_commit, drm_overlay.c).
THEOREM ViewIsSound == Spec => []ViewSound
<1>1. IInv => ViewSound
    BY DEF IInv, TypeOK, DrawnUnseen, OnlyDrawnTorn, ViewSound, ShownIsWhole, Off
<1>. QED
    BY <1>1, ViewInvariance, PTL

\* No thread comes back to what cleanup has destroyed (cleanup, main.c).
THEOREM ResourcesAreSafe == Spec => []ResourcesOutliveUsers
<1>1. IInv => ResourcesOutliveUsers
    BY DEF IInv, Joined, ResourcesOutliveUsers
<1>. QED
    BY <1>1, ViewInvariance, PTL
=============================================================================
