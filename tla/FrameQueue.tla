----------------------------- MODULE FrameQueue -----------------------------
(***************************************************************************)
(* What a pipeline node promises its producers (src/app/pipeline/node.h):  *)
(* frames are served one at a time in the order they were accepted; a full *)
(* queue gives up its oldest frame, never the new one; a node that only    *)
(* accepts when idle takes no frame while it has one.                      *)
(***************************************************************************)
EXTENDS Naturals, Sequences

CONSTANTS Frames, NoFrame, Depth

VARIABLES waiting, current, idleOnly

vars == <<waiting, current, idleOnly>>

Init == waiting = << >> /\ current = NoFrame /\ idleOnly = FALSE

Accept(f) ==
    /\ idleOnly => waiting = << >> /\ current = NoFrame
    /\ waiting' = Append(IF Len(waiting) = Depth THEN Tail(waiting) ELSE waiting, f)
    /\ UNCHANGED <<current, idleOnly>>

Serve ==
    /\ current = NoFrame
    /\ waiting # << >>
    /\ current' = Head(waiting)
    /\ waiting' = Tail(waiting)
    /\ UNCHANGED idleOnly

Finish ==
    /\ current # NoFrame
    /\ current' = NoFrame
    /\ UNCHANGED <<waiting, idleOnly>>

\* The node is destroyed: frames never served are given back.
Discard ==
    /\ current = NoFrame
    /\ waiting' = << >>
    /\ UNCHANGED <<current, idleOnly>>

Configure ==
    /\ current = NoFrame
    /\ idleOnly' \in BOOLEAN
    /\ UNCHANGED <<waiting, current>>

Next == (\E f \in Frames : Accept(f)) \/ Serve \/ Finish \/ Discard \/ Configure

Spec == Init /\ [][Next]_vars
=============================================================================
