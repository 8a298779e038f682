------------------------------- MODULE LiveView ------------------------------
(***************************************************************************)
(* What the user sees and keeps of the recognised text: the overlay that   *)
(* the OCR thread publishes and the display thread draws and shows, and    *)
(* the photo that a key press asks for (main.c, display/drm_overlay.c,     *)
(* input/key_event.c, input/capture_session.c), up to cleanup.             *)
(*                                                                         *)
(* The sections under g_overlay_state.lock are single steps.  generation   *)
(* and presented_generation are 64-bit counters that the program only      *)
(* compares with each other; unseen says that they differ and since that   *)
(* generation has grown after the snapshot in work was taken.  The frames  *)
(* themselves are in FrameFlow: here a worker can always get one.          *)
(***************************************************************************)
EXTENDS Integers

CONSTANTS
    Texts,       \* results of a recognition, with their translations
    NoText       \* the result without any text, and what there is at first

ASSUME NoTextAssumption == NoText \in Texts

\* A photo's notice, "saved" or "save failed", comes and goes in the same way.
Contents == [text : Texts, status : {"none", "photo"}]
Blank == [text |-> NoText, status |-> "none"]
Torn == [text |-> NoText, status |-> "torn"]   \* a canvas cleared or half drawn
Off == -1           \* no buffer: the plane is off, no update is queued

VARIABLES
    text, status,     \* g_overlay_state; its status has been up long enough
    unseen, since,         \* see above
    snap,                  \* snapshot of display_process
    canvas, draw, usable,  \* overlay: pixels of both buffers, draw_index, initialized
    scan, pending,         \* hardware: buffer on the overlay plane, queued update
    dpc, opc, kpc, mpc,    \* display, OCR, key and main thread: steps
    request,               \* sess->pending
    listening, stopping,   \* ke->running; the nodes were told to stop
    overlay, session       \* the overlay's and the session's resources exist

published == <<text, status, unseen, since>>
planes == <<canvas, draw, usable, scan, pending>>
resources == <<overlay, session>>
vars == <<published, snap, planes, dpc, opc, kpc, mpc, request, listening, stopping, resources>>

\* The nodes and the key thread have been started.
Init ==
    /\ text = NoText /\ status = "none"
    /\ unseen = FALSE /\ since = FALSE
    /\ snap = Blank
    /\ canvas = [i \in {0, 1} |-> Blank] /\ draw = 0 /\ usable = TRUE
    /\ scan = Off /\ pending = Off
    /\ dpc = "present" /\ opc = "idle" /\ kpc = "poll" /\ mpc = "run"
    /\ request = FALSE /\ listening = TRUE /\ stopping = {}
    /\ overlay = TRUE /\ session = TRUE

-----------------------------------------------------------------------------
(* The key thread, key_thread with ocr_capture_session_on_key. *)

\* The camera key goes down; its release and other keys do nothing.
KeyDown ==
    /\ kpc = "poll" /\ listening
    /\ kpc' = "callback"
    /\ UNCHANGED <<published, snap, planes, dpc, opc, mpc, request, listening, stopping,
                   resources>>

\* ocr_capture_session_request: presses before the next photo are one request.
Request ==
    /\ kpc = "callback"
    /\ request' = TRUE
    /\ kpc' = "poll"
    /\ UNCHANGED <<published, snap, planes, dpc, opc, mpc, listening, stopping, resources>>

\* Told to stop, or the input device failed.
KeyExit ==
    /\ kpc = "poll"
    /\ listening' = FALSE
    /\ kpc' = "exited"
    /\ UNCHANGED <<published, snap, planes, dpc, opc, mpc, request, stopping, resources>>

-----------------------------------------------------------------------------
(* The OCR worker, ocr_process. *)

\* Mutant: the request is taken before the frame has been recognised.
BugOcrTake ==
    /\ opc = "idle" /\ "ocr" \notin stopping
    /\ request' = FALSE
    /\ opc' = "work"
    /\ UNCHANGED <<published, snap, planes, dpc, kpc, mpc, listening, stopping, resources>>

OcrTake ==
    /\ opc = "idle" /\ "ocr" \notin stopping
    /\ opc' = "work"
    /\ UNCHANGED <<published, snap, planes, dpc, kpc, mpc, request, listening, stopping,
                   resources>>

\* Detection, allocation or recognition failed: the callback returns at once.
RecogniseFails ==
    /\ opc = "work"
    /\ opc' = "idle"
    /\ UNCHANGED <<published, snap, planes, dpc, kpc, mpc, request, listening, stopping,
                   resources>>

\* ++generation
NewGeneration ==
    /\ unseen' = TRUE
    /\ since' = (dpc \notin {"present", "exited"})

\* publish_overlay
Recognise(t) ==
    /\ opc = "work"
    /\ text' = t
    /\ NewGeneration
    /\ opc' = "take"
    /\ UNCHANGED <<status, snap, planes, dpc, kpc, mpc, request, listening, stopping,
                   resources>>

\* ocr_capture_session_take_request
TakeRequest ==
    /\ opc = "take"
    /\ request' = FALSE
    /\ opc' = IF request /\ session THEN "save" ELSE "idle"
    /\ UNCHANGED <<published, snap, planes, dpc, kpc, mpc, listening, stopping, resources>>

\* save_photo, which succeeds or fails, then publish_status for STATUS_SHOW_MS.
Save ==
    /\ opc = "save"
    /\ status' = "photo"
    /\ NewGeneration
    /\ opc' = "idle"
    /\ UNCHANGED <<text, snap, planes, dpc, kpc, mpc, request, listening, stopping, resources>>

OcrExit ==
    /\ opc = "idle" /\ "ocr" \in stopping
    /\ opc' = "exited"
    /\ UNCHANGED <<published, snap, planes, dpc, kpc, mpc, request, listening, stopping,
                   resources>>

-----------------------------------------------------------------------------
(* The display worker, display_process, once the frame itself is presented. *)

\* Mutant: a status that is over is cleared, but the overlay is not drawn again.
BugErase ==
    /\ dpc = "present" /\ "display" \notin stopping
    /\ status = "photo"
    /\ status' = "none"
    /\ UNCHANGED <<text, unseen, since, snap, planes, dpc, opc, kpc, mpc, request, listening,
                   stopping, resources>>

\* status_until_ms is over: clears the status and takes a snapshot without it.
Erase ==
    /\ dpc = "present" /\ "display" \notin stopping
    /\ status = "photo"
    /\ status' = "none"
    /\ unseen' = TRUE
    /\ snap' = [text |-> text, status |-> "none"]
    /\ dpc' = "clear"
    /\ UNCHANGED <<text, since, planes, opc, kpc, mpc, request, listening, stopping, resources>>

\* Copies what has not been shown yet; with nothing new the overlay stays.
Snapshot ==
    /\ dpc = "present" /\ "display" \notin stopping
    /\ unseen
    /\ snap' = [text |-> text, status |-> status]
    /\ dpc' = "clear"
    /\ UNCHANGED <<published, planes, opc, kpc, mpc, request, listening, stopping, resources>>

\* ocr_overlay_clear and ocr_overlay_render_text, the last to need the snapshot,
\* do nothing once not usable.
Clear ==
    /\ dpc = "clear"
    /\ canvas' = IF usable THEN [canvas EXCEPT ![draw] = Torn] ELSE canvas
    /\ dpc' = "render"
    /\ UNCHANGED <<published, snap, draw, usable, scan, pending, opc, kpc, mpc, request,
                   listening, stopping, resources>>

Render ==
    /\ dpc = "render"
    /\ canvas' = IF usable THEN [canvas EXCEPT ![draw] = snap] ELSE canvas
    /\ snap' = Blank
    /\ dpc' = "commit"
    /\ UNCHANGED <<published, draw, usable, scan, pending, opc, kpc, mpc, request,
                   listening, stopping, resources>>

\* ocr_overlay_commit: the plane update is queued ...
Commit ==
    /\ dpc = "commit"
    /\ usable
    /\ pending' = draw
    /\ dpc' = "vblank"
    /\ UNCHANGED <<published, snap, canvas, draw, usable, scan, opc, kpc, mpc, request,
                   listening, stopping, resources>>

\* ... or refused; what is unseen stays unseen.
CommitFails ==
    /\ dpc = "commit"
    /\ since' = FALSE
    /\ dpc' = "present"
    /\ UNCHANGED <<text, status, unseen, snap, planes, opc, kpc, mpc, request, listening, stopping,
                   resources>>

\* External, the display controller: the update takes effect.
Latch ==
    /\ pending # Off
    /\ scan' = pending
    /\ pending' = Off
    /\ UNCHANGED <<published, snap, canvas, draw, usable, dpc, opc, kpc, mpc, request,
                   listening, stopping, resources>>

Other(i) == 1 - i

\* Mutant: the buffers change places without waiting.
BugSwap ==
    /\ dpc = "vblank"
    /\ draw' = Other(draw)
    /\ dpc' = "record"
    /\ UNCHANGED <<published, snap, canvas, usable, scan, pending, opc, kpc, mpc, request,
                   listening, stopping, resources>>

\* wait_overlay_vblank: the update took effect, and the buffers change places.
Swap ==
    /\ dpc = "vblank"
    /\ pending = Off
    /\ draw' = Other(draw)
    /\ dpc' = "record"
    /\ UNCHANGED <<published, snap, canvas, usable, scan, pending, opc, kpc, mpc, request,
                   listening, stopping, resources>>

\* The wait failed: whether the update took effect is not known, and nothing is
\* drawn any more.
VblankFails ==
    /\ dpc = "vblank"
    /\ usable' = FALSE
    /\ since' = FALSE
    /\ dpc' = "present"
    /\ UNCHANGED <<text, status, unseen, snap, canvas, draw, scan, pending, opc, kpc, mpc, request,
                   listening, stopping, resources>>

\* Mutant: all that was published until now counts as presented.
BugRecord ==
    /\ dpc = "record"
    /\ unseen' = FALSE /\ since' = FALSE
    /\ dpc' = "present"
    /\ UNCHANGED <<text, status, snap, planes, opc, kpc, mpc, request, listening,
                   stopping, resources>>

\* presented_generation becomes that of the snapshot.
Record ==
    /\ dpc = "record"
    /\ unseen' = since /\ since' = FALSE
    /\ dpc' = "present"
    /\ UNCHANGED <<text, status, snap, planes, opc, kpc, mpc, request, listening,
                   stopping, resources>>

DisplayExit ==
    /\ dpc = "present" /\ "display" \in stopping
    /\ dpc' = "exited"
    /\ UNCHANGED <<published, snap, planes, opc, kpc, mpc, request, listening, stopping,
                   resources>>

-----------------------------------------------------------------------------
(* The main thread, cleanup. *)

\* ocr_key_event_stop
StopKey ==
    /\ mpc = "run"
    /\ listening' = FALSE
    /\ mpc' = "joinKey"
    /\ UNCHANGED <<published, snap, planes, dpc, opc, kpc, request, stopping, resources>>

\* Mutant: the key thread is not waited for.
BugJoinKey ==
    /\ mpc = "joinKey"
    /\ stopping' = {"ocr"}
    /\ mpc' = "joinOcr"
    /\ UNCHANGED <<published, snap, planes, dpc, opc, kpc, request, listening, resources>>

\* Then ocr_pipeline_stop, the last node first.
JoinKey ==
    /\ mpc = "joinKey"
    /\ kpc = "exited"
    /\ stopping' = {"ocr"}
    /\ mpc' = "joinOcr"
    /\ UNCHANGED <<published, snap, planes, dpc, opc, kpc, request, listening, resources>>

JoinOcr ==
    /\ mpc = "joinOcr"
    /\ opc = "exited"
    /\ stopping' = {"ocr", "display"}
    /\ mpc' = "joinDisplay"
    /\ UNCHANGED <<published, snap, planes, dpc, opc, kpc, request, listening, resources>>

JoinDisplay ==
    /\ mpc = "joinDisplay"
    /\ dpc = "exited"
    /\ mpc' = "overlay"
    /\ UNCHANGED <<published, snap, planes, dpc, opc, kpc, request, listening, stopping,
                   resources>>

\* ocr_overlay_destroy: removing a framebuffer takes it off the plane, even if
\* the plane could not be disabled before.
OverlayDestroy ==
    /\ mpc = "overlay"
    /\ scan' = Off /\ pending' = Off
    /\ usable' = FALSE
    /\ overlay' = FALSE
    /\ mpc' = "session"
    /\ UNCHANGED <<published, snap, canvas, draw, dpc, opc, kpc, request, listening, stopping,
                   session>>

\* A framebuffer cannot be removed: it stays, and so does all the rest.
OverlayStays ==
    /\ mpc = "overlay"
    /\ mpc' = "kept"
    /\ UNCHANGED <<published, snap, planes, dpc, opc, kpc, request, listening, stopping,
                   resources>>

SessionDestroy ==
    /\ mpc = "session"
    /\ session' = FALSE
    /\ request' = FALSE
    /\ mpc' = "done"
    /\ UNCHANGED <<published, snap, planes, dpc, opc, kpc, listening, stopping, overlay>>

-----------------------------------------------------------------------------
OcrStep == OcrTake \/ TakeRequest \/ Save \/ OcrExit
DisplayStep == Snapshot \/ Clear \/ Render \/ Swap \/ Record \/ DisplayExit
Shutdown ==
    JoinKey \/ JoinOcr \/ JoinDisplay \/ OverlayDestroy \/ OverlayStays \/ SessionDestroy

Next ==
    \/ KeyDown \/ Request \/ KeyExit
    \/ OcrStep \/ RecogniseFails \/ (\E t \in Texts : Recognise(t))
    \/ DisplayStep \/ Erase \/ Commit \/ CommitFails \/ VblankFails \/ Latch
    \/ StopKey \/ Shutdown

Spec == Init /\ [][Next]_vars

\* Frames keep coming to both workers, the controller works, time passes; plane
\* updates may fail but not for ever.  Recognition may always fail, and nobody has
\* to press a key.
Fairness ==
    /\ WF_vars(Request) /\ WF_vars(KeyExit /\ ~listening)
    /\ WF_vars(OcrStep) /\ WF_vars(RecogniseFails)
    /\ WF_vars(Latch)
    /\ WF_vars(DisplayStep) /\ WF_vars(CommitFails) /\ SF_vars(Commit) /\ SF_vars(Erase)
    /\ WF_vars(Shutdown)

FairSpec == Spec /\ Fairness

-----------------------------------------------------------------------------
\* Type invariant.
TypeOK ==
    /\ [text |-> text, status |-> status] \in Contents /\ snap \in Contents
    /\ {unseen, since, usable, request, listening, overlay, session} \subseteq BOOLEAN
    /\ canvas \in [{0, 1} -> Contents \cup {Torn}]
    /\ draw \in {0, 1} /\ {scan, pending} \subseteq {Off, 0, 1}
    /\ dpc \in {"present", "clear", "render", "commit", "vblank", "record", "exited"}
    /\ opc \in {"idle", "work", "take", "save", "exited"}
    /\ kpc \in {"poll", "callback", "exited"}
    /\ mpc \in {"run", "joinKey", "joinOcr", "joinDisplay", "overlay", "kept", "session", "done"}
    /\ stopping \subseteq {"ocr", "display"}

\* The overlay that is on the screen, or about to be, is never one that is being
\* drawn, not even after an update whose outcome is unknown (drm_overlay.c:191
\* and :202).
ShownIsWhole == \A i \in {scan, pending} \ {Off} : canvas[i] # Torn

\* The same together with the types of the variables.
ViewSound == TypeOK /\ ShownIsWhole

\* Running with a working overlay: what the liveness properties are about.
Live == usable /\ mpc = "run"

OnScreen == IF scan = Off THEN Blank ELSE canvas[scan]

\* A published text gets to the screen unless a newer one replaces it first: none
\* is swallowed that was published while another was being drawn (main.c:724).
NewestShown ==
    \A t \in Texts : text = t ~> OnScreen.text = t \/ text # t \/ ~Live

\* The status line of a photo does not stay on the screen, unless there is a
\* newer photo (main.c:687).
StatusErased ==
    OnScreen.status # "none" ~> OnScreen.status = "none" \/ opc = "save" \/ ~Live

\* Whenever the key is pressed there will be a photo if recognition ever succeeds:
\* one that fails does not use the request up (main.c:663).
PhotoTaken ==
    SF_vars(\E t \in Texts : Recognise(t)) => (kpc = "callback" ~> opc = "save" \/ mpc # "run")

\* No thread can come back to what cleanup has destroyed: the session's request
\* flag and font, the overlay's buffers, and the plane that scans them.
ResourcesOutliveUsers ==
    /\ ~session => kpc = "exited" /\ opc = "exited"
    /\ ~overlay => dpc = "exited" /\ scan = Off /\ pending = Off
=============================================================================
