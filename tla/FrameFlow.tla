----------------------------- MODULE FrameFlow ------------------------------
(***************************************************************************)
(* The video path that main.c assembles: the camera fills capture buffers, *)
(* the RGA node turns each into an output buffer, the display node puts    *)
(* that on the screen, and the OCR node, which accepts a frame only when   *)
(* idle, reads the same buffer for as long as it needs.                    *)
(*                                                                         *)
(* BufferPool and PipelineNode model one pool and one node step by step.   *)
(* Here a reference count changes in one step together with the recycling  *)
(* of a buffer nobody holds any more, as RecycledOnce proves it may, and a *)
(* node's critical sections are single steps.  What is modelled in full is *)
(* who holds which buffer when: the threads of main.c, the display         *)
(* controller that reads memory without a reference of its own, and the    *)
(* order in which cleanup takes the path apart.                            *)
(***************************************************************************)
EXTENDS Integers, Sequences, FiniteSets

CONSTANTS
    Captures,    \* buffers of the capture pool, filled by the camera
    Outputs,     \* buffers of g_output_pool, filled by the RGA
    None,        \* NULL
    Depth,       \* OCR_NODE_QUEUE_DEPTH
    MaxFrame,    \* bound: frame_id stops counting here
    WaitsMayFail,  \* poll or drmHandleEvent may fail
    QueueMayFail   \* the capture queue's QBUF and STREAMOFF may fail

ASSUME NoneAssumption == None \notin Captures \cup Outputs
ASSUME DisjointPools == Captures \cap Outputs = {}
ASSUME BoundsAssumption == Depth \in Nat \ {0} /\ MaxFrame \in Nat
ASSUME FailureAssumption == WaitsMayFail \in BOOLEAN /\ QueueMayFail \in BOOLEAN

Buffers == Captures \cup Outputs
Nodes == {"rga", "display", "ocr"}

VARIABLES
    refs, frameId,           \* per buffer: refcount, frame_id
    streaming,               \* the stream is on
    camera,                  \* buffers queued to the driver
    capRunning, queueError,  \* the camera's running, queue_error
    seq, latest,             \* frame_seq, latest_frame
    cpc, cbuf, cold,         \* capture thread: step, locals
    queue, running,          \* per node: in_queue, running
    rpc, rin, rout,          \* RGA worker: step, input, output
    dpc, din,                \* display worker: step, input
    current,                 \* sink->current
    scan, pending, flipOf,   \* hardware: buffer on screen, queued flip, whose
    events,                  \* DRM events not read: of the "live" or a "dead" wait
    faulted,                 \* history: waiting for a flip's event failed once
    opc, oin,                \* OCR worker: step, input
    mpc, mbuf                \* main thread: step, frame it looks at

feed == <<camera, capRunning, queueError>>
capture == <<seq, latest, cpc, cbuf, cold>>
rga == <<rpc, rin, rout>>
screen == <<current, scan, pending, flipOf, events, faulted>>
display == <<dpc, din>>
ocr == <<opc, oin>>
main == <<mpc, mbuf>>
vars == <<refs, frameId, feed, streaming, capture, queue, running, rga,
          screen, display, ocr, main>>

\* run_application has started the nodes and then the camera.
Init ==
    /\ refs = [b \in Buffers |-> 0]
    /\ frameId = [b \in Buffers |-> 0]
    /\ streaming = TRUE /\ camera = Captures
    /\ capRunning = TRUE /\ queueError = FALSE
    /\ seq = 0 /\ latest = None
    /\ cpc = "loop" /\ cbuf = None /\ cold = None
    /\ queue = [n \in Nodes |-> <<>>]
    /\ running = [n \in Nodes |-> TRUE]
    /\ rpc = "check" /\ rin = None /\ rout = None
    /\ dpc = "check" /\ din = None
    /\ current = None /\ scan = None /\ pending = None /\ flipOf = "live"
    /\ events = {} /\ faulted = FALSE
    /\ opc = "check" /\ oin = None
    /\ mpc = "run" /\ mbuf = None

-----------------------------------------------------------------------------
Plus(r, b) == [r EXCEPT ![b] = @ + 1]
Minus(r, b) == IF b = None THEN r ELSE [r EXCEPT ![b] = @ - 1]

\* Mutant: a failed QBUF goes unnoticed.
BugRecycle(freed) ==
    /\ \E lost \in SUBSET freed :
         camera' = IF streaming THEN camera \cup (freed \ lost) ELSE camera
    /\ UNCHANGED <<capRunning, queueError>>

\* capture_recycle of each capture buffer that comes free: while the stream is
\* on it is queued to the driver again.  The QBUF may fail for any of them; that
\* buffer is free and yet not with the driver, the queue is marked as broken and
\* the capture thread told to go.
Recycle(freed) ==
    \/ /\ ~streaming
       /\ UNCHANGED feed
    \/ /\ streaming
       /\ \E lost \in IF QueueMayFail THEN SUBSET freed ELSE {{}} :
            /\ camera' = camera \cup (freed \ lost)
            /\ queueError' = (queueError \/ lost # {})
            /\ capRunning' = (capRunning /\ lost = {})

\* ocr_buffer_ref and ocr_buffer_unref: the capture buffers nobody holds any more
\* are recycled.
SetRefs(r) ==
    /\ refs' = r
    /\ Recycle({a \in Captures : refs[a] > 0 /\ r[a] = 0})

\* Mutant: the OCR node queues frames like any other node.
BugBusy(n) == FALSE

\* ocr_node_push_input of an idle_only node: a frame waits or is in work.
Busy(n) == n = "ocr" /\ (opc = "read" \/ queue[n] # <<>>)

\* Mutant: one frame too many is let in.
BugFull(n) == Len(queue[n]) > Depth

Full(n) == Len(queue[n]) >= Depth

\* Mutant: frames are queued at the wrong end.
BugPushed(n, b) == <<b>> \o (IF Full(n) THEN Tail(queue[n]) ELSE queue[n])

Pushed(n, b) == Append(IF Full(n) THEN Tail(queue[n]) ELSE queue[n], b)

\* The frame a full queue gives up, whose reference is dropped.
Evicted(n) == IF Full(n) THEN Head(queue[n]) ELSE None

-----------------------------------------------------------------------------
(* The capture thread, v4l2_thread.  A damaged frame, which goes back at once, *)
(* is left to V4l2Capture. *)

\* DQBUF, the frame's number, its reference for latest_frame and the exchange.
\* running was set when the thread looked, before select: one more frame may
\* come after it has been cleared.
Dequeue(a) ==
    /\ cpc = "loop"
    /\ a \in camera
    /\ camera' = camera \ {a}
    /\ refs' = [refs EXCEPT ![a] = 2]
    /\ frameId' = [frameId EXCEPT ![a] = seq]
    /\ seq' = IF seq < MaxFrame THEN seq + 1 ELSE seq
    /\ cold' = latest
    /\ latest' = a
    /\ cbuf' = a
    /\ cpc' = "deliver"
    /\ UNCHANGED <<streaming, capRunning, queueError, queue, running, rga, screen,
                   display, ocr, main>>

\* The frame that was the latest is released outside latest_lock; then
\* capture_frame: the RGA node's queue takes the thread's reference over, and the
\* loop goes on if running is still set.
Deliver ==
    /\ cpc = "deliver"
    /\ queue' = [queue EXCEPT !["rga"] = Pushed("rga", cbuf)]
    /\ SetRefs(Minus(Minus(refs, cold), Evicted("rga")))
    /\ cbuf' = None /\ cold' = None
    /\ cpc' = IF capRunning' THEN "loop" ELSE "exited"
    /\ UNCHANGED <<frameId, streaming, seq, latest, running, rga, screen, display,
                   ocr, main>>

\* running was cleared, by main or by a requeueing that failed, or select or
\* DQBUF failed.  That DQBUF found no frame and the thread went round again
\* (EAGAIN) shows only here: it looks at running once more.
CaptureExit ==
    /\ cpc = "loop"
    /\ capRunning' = FALSE
    /\ cpc' = "exited"
    /\ UNCHANGED <<refs, frameId, camera, queueError, streaming, seq, latest, cbuf,
                   cold, queue, running, rga, screen, display, ocr, main>>

-----------------------------------------------------------------------------
(* The RGA worker: ocr_node_thread_entry with rga_process. *)

RgaTake ==
    /\ rpc = "check" /\ running["rga"]
    /\ queue["rga"] # <<>>
    /\ rin' = Head(queue["rga"])
    /\ queue' = [queue EXCEPT !["rga"] = Tail(@)]
    /\ rpc' = "acquire"
    /\ UNCHANGED <<refs, frameId, feed, streaming, capture, running, rout, screen,
                   display, ocr, main>>

\* ocr_pool_acquire; the frame takes its number along.
RgaAcquire(b) ==
    /\ rpc = "acquire"
    /\ refs[b] = 0
    /\ SetRefs(Plus(refs, b))
    /\ frameId' = [frameId EXCEPT ![b] = frameId[rin]]
    /\ rout' = b
    /\ rpc' = "blit"
    /\ UNCHANGED <<streaming, capture, queue, running, rin, screen, display, ocr, main>>

\* No output buffer is free: this input is dropped.
RgaNoOutput ==
    /\ rpc = "acquire"
    /\ \A b \in Outputs : refs[b] > 0
    /\ rpc' = "done"
    /\ UNCHANGED <<refs, frameId, feed, streaming, capture, queue, running, rin,
                   rout, screen, display, ocr, main>>

\* The hardware has written the output.
RgaBlit ==
    /\ rpc = "blit"
    /\ rpc' = "emitDisplay"
    /\ UNCHANGED <<refs, frameId, feed, streaming, capture, queue, running, rin,
                   rout, screen, display, ocr, main>>

RgaBlitFails ==
    /\ rpc = "blit"
    /\ SetRefs(Minus(refs, rout))
    /\ rout' = None
    /\ rpc' = "done"
    /\ UNCHANGED <<frameId, streaming, capture, queue, running, rin, screen,
                   display, ocr, main>>

\* node_forward_borrowed: a reference of its own for each node that accepts.
EmitTo(n, next) ==
    /\ IF Busy(n)
       THEN UNCHANGED <<refs, feed, queue>>
       ELSE /\ queue' = [queue EXCEPT ![n] = Pushed(n, rout)]
            /\ SetRefs(Minus(Plus(refs, rout), Evicted(n)))
    /\ rpc' = next
    /\ UNCHANGED <<frameId, streaming, capture, running, rin, rout, screen,
                   display, ocr, main>>

RgaEmitDisplay == rpc = "emitDisplay" /\ EmitTo("display", "emitOcr")
RgaEmitOcr == rpc = "emitOcr" /\ EmitTo("ocr", "done")

\* ocr_node_emit gives up the output, the node loop the input.
RgaDone ==
    /\ rpc = "done"
    /\ SetRefs(Minus(Minus(refs, rout), rin))
    /\ rin' = None /\ rout' = None
    /\ rpc' = "check"
    /\ UNCHANGED <<frameId, streaming, capture, queue, running, screen, display, ocr, main>>

RgaExit ==
    /\ rpc = "check" /\ ~running["rga"]
    /\ rpc' = "exited"
    /\ UNCHANGED <<refs, frameId, feed, streaming, capture, queue, running, rin,
                   rout, screen, display, ocr, main>>

-----------------------------------------------------------------------------
(* The display worker: ocr_node_thread_entry with display_process and        *)
(* ocr_drm_sink_present.                                                     *)

DisplayTake ==
    /\ dpc = "check" /\ running["display"]
    /\ queue["display"] # <<>>
    /\ din' = Head(queue["display"])
    /\ queue' = [queue EXCEPT !["display"] = Tail(@)]
    /\ dpc' = "present"
    /\ UNCHANGED <<refs, frameId, feed, streaming, capture, running, rga, screen,
                   ocr, main>>

\* The sink's reference to the new frame replaces that to the previous one.
MakeCurrent ==
    /\ current' = din
    /\ SetRefs(Minus(refs, current))
    /\ dpc' = "done"

\* The first frame comes on with a synchronous modeset.
PresentFirst ==
    /\ dpc = "present"
    /\ current = None /\ pending = None
    /\ scan' = din
    /\ current' = din
    /\ SetRefs(Plus(refs, din))
    /\ dpc' = "done"
    /\ UNCHANGED <<frameId, streaming, capture, queue, running, rga, pending,
                   flipOf, events, faulted, din, ocr, main>>

\* A later one is queued for the next vertical blank.  Events left unread by an
\* earlier call point at a wait on a stack frame that is gone.
PresentFlip ==
    /\ dpc = "present"
    /\ current # None /\ pending = None
    /\ SetRefs(Plus(refs, din))
    /\ pending' = din /\ flipOf' = "live"
    /\ events' = IF events = {} THEN {} ELSE {"dead"}
    /\ dpc' = "wait"
    /\ UNCHANGED <<frameId, streaming, capture, queue, running, rga, current, scan,
                   faulted, din, ocr, main>>

\* No framebuffer, modeset or flip refused (a flip is while one is pending).
PresentFails ==
    /\ dpc = "present"
    /\ dpc' = "done"
    /\ UNCHANGED <<refs, frameId, feed, streaming, capture, queue, running, rga,
                   screen, din, ocr, main>>

\* External, the display controller: the queued flip happens.
Flip ==
    /\ pending # None
    /\ scan' = pending
    /\ pending' = None
    /\ events' = events \cup {flipOf}
    /\ UNCHANGED <<refs, frameId, feed, streaming, capture, queue, running, rga,
                   current, flipOf, faulted, display, ocr, main>>

\* Mutant: the flip counts as done once it is accepted.
BugFlipDone ==
    /\ dpc = "wait"
    /\ events' = {}
    /\ MakeCurrent
    /\ UNCHANGED <<frameId, streaming, capture, queue, running, rga, scan, pending,
                   flipOf, faulted, din, ocr, main>>

\* wait_pageflip_event reads the event of this flip.
FlipDone ==
    /\ dpc = "wait"
    /\ "live" \in events
    /\ events' = events \ {"live"}
    /\ MakeCurrent
    /\ UNCHANGED <<frameId, streaming, capture, queue, running, rga, scan, pending,
                   flipOf, faulted, din, ocr, main>>

\* It reads an event of an earlier flip.  The handler writes through a pointer
\* to that call's wait: it may be where this call's wait is, or anywhere else.
ReadDeadEvent ==
    /\ dpc = "wait"
    /\ "dead" \in events
    /\ events' = events \ {"dead"}
    /\ \/ MakeCurrent
       \/ UNCHANGED <<refs, feed, current, dpc>>
    /\ UNCHANGED <<frameId, streaming, capture, queue, running, rga, scan, pending,
                   flipOf, faulted, din, ocr, main>>

\* poll or drmHandleEvent fails: the screen is asked instead.  If it already
\* reads the new frame that settles it; if not the new reference is dropped,
\* although the flip stays queued.  Either way the event stays unread.
WaitFails ==
    /\ WaitsMayFail
    /\ dpc = "wait"
    /\ IF scan = din
       THEN MakeCurrent
       ELSE SetRefs(Minus(refs, din)) /\ dpc' = "done" /\ UNCHANGED current
    /\ faulted' = TRUE
    /\ flipOf' = "dead"
    /\ events' = IF events = {} THEN {} ELSE {"dead"}
    /\ UNCHANGED <<frameId, streaming, capture, queue, running, rga, scan, pending,
                   din, ocr, main>>

DisplayDone ==
    /\ dpc = "done"
    /\ SetRefs(Minus(refs, din))
    /\ din' = None
    /\ dpc' = "check"
    /\ UNCHANGED <<frameId, streaming, capture, queue, running, rga, screen, ocr, main>>

DisplayExit ==
    /\ dpc = "check" /\ ~running["display"]
    /\ dpc' = "exited"
    /\ UNCHANGED <<refs, frameId, feed, streaming, capture, queue, running, rga,
                   screen, din, ocr, main>>

-----------------------------------------------------------------------------
(* The OCR worker: ocr_node_thread_entry with ocr_process. *)

OcrTake ==
    /\ opc = "check" /\ running["ocr"]
    /\ queue["ocr"] # <<>>
    /\ oin' = Head(queue["ocr"])
    /\ queue' = [queue EXCEPT !["ocr"] = Tail(@)]
    /\ opc' = "read"
    /\ UNCHANGED <<refs, frameId, feed, streaming, capture, running, rga, screen,
                   display, main>>

\* The models are through with the frame, or one of them failed.
OcrDone ==
    /\ opc = "read"
    /\ SetRefs(Minus(refs, oin))
    /\ oin' = None
    /\ opc' = "check"
    /\ UNCHANGED <<frameId, streaming, capture, queue, running, rga, screen,
                   display, main>>

OcrExit ==
    /\ opc = "check" /\ ~running["ocr"]
    /\ opc' = "exited"
    /\ UNCHANGED <<refs, frameId, feed, streaming, capture, queue, running, rga,
                   screen, display, oin, main>>

-----------------------------------------------------------------------------
(* The main thread: run_application's look at the latest frame, and cleanup. *)

Look ==
    /\ mpc = "run" /\ mbuf = None /\ latest # None
    /\ SetRefs(Plus(refs, latest))
    /\ mbuf' = latest
    /\ UNCHANGED <<frameId, streaming, capture, queue, running, rga, screen,
                   display, ocr, mpc>>

Looked ==
    /\ mbuf # None
    /\ SetRefs(Minus(refs, mbuf))
    /\ mbuf' = None
    /\ UNCHANGED <<frameId, streaming, capture, queue, running, rga, screen,
                   display, ocr, mpc>>

\* Mutant: the capture thread is not told.
BugStopCapture ==
    /\ mpc = "run" /\ mbuf = None
    /\ mpc' = "streamOff"
    /\ UNCHANGED <<refs, frameId, feed, streaming, capture, queue, running, rga,
                   screen, display, ocr, mbuf>>

\* The loop ends, for whichever reason; ocr_v4l2_stop ...
StopCapture ==
    /\ mpc = "run" /\ mbuf = None
    /\ capRunning' = FALSE
    /\ mpc' = "streamOff"
    /\ UNCHANGED <<refs, frameId, camera, queueError, streaming, capture, queue,
                   running, rga, screen, display, ocr, mbuf>>

\* ... takes the buffers back from the driver, unless STREAMOFF fails, which
\* cleanup does not wait to know ...
StreamOff ==
    /\ mpc = "streamOff"
    /\ streaming' = FALSE
    /\ \/ camera' = {} /\ queueError' = FALSE
       \/ QueueMayFail /\ camera' = camera /\ queueError' = TRUE
    /\ mpc' = "joinCapture"
    /\ UNCHANGED <<refs, frameId, capRunning, capture, queue, running, rga, screen,
                   display, ocr, mbuf>>

\* ... and joins the thread, after which latest_frame changes no more.  Then
\* ocr_pipeline_stop begins, with the node that was added last.
JoinCapture ==
    /\ mpc = "joinCapture"
    /\ cpc = "exited"
    /\ SetRefs(Minus(refs, latest))
    /\ latest' = None
    /\ running' = [running EXCEPT !["ocr"] = FALSE]
    /\ mpc' = "joinOcr"
    /\ UNCHANGED <<frameId, streaming, seq, cpc, cbuf, cold, queue, rga, screen,
                   display, ocr, mbuf>>

\* Mutant: the worker is not waited for.
BugJoinNode(pc, stopping, next) ==
    /\ running' = [n \in Nodes |-> n \notin stopping /\ running[n]]
    /\ mpc' = next
    /\ UNCHANGED <<refs, frameId, feed, streaming, capture, queue, rga, screen,
                   display, ocr, mbuf>>

\* One node's worker is joined, and the next node told to stop.
JoinNode(pc, stopping, next) ==
    /\ pc = "exited"
    /\ running' = [n \in Nodes |-> n \notin stopping /\ running[n]]
    /\ mpc' = next
    /\ UNCHANGED <<refs, frameId, feed, streaming, capture, queue, rga, screen,
                   display, ocr, mbuf>>

JoinOcr == mpc = "joinOcr" /\ JoinNode(opc, {"display"}, "joinDisplay")
JoinDisplay == mpc = "joinDisplay" /\ JoinNode(dpc, {"rga"}, "joinRga")
JoinRga == mpc = "joinRga" /\ JoinNode(rpc, {}, "drain")

\* How many references to b a queue holds, and all of them together.
Occurs(q, b) == Cardinality({i \in 1 .. Len(q) : q[i] = b})

Queued(b) ==
    Occurs(queue["rga"], b) + Occurs(queue["display"], b) + Occurs(queue["ocr"], b)

\* ocr_pipeline_destroy: every node releases what its queue still holds.
DrainNodes ==
    /\ mpc = "drain"
    /\ SetRefs([b \in Buffers |-> refs[b] - Queued(b)])
    /\ queue' = [n \in Nodes |-> <<>>]
    /\ mpc' = "sink"
    /\ UNCHANGED <<frameId, streaming, capture, running, rga, screen, display, ocr, mbuf>>

\* ocr_drm_sink_destroy: the screen goes dark before its frame is released.
\* If a framebuffer cannot be removed after that, cleanup goes no further.
SinkDestroy ==
    /\ mpc = "sink"
    /\ scan' = None /\ pending' = None
    /\ SetRefs(Minus(refs, current))
    /\ current' = None
    /\ mpc' \in {"pools", "kept"}
    /\ UNCHANGED <<frameId, streaming, capture, queue, running, rga, flipOf, events,
                   faulted, display, ocr, mbuf>>

\* The plane cannot be switched off: cleanup leaves all that is left in place.
SinkStays ==
    /\ mpc = "sink"
    /\ current # None
    /\ mpc' = "kept"
    /\ UNCHANGED <<refs, frameId, feed, streaming, capture, queue, running, rga,
                   screen, display, ocr, mbuf>>

\* ocr_pool_destroy and ocr_v4l2_close, which log but survive a busy pool.
PoolsDestroy ==
    /\ mpc = "pools"
    /\ mpc' = IF \A b \in Buffers : refs[b] = 0 THEN "closed" ELSE "leaked"
    /\ UNCHANGED <<refs, frameId, feed, streaming, capture, queue, running, rga,
                   screen, display, ocr, mbuf>>

-----------------------------------------------------------------------------
CaptureStep == (\E a \in Captures : Dequeue(a)) \/ Deliver

RgaStep ==
    \/ RgaTake
    \/ \E b \in Outputs : RgaAcquire(b)
    \/ RgaNoOutput \/ RgaBlit \/ RgaEmitDisplay \/ RgaEmitOcr \/ RgaDone \/ RgaExit

DisplayStep ==
    \/ DisplayTake \/ PresentFirst \/ PresentFlip \/ FlipDone \/ ReadDeadEvent
    \/ DisplayDone \/ DisplayExit

Shutdown ==
    \/ StreamOff \/ JoinCapture
    \/ JoinOcr \/ JoinDisplay \/ JoinRga
    \/ DrainNodes \/ SinkDestroy \/ SinkStays \/ PoolsDestroy

Next ==
    \/ CaptureStep \/ CaptureExit
    \/ RgaStep \/ RgaBlitFails
    \/ DisplayStep \/ PresentFails \/ WaitFails
    \/ Flip
    \/ OcrTake \/ OcrDone \/ OcrExit
    \/ Look \/ Looked \/ StopCapture \/ Shutdown

Spec == Init /\ [][Next]_vars

\* Threads run, the camera delivers, the controller flips; hardware calls may
\* fail but not for ever, and nothing is assumed of the OCR models.
Fairness ==
    /\ WF_vars(CaptureStep) /\ WF_vars(CaptureExit /\ ~capRunning)
    /\ WF_vars(RgaStep) /\ SF_vars(RgaBlit)
    /\ WF_vars(DisplayStep) /\ WF_vars(PresentFails)
    /\ SF_vars(PresentFirst) /\ SF_vars(PresentFlip)
    /\ WF_vars(Flip)
    /\ WF_vars(Looked) /\ WF_vars(Shutdown)
    /\ WF_vars(OcrTake \/ OcrExit)

FairSpec == Spec /\ Fairness

-----------------------------------------------------------------------------
\* Type invariant.
TypeOK ==
    /\ refs \in [Buffers -> Nat]
    /\ frameId \in [Buffers -> 0 .. MaxFrame] /\ seq \in 0 .. MaxFrame
    /\ camera \subseteq Captures /\ streaming \in BOOLEAN
    /\ capRunning \in BOOLEAN /\ queueError \in BOOLEAN
    /\ {latest, cbuf, cold, rin, mbuf} \subseteq Captures \cup {None}
    /\ {rout, din, oin, current, scan, pending} \subseteq Outputs \cup {None}
    /\ queue \in [Nodes -> Seq(Buffers)]
    /\ queue["rga"] \in Seq(Captures)
    /\ queue["display"] \in Seq(Outputs) /\ queue["ocr"] \in Seq(Outputs)
    /\ \A n \in Nodes : Len(queue[n]) <= Depth
    /\ running \in [Nodes -> BOOLEAN]
    /\ cpc \in {"loop", "deliver", "exited"}
    /\ rpc \in {"check", "acquire", "blit", "emitDisplay", "emitOcr", "done", "exited"}
    /\ dpc \in {"check", "present", "wait", "done", "exited"}
    /\ opc \in {"check", "read", "exited"}
    /\ flipOf \in {"live", "dead"} /\ events \subseteq {"live", "dead"}
    /\ faulted \in BOOLEAN
    /\ mpc \in {"run", "streamOff", "joinCapture", "joinOcr", "joinDisplay",
                "joinRga", "drain", "sink", "kept", "pools", "closed", "leaked"}

One(P) == IF P THEN 1 ELSE 0

\* The references each part of the path answers for.
Held(b) ==
    Queued(b)
    + One(latest = b) + One(cbuf = b) + One(cold = b) + One(mbuf = b)
    + One(rin = b) + One(rout = b)
    + One(din = b) + One(dpc = "wait" /\ din = b) + One(current = b)
    + One(oin = b)

\* Over all the hand-overs between five threads a buffer's count is the number
\* of places that answer for it: none is leaked and none dropped twice.
RefsBalanced == \A b \in Buffers : refs[b] = Held(b)

\* The RGA writes a buffer nobody looks at: no queue, no worker, and neither
\* the frame on the screen nor the one about to be (rga_process: a buffer still
\* shown or in recognition is never overwritten; drm_sink.h:5).  What becomes of
\* the screen once a wait for an event has failed is for ScannedFrameHeld.
WritesUnseen ==
    rpc = "blit" =>
        /\ Queued(rout) = 0
        /\ rout \notin {din, oin, current}
        /\ faulted \/ rout \notin {scan, pending}

\* A capture buffer is never both with the driver and held by somebody: the
\* camera would overwrite a frame in use.  While the stream is on and no QBUF has
\* failed it is never neither: the camera would run out of buffers.  Once a QBUF
\* has failed the capture thread has been told to go, for there is a buffer that
\* does not come back (v4l2_capture.c:113).
CameraOwnsRest ==
    /\ \A a \in camera : refs[a] = 0
    /\ streaming /\ ~queueError => \A a \in Captures \ camera : refs[a] > 0
    /\ queueError => ~capRunning

\* Node workers and the capture thread are gone when cleanup touches the queues
\* and pools, and the screen is dark before the pools go.
CleanupOrder ==
    /\ mpc \in {"drain", "sink", "kept", "pools", "closed", "leaked"} =>
         cpc = "exited" /\ rpc = "exited" /\ dpc = "exited" /\ opc = "exited"
    /\ mpc \in {"pools", "closed", "leaked"} => scan = None

\* Both pools are idle at the end: cleanup never finds a reference left over,
\* whatever frames were where when it began (main.c:902).
NothingLeaked == mpc # "leaked"

\* The two halves a reader asks for: references of the running path (types
\* included), and the way cleanup takes it apart.
PathSound == TypeOK /\ RefsBalanced /\ CameraOwnsRest
CleanupSound == CleanupOrder /\ NothingLeaked

\* The picture never goes back in time, evictions and failures included.
ShowsForward ==
    [][current # None /\ current' # None => frameId[current] <= frameId'[current']]_vars

\* As long as main keeps running, the capture thread lives (it does not once a
\* requeueing has failed) and no wait for a flip fails, the picture keeps
\* changing, even if OCR holds on to its frame for ever (main.c:759-761).
DisplayMoves ==
    [](mpc = "run" /\ cpc # "exited" /\ ~faulted) => []<><<current' # current>>_vars

\* Once begun, shutdown ends, provided recognition of a frame does.
ShutdownEnds ==
    WF_vars(OcrDone) => (mpc = "streamOff" ~> mpc \in {"closed", "kept"})

\* docs display API: the sink holds a reference to the frame being scanned out.
ScannedFrameHeld == scan # None => refs[scan] > 0
=============================================================================
