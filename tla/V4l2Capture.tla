---------------------------- MODULE V4l2Capture -----------------------------
(***************************************************************************)
(* The camera, src/app/capture/v4l2_capture.c: its capture thread, the     *)
(* recycle callback that runs in whichever thread drops a frame's last     *)
(* reference, and the main thread that starts, stops, restarts and closes  *)
(* it, with every queue operation able to fail.                            *)
(*                                                                         *)
(* pool.lock is held across the callback and has a variable; the sections  *)
(* under io_lock and latest_lock are single steps.  Clients stand for the  *)
(* nodes the frame callback hands frames to and for callers of             *)
(* ocr_v4l2_get_latest.  The driver is external: it has the buffers in     *)
(* queued and, while device is on, may fill any of them.                   *)
(***************************************************************************)
EXTENDS Integers, FiniteSets

CONSTANTS
    Buffers,     \* the indices 0 .. buf_count-1
    Clients,     \* threads that hold frames, one each
    Camera,      \* the capture thread
    Main,        \* the main thread
    None         \* no buffer; pool.lock is free

Actors == Clients \cup {Camera, Main}

ASSUME ActorsAssumption == Camera # Main /\ {Camera, Main} \cap Clients = {}
ASSUME NoneAssumption == None \notin Actors \cup Buffers
ASSUME ClientsAssumption == IsFiniteSet(Clients)   \* the threads of one process

VARIABLES
    initialized, streaming, running, threadStarted, queueError,
    slotState, refs, poolLock,   \* the pool
    device, queued,              \* the driver: stream on, buffers it has
    latest,                      \* latest_frame
    tpc, tbuf, told,             \* capture thread: step, buffer, old_latest
    mpc, mop,                    \* main thread: step, call
    hold,                        \* the frame each client has
    rstep, rbuf                  \* per actor: step of capture_recycle, buffer

flags == <<initialized, streaming, running, threadStarted, queueError>>
pool == <<slotState, refs, poolLock>>
driver == <<device, queued>>
thread == <<tpc, tbuf, told>>
main == <<mpc, mop>>
recycling == <<rstep, rbuf>>
vars == <<flags, pool, driver, latest, thread, main, hold, recycling>>

\* ocr_v4l2_open_ex
Init ==
    /\ initialized = TRUE /\ streaming = FALSE /\ running = FALSE
    /\ threadStarted = FALSE /\ queueError = FALSE
    /\ slotState = [b \in Buffers |-> "FREE"]
    /\ refs = [b \in Buffers |-> 0] /\ poolLock = None
    /\ device = FALSE /\ queued = {} /\ latest = None
    /\ tpc = "none" /\ tbuf = None /\ told = None
    /\ mpc = "idle" /\ mop = "stop"
    /\ hold = [c \in Clients |-> None]
    /\ rstep = [x \in Actors |-> "none"] /\ rbuf = [x \in Actors |-> None]

AllFree == \A b \in Buffers : slotState[b] = "FREE"

\* ocr_buffer_unref by x; the last reference takes x into the pool's recycling.
Unref(x, b) ==
    /\ refs' = [refs EXCEPT ![b] = @ - 1]
    /\ IF refs[b] = 1
       THEN rstep' = [rstep EXCEPT ![x] = "enter"] /\ rbuf' = [rbuf EXCEPT ![x] = b]
       ELSE UNCHANGED recycling

-----------------------------------------------------------------------------
(* pool_recycle_buffer with capture_recycle, in the thread x. *)

\* Mutant: the callback runs without the pool's lock.
BugRecycleEnter(x) ==
    /\ rstep[x] = "enter"
    /\ poolLock = None
    /\ rstep' = [rstep EXCEPT ![x] = "requeue"]
    /\ UNCHANGED <<flags, pool, driver, latest, thread, main, hold, rbuf>>

RecycleEnter(x) ==
    /\ rstep[x] = "enter"
    /\ poolLock = None
    /\ poolLock' = x
    /\ rstep' = [rstep EXCEPT ![x] = "requeue"]
    /\ UNCHANGED <<flags, slotState, refs, driver, latest, thread, main, hold, rbuf>>

\* Mutant: a failed QBUF goes unnoticed.
BugRequeueFails(x) ==
    /\ rstep[x] = "requeue"
    /\ streaming
    /\ rstep' = [rstep EXCEPT ![x] = "publish"]
    /\ UNCHANGED <<flags, pool, driver, latest, thread, main, hold, rbuf>>

\* QBUF is refused: the capture is marked broken and its thread told to go.
RequeueFails(x) ==
    /\ rstep[x] = "requeue"
    /\ streaming
    /\ queueError' = TRUE
    /\ running' = FALSE
    /\ rstep' = [rstep EXCEPT ![x] = "publish"]
    /\ UNCHANGED <<initialized, streaming, threadStarted, pool, driver, latest,
                   thread, main, hold, rbuf>>

\* QBUF, unless the stream has been switched off.
Requeue(x) ==
    /\ rstep[x] = "requeue"
    /\ queued' = IF streaming THEN queued \cup {rbuf[x]} ELSE queued
    /\ rstep' = [rstep EXCEPT ![x] = "publish"]
    /\ UNCHANGED <<flags, pool, device, latest, thread, main, hold, rbuf>>

\* The slot is FREE for the pool, whatever became of the QBUF.
RecyclePublish(x) ==
    /\ rstep[x] = "publish"
    /\ slotState' = [slotState EXCEPT ![rbuf[x]] = "FREE"]
    /\ poolLock' = None
    /\ rstep' = [rstep EXCEPT ![x] = "none"]
    /\ rbuf' = [rbuf EXCEPT ![x] = None]
    /\ UNCHANGED <<flags, refs, driver, latest, thread, main, hold>>

-----------------------------------------------------------------------------
(* The capture thread, v4l2_thread; not while it is recycling a buffer. *)

At(step) == tpc = step /\ rstep[Camera] = "none"

\* select says that a frame may be ready, and running is still set.
Ready ==
    /\ At("loop") /\ running
    /\ tpc' = "ready"
    /\ UNCHANGED <<flags, pool, driver, latest, tbuf, told, main, hold, recycling>>

\* DQBUF
Dequeue(b) ==
    /\ At("ready")
    /\ device /\ b \in queued
    /\ queued' = queued \ {b}
    /\ tbuf' = b
    /\ tpc' = "claim"
    /\ UNCHANGED <<flags, pool, device, latest, told, main, hold, recycling>>

\* EAGAIN or EINTR: there was nothing after all.
NotReady ==
    /\ At("ready")
    /\ tpc' = "loop"
    /\ UNCHANGED <<flags, pool, driver, latest, tbuf, told, main, hold, recycling>>

\* ocr_pool_acquire_index; a slot in the wrong state ends the thread.
Claim ==
    /\ At("claim")
    /\ poolLock = None
    /\ IF slotState[tbuf] = "FREE"
       THEN /\ slotState' = [slotState EXCEPT ![tbuf] = "IN_USE"]
            /\ refs' = [refs EXCEPT ![tbuf] = 1]
            /\ tpc' = "frame"
            /\ UNCHANGED <<running, tbuf>>
       ELSE /\ running' = FALSE
            /\ tpc' = "loop" /\ tbuf' = None
            /\ UNCHANGED <<slotState, refs>>
    /\ UNCHANGED <<initialized, streaming, threadStarted, queueError, poolLock,
                   driver, latest, told, main, hold, recycling>>

\* Marked as damaged, or too short: back to the driver at once.
Discard ==
    /\ At("frame")
    /\ Unref(Camera, tbuf)
    /\ tbuf' = None
    /\ tpc' = "loop"
    /\ UNCHANGED <<flags, slotState, poolLock, driver, latest, told, main, hold>>

\* Mutant: latest_frame gets the frame without a reference.
BugPublish ==
    /\ At("frame")
    /\ told' = latest
    /\ latest' = tbuf
    /\ tpc' = "dropOld"
    /\ UNCHANGED <<flags, pool, driver, tbuf, main, hold, recycling>>

\* A reference for latest_frame, which is exchanged under latest_lock.
Publish ==
    /\ At("frame")
    /\ refs' = [refs EXCEPT ![tbuf] = @ + 1]
    /\ told' = latest
    /\ latest' = tbuf
    /\ tpc' = "dropOld"
    /\ UNCHANGED <<flags, slotState, poolLock, driver, tbuf, main, hold, recycling>>

\* The frame it replaced is released outside latest_lock.
DropOld ==
    /\ At("dropOld")
    /\ IF told = None THEN UNCHANGED <<refs, recycling>> ELSE Unref(Camera, told)
    /\ told' = None
    /\ tpc' = "callback"
    /\ UNCHANGED <<flags, slotState, poolLock, driver, latest, tbuf, main, hold>>

\* frame_cb takes the thread's reference over ...
Transfer(c) ==
    /\ At("callback")
    /\ hold[c] = None /\ rstep[c] = "none"
    /\ hold' = [hold EXCEPT ![c] = tbuf]
    /\ tbuf' = None
    /\ tpc' = "loop"
    /\ UNCHANGED <<flags, pool, driver, latest, told, main, recycling>>

\* ... or refuses it.
Refuse ==
    /\ At("callback")
    /\ Unref(Camera, tbuf)
    /\ tbuf' = None
    /\ tpc' = "loop"
    /\ UNCHANGED <<flags, slotState, poolLock, driver, latest, told, main, hold>>

\* running was cleared, or select or DQBUF failed for good.
ThreadExit ==
    /\ At("loop") \/ At("ready")
    /\ running' = FALSE
    /\ tpc' = "exited"
    /\ UNCHANGED <<initialized, streaming, threadStarted, queueError, pool, driver,
                   latest, tbuf, told, main, hold, recycling>>

-----------------------------------------------------------------------------
(* The clients. *)

\* ocr_v4l2_get_latest: pointer and reference together, under latest_lock.
GetLatest(c) ==
    /\ initialized
    /\ hold[c] = None /\ rstep[c] = "none"
    /\ latest # None
    /\ refs[latest] > 0
    /\ refs' = [refs EXCEPT ![latest] = @ + 1]
    /\ hold' = [hold EXCEPT ![c] = latest]
    /\ UNCHANGED <<flags, slotState, poolLock, driver, latest, thread, main, recycling>>

ClientDrop(c) ==
    /\ hold[c] # None
    /\ Unref(c, hold[c])
    /\ hold' = [hold EXCEPT ![c] = None]
    /\ UNCHANGED <<flags, slotState, poolLock, driver, latest, thread, main>>

-----------------------------------------------------------------------------
(* The main thread; "stop", "start" and "close" do not overlap. *)

\* ocr_v4l2_start, unless it is running already.  A thread that ended by itself
\* is stopped first.
StartCall ==
    /\ mpc = "idle" /\ initialized
    /\ ~(threadStarted /\ running)
    /\ mop' = "start"
    /\ mpc' = IF threadStarted THEN "streamOff" ELSE "check"
    /\ UNCHANGED <<flags, pool, driver, latest, thread, hold, recycling>>

\* Mutant: the thread is not told.
BugStopCall(op) ==
    /\ mpc = "idle" /\ initialized
    /\ mop' = op
    /\ mpc' = "streamOff"
    /\ UNCHANGED <<flags, pool, driver, latest, thread, hold, recycling>>

\* ocr_v4l2_stop and ocr_v4l2_close
StopCall(op) ==
    /\ mpc = "idle" /\ initialized
    /\ running' = FALSE
    /\ mop' = op
    /\ mpc' = "streamOff"
    /\ UNCHANGED <<initialized, streaming, threadStarted, queueError, pool, driver,
                   latest, thread, hold, recycling>>

\* VIDIOC_STREAMOFF takes every buffer from the driver, or it fails.
DeviceOff ==
    \/ device' = FALSE /\ queued' = {} /\ queueError' = FALSE
    \/ UNCHANGED driver /\ queueError' = TRUE

StreamOff ==
    /\ mpc = "streamOff"
    /\ streaming' = FALSE
    /\ IF streaming THEN DeviceOff ELSE UNCHANGED <<driver, queueError>>
    /\ mpc' = IF threadStarted THEN "join" ELSE "takeLatest"
    /\ UNCHANGED <<initialized, running, threadStarted, pool, latest, thread, mop,
                   hold, recycling>>

Join ==
    /\ mpc = "join"
    /\ At("exited")
    /\ tpc' = "none"
    /\ threadStarted' = FALSE
    /\ mpc' = "takeLatest"
    /\ UNCHANGED <<initialized, streaming, running, queueError, pool, driver, latest,
                   tbuf, told, mop, hold, recycling>>

TakeLatest ==
    /\ mpc = "takeLatest"
    /\ latest' = None
    /\ IF latest = None THEN UNCHANGED <<refs, recycling>> ELSE Unref(Main, latest)
    /\ mpc' = "stopped"
    /\ UNCHANGED <<flags, slotState, poolLock, driver, thread, mop, hold>>

\* stop returns; start goes on if it succeeded, close in any case.
Stopped ==
    /\ mpc = "stopped" /\ rstep[Main] = "none"
    /\ mpc' = CASE mop = "close" -> "destroy"
                [] mop = "start" /\ ~queueError -> "check"
                [] OTHER -> "idle"
    /\ UNCHANGED <<flags, pool, driver, latest, thread, mop, hold, recycling>>

\* Mutant: start does not wait for frames that are still out.
BugCheck ==
    /\ mpc = "check"
    /\ mpc' = IF queueError THEN "idle" ELSE "queue"
    /\ UNCHANGED <<flags, pool, driver, latest, thread, mop, hold, recycling>>

\* start is refused after a queue error and while a frame is still out.
Check ==
    /\ mpc = "check"
    /\ poolLock = None
    /\ mpc' = IF queueError \/ ~AllFree THEN "idle" ELSE "queue"
    /\ UNCHANGED <<flags, pool, driver, latest, thread, mop, hold, recycling>>

\* Every buffer is queued and the stream switched on ...
QueueAll ==
    /\ mpc = "queue"
    /\ queued' = Buffers
    /\ device' = TRUE
    /\ streaming' = TRUE /\ running' = TRUE
    /\ mpc' = "create"
    /\ UNCHANGED <<initialized, threadStarted, queueError, pool, latest, thread, mop,
                   hold, recycling>>

\* ... or one QBUF, or STREAMON, fails.
QueueFails ==
    /\ mpc = "queue"
    /\ \E some \in SUBSET Buffers : queued' = queued \cup some
    /\ queueError' = TRUE
    /\ mpc' = "idle"
    /\ UNCHANGED <<initialized, streaming, running, threadStarted, pool, device,
                   latest, thread, mop, hold, recycling>>

Create ==
    /\ mpc = "create"
    /\ threadStarted' = TRUE
    /\ tpc' = "loop"
    /\ mpc' = "idle"
    /\ UNCHANGED <<initialized, streaming, running, queueError, pool, driver, latest,
                   tbuf, told, mop, hold, recycling>>

\* No thread: the stream is switched off again.
CreateFails ==
    /\ mpc = "create"
    /\ running' = FALSE
    /\ DeviceOff
    /\ streaming' = FALSE
    /\ mpc' = "idle"
    /\ UNCHANGED <<initialized, threadStarted, pool, latest, thread, mop, hold, recycling>>

\* ocr_pool_destroy: close is put off while a frame is out.
PoolDestroy ==
    /\ mpc = "destroy"
    /\ poolLock = None
    /\ initialized' = ~AllFree
    /\ mpc' = IF AllFree THEN "closed" ELSE "idle"
    /\ UNCHANGED <<streaming, running, threadStarted, queueError, pool, driver, latest,
                   thread, mop, hold, recycling>>

-----------------------------------------------------------------------------
Recycle(x) == RecycleEnter(x) \/ RequeueFails(x) \/ Requeue(x) \/ RecyclePublish(x)

ThreadStep ==
    \/ Ready \/ (\E b \in Buffers : Dequeue(b)) \/ NotReady
    \/ Claim \/ Discard \/ Publish \/ DropOld
    \/ (\E c \in Clients : Transfer(c)) \/ Refuse

StopStep == StreamOff \/ Join \/ TakeLatest \/ Stopped
StartStep == Check \/ QueueAll \/ QueueFails \/ Create \/ CreateFails

Next ==
    \/ \E x \in Actors : Recycle(x)
    \/ ThreadStep \/ ThreadExit
    \/ \E c \in Clients : GetLatest(c) \/ ClientDrop(c)
    \/ StartCall \/ StopCall("stop") \/ StopCall("close")
    \/ StopStep \/ StartStep \/ PoolDestroy

Spec == Init /\ [][Next]_vars

\* Threads run, ioctls return, select wakes up once a second, and pool.lock is
\* not withheld for ever from a thread that keeps asking for it.  No client has
\* to give its frame back, and nobody has to call anything.
Fairness ==
    /\ \A x \in Actors : WF_vars(Recycle(x)) /\ SF_vars(RecycleEnter(x))
    /\ WF_vars(ThreadStep) /\ SF_vars(Claim)
    /\ WF_vars(ThreadExit /\ ~running)
    /\ WF_vars(StopStep) /\ WF_vars(StartStep) /\ SF_vars(Check) /\ SF_vars(PoolDestroy)

FairSpec == Spec /\ Fairness

-----------------------------------------------------------------------------
\* Type invariant.
TypeOK ==
    /\ initialized \in BOOLEAN /\ streaming \in BOOLEAN /\ running \in BOOLEAN
    /\ threadStarted \in BOOLEAN /\ queueError \in BOOLEAN /\ device \in BOOLEAN
    /\ slotState \in [Buffers -> {"FREE", "IN_USE"}]
    /\ refs \in [Buffers -> Nat]
    /\ poolLock \in Actors \cup {None}
    /\ queued \subseteq Buffers
    /\ {latest, tbuf, told} \subseteq Buffers \cup {None}
    /\ tpc \in {"none", "loop", "ready", "claim", "frame", "dropOld", "callback", "exited"}
    /\ mpc \in {"idle", "streamOff", "join", "takeLatest", "stopped", "check", "queue",
                "create", "destroy", "closed"}
    /\ mop \in {"start", "stop", "close"}
    /\ hold \in [Clients -> Buffers \cup {None}]
    /\ rstep \in [Actors -> {"none", "enter", "requeue", "publish"}]
    /\ rbuf \in [Actors -> Buffers \cup {None}]

\* References that can be named.
Holders(b) ==
    {<<"client", c>> : c \in {c \in Clients : hold[c] = b}}
    \cup {<<"latest", b>> : x \in {b} \cap {latest}}
    \cup {<<"old", b>> : x \in {b} \cap {told}}
    \cup {<<"frame", b>> : x \in {y \in {b} \cap {tbuf} : tpc # "claim"}}

\* The count of a frame is the number of its holders, so the frame that
\* latest_frame points to can always be borrowed and none is dropped twice.
FramesCounted ==
    /\ \A b \in Buffers : refs[b] = Cardinality(Holders(b))
    /\ latest # None => slotState[latest] = "IN_USE"

\* The camera never writes into a frame that somebody still reads, not even
\* after a stop and a restart (comments at v4l2_capture.c:567 and :574).
CameraWritesUnheld == \A b \in queued : refs[b] = 0

\* A buffer that comes out of the driver is always free in the pool: recycling
\* holds pool.lock from the QBUF until the slot is FREE (buffer_pool.c:53).
DequeuedIsFree == At("claim") /\ poolLock = None => slotState[tbuf] = "FREE"

\* While the stream is on and no queue operation failed, no buffer gets lost
\* between driver and program: a free slot is queued, or just being dequeued.
NoBufferLost ==
    streaming /\ ~queueError =>
        \A b \in Buffers : slotState[b] = "FREE" => b \in queued \/ tbuf = b

\* Between calls a camera without a thread is quiet: no stream, no latest frame,
\* so nothing but frames already handed out can touch the pool; once it is
\* closed not even those.
QuietWhenStopped ==
    /\ mpc = "idle" /\ ~threadStarted =>
         ~streaming /\ ~running /\ latest = None /\ tpc = "none"
    /\ ~initialized =>
         /\ \A b \in Buffers : refs[b] = 0
         /\ \A x \in Actors : rstep[x] = "none"

\* The capture's own state, running and stopped, with its types.
FramesSound == TypeOK /\ FramesCounted /\ QuietWhenStopped

\* start, stop and close return, whatever the clients do with their frames and
\* whichever queue operation fails.
CallsReturn == mpc # "idle" ~> mpc \in {"idle", "closed"}
=============================================================================
