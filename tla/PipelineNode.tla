---------------------------- MODULE PipelineNode ----------------------------
(***************************************************************************)
(* One pipeline node, src/app/pipeline/node.c: the circular input queue,   *)
(* the worker thread asleep on in_cond, and the managers that start, stop  *)
(* and destroy it under lifecycle_lock.                                    *)
(*                                                                         *)
(* A frame stands for the one reference push_input takes over.  The bodies *)
(* under in_lock neither block nor call out, so each is one step and the   *)
(* lock needs no variable; lifecycle_lock is held across the join and has  *)
(* one.  What process does with its input is the business of the modules   *)
(* that compose nodes; here it may also ask its own node to stop.          *)
(***************************************************************************)
EXTENDS Integers, Sequences, FiniteSets

CONSTANTS
    Producers,   \* threads that call ocr_node_push_input
    Managers,    \* threads that call start, stop, destroy
    Workers,     \* names for the threads ocr_node_start creates
    Nobody,      \* no thread: a free lock, an empty node->thread
    Depth,       \* OCR_NODE_QUEUE_DEPTH
    IdleModes,   \* what set_idle_only is called with
    MaxFrames,   \* bound: frames pushed in a behaviour
    MaxStarts    \* bound: worker threads created in a behaviour

ASSUME DepthAssumption == Depth \in Nat \ {0}
ASSUME ModesAssumption == IdleModes \subseteq BOOLEAN
ASSUME BoundsAssumption == MaxFrames \in Nat /\ MaxStarts \in Nat
ASSUME NobodyAssumption == Nobody \notin Managers \cup Workers

Frames == 1 .. MaxFrames
NoFrame == 0

VARIABLES
    initialized, running, started,   \* the node's atomic flags
    idleOnly, busy,
    lifecycle,                       \* who holds lifecycle_lock
    thread,                          \* node->thread
    ring, head, tail, count,         \* in_queue, in_head, in_tail, in_count
    ppc, pframe, evicted,            \* producers: step, frame, evicted frame
    wpc, wframe,                     \* workers: step, local buf
    mpc, mop,                        \* managers: step, operation
    drained,                         \* queued[] of ocr_node_destroy
    released,                        \* frames whose reference was dropped
    pushed, starts                   \* how many frames and threads so far

flags == <<initialized, running, started, idleOnly>>
queue == <<ring, head, tail, count>>
producers == <<ppc, pframe, evicted, pushed>>
workers == <<wpc, wframe, busy>>
managers == <<mpc, mop, drained, starts, lifecycle, thread>>
vars == <<flags, queue, producers, workers, managers, released>>

-----------------------------------------------------------------------------
\* ocr_node_init
Init ==
    /\ initialized = TRUE /\ running = FALSE /\ started = FALSE
    /\ idleOnly = FALSE /\ busy = FALSE
    /\ lifecycle = Nobody /\ thread = Nobody
    /\ ring = [i \in 0 .. Depth - 1 |-> NoFrame]
    /\ head = 0 /\ tail = 0 /\ count = 0
    /\ ppc = [p \in Producers |-> "idle"]
    /\ pframe = [p \in Producers |-> NoFrame]
    /\ evicted = [p \in Producers |-> NoFrame]
    /\ wpc = [w \in Workers |-> "none"]
    /\ wframe = [w \in Workers |-> NoFrame]
    /\ mpc = [m \in Managers |-> "idle"]
    /\ mop = [m \in Managers |-> "stop"]
    /\ drained = {} /\ released = {}
    /\ pushed = 0 /\ starts = 0

\* ocr_cond_signal and ocr_cond_broadcast: at most one thread, the worker, waits.
Woken == [w \in Workers |-> IF wpc[w] = "asleep" THEN "check" ELSE wpc[w]]

-----------------------------------------------------------------------------
\* A producer gets hold of a new frame and calls ocr_node_push_input.
PushBegin(p) ==
    /\ ppc[p] = "idle"
    /\ pushed < MaxFrames
    /\ pushed' = pushed + 1
    /\ pframe' = [pframe EXCEPT ![p] = pushed + 1]
    /\ ppc' = [ppc EXCEPT ![p] = IF initialized THEN "push" ELSE "refused"]
    /\ UNCHANGED <<flags, queue, workers, managers, evicted, released>>

\* idle_only and a frame waiting or in work: the caller keeps its reference.
PushSkip(p) ==
    /\ ppc[p] = "push"
    /\ idleOnly
    /\ busy \/ count > 0
    /\ ppc' = [ppc EXCEPT ![p] = "refused"]
    /\ UNCHANGED <<flags, queue, workers, managers, pframe, evicted, pushed, released>>

\* Mutant: one frame too many is let in.
BugFull == count > Depth

Full == count >= Depth

\* Mutant: the worker is not signalled.
BugPushSilent(p) ==
    /\ ppc[p] = "push"
    /\ ~(idleOnly /\ (busy \/ count > 0))
    /\ ring' = [ring EXCEPT ![tail] = pframe[p]]
    /\ head' = IF Full THEN (head + 1) % Depth ELSE head
    /\ tail' = (tail + 1) % Depth
    /\ count' = IF Full THEN count ELSE count + 1
    /\ evicted' = [evicted EXCEPT ![p] = IF Full THEN ring[head] ELSE NoFrame]
    /\ pframe' = [pframe EXCEPT ![p] = NoFrame]
    /\ ppc' = [ppc EXCEPT ![p] = IF Full THEN "evict" ELSE "idle"]
    /\ UNCHANGED <<flags, workers, managers, pushed, released>>

\* The queue takes the reference over; a full queue gives up its oldest frame.
Push(p) ==
    /\ ppc[p] = "push"
    /\ ~(idleOnly /\ (busy \/ count > 0))
    /\ ring' = [ring EXCEPT ![tail] = pframe[p]]
    /\ head' = IF Full THEN (head + 1) % Depth ELSE head
    /\ tail' = (tail + 1) % Depth
    /\ count' = IF Full THEN count ELSE count + 1
    /\ evicted' = [evicted EXCEPT ![p] = IF Full THEN ring[head] ELSE NoFrame]
    /\ pframe' = [pframe EXCEPT ![p] = NoFrame]
    /\ ppc' = [ppc EXCEPT ![p] = IF Full THEN "evict" ELSE "idle"]
    /\ wpc' = Woken
    /\ UNCHANGED <<flags, wframe, busy, managers, pushed, released>>

\* The evicted reference is dropped after in_lock is released.
DropEvicted(p) ==
    /\ ppc[p] = "evict"
    /\ released' = released \cup {evicted[p]}
    /\ evicted' = [evicted EXCEPT ![p] = NoFrame]
    /\ ppc' = [ppc EXCEPT ![p] = "idle"]
    /\ UNCHANGED <<flags, queue, workers, managers, pframe, pushed>>

\* node_forward_borrowed and the capture thread drop what was not accepted.
DropRefused(p) ==
    /\ ppc[p] = "refused"
    /\ released' = released \cup {pframe[p]}
    /\ pframe' = [pframe EXCEPT ![p] = NoFrame]
    /\ ppc' = [ppc EXCEPT ![p] = "idle"]
    /\ UNCHANGED <<flags, queue, workers, managers, evicted, pushed>>

-----------------------------------------------------------------------------
\* ocr_node_thread_entry, at the head of its loop with in_lock
Sleep(w) ==
    /\ wpc[w] = "check"
    /\ count = 0 /\ running
    /\ wpc' = [wpc EXCEPT ![w] = "asleep"]
    /\ UNCHANGED <<flags, queue, producers, managers, wframe, busy, released>>

\* The condition variable may wake its waiter for no reason.
SpuriousWakeup(w) ==
    /\ wpc[w] = "asleep"
    /\ wpc' = [wpc EXCEPT ![w] = "check"]
    /\ UNCHANGED <<flags, queue, producers, managers, wframe, busy, released>>

Exit(w) ==
    /\ wpc[w] = "check"
    /\ ~running
    /\ wpc' = [wpc EXCEPT ![w] = "exited"]
    /\ UNCHANGED <<flags, queue, producers, managers, wframe, busy, released>>

\* Mutant: busy is left for a later step to set.
BugTakeNotBusy(w) ==
    /\ wpc[w] = "check"
    /\ running /\ count > 0
    /\ wframe' = [wframe EXCEPT ![w] = ring[head]]
    /\ ring' = [ring EXCEPT ![head] = NoFrame]
    /\ head' = (head + 1) % Depth
    /\ count' = count - 1
    /\ wpc' = [wpc EXCEPT ![w] = "process"]
    /\ UNCHANGED <<flags, tail, busy, producers, managers, released>>

\* Dequeues and becomes busy in the same critical section.
Take(w) ==
    /\ wpc[w] = "check"
    /\ running /\ count > 0
    /\ wframe' = [wframe EXCEPT ![w] = ring[head]]
    /\ ring' = [ring EXCEPT ![head] = NoFrame]
    /\ head' = (head + 1) % Depth
    /\ count' = count - 1
    /\ busy' = TRUE
    /\ wpc' = [wpc EXCEPT ![w] = "process"]
    /\ UNCHANGED <<flags, tail, producers, managers, released>>

\* The callback returns, whatever its result, or first asks its node to stop.
Process(w) ==
    /\ wpc[w] = "process"
    /\ wpc' = [wpc EXCEPT ![w] = "unref"]
    /\ UNCHANGED <<flags, queue, producers, managers, wframe, busy, released>>

CallStop(w) ==
    /\ wpc[w] = "process"
    /\ wpc' = [wpc EXCEPT ![w] = "selfStop"]
    /\ UNCHANGED <<flags, queue, producers, managers, wframe, busy, released>>

\* ocr_node_stop on the worker: clears running, cannot join itself, returns -2.
SelfStop(w) ==
    /\ wpc[w] = "selfStop"
    /\ lifecycle = Nobody
    /\ running' = FALSE
    /\ wpc' = [wpc EXCEPT ![w] = "unref"]
    /\ UNCHANGED <<initialized, started, idleOnly, queue, producers, managers,
                   wframe, busy, released>>

\* Mutant: the input is released twice over, or not at all, after a failure.
BugFinishKeeps(w) ==
    /\ wpc[w] = "unref"
    /\ released' \in {released, released \cup {wframe[w]}}
    /\ wframe' = [wframe EXCEPT ![w] = NoFrame]
    /\ wpc' = [wpc EXCEPT ![w] = "clear"]
    /\ UNCHANGED <<flags, queue, producers, managers, busy>>

Finish(w) ==
    /\ wpc[w] = "unref"
    /\ released' = released \cup {wframe[w]}
    /\ wframe' = [wframe EXCEPT ![w] = NoFrame]
    /\ wpc' = [wpc EXCEPT ![w] = "clear"]
    /\ UNCHANGED <<flags, queue, producers, managers, busy>>

ClearBusy(w) ==
    /\ wpc[w] = "clear"
    /\ busy' = FALSE
    /\ wpc' = [wpc EXCEPT ![w] = "check"]
    /\ UNCHANGED <<flags, queue, producers, managers, wframe, released>>

-----------------------------------------------------------------------------
\* ocr_node_set_idle_only, refused while the thread is started.
SetIdleOnly(m) ==
    /\ mpc[m] = "idle"
    /\ initialized /\ lifecycle = Nobody /\ ~started
    /\ idleOnly' \in IdleModes
    /\ UNCHANGED <<initialized, running, started, queue, producers, workers,
                   managers, released>>

\* ocr_node_start; a thread that cannot be created leaves the node as it was.
Start(m, w) ==
    /\ mpc[m] = "idle"
    /\ initialized /\ lifecycle = Nobody /\ ~started
    /\ starts < MaxStarts
    /\ wpc[w] = "none"
    /\ running' = TRUE /\ started' = TRUE
    /\ thread' = w
    /\ wpc' = [wpc EXCEPT ![w] = "check"]
    /\ starts' = starts + 1
    /\ UNCHANGED <<initialized, idleOnly, queue, producers, wframe, busy,
                   mpc, mop, drained, lifecycle, released>>

\* ocr_node_stop and ocr_node_destroy take lifecycle_lock.  Who destroys has
\* stopped the producers first, as pipeline.c:4 asks.
StopCall(m, op) ==
    /\ mpc[m] = "idle"
    /\ initialized /\ lifecycle = Nobody
    /\ op = "destroy" => \A p \in Producers : ppc[p] = "idle"
    /\ lifecycle' = m
    /\ mop' = [mop EXCEPT ![m] = op]
    /\ mpc' = [mpc EXCEPT ![m] = "stop"]
    /\ UNCHANGED <<flags, queue, producers, workers, drained, starts, thread, released>>

\* What a manager does once the worker is gone: return, or go on to drain.
Stopped(m) ==
    /\ mpc' = [mpc EXCEPT ![m] = IF mop[m] = "stop" THEN "idle" ELSE "drain"]
    /\ lifecycle' = IF mop[m] = "stop" THEN Nobody ELSE m

\* node_stop_locked: clears running; with no thread started that is all.
StopRequest(m) ==
    /\ mpc[m] = "stop"
    /\ running' = FALSE
    /\ IF started
       THEN mpc' = [mpc EXCEPT ![m] = "broadcast"] /\ lifecycle' = m
       ELSE Stopped(m)
    /\ UNCHANGED <<initialized, started, idleOnly, queue, producers, workers,
                   mop, drained, starts, thread, released>>

\* Mutant: stop only clears running and does not wake the worker.
BugBroadcast(m) ==
    /\ mpc[m] = "broadcast"
    /\ mpc' = [mpc EXCEPT ![m] = "join"]
    /\ UNCHANGED <<flags, queue, producers, workers, mop, drained, starts,
                   lifecycle, thread, released>>

Broadcast(m) ==
    /\ mpc[m] = "broadcast"
    /\ wpc' = Woken
    /\ mpc' = [mpc EXCEPT ![m] = "join"]
    /\ UNCHANGED <<flags, queue, producers, wframe, busy, mop, drained, starts,
                   lifecycle, thread, released>>

Join(m) ==
    /\ mpc[m] = "join"
    /\ wpc[thread] = "exited"
    /\ wpc' = [wpc EXCEPT ![thread] = "none"]
    /\ started' = FALSE
    /\ thread' = Nobody
    /\ Stopped(m)
    /\ UNCHANGED <<initialized, running, idleOnly, queue, producers, wframe, busy,
                   mop, drained, starts, released>>

\* ocr_node_destroy: the node is gone for producers, its queue is emptied.
Drain(m) ==
    /\ mpc[m] = "drain"
    /\ initialized' = FALSE
    /\ drained' = {ring[(head + i) % Depth] : i \in 0 .. count - 1}
    /\ ring' = [i \in 0 .. Depth - 1 |-> NoFrame]
    /\ head' = 0 /\ tail' = 0 /\ count' = 0
    /\ mpc' = [mpc EXCEPT ![m] = "drop"]
    /\ UNCHANGED <<running, started, idleOnly, producers, workers, mop, starts,
                   lifecycle, thread, released>>

DropDrained(m) ==
    /\ mpc[m] = "drop"
    /\ released' = released \cup drained
    /\ drained' = {}
    /\ lifecycle' = Nobody
    /\ mpc' = [mpc EXCEPT ![m] = "idle"]
    /\ UNCHANGED <<flags, queue, producers, workers, mop, starts, thread>>

-----------------------------------------------------------------------------
ProducerStep(p) == PushSkip(p) \/ Push(p) \/ DropEvicted(p) \/ DropRefused(p)

WorkerStep(w) ==
    Sleep(w) \/ Exit(w) \/ Take(w) \/ Process(w) \/ SelfStop(w) \/ Finish(w) \/ ClearBusy(w)

ManagerStep(m) ==
    StopRequest(m) \/ Broadcast(m) \/ Join(m) \/ Drain(m) \/ DropDrained(m)

\* No frame arrives while the node is being destroyed.
Quiescing == \E m \in Managers : mop[m] = "destroy" /\ mpc[m] # "idle"

Next ==
    \/ \E p \in Producers : (~Quiescing /\ PushBegin(p)) \/ ProducerStep(p)
    \/ \E w \in Workers : WorkerStep(w) \/ SpuriousWakeup(w) \/ CallStop(w)
    \/ \E m \in Managers :
         \/ SetIdleOnly(m)
         \/ \E w \in Workers : Start(m, w)
         \/ \E op \in {"stop", "destroy"} : StopCall(m, op)
         \/ ManagerStep(m)

Spec == Init /\ [][Next]_vars

\* Threads that can run do run, callbacks return, and lifecycle_lock is not
\* withheld for ever from a thread that finds it free again and again.  Nobody
\* has to push, start or stop, and no wakeup is spurious for the model's sake.
Fairness ==
    /\ \A p \in Producers : WF_vars(ProducerStep(p))
    /\ \A w \in Workers :
         /\ WF_vars(Sleep(w) \/ Exit(w) \/ Take(w) \/ Process(w) \/ Finish(w) \/ ClearBusy(w))
         /\ SF_vars(SelfStop(w))
    /\ \A m \in Managers : WF_vars(ManagerStep(m))

FairSpec == Spec /\ Fairness

-----------------------------------------------------------------------------
\* Type invariant.
TypeOK ==
    /\ initialized \in BOOLEAN /\ running \in BOOLEAN /\ started \in BOOLEAN
    /\ idleOnly \in BOOLEAN /\ busy \in BOOLEAN
    /\ lifecycle \in Managers \cup {Nobody}
    /\ thread \in Workers \cup {Nobody}
    /\ ring \in [0 .. Depth - 1 -> Frames \cup {NoFrame}]
    /\ head \in 0 .. Depth - 1 /\ tail \in 0 .. Depth - 1 /\ count \in 0 .. Depth
    /\ ppc \in [Producers -> {"idle", "push", "evict", "refused"}]
    /\ pframe \in [Producers -> Frames \cup {NoFrame}]
    /\ evicted \in [Producers -> Frames \cup {NoFrame}]
    /\ wpc \in [Workers -> {"none", "check", "asleep", "process", "selfStop",
                            "unref", "clear", "exited"}]
    /\ wframe \in [Workers -> Frames \cup {NoFrame}]
    /\ mpc \in [Managers -> {"idle", "stop", "broadcast", "join", "drain", "drop"}]
    /\ mop \in [Managers -> {"stop", "destroy"}]
    /\ drained \subseteq Frames /\ released \subseteq Frames
    /\ pushed \in 0 .. MaxFrames /\ starts \in 0 .. MaxStarts

\* Where a frame's reference is.
Places(f) ==
    {<<"producer", p>> : p \in {p \in Producers : pframe[p] = f}}
    \cup {<<"evicted", p>> : p \in {p \in Producers : evicted[p] = f}}
    \cup {<<"ring", i>> : i \in {i \in 0 .. Depth - 1 : ring[i] = f}}
    \cup {<<"worker", w>> : w \in {w \in Workers : wframe[w] = f}}
    \cup {<<"drained", f>> : g \in {f} \cap drained}
    \cup {<<"released", f>> : g \in {f} \cap released}

\* Every reference given to the node is in one place at any time and so is
\* dropped once: on push, refusal, eviction, processing and destruction alike
\* (node.h: what push_input takes over, what stays the caller's).
FrameOwnedOnce == \A f \in 1 .. pushed : Cardinality(Places(f)) = 1

\* There is never a second worker, and none outlives destroy: what it still
\* touches (the queue, the locks, its frame) is there as long as it runs.
OneWorker ==
    /\ Cardinality({w \in Workers : wpc[w] # "none"}) <= 1
    /\ ~initialized => \A w \in Workers : wpc[w] = "none"
    /\ \A w \in Workers : wpc[w] # "none" <=> started /\ thread = w

\* All of it for the node of node.c: types, one place for every reference, one
\* worker.
NodeSound == TypeOK /\ FrameOwnedOnce /\ OneWorker

\* The frames in the ring from the head on, as a sequence.
Waiting == [i \in 1 .. count |-> ring[(head + i - 1) % Depth]]
Current ==
    IF \E w \in Workers : wframe[w] # NoFrame
    THEN wframe[CHOOSE w \in Workers : wframe[w] # NoFrame]
    ELSE NoFrame

\* The node serves frames in order, drops the oldest when full and, while it
\* only accepts when idle, takes none as long as it has one (node.h:82-101).
Queue == INSTANCE FrameQueue WITH waiting <- Waiting, current <- Current
QueueSpec == Queue!Spec

\* stop and destroy return, unless the worker itself is asking to stop.
StopReturns ==
    \A m \in Managers :
        mpc[m] = "stop" ~> mpc[m] = "idle" \/ \E w \in Workers : wpc[w] = "selfStop"

\* An accepted frame does not stay unserved while the node runs: the worker is
\* never asleep with a frame in the queue.
FramesServed ==
    \A f \in Frames :
        (\E i \in 0 .. Depth - 1 : ring[i] = f) /\ running
            ~> (\A i \in 0 .. Depth - 1 : ring[i] # f) \/ ~running
=============================================================================
