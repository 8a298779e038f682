# TLA+ models of the RK3576 OCR translator

The program (`src/app`) is one process on an RK3576 board. A camera thread
fills DMA-BUF frames; a chain of worker threads scales each frame on the RGA,
shows it on a DRM plane, recognises and translates the text in it and draws the
result on a second plane; a key press archives a photo. A main loop watches all
this together with a watchdog thread, and takes everything apart at the end.

The hard part of the program is not what it computes but who may touch which
memory when: frames travel by reference between five threads and three pieces
of hardware that know nothing of reference counts (camera, RGA, display
controller), queues drop frames on purpose, and every step may fail. That is
what the first half of the modules is about. Around it stand parts that are
small but easy to get wrong in other ways: a lock-free ring, an eventfd next to
a queue, a cleanup that walks the tree a photo is being written into, text that
passes through one bounded buffer after another. The second half models them
with their faults.

- [Components](#components): the parts, their state, what makes them correct
- [Modules](#modules): which module models which code, and how
- [Runs](#runs): what TLC checks, with which bounds
- [Fairness](#fairness): what is assumed of threads and hardware
- [Proofs](#proofs): what holds for every instance
- [Where code and documents disagree](#where-code-and-documents-disagree)
- [Limits](#limits): what is only checked, what is not modelled
- [Plan](#plan): what comes next

`PROJECT.json` has the machine-readable side: components, runs, the lines each
definition models, a mutated definition per property that the property rejects,
the hazards, the findings and the theorems.

## Components

### Video path

**Buffer and buffer pool** (`pipeline/buffer.c`, `pipeline/buffer_pool.c`).
State: per slot a state `UNUSED | FREE | IN_USE`, an atomic reference count and a
DMA-BUF descriptor; a free list; the pool's lock. Operations: init, register,
acquire, acquire a given index, ref, unref, release, destroy; the last unref
calls `pool_recycle_buffer`, which runs a recycle callback of the owner under
the pool's lock. Everybody shares pools. *Hard:* ref and unref are lock-free
loops, recycling takes the lock only afterwards, the callback may fail or block.
*Correct when:* the count is the number of owners; one thread recycles a slot,
once; the free list is exact; an image is lent to one producer at a time; what
was dropped comes back; a pool in use is not destroyed.

**Pipeline node** (`pipeline/node.c`). State: a ring of eight frames under
`in_lock`, `running`, `thread_started`, `busy`, `idle_only`, and
`lifecycle_lock`. Operations: link, push, emit, start, stop (also from the
node's own callback), set_idle_only, destroy; one worker thread. It owns one
reference per queued frame. *Hard:* a full queue evicts the oldest frame while
the worker takes from the same end; condition variable and stop; a restart; an
idle-only node that refuses frames while it works. *Correct when:* each frame is
served or dropped once, in order; one worker at most; no lost wakeup; stop
returns.

**Pipeline manager** (`pipeline/pipeline.c`). Starts the nodes in the order they
were added, which `main.c` chooses (RGA, display, OCR), and when one fails stops
those it has started; stops and destroys them the other way round. State: the
list of nodes, how many are started.

**Camera** (`capture/v4l2_capture.c`, `v4l2_dmabuf.c`). State: `streaming`,
`running`, `thread_started`, `queue_error`, a pool, `latest_frame`. Operations:
open, start, stop, close, get_latest; a capture thread (select, DQBUF, publish,
callback); `capture_recycle` (QBUF) runs in whichever thread drops the last
reference. *Hard:* start and stop against frames still held downstream; DQBUF
races with recycling; every ioctl may fail. *Correct when:* the driver never
fills a frame somebody holds; every buffer is with the driver, with a holder, or
known to be lost; stop returns; nothing is published after it.

**RGA stage** (`rga_process` in `main/main.c`, `isp/rga_proc.c`,
`isp/rga_api.c`). Takes a frame, acquires an output buffer, blits into it and
emits it to display and OCR. *Correct when:* nobody reads the output buffer
while the RGA writes it, and both buffers get away exactly once on each path.

**Video display** (`display/drm_sink.c`, `drm_fb.c`, `drm_plane.c`,
`drm_device.c`). State: `current`, the framebuffer cache, the CRTC, page flips in
the kernel. Operations: present (first modeset, or a flip and the wait for its
event), destroy. *Hard:* the controller reads memory the program cannot count;
a wait that fails leaves a flip behind. *Correct when:* the frame on the screen
stays referenced; the picture never steps back in time.

**Text overlay** (`display/drm_overlay.c`, `text_renderer.c`). State: two dumb
buffers, the one to draw next, `initialized`. Operations: clear, render, commit
with a wait for the vertical blank, destroy. *Correct when:* what is on the plane
is whole.

**OCR result and photo request** (`ocr_process`, `display_process`,
`publish_overlay`, `publish_status` in `main/main.c`;
`input/capture_session.c`, `input/key_event.c`). State: text, status notice with
its time, `generation` and `presented_generation` under one lock; a pending
photo; the key thread. *Hard:* three threads publish, snapshot and request;
a notice expires; cleanup meets a key callback. *Correct when:* the newest text
gets to the screen, a notice is erased, a press leads to one photo.

**Supervision** (`main/system_manager.c`, `run_application` in `main/main.c`).
State: the signal flag, `state` and `exit_code`, the feed count, the main loop's
counters. Threads: main loop, watchdog. *Hard:* two unsynchronised stores per
request, a handler at any moment, a loop that may block in a driver. *Correct
when:* no false alarm; a hang or stall is noticed; a request ends the program;
the exit code names what happened.

**Start and cleanup** (`init_hardware`, `init_ai`, `init_archive_and_input`,
`init_pipeline`, `cleanup` in `main/main.c`). State: `g_init` flags for what
exists. *Hard:* failure half way; cleanup stops early when a step fails, and
must then keep what may still be used.

### Around it

| Component | State and operations | What makes it correct |
| --- | --- | --- |
| `comm/ringbuffer.c` | head and tail, one producer, one consumer; push, pop, size | FIFO, no loss, no element read while written, wrap of `size_t` |
| `comm/msgbus.c` | ring + eventfd + lock; post, recv with timeout | a message posted wakes a receiver, although eventfd and ring change at different moments |
| `comm/event_loop.c` | epoll set, list of items, wake fd; add, mod, del, run, stop | a callback that starts has a registration in force, unless that was removed or changed after the loop copied it; a stop ends run |
| `stab/imu_reader.c` with the kernel's `icm42688` | lock file, IIO buffer, thread, ring; init, start, stop, get, destroy | the buffer is on exactly while the thread should run; a dead process's buffer is switched off first; every call returns |
| `stab/attitude_fusion.c`, `pose_history.c`, `update_stabilizer_from_imu` | ring of samples, ring of timestamped poses; integrate, push, query by time | the history is ordered, the search finds the bracket, a frame gets the pose of its time |
| `stab/motion_compensate.c`, `isp/rga_stabilizer.c` | floating-point filter and crop | the crop stays in the image |
| `sensors/fan_ctrl.c` | lock file, exported PWM, saved state, level; init, update, set, destroy | hysteresis; a partial set-up is undone; the channel goes back as it was found |
| `sensors/brightness_ctrl.c`, `temp_sensor.c`, `light_sensor.c`, `iio_discovery.c` | sysfs reads and writes | the brightness goes to its target |
| `archive/archiver.c`, `archive/storage_mgr.c` | date directories, photo files; save, cleanup down to a target | what is being saved is kept, what is reported saved is whole, oldest first, no more than needed |
| `display/drm_device.c`, `drm_plane.c` | connectors, encoders, CRTCs, planes; choose | nothing is taken from another display, and what is free is found |
| `ai/ocr_det.c`, `ocr_rec.c`, `ocr_postproc.c` | score map, list of boxes, labels; flood, keep the best, order, decode | whole regions; reading order; blanks and repeats; indices in bounds |
| `ai/translator.c`, `tokenizer.c`, `rknn_runtime.c` | token arrays, lent outputs; encode, decode greedily | no token past the room, no stale tensor, outputs returned once |
| `ai/model_loader.c`, `pipeline/zerocopy.c` | handles of a vendor library | released once |
| `pipeline/dma_heap.c` | allocation by ioctl | closed on each failure path |
| `utils/config.c`, `log.c`, `thread.h` | key/value file, log level, wrappers of pthread | ranges checked |
| `bsp/external-modules/gpio-capture-key` | debounce work, suspend, remove | one stable level, one report; nothing missed across suspend |
| `bsp/external-modules/pwm-fan` | duty under a mutex, automatic and manual mode, suspend | an unreadable temperature leads to the top level; the level recorded is the one applied |
| `bsp/external-modules/{ap3216c,adt7410}` | IIO drivers over I2C | a value comes from one sample |
| `bsp/.../init.d/S50ocr`, `build.sh`, `scripts`, `models/convert`, `tests` | shell, CMake, Python; unit tests | no run-time state of the program |

### How they interact

```
key thread --press--> capture session <--take-- OCR worker --text--> overlay state
                                                   ^                      |
camera thread --frame--> RGA worker --output--> idle-only node            v
   |    ^                    `------output------> display worker --> DRM planes
   |    `-- QBUF, by whoever drops the last reference
   `--latest_frame--> main loop --feed--> watchdog --request--> exit state
```

Calls go downstream (`ocr_node_emit` pushes into the next node's queue);
references come back through `ocr_buffer_unref` and the recycle callback in any
thread. All nodes are started, in the order RGA, display, OCR, before the camera,
so that no frame comes to a node that does not run; cleanup stops the camera
before it stops the nodes, the last added first.

## Modules

| Module | Models | Composed of / refined by |
| --- | --- | --- |
| `BufferLoan` | what a pool promises: lend, share, move, return, take back, close | abstract specification |
| `BufferPool` | `buffer.c` and `buffer_pool.c`, atomic step by atomic step | implements `BufferLoan` |
| `BufferPoolProofs`, `PipelineNodeProofs`, `V4l2CaptureProofs`, `FrameFlowProofs`, `LiveViewProofs` | the theorems about the module of that name | [Proofs](#proofs) |
| `MainProofs` | the theorems about `Startup`, `DisplayRoute`, `Supervision` and `PhotoArchive` | |
| `DeviceProofs`, `TextProofs` | the theorems about the parts that `Devices` and `Recognition` extend | |
| `FrameQueue` | what a node promises: a bounded queue that gives up its oldest | abstract specification |
| `PipelineNode` | `node.c`: ring, worker, start, stop, restart, destroy | implements `FrameQueue` |
| `V4l2Capture` | `v4l2_capture.c` after open, with its driver | |
| `FrameFlow` | the assembled video path with all its threads and the screen, up to cleanup's end | camera, three nodes, two pools |
| `LiveView` | overlay state, overlay buffers, photo request and key thread | |
| `Supervision` | main loop, signals, watchdog, exit code, in ticks of time | |
| `Startup` | `main`: every step of the start and of the one cleanup, each able to fail | |
| `DisplayRoute` | choice of connector, CRTC and planes | |
| `PhotoArchive` | `archiver.c` and `storage_mgr.c` as two walks of one tree, over midnight | |
| `TextBoxes`, `ReadingOrder` | `ocr_postproc.c`: flooding the score map, best boxes, order on the page | |
| `CtcDecode` | end of `ocr_rec.c`: dictionary and labels to text | |
| `Tokenizer`, `Translation` | `tokenizer.c`; `translator.c` over `rknn_runtime.c` | |
| `Recognition` | no code of its own: the stages from the picture to the text, and the property that joins them | extends `TextBoxes`, `ReadingOrder`, `CtcDecode`, `Tokenizer`, `Translation` |
| `BoundedFifo` | what a ring promises | abstract specification |
| `RingBuffer` | `ringbuffer.c`, atomic step by atomic step | implements `BoundedFifo` |
| `MsgBus` | `msgbus.c`: queue and eventfd | over the queue `BoundedFifo` promises |
| `EventLoop` | `event_loop.c` over epoll's batches | |
| `ImuReader` | `imu_reader.c` with the ICM42688 driver and the IIO buffer | |
| `PoseTrack` | from samples to a frame's pose: `main.c`, `attitude_fusion.c`, `pose_history.c` | |
| `FanControl`, `KernelFan` | `fan_ctrl.c`; `pwm_fan_ocr.c` | |
| `CaptureKey`, `PairedRead` | `gpio_capture_key.c`; the sample of `iio_ap3216c.c` | |
| `Devices` | no code of its own: the parts around the frame path that theorems are about, and the properties that join two of them | extends `ImuReader`, `RingBuffer`, `MsgBus`, `EventLoop`, `CaptureKey`, `FanControl`, `KernelFan`, `PairedRead`, `PoseTrack` |
| `MCDevices` | the parts around the frame path, from `RingBuffer` down | extends `Devices` |
| `MCApplication` | the parts of the program around its frame path, from `Supervision` to `Translation` | extends `Startup`, `DisplayRoute`, `Supervision`, `PhotoArchive`, `Recognition` |
| other `MC…` | instances for TLC | |

How state and actions correspond to the code:

**BufferPool.** `slotState`, `freeList`, `registered`, `fd`, `refcount` are the
pool's fields. The code's references have no owner in C; `held[h]` gives each to
a *holder*: a place of the program that keeps pointers (a queue, `latest_frame`,
`sink->current`) or a thread's local variable. `Threads` are the holders that
run operations; they move references between themselves and the places.
`RefLoad`/`RefCas` and `UnrefLoad`/`UnrefCas` are the load and the
compare-and-swap of the loops; `RecycleEnter`/`RecyclePublish` are taking
the lock and recycling around the callback, whose result may be a failure. A
body under the lock that calls nothing is one step. `openFds` is the process's
descriptor table: a descriptor closed by destroy may be handed out again.

**PipelineNode.** The three threads' steps are `ppc`, `wpc`, `mpc`. `Sleep` is
the wait on `in_cond`; `Woken` is what a signal or broadcast does to a sleeping
worker, and `SpuriousWakeup` what POSIX allows. `Process` hides the callback,
which may decide to stop its own node (`CallStop`, `SelfStop`). `lifecycle` is
`lifecycle_lock`, held across `Join`. `Start` creates a thread with a name of
its own, so a second worker would be seen. `SetIdleOnly` is possible whenever the
node is not started, also with frames left in its queue; `IdleModes` are the
values it is called with.

**FrameFlow.** A count and the recycling that follows are one step here, which
`RecycledOnce` justifies; a node's critical sections are one step. `Recycle` is
`capture_recycle` in whichever thread drops the last reference: while the stream
is on the buffer goes back to the driver, or its QBUF fails, and then the buffer
is neither with the driver nor held, `queueError` is set and the capture thread
told to go (by the constant `QueueMayFail`). The display controller is `scan` (what it reads), `pending` (a flip in the kernel,
with its cookie in `flipOf`) and `events`; `ReadDeadEvent` is an event that
belongs to an earlier call, whose stack frame is gone, so the flag it writes may
or may not be the present one's. Blits, flips, modesets and (by a constant)
waits fail. `mpc` walks through `cleanup` with its early returns.

**V4l2Capture.** `device` and `queued` are the driver: while the device is on it
may fill any buffer it has. `rstep`/`rbuf` follow each actor through
`capture_recycle`, which runs inside the pool's lock. `Main` calls stop, start
and close in any order; `Clients` are callers of get_latest and the nodes a
frame is handed to, which drop frames at any time.

**LiveView.** `generation` and `presented_generation` are only ever compared;
`unseen` says they differ and `since` that `generation` has moved since the
snapshot. Pixels are values: a text with a status, `Blank`, or `Torn` for a
canvas cleared or half drawn. `Latch` is the controller's vertical blank.

**Supervision.** A tick is 500 ms. A thread that can run does so before the next
tick; a sleep takes as long as asked or one tick more; an iteration of the main
loop takes up to `WorkMax` ticks, or blocks in a driver. `age` is now minus
`last_feed`. Exit code and state are two stores, in the order of each writer. The
watchdog's look at the feed count is two steps, `WatchLoad` and `WatchJudge`: a
feed between them belongs to the next look.

**Startup.** `at` counts through the start's list of steps, then through the
cleanup's; `have` is `g_init`, `got` what really exists, `running` the workers.
Each step may fail; a stop that fails makes the cleanup keep what depends on it
(`KeepRest`). Other failures of the cleanup are only logged (`LogFailure`): a pool
or a camera that refuses to go stays, a plane property or a CRTC that cannot be
written stays as it is, and the cleanup goes on; `logged` remembers which.
`screen` and `props` say whether the display still is as it was found.

**DisplayRoute.** A connector that is on keeps its CRTC, another one takes a
free one; where the code takes the first of equal candidates any may be first.
`left` are the connectors not tried yet. One whose CRTC cannot be read, or shows its
picture on more than `MaxRouted` connectors (`OCR_DRM_MAX_CONNECTORS`), is passed
over. A plane is what it can do and who uses it.

**PhotoArchive.** `spc` walks through the save, `cpc` through the cleanup; the
tree is `dates`, `photos`, `files`. Every call is a step; a call may fail, and
`midnight` records that the date has changed since a save began.

**TextBoxes, ReadingOrder.** The flood is step by step, with the queue and the
`seed` the code has; a region's score is any score. Sorting goes box by box: a
step is one insertion (`InsertY`, `InsertX`) or one box more in a row
(`GrowRow`), with the code's running sums in place of its means. `page` holds
places of the list as it was found, so that a box lost or doubled would show;
`begins` records, for the properties, where the rows begin.

**CtcDecode, Tokenizer, Translation.** Labels, characters and tokens are model
values; capacities are what counts. A step of `CtcDecode` is one time step of the
network's output, one of `Tokenizer` a word, a piece or a gap; `cover` records,
for the properties, which part of the text each entry of the array is for.
`ReadBack` is decode over the whole array: a fold of `ReadOn`, which sets words
apart, takes the `</w>` off the end of a piece and puts a space there, ends at
EOS, and gives up at an id outside the vocabulary (`ERANGE`) or when the output
buffer is too small (`ENOSPC`); `Bytes` says how many bytes a character takes.
`Translation` follows who owns each output: `lent` is what the runtime has handed
out and `trUsed` what a run was given. A failing `rknn_outputs_release` is not a
case of its own: `rknn_runtime.c` logs it and forgets the outputs as after a
success, and what the vendor's library then does with them is not ours to model.

**RingBuffer.** A push is `PushCheck`, `PushCopy`, `PushPublish`, a pop
likewise; `head` and `tail` run freely and wrap at `Wrap`, which stands for the
width of `size_t`.

**MsgBus.** `PostPush` and `PostSignal` are the push under the lock and the
write to the eventfd after it. The receiver either calls recv when it likes or
answers an event loop, once per report.

**EventLoop.** A batch holds pointers to items which are looked at one by one;
callbacks and other threads add, change and remove meanwhile. `Dispatch` copies an
active item under the lock, `CallbackStarts` is the call from that copy after the
unlock; `overtaken` records a removal or change in between, after which the old
callback starts all the same, as `event_loop.h:71` and `:78` warn. A removed item
stays allocated until destroy, as in the code.

**ImuReader.** Two processes contend for a lock file; one may be killed at any
step, which frees the lock and leaves the IIO buffer on. `shadow` is what the
process believes of the buffer, `kernel.bufOn` what is true. Writes to sysfs and
register transfers fail up to `MaxFaults` times.

**PoseTrack.** A sample has the moment it was taken (`at`) and the stamp of its
clock (`ts`); `skew` is the difference, which `SetClock` changes. A pose is the
two samples the search chose.

**FanControl, KernelFan.** One sysfs write or one section under the mutex per
step; the temperature is an input. The kernel compares a signed temperature with
unsigned thresholds: `Unsigned` is that conversion (to a width of `IntMax`), so
that below zero the top level is taken. `FanControl` keeps in `found` what the channel
was, to compare on the way out.

**CaptureKey, PairedRead.** Time in ticks of the debounce; the work is `delay`.
The chip latches the high byte when the low one is read; the writes of suspend and
resume may fail, which leaves the chip as it is and, for suspend, the system
awake.

**MCDevices, MCApplication.** Parts that share no state are checked in one
run: `part`, chosen in the initial state, says whose actions may happen,
and the other parts keep their initial values. The states of the parts add up;
they do not multiply. What does interact is composed in `FrameFlow`, `LiveView`,
`PoseTrack`, `PhotoArchive`, `ImuReader` and `Translation`. The parts about which
something is proved are extended, not instantiated: what a run checks and what a
theorem states is then one definition.

## Runs

| Run | Question | Instance | Why that is enough |
| --- | --- | --- | --- |
| `pool` | are counts, lists and lending exact under every interleaving? | 2 threads and 2 more places that keep references, 2 slots, 2 descriptors, `RefMax` 3 | each loop's compare-and-swap fails against the other thread; the limit is reached and a fourth reference is refused; the theorems cover every larger pool |
| `node` | queue, wakeups, stop and restart | 2 producers, 2 managers, 2 workers, ring of 2, 4 frames, 2 starts; `set_idle_only(1)` at any time the node is not started, as in `main.c:763` (`IdleModes` {TRUE}; nothing calls it with 0) | the ring wraps and overflows, a restart follows a stop, both managers contend; a node becomes idle-only with frames in its queue |
| `flow` | memory safety and order on the whole path | 2 capture and 3 output buffers, queues of 2, frame numbers to 2, QBUF may fail | pools smaller than the queues: each exhaustion happens; every reader holds a frame at once |
| `flow_live` | does the screen move, does cleanup end? | same, queues of 1, no frame numbers, waits and QBUFs succeed | liveness without the counter; a failed QBUF ends the capture thread and with it the picture, so the claim is about the path that still runs |
| `flow_scan` | is what the screen reads referenced? | queues of 1, waits and QBUFs may fail | violation, see below |
| `capture` | start, stop, close against holders | 3 buffers, 2 clients | one frame each for thread, latest and clients, one with the driver |
| `live_view` | what the user sees | two results (none and one) | a newer result differs from the older, a blank one included |
| `devices` | the parts around the path, under faults | 2 faults, 1 killed process, 1 sleep; 2 processes; ring of 2 wrapping at 4; history of 3; bus of 2 and 2 posters; 2 loop items on 2 descriptors, each with 2 callbacks; temperatures in each band of the table and of its hysteresis and one below zero (in `MCDevices`, a configuration cannot hold a negative number); debounce of 2 ticks and 4 edges | a fault and one more during its undoing; a process dies and the next one inherits; every ring overflows and wraps; an item is removed and its descriptor used again while its event is under way or its copy is taken |
| `application` | start, exits, archive, text | 3 faults in a start; 3 connectors of which a CRTC may show 2, 2 encoders and CRTCs; timeout 5, period 2, stall limit 2, work 2 ticks; 2 photos on 2 days, space for 4 files, 1 fault; maps of 3 x 5 pixels and 2 boxes kept; 3 boxes to order; 3 labels; texts of up to 4 characters and longer ones with a `</w>` inside, room for 6 tokens, output buffers of every size up to the text's; 2 translations | a failure, a failure in its cleanup and one more; every routing, up to the names of connectors and CRTCs; the program's 5 s (10 ticks), 1 s and 5 looks shortened, with the timeout at its limit (`TimesAssumption`: work + period + 1 <= timeout; one tick less and `NoFalseAlarm` fails); a cleanup that meets a save on the same and on another day; more regions than the list holds; each capacity met exactly and exceeded; a second call after a failed one |
| `watchdog_hang` | does a hang end the program? | times as in `application` | violation, see below |
| `kernel_fan` | is the fan at its level's duty? | one sleep, no manual mode, no fault | violation, see below |
| `archive_midnight` | is a photo being saved always kept? | two days, no fault | violation, see below |

What the properties say, in short (each is stated in words above its
definition):

- `pool`: `CountsSound` count = owners, within its limit; `FreeListExact`;
  `ImagesBacked` referenced slots are in use with distinct open descriptors;
  `OneRecycler`; `LoanSpec` the pool implements `BufferLoan`;
  `DroppedSlotReturns`.
- `node`: `NodeSound` every frame pushed is in one place, or dropped once, and
  there is one worker; `QueueSpec` the node implements `FrameQueue`;
  `StopReturns`; `FramesServed`.
- `flow`: `PathSound` count = pointers in the threads, queues, sink; no buffer is
  with the camera and held, and while the stream is on none is neither unless a
  QBUF has failed, after which the capture thread is told to go; `WritesUnseen` camera and RGA write nothing
  that is read, by a thread or by the screen (until a wait has failed);
  `CleanupSound` resources outlive their users, and nothing is left when cleanup
  has come to its end; `ShowsForward`.
- `flow_live`: `DisplayMoves` although OCR may never finish; `ShutdownEnds`.
- `capture`: `FramesSound` counts, and silence after stop; `CameraWritesUnheld`,
  `DequeuedIsFree`, `NoBufferLost`, `CallsReturn`.
- `live_view`: `ViewSound` what is shown is whole; `ResourcesOutliveUsers`,
  `NewestShown`, `StatusErased`, `PhotoTaken`.
- `devices`: `SensorsSound` (IMU, light sensor), `PoseFound`, `NothingMissed`
  (bus, key), `FansSafe`, `RingIsFifo` the ring implements `BoundedFifo`,
  `NoStaleEvent` (event loop, key: a callback has its own descriptor's event and
  a registration in force, but for the copy a del or mod has overtaken),
  `DevicesLive`.
- `application`: `CleanEnd` nothing goes before its users, and what is left in the
  end is what a logged failure left; `RouteSound`, `ExitSound` an exit has a cause, its
  code tells it, and no alarm is false; `ExitsLive` a request ends the program
  and a hang is noticed; `ArchiveSound`; `RecognitionSound` from the pixels to
  the words no stage adds, loses or gives up what it should not; `ReadingSound`
  the order of a page is the only one that meets the definition of a reading
  order; a text that fits is read back from its tokens with the same words
  (wordpiece) or the same characters but for the `</w>` that ends a piece (BPE); a
  buffer too small gives a beginning of it and an error, an unknown id an error.

A property of `devices` or `application` is the conjunction of named properties
of the modules; each part is stated, in words, where it is defined. For each
checked property there is a definition `Bug...`, beside the one it changes, which
breaks it; `PROJECT.json` lists them.

Bounds that are not constants of the program: `MaxFrames`, `MaxStarts`
(`PipelineNode`), `MaxFrame` (`FrameFlow`), `WorkMax` (`Supervision`),
`MaxFailures` (`Startup`), `MaxFaults`, `MaxSleeps` and `MaxKills`
(`ImuReader`), `MaxFaults` (archive), `MaxTrFaults` (translation),
`MaxSysfsFaults` and
`MaxCrashes` (`FanControl`), `MaxDriverFaults` and `MaxFanSleeps` (`KernelFan`),
`MaxKeyFaults`, `MaxKeySleeps` and `MaxEdges` (`CaptureKey`), `MaxPairFaults`,
`MaxPairSleeps` and `LightSamples` (`PairedRead`), `MaxTime` (`PoseTrack`), `LastDay`
and `MaxPhotos` (`PhotoArchive`), `MaxFound` (`ReadingOrder`), `MaxFile`,
`MaxSteps`, `MaxRoom`, `Texts`, `MaxTokens` and `MaxCalls` (text). They end a
behaviour, a counter or an input; `WorkMax` says how long an iteration that does
not block may take. `IntMax` (`KernelFan`), `MaxRouted` (`DisplayRoute`) and
`Wrap` (`RingBuffer`) stand for limits the code has, scaled down. Deadlock is checked in
`pool`; elsewhere the system really stops (nodes destroyed, cleanup finished,
program over, input used up), so the configurations say so.

## Fairness

- A thread that can take its next step takes it: `WF` on each thread's steps.
- A lock is not withheld for ever: a step that waits for one (`RecycleEnter`,
  `Claim`, `Check`, `PoolDestroy`, `SelfStop`) has `SF`.
  The critical sections are short and their callbacks return.
- Hardware goes on: a queued flip is done, a queued plane update is latched, a
  blit returns. `drm_fb.c:289` says that a controller that never answers hangs
  the display worker; no liveness property claims otherwise.
- An operation that may fail does not fail for ever: `SF` on success where a
  property needs it (`RgaBlit`, `PresentFlip`, `Commit`), written in the
  property's premise where it belongs to the environment (a recognition that
  succeeds, OCR that comes back).
- `MsgBus`: a post that has pushed also signals, and the receiver does what it
  can; a time-out is never needed. `EventLoop`: the running thread goes on, and a
  stop that has begun writes its wake-up. `ImuReader`: a suspended system
  resumes; calls begun, and threads told to end, go on (`SF`, since a suspend
  interrupts them). `Supervision`: main loop, watchdog and time go on.
- Nobody *has* to call start or stop, press a key, push a frame, drop a frame
  (except where a property says "if"), or send a signal.

## Proofs

TLC checks instances; the following holds for every value of the constants that
the named assumptions of each module allow. Every proof has the same plan: an
inductive invariant `IInv` (TLC has checked it on the run's instance first), the
initial states satisfy it, each action keeps it, the properties follow. Every
assumption is an `ASSUME` of a module that a run extends, so TLC evaluates it for
the values used there; nothing else is assumed.

| Module | Theorem | States | Rests on |
| --- | --- | --- | --- |
| `BufferPoolProofs` | `CountsCorrect` (with `TypeCorrect`, `CountExact`) | `CountsSound` | `FinitePool`, `ThreadsAssumption`, `NoFdAssumption`, `NoHolderAssumption`, `RefMaxAssumption` |
| | `FreeListCorrect`, `ImagesStayBacked`, `RecycledOnce` | `FreeListExact`, `ImagesBacked`, `OneRecycler` | |
| | `PoolImplementsLoan` | `LoanSpec` | |
| `PipelineNodeProofs` | `NodeIsSound` | `NodeSound` | `DepthAssumption`, `ModesAssumption`, `BoundsAssumption`, `NobodyAssumption` |
| | `NodeImplementsQueue` | `QueueSpec` | |
| `V4l2CaptureProofs` | `FramesAreSound`, `NoBufferIsLost` | `FramesSound`, `NoBufferLost` | `ActorsAssumption`, `NoneAssumption`, `ClientsAssumption` |
| | `CameraWritesNoHeldFrame`, `DequeuedBufferIsFree` | `CameraWritesUnheld`, `DequeuedIsFree` | |
| `FrameFlowProofs` | `PathIsSound`, `WritesAreUnseen` | `PathSound`, `WritesUnseen` | `NoneAssumption`, `DisjointPools`, `BoundsAssumption`, `FailureAssumption` |
| | `CleanupIsSound`, `ScreenGoesForward` | `CleanupSound`, `ShowsForward` | |
| `LiveViewProofs` | `ViewIsSound`, `ResourcesAreSafe` | `ViewSound`, `ResourcesOutliveUsers` | `NoTextAssumption` |
| `MainProofs` | `EndIsClean` | `CleanEnd` | nothing |
| | `RouteIsSound` | `RouteSound` | `HardwareAssumption` |
| | `ExitsAreSound` | `ExitSound` | `TimesAssumption` |
| | `ArchiveIsSound` | `ArchiveSound` | `ArchiveAssumption` |
| `DeviceProofs` | `SensorsAreSound` | `SensorsSound` | `ImuAssumption`, `PairAssumption` |
| | `RingImplementsFifo` | `RingIsFifo` | `RingAssumption` |
| | `NothingIsMissed` | `NothingMissed` | `BusAssumption`, `KeyAssumption` |
| | `NoEventIsStale` (with `LoopDispatchesLive`, `KeyReportsStable`) | `NoStaleEvent` | `LoopAssumption`, `KeyAssumption` |
| | `FansAreSafe` | `FansSafe` | `FanAssumption`, `KFanAssumption` |
| | `PoseIsFound` | `PoseFound` | `PoseAssumption` |
| `TextProofs` | `RecognitionIsSound` | `RecognitionSound` | the assumptions of its five parts: |
| | with `RegionsAreWhole`, `PageIsInOrder` | its parts `RegionsWhole`, `PageInOrder` | `DetAssumption`, `OrderAssumption` |
| | `TextIsMeant`, `TokensAreKept` | `TextMeant`, `TokensKept` | `CtcAssumption`, `TokAssumption` |
| | `TranslationIsSound` | `TranslationSound` | `TrAssumption` |

and in each module the theorem that `IInv` holds in every reachable state
(`Invariance`, `NodeInvariance`, `CaptureInvariance`, ...). A theorem
of `DeviceProofs` or `TextProofs` over several specifications speaks of parts that
share no variable. The assumptions say what a constant is (a number, a set of
records), and where the code relies on more, that: a blank is no space, no piece
of a vocabulary is empty.

Why none of the properties is inductive alone, and what had to be added:

**BufferPool.** That a decrement to zero leads to one recycling needs to know who
is between his compare-and-swap and the lock; that a slot taken from the free
list is not referenced needs the list and the states to agree. So `IInv` has: the
count of each slot is the cardinality of its holders; the free list has no
repetition and holds exactly the FREE slots; a referenced slot is IN_USE;
registered slots own open, distinct descriptors; a slot IN_USE and unreferenced
has exactly one holder in recycling; a thread inside an operation on a slot stands
where the code lets it (with the reference it works on, or alone with an
unreferenced slot); the lock is held by exactly the thread in the callback. The
refinement maps `FREE` to available and `held` to itself; the loads, failed
compare-and-swaps and lock entries are stutters.

**PipelineNode.** The ring is filled from `head` for `count` places and empty
elsewhere (`RingFilled`); each frame pushed is in exactly one place of ring,
hands and dropped (`OwnedOnce`); who has what in his hands at which step; a
worker that is not the node's thread has ended (`WorkerIsThread`); the manager in
stop has `lifecycle_lock` and knows whether there is a worker (`ManagerKnows`).
The refinement maps the filled part of the ring to the queue of `FrameQueue`.

**V4l2Capture.** The hard fact is `DriverHasFree`: a buffer is with the driver
already while the thread that recycles it still publishes it as free under the
pool's lock, and the capture thread may dequeue it in between. `RecyclersAlone`
and `OneAtATime` say who can be there, `Counted` writes the count as a sum over
the kinds of holders, `Stages` what main knows at each step of stop and start.

**FrameFlow.** `RefsBalanced` (count = occurrences in queues, hands, screen) is
inductive with what each thread holds at each step (`LocalsHeld`) and what
cleanup has waited for (`Dismantled`). `CameraOwnsRest` is inductive with it: a
buffer comes free only through `Recycle`, which gives it to the driver or says
that it could not. `WritesUnseen` needs that the RGA worker
alone has its output (`WrittenAlone`) and that the controller reads `current`, or
what is waited for (`ScreenKnown`), which is exactly what a failed wait breaks.
`ShowsForward` needs the order of frames along the whole path (`PathOrdered`):
what is shown or queued for it is not newer than what the RGA has still to do.
The queues are sequences of any length; `Occurs` counts a buffer in one, and a
few lemmas say what appending, removing and clearing do to it.

**LiveView.** The overlay draws into the canvas that is neither shown nor queued
(`DrawnUnseen`), and only that one can be torn, between clear and render.

**Startup.** The cleanup takes no notice of how far the start came, so the
invariant must not either: at step `at` of the cleanup what is left is exactly
what was acquired and has its place there or later, and what a logged failure kept
(`CleanupBackward`). Together
with the fact that what a resource or a worker uses is given back after it
(`UsedLater`, `WorkersUse`), which is a fact of two lists in the code, nothing
goes before its users, for any number of failures and any way through the start.

**DisplayRoute.** What has been passed over is not usable (`RouteKnown`), so at
the end a failure means that the hardware has nothing; `RouteTaken` says why a
CRTC chosen free is driven by nobody else. The ranges of hardware are arbitrary.

**Supervision.** `FedInTime` bounds the age of the last feed plus the time until
the next one by one iteration; it has to know of a feed that came after the
watchdog's load. Proving it showed that an earlier form of the model dropped such
a feed, which the code does not: load and judge are now two steps over one count.
It also gave the exact bound: `WorkMax + Period + 1 <= Timeout`, where the run
stands on the limit. `CodesJustified` says that a code about to be stored, or
stored, has its cause already, in whatever order the requests' two stores fall;
`StallsTimed` that every look which found no new frame cost a period.

**PhotoArchive.** Unless the date has changed, both walks call the same day today
(`ClocksAgree`), the cleanup is never in that directory (`WalkKnown`), so what the
save has written stays (`SaveKept`). That the oldest goes first and that cleanup
ends rightly needs the list to be complete while a save makes directories
(`ListComplete`) and the space measured to be no more than what is in use
(`MeasuredLow`).

**RingBuffer.** Each thread knows, between its check and the publication of its
index, that there is room or an element (`ProducerKnows`, `ConsumerKnows`); the
other thread can only make that more true. Two lemmas of modular arithmetic carry
the rest: indices less than the capacity apart have different slots, and the slot
after the wrap is the next one because the wrap is a multiple of the capacity. The
refinement maps the elements between tail and head to the queue of `BoundedFifo`.

**MsgBus.** That each message has its signal is not kept by a receiver that reads
the eventfd and pops in two steps, in either order. `BusKnows` says by how much
the signals, given or about to be, exceed the messages at each place of the
receiver: one more between its pop and its read, one less between its read and
its pop, and one for each poster whose message was taken before it had signalled.
The number of posters thus bounds how far the eventfd may be ahead.

**EventLoop.** A batch is fetched without the lock and its items are looked at one
by one. `BatchOwn` says they are still there, because `Del` frees nothing, and for
the descriptor whose event was fetched, because no item is used twice;
`OneItemEach` that no two active items have one descriptor; `WatchedActive` that
the kernel watches the active ones. So the flag read under the lock gives a copy
of the one registration in force. Until the call it may be overtaken: `CopyOwn`
says that only a removal or change since the copy can make it an old one.

**CaptureKey.** Every edge starts the delay anew, so the delay still to run and
the quiet time behind it add up to the debounce time at least (`Quiet`). Suspend
and its failure have to keep that: work is pending only while the interrupt is on,
and a delay that resume starts is a whole one.

**KernelFan.** That the level fits the last temperature is inductive once it is
known that no work is left between the two steps of a suspend, and that a driver
is not removed on its way through one; the rest is that `TargetLevel`, from any
level, returns one that fits: for a temperature below zero the top one, as the
code's mixed comparison does.

**ImuReader.** Who may write the buffer's switch is one process, the owner of the
lock, but what it does depends on what it believes (`Belief`): after prepare it
never takes the buffer for off when it is on, and until something fails its belief
is the truth. `Fits` ties the flags to the thread: where the thread is says
whether it counts as started, and where a call of start, stop or destroy is says
what the thread can no longer do, so that two of them may write the switch without
a lock between them. `HardwareKnown` carries it to the chip: until a disable or
a suspend has failed, it interrupts exactly while the buffer is on and the system
awake. A process killed at any of these steps leaves the buffer to the next one's
prepare (`leftOn`).

**PairedRead.** A reader between its two transfers has the mutex, and the high
byte that the chip presents is that of the low byte it has (`ReadsPaired`): the
chip latches a new pair only for a low byte, which nobody else can read meanwhile.

**FanControl.** Set-up and way back are lists of writes of which any may fail; how
many are left says what the channel is (`Setting`, `Restoring`), and the
controller either exported the channel or keeps what it found (`Owned`,
`Borrowed`). A first form held in every reachable state that TLC saw and was not
inductive: it did not say that level and temperature are zero until the set-up
has ended, on which the first update relies.

**PoseTrack.** That an answer is the exact one is kept by a search that goes on
while nothing changes the history under it; so the search between its steps has to
be part of the invariant: the frame's time lies between low and high, at every
`Halve`. That the history is in order rests on `last`, which no recorded time
exceeds, also after the clock was set back and everything has started anew.

**TextBoxes.** A box is made when its region ends, so the invariant is about the
region under way (`FloodKnown`): what is in the queue is connected, since each set
that is closed under neighbourhood and holds the first pixel holds all of it; it is
closed but for the pixels not visited yet; and all that was finished before is
closed by itself. So an empty rest of the queue means one whole region. A queue
that never repeats a pixel needs that a pixel leaves the map as it enters.

**ReadingOrder.** Each insertion is a permutation of the page that keeps what stood
in order in front of it (`Inserting`, `Shifts`). `SortedSoFar` says how far the page
is in order: down to the item in the first sort; then, row by row, behind
`rowBegin` still in the first order and before it by rows. The rows sorted across
stay above the rest because a sort across moves boxes within its row only, and
everything before it is no lower than everything in it or behind it.

**CtcDecode.** Two things meet: after the contract each class that is not the blank
is the token at its place of the dictionary (`ContractMet`), which needs the case
distinction of the code to fit every alphabet the model may have; and the text so
far is what the steps so far say (`ReadSoFar`), for which the number of steps that
speak is the length of the text.

**Tokenizer.** `Filled` says what each entry stands for and `Reached` that between
the last of them and the position there are only gaps. Within a word more is
needed (`SpanKnown`): it is a whole word, what was taken before it ends in front of
it, and once a piece of it was taken the whole of it is no piece, because the
longest would have been taken. That is why an UNK that replaces the pieces of a
word stands for a word the vocabulary does not have. `Starts` ties `at_word_start`
to the text. The place kept for EOS shows only when the array is full: what is
taken never exceeds `Payload`, which leaves it free unless BOS has filled the array.

**Translation.** An output belongs to the run that made it, and the next run of its
context gives it back. `OutputsHeld` says that exactly the outputs a context
remembers are lent; `InputsSet` which inputs each point of a call has set, and
which the last run of each context was given.

## Where code and documents disagree

- **The frame on the screen** (`flow_scan`). `drm_sink.h:34` says the sink holds
  a reference to the scanned frame until the next has replaced it. When the wait
  for a flip's event fails (`drm_fb.c:291`), present drops the new frame's
  reference while its flip stays queued; the flip then happens, and the
  controller reads a buffer that the RGA may get. `WritesUnseen` in `flow` shows
  that nothing else leads there.
- **Forced exit** (`watchdog_hang`). `system_manager.h:50` and the log say that a
  timeout forces the program to exit. The watchdog stores a request which only
  the main loop reads, the thread that hangs, and then ends.
- **The kernel's fan after a sleep** (`kernel_fan`). `pwm_fan_ocr.c:4` says the
  driver controls the PWM by its table. Suspend writes duty 0 and leaves
  `current_level`; after resume the work finds the level unchanged
  (`pwm_fan_ocr.c:134`) and writes nothing. The fan stays off until the
  temperature leaves the band. `FansSafe` shows that the level itself stays
  justified by the last temperature read.
- **A photo at midnight** (`archive_midnight`). `storage_mgr.c:176` says that
  today's directory is left out so that half an archive is never removed. Saver
  and cleanup each read the clock; a save begun before midnight writes into
  what the cleanup takes for an old directory. `ArchiveSound` shows that without
  a change of the date it holds.

Modelled as it is, without being called wrong:

- A failed QBUF or STREAMON in start leaves `queue_error` set, so that no later
  start succeeds.
- A node whose worker stopped itself cannot be started until somebody has
  called stop. And although `node.c:51` says that a callback which stops its own
  node gets -2, `ocr_node_stop` takes `lifecycle_lock` first, which a manager
  holds while it joins that very worker (`node.c:347`): both would wait for
  ever. No callback of `main.c` stops its node, so `StopReturns` is stated for
  callbacks that do not.
- `main.c:59` says that camera and IMU use one clock. Nothing in the sources
  chooses the clock of the IIO device, so `PoseTrack` lets the two differ;
  `PoseInTime` claims the right pose only while they agree, and an exact search
  whether they do or not.

## Limits

Only checked by TLC, out of the prover's reach: everything under fairness
(`DroppedSlotReturns`, `StopReturns`, `FramesServed`, `DisplayMoves`,
`ShutdownEnds`, `CallsReturn`, `NewestShown`, `StatusErased`, `PhotoTaken`,
`ExitsLive`, `DevicesLive`) and any use of ENABLED; and `ReadingSound`, the one
safety property that no theorem states. It compares a whole result with a
definition: that no other order of the page meets the definition of a reading
order needs sums over the sets of boxes that make a row, and that a text is read
back from its tokens needs what a fold over a sequence returns, both inductions
over data. `PageInOrder` and `TokensKept`, which are proved, say of every page and
every text what can be said step by step.
Every other invariant and safety property of the passing runs is the statement of
a theorem.

Abstracted: memory orders (the atomics are sequentially consistent in the model;
the code pairs acquire and release on each), statistics counters, `EINTR`
loops, logging. `lifecycle_lock` and `in_lock` have no lifetime of their own, so
destroying a lock that somebody waits for is not seen.

Not modelled:

- negotiation of camera formats; the framebuffer cache and the atomic property
  writes of the display (data of `present`); crop and rotation geometry of the
  RGA; layout and blending of glyphs: pure data, or ioctls without state of ours;
- attitude filter and stabilising crop: floating point;
- the neural networks and their vendor library, `zerocopy.c`, parsing of the
  vocabulary and of the configuration, logging: external, or read once at start;
- DMA heap, temperature and brightness: one system call each;
- registers of the ICM42688 and AP3216C other than those `ImuReader` and
  `PairedRead` need, and the ADT7410: register access;
- tests, build and deployment: no run-time state.

Coarser than the code: in `FrameFlow` a worker's last unref and the clearing of
`busy` are one step, which `PipelineNode` has apart. `CtcDecode` refuses a
model by its number of classes, as `ocr_rec.c` does; an alphabet of a fitting size
in another order (the blank last) is accepted by the code and is no input of the
model, so `TextMeant` says nothing of it.

## Plan

The order follows importance: first who owns which memory, then the threads
around it, then the rest.

1. *Done:* pool, node, camera, video path, overlay, supervision; the pool's
   theorems.
2. *Done:* start and cleanup, display routing, ring, bus, event loop, IMU reader
   and pose history, both fans, capture key, light sensor, archive, detection to
   translation.
3. *Done, proofs:* an inductive invariant, and with it the checked safety
   properties, of `BufferPool`, `PipelineNode`, `V4l2Capture`, `FrameFlow`,
   `LiveView`, `Startup`, `DisplayRoute`, `Supervision`, `PhotoArchive`,
   `RingBuffer`, `MsgBus`, `EventLoop`, `CaptureKey`, `KernelFan`, `FanControl`,
   `ImuReader`, `PairedRead`, `PoseTrack`, `TextBoxes`, `ReadingOrder`,
   `CtcDecode`, `Tokenizer` and `Translation`; three refinements.
4. *Open:* what [Limits](#limits) names: liveness, and the two comparisons of
   `ReadingSound`.
