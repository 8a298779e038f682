---------------------------- MODULE Supervision -----------------------------
(***************************************************************************)
(* The main loop of src/app/main/main.c (run_application) with the signal  *)
(* flag, the exit request and the watchdog of system_manager.c.            *)
(*                                                                         *)
(* Time passes in ticks of 500 ms, the period of the watchdog thread.  A   *)
(* thread that can run does so within its tick; a sleep may last one tick  *)
(* more than asked for.  What the loop does with its sensors, fan and      *)
(* storage takes at most WorkMax ticks, unless a driver blocks.            *)
(***************************************************************************)
EXTENDS Integers

CONSTANTS
    Timeout,     \* watchdog_timeout_ms
    Period,      \* sleep(1)
    StallLimit,  \* looks without a new frame that end the program
    WorkMax      \* bound: duration of an iteration that does not block

\* An iteration and its sleep are over before the timeout.
ASSUME TimesAssumption ==
    /\ Timeout \in Nat /\ StallLimit \in Nat \ {0}
    /\ Period \in Nat \ {0} /\ WorkMax \in Nat
    /\ WorkMax + Period + 1 <= Timeout

\* What run_application returns for a signal, a dead capture thread, no frames
\* and a watchdog alarm, and for what could not be started.
ExitCodes == {0, 10, 11, -1}
StartFailures == {-1, -3, -4}
NoResult == 1

VARIABLES
    signal, state, exitCode,   \* s_exit_signal # 0; sm->state, sm->exit_code
    mpc, mtimer, mcode,        \* main: step, ticks left in it, code it requests
    fresh, stalled,            \* latest->frame_id # last_frame_id; stalled_seconds
    capOk,                     \* g_capture.running and not queue_error
    wdRunning, wpc, wtimer,    \* watchdog_running; its thread: step, ticks left
    fed, saw, age,             \* feeds after the last load; any before it; now - last_feed
    result,                    \* result of main()
    quiet, signalled, blocked  \* history: ticks without a frame; a signal came,
                               \* main was blocked

manager == <<signal, state, exitCode>>
loop == <<mpc, mtimer, mcode>>
frames == <<fresh, stalled, capOk>>
watchdog == <<wdRunning, wpc, wtimer, fed, saw, age>>
history == <<quiet, signalled, blocked>>
supVars == <<manager, loop, frames, watchdog, result, history>>

SupInit ==
    /\ signal = FALSE /\ state = "INIT" /\ exitCode = 0
    /\ mpc = "start" /\ mtimer = 0 /\ mcode = 0
    /\ fresh = FALSE /\ stalled = 0 /\ capOk = FALSE
    /\ wdRunning = FALSE /\ wpc = "none" /\ wtimer = 0
    /\ fed = FALSE /\ saw = FALSE /\ age = 0
    /\ result = NoResult
    /\ quiet = 0 /\ signalled = FALSE /\ blocked = FALSE

-----------------------------------------------------------------------------
\* Mutant: the request is published before its code.
BugStore(code, n) ==
    IF n = 1 THEN state' = "SHUTTING_DOWN" /\ UNCHANGED exitCode
             ELSE exitCode' = code /\ UNCHANGED state

\* The two stores of ocr_system_manager_request_exit.
Store(code, n) ==
    IF n = 1 THEN exitCode' = code /\ UNCHANGED state
             ELSE state' = "SHUTTING_DOWN" /\ UNCHANGED exitCode

\* External: SIGINT or SIGTERM; signal_handler only sets the flag.
Signal ==
    /\ mpc # "exited"
    /\ signal' = TRUE /\ signalled' = TRUE
    /\ UNCHANGED <<state, exitCode, loop, frames, watchdog, result, quiet, blocked>>

\* The capture thread publishes a frame, or ends, or cannot requeue a buffer.
Publish ==
    /\ capOk
    /\ fresh' = TRUE /\ quiet' = 0
    /\ UNCHANGED <<manager, loop, stalled, capOk, watchdog, result, signalled, blocked>>

CaptureDies ==
    /\ capOk
    /\ capOk' = FALSE
    /\ UNCHANGED <<manager, loop, fresh, stalled, watchdog, result, history>>

-----------------------------------------------------------------------------
(* The main thread. *)

\* The nodes and the camera are started; a failure ends the program.
StartCapture ==
    /\ mpc = "start"
    /\ \/ mpc' = "dog" /\ capOk' = TRUE /\ quiet' = 0 /\ UNCHANGED result
       \/ /\ mpc' = "cleanup"
          /\ result' \in {-1, -3}
          /\ UNCHANGED <<capOk, quiet>>
    /\ UNCHANGED <<manager, mtimer, mcode, fresh, stalled, watchdog, signalled, blocked>>

\* ocr_system_manager_start_watchdog with its initial feed.
StartWatchdog ==
    /\ mpc = "dog"
    /\ fed' = TRUE
    /\ \/ wdRunning' = TRUE /\ wpc' = "begin" /\ mpc' = "announce" /\ UNCHANGED result
       \/ mpc' = "cleanup" /\ result' = -4 /\ UNCHANGED <<wdRunning, wpc>>
    /\ UNCHANGED <<manager, mtimer, mcode, frames, wtimer, saw, age, history>>

Announce ==
    /\ mpc = "announce"
    /\ state' = "RUNNING"
    /\ mpc' = "head"
    /\ UNCHANGED <<signal, exitCode, mtimer, mcode, frames, watchdog, result, history>>

\* ocr_system_manager_should_exit: a signal becomes a request with code 0 ...
TakeSignal ==
    /\ mpc = "head"
    /\ signal
    /\ signal' = FALSE
    /\ mcode' = 0
    /\ mpc' = "code"
    /\ UNCHANGED <<state, exitCode, mtimer, frames, watchdog, result, history>>

NoSignal ==
    /\ mpc = "head"
    /\ ~signal
    /\ mpc' = "state"
    /\ UNCHANGED <<manager, mtimer, mcode, frames, watchdog, result, history>>

\* ... and the answer is the state, whoever asked for the exit.
ShouldExit ==
    /\ mpc = "state"
    /\ mpc' = IF state = "SHUTTING_DOWN" THEN "leave" ELSE "check"
    /\ UNCHANGED <<manager, mtimer, mcode, frames, watchdog, result, history>>

\* request_exit on the main thread
RequestCode ==
    /\ mpc = "code"
    /\ Store(mcode, 1)
    /\ mpc' = "publish"
    /\ UNCHANGED <<signal, mtimer, mcode, frames, watchdog, result, history>>

RequestState ==
    /\ mpc = "publish"
    /\ Store(mcode, 2)
    /\ mpc' = "leave"
    /\ UNCHANGED <<signal, mtimer, mcode, frames, watchdog, result, history>>

CheckCapture ==
    /\ mpc = "check"
    /\ \/ capOk /\ mpc' = "look" /\ UNCHANGED mcode
       \/ ~capOk /\ mpc' = "code" /\ mcode' = 10
    /\ UNCHANGED <<manager, mtimer, frames, watchdog, result, history>>

Stalls == IF fresh THEN 0 ELSE stalled + 1

Stalled(n) == n >= StallLimit

\* ocr_v4l2_get_latest and the look at the frame's number
LookAtFrame ==
    /\ mpc = "look"
    /\ stalled' = Stalls
    /\ fresh' = FALSE
    /\ IF Stalled(stalled')
       THEN mpc' = "code" /\ mcode' = 11
       ELSE mpc' = "feed" /\ UNCHANGED mcode
    /\ UNCHANGED <<manager, mtimer, capOk, watchdog, result, history>>

Feed ==
    /\ mpc = "feed"
    /\ fed' = TRUE
    /\ mtimer' \in 0 .. WorkMax
    /\ mpc' = "work"
    /\ UNCHANGED <<manager, mcode, frames, wdRunning, wpc, wtimer, saw, age, result, history>>

\* Brightness, fan and archive are done: sleep(1).
Work ==
    /\ mpc = "work" /\ mtimer = 0
    /\ mtimer' \in Period .. Period + 1
    /\ mpc' = "sleep"
    /\ UNCHANGED <<manager, mcode, frames, watchdog, result, history>>

\* A read or write on a device, or the file system, does not return for a while.
Block ==
    /\ mpc = "work"
    /\ mpc' = "blocked" /\ mtimer' = 0
    /\ blocked' = TRUE
    /\ UNCHANGED <<manager, mcode, frames, watchdog, result, quiet, signalled>>

Unblock ==
    /\ mpc = "blocked"
    /\ mtimer' \in Period .. Period + 1
    /\ mpc' = "sleep"
    /\ UNCHANGED <<manager, mcode, frames, watchdog, result, history>>

\* The second is over, or a signal cut the sleep short.
Wake ==
    /\ mpc = "sleep"
    /\ mtimer = 0 \/ signal
    /\ mtimer' = 0
    /\ mpc' = "head"
    /\ UNCHANGED <<manager, mcode, frames, watchdog, result, history>>

\* run_application returns what the exit code is now.
Leave ==
    /\ mpc = "leave"
    /\ result' = exitCode
    /\ mpc' = "cleanup"
    /\ UNCHANGED <<manager, mtimer, mcode, frames, watchdog, history>>

\* cleanup stops the camera and, at its end, the watchdog, unless it returns
\* early to preserve what a thread may still use.
Cleanup ==
    /\ mpc = "cleanup"
    /\ capOk' = FALSE
    /\ \/ mpc' = "join" /\ wdRunning' = FALSE
       \/ mpc' = "exited" /\ UNCHANGED wdRunning
    /\ UNCHANGED <<manager, mtimer, mcode, fresh, stalled, wpc, wtimer, fed, saw, age,
                   result, history>>

\* ocr_system_manager_stop_watchdog joins a thread that was started.
Join ==
    /\ mpc = "join"
    /\ wpc \in {"none", "exited"}
    /\ state' = "STOPPED"
    /\ mpc' = "exited"
    /\ UNCHANGED <<signal, exitCode, mtimer, mcode, frames, watchdog, result, history>>

-----------------------------------------------------------------------------
(* watchdog_thread *)

WatchBegin ==
    /\ wpc = "begin"
    /\ age' = 0 /\ fed' = FALSE
    /\ wpc' = "load"
    /\ UNCHANGED <<manager, loop, frames, wdRunning, wtimer, saw, result, history>>

\* Mutant: last_count is never brought up to date.
BugLoadCount ==
    /\ saw' = fed
    /\ UNCHANGED fed

\* The count is loaded, compared with last_count and kept there: a feed that
\* comes after the load is noticed the next time.
LoadCount ==
    /\ saw' = fed
    /\ fed' = FALSE

WatchLoad ==
    /\ wpc = "load"
    /\ \/ wdRunning /\ wpc' = "judge" /\ LoadCount
       \/ ~wdRunning /\ wpc' = "exited" /\ UNCHANGED <<saw, fed>>
    /\ UNCHANGED <<manager, loop, frames, wdRunning, wtimer, age, result, history>>

WatchSleep ==
    /\ wpc' = "sleep"
    /\ wtimer' \in 1 .. 2

WatchJudge ==
    /\ wpc = "judge"
    /\ \/ saw /\ age' = 0 /\ WatchSleep
       \/ ~saw /\ age <= Timeout /\ WatchSleep /\ UNCHANGED age
       \/ ~saw /\ age > Timeout /\ wpc' = "code" /\ UNCHANGED <<wtimer, age>>
    /\ UNCHANGED <<manager, loop, frames, wdRunning, fed, saw, result, history>>

WatchWake ==
    /\ wpc = "sleep" /\ wtimer = 0
    /\ wpc' = "load"
    /\ UNCHANGED <<manager, loop, frames, wdRunning, wtimer, fed, saw, age, result, history>>

\* request_exit with -1 on the watchdog thread, which then ends
AlarmCode ==
    /\ wpc = "code"
    /\ Store(-1, 1)
    /\ wpc' = "publish"
    /\ UNCHANGED <<signal, loop, frames, wdRunning, wtimer, fed, saw, age, result, history>>

AlarmState ==
    /\ wpc = "publish"
    /\ Store(-1, 2)
    /\ wpc' = "exited"
    /\ UNCHANGED <<signal, loop, frames, wdRunning, wtimer, fed, saw, age, result, history>>

-----------------------------------------------------------------------------
\* External: 500 ms go by while nobody has anything to do at once.
Waiting ==
    /\ \/ mpc \in {"work", "sleep"} /\ mtimer > 0
       \/ mpc \in {"blocked", "cleanup", "join"}
    /\ \/ wpc = "sleep" /\ wtimer > 0
       \/ wpc \in {"none", "exited"}

Less(n) == IF n > 0 THEN n - 1 ELSE 0
More(n, limit) == IF n < limit THEN n + 1 ELSE n

Tick ==
    /\ Waiting
    /\ mtimer' = Less(mtimer) /\ wtimer' = Less(wtimer)
    /\ age' = More(age, Timeout + 1)
    /\ quiet' = More(quiet, StallLimit * Period)
    /\ UNCHANGED <<manager, mpc, mcode, frames, wdRunning, wpc, fed, saw, result,
                   signalled, blocked>>

MainStep ==
    \/ StartCapture \/ StartWatchdog \/ Announce
    \/ TakeSignal \/ NoSignal \/ ShouldExit \/ RequestCode \/ RequestState
    \/ CheckCapture \/ LookAtFrame \/ Feed \/ Work \/ Wake
    \/ Leave \/ Cleanup \/ Join

WatchStep ==
    WatchBegin \/ WatchLoad \/ WatchJudge \/ WatchWake \/ AlarmCode \/ AlarmState

SupNext ==
    \/ Signal \/ Publish \/ CaptureDies
    \/ MainStep \/ Block \/ Unblock
    \/ WatchStep
    \/ Tick

SupSpec == SupInit /\ [][SupNext]_supVars

\* Threads run and time passes; a device that blocks may do so for ever.
SupFairSpec == SupSpec /\ WF_supVars(MainStep) /\ WF_supVars(WatchStep) /\ WF_supVars(Tick)

-----------------------------------------------------------------------------
\* Type invariant.
SupTypeOK ==
    /\ signal \in BOOLEAN /\ fresh \in BOOLEAN /\ capOk \in BOOLEAN
    /\ wdRunning \in BOOLEAN /\ fed \in BOOLEAN /\ saw \in BOOLEAN
    /\ signalled \in BOOLEAN /\ blocked \in BOOLEAN
    /\ state \in {"INIT", "RUNNING", "SHUTTING_DOWN", "STOPPED"}
    /\ exitCode \in ExitCodes /\ mcode \in ExitCodes
    /\ result \in ExitCodes \cup StartFailures \cup {NoResult}
    /\ mpc \in {"start", "dog", "announce", "head", "state", "code", "publish", "check",
                "look", "feed", "work", "blocked", "sleep", "leave", "cleanup", "join",
                "exited"}
    /\ mtimer \in 0 .. Period + WorkMax + 1 /\ wtimer \in 0 .. 2
    /\ stalled \in 0 .. StallLimit
    /\ wpc \in {"none", "begin", "load", "judge", "sleep", "code", "publish", "exited"}
    /\ age \in 0 .. Timeout + 1 /\ quiet \in 0 .. StallLimit * Period

\* The exit code names a cause that was there: success is only reported after a
\* signal, -1 only if the loop was blocked or could not be started, and whoever
\* else requests the exit at the same time (system_manager.c:117-118).
ExitJustified ==
    /\ result = 0 => signalled
    /\ result = 10 => ~capOk
    /\ result = -1 => blocked \/ wpc = "none"

\* Nothing ends a program that works: the watchdog does not mistake an iteration
\* for a hang, nor the loop a camera that delivers for one that has stalled.
NoFalseAlarm ==
    [][ /\ WatchJudge /\ wpc' = "code" => blocked \/ mpc \in {"cleanup", "join", "exited"}
        /\ LookAtFrame /\ mpc' = "code" => quiet >= (StallLimit - 1) * Period ]_supVars

\* Every exit has its cause, whoever asks for it: the code tells the truth,
\* nothing healthy is ended, and the variables keep their types.
ExitSound == [](SupTypeOK /\ ExitJustified) /\ NoFalseAlarm

\* A signal, or the watchdog, ends the program, unless main is blocked.
ExitHeeded ==
    signal \/ state = "SHUTTING_DOWN" ~> mpc \in {"exited", "blocked"}

\* The watchdog notices a main loop that stays blocked.
HangNoticed == mpc = "blocked" ~> state = "SHUTTING_DOWN" \/ mpc # "blocked"

\* system_manager.h:50: without a feed for longer than the timeout the program is
\* forced to exit.
HangEnds == wpc = "publish" ~> mpc = "exited"
=============================================================================
