----------------------------- MODULE ImuReader -----------------------------
(***************************************************************************)
(* The motion sensor from the chip to the reading thread: the ICM42688     *)
(* driver (bsp/external-modules/icm42688), the IIO buffer of the kernel    *)
(* and ocr_imu_reader of the application (app/stab/imu_reader.c).          *)
(*                                                                         *)
(* Several processes may try to use the device; a lock file admits one of  *)
(* them.  A process may be killed at any moment: the kernel then drops its *)
(* lock and leaves the IIO buffer as it was.  Register transfers and       *)
(* writes to sysfs may fail, MaxFaults times in a behaviour.               *)
(***************************************************************************)
EXTENDS Naturals

CONSTANTS Users,     \* processes that may use the sensor
          NoOwner,   \* nobody holds the lock file
          MaxFaults, \* bound: operations that fail
          MaxKills,  \* bound: processes killed
          MaxSleeps  \* bound: system suspends

ASSUME ImuAssumption ==
    /\ NoOwner \notin Users
    /\ MaxFaults \in Nat /\ MaxKills \in Nat /\ MaxSleeps \in Nat

VARIABLES
    chip,     \* [power, drdy]: sensors on, data-ready interrupt enabled
    kernel,   \* [probed, asleep, drdyEnabled, bufOn]: driver and IIO buffer
    owner,    \* who holds the lock file
    shadow,   \* buffer_enabled of each process
    phase,    \* what each process has of the reader
    running, started, \* flags of the reader
    thread,   \* where the reading thread is
    call,     \* where the main thread is in start, stop or destroy
    closing,  \* the call is destroy, which begins as stop
    faults, kills, sleeps,
    leftOn,   \* the buffer was left on by a killed process
    upset     \* a disable or a suspend has failed: the sensor may be silent

imuVars == <<chip, kernel, owner, shadow, phase, running, started, thread,
             call, closing, faults, kills, sleeps, leftOn, upset>>

Phases  == {"out", "locked", "prepared", "ready"}
Threads == {"none", "loop", "disable", "done"}
Calls   == {"idle", "startJoin", "startEnable", "startThread", "startUndo",
            "stopDisable", "stopJoin", "stopJoinBad"}

(* The types of the variables. *)
ImuTypeOK ==
    /\ chip \in [power : BOOLEAN, drdy : BOOLEAN]
    /\ kernel \in [probed : BOOLEAN, asleep : BOOLEAN, drdyEnabled : BOOLEAN,
                   bufOn : BOOLEAN]
    /\ owner \in Users \cup {NoOwner}
    /\ shadow \in [Users -> BOOLEAN] /\ phase \in [Users -> Phases]
    /\ running \in [Users -> BOOLEAN] /\ started \in [Users -> BOOLEAN]
    /\ thread \in [Users -> Threads] /\ call \in [Users -> Calls]
    /\ closing \in [Users -> BOOLEAN]
    /\ faults \in 0..MaxFaults /\ kills \in 0..MaxKills
    /\ sleeps \in 0..MaxSleeps
    /\ leftOn \in BOOLEAN /\ upset \in BOOLEAN

ImuInit ==
    /\ chip = [power |-> FALSE, drdy |-> FALSE]
    /\ kernel = [probed |-> FALSE, asleep |-> FALSE, drdyEnabled |-> FALSE,
                 bufOn |-> FALSE]
    /\ owner = NoOwner
    /\ shadow = [p \in Users |-> FALSE] /\ phase = [p \in Users |-> "out"]
    /\ running = [p \in Users |-> FALSE] /\ started = [p \in Users |-> FALSE]
    /\ thread = [p \in Users |-> "none"] /\ call = [p \in Users |-> "idle"]
    /\ closing = [p \in Users |-> FALSE]
    /\ faults = 0 /\ kills = 0 /\ sleeps = 0
    /\ leftOn = FALSE /\ upset = FALSE

----------------------------------------------------------------------------
(* The driver.                                                             *)

Fault == faults < MaxFaults /\ faults' = faults + 1

readerVars == <<owner, shadow, phase, running, started, thread, call, closing>>

(* Reset, configuration with the interrupt off, power on.  A transfer that
   fails, or a wrong identity, ends the probe; devm releases the rest. *)
Probe ==
    /\ ~kernel.probed
    /\ kernel' = [kernel EXCEPT !.probed = TRUE]
    /\ chip' = [power |-> TRUE, drdy |-> FALSE]
    /\ UNCHANGED <<readerVars, faults, kills, sleeps, leftOn, upset>>

(* The system goes to sleep with its processes frozen.  When the driver's
   callback fails, the kernel gives the suspend up and does not call resume. *)
ImuSuspend ==
    /\ kernel.probed /\ ~kernel.asleep /\ sleeps < MaxSleeps
    /\ sleeps' = sleeps + 1
    /\ \/ /\ chip' = [power |-> FALSE, drdy |-> FALSE]
          /\ kernel' = [kernel EXCEPT !.asleep = TRUE]
          /\ UNCHANGED <<faults, upset>>
       \/ /\ Fault
          /\ \E d \in {chip.drdy, FALSE} : chip' = [chip EXCEPT !.drdy = d]
          /\ upset' = TRUE
          /\ UNCHANGED kernel
    /\ UNCHANGED <<readerVars, kills, leftOn>>

(* Power first, the interrupt only if it had been enabled. *)
ImuResume ==
    /\ kernel.asleep
    /\ kernel' = [kernel EXCEPT !.asleep = FALSE]
    /\ \/ /\ chip' = [power |-> TRUE, drdy |-> kernel.drdyEnabled]
          /\ UNCHANGED <<faults, upset>>
       \/ /\ Fault
          /\ \E w \in BOOLEAN : chip' = [chip EXCEPT !.power = w]
          /\ upset' = TRUE
    /\ UNCHANGED <<readerVars, kills, sleeps, leftOn>>

(* What a write to buffer/enable does in the kernel: the trigger's state is
   set in the chip first when enabling; a disable that fails there turns the
   buffer off all the same. *)
KernelOn ==
    IF kernel.bufOn THEN UNCHANGED <<chip, kernel>>
    ELSE /\ chip' = [chip EXCEPT !.drdy = TRUE]
         /\ kernel' = [kernel EXCEPT !.drdyEnabled = TRUE, !.bufOn = TRUE]

KernelOff ==
    IF ~kernel.bufOn THEN UNCHANGED <<chip, kernel>>
    ELSE /\ chip' = [chip EXCEPT !.drdy = FALSE]
         /\ kernel' = [kernel EXCEPT !.drdyEnabled = FALSE, !.bufOn = FALSE]

KernelOffFails ==
    /\ Fault
    /\ upset' = TRUE
    /\ \E b \in {kernel.bufOn, FALSE} : kernel' = [kernel EXCEPT !.bufOn = b]
    /\ UNCHANGED chip

----------------------------------------------------------------------------
(* set_iio_buffer_enabled: nothing to do when the process believes the
   buffer to be in that state already. *)

Enabled(p) ==
    /\ IF shadow[p] THEN UNCHANGED <<chip, kernel>> ELSE KernelOn
    /\ shadow' = [shadow EXCEPT ![p] = TRUE]
    /\ UNCHANGED <<faults, upset>>

EnableFails(p) ==
    /\ ~shadow[p]
    /\ Fault
    /\ UNCHANGED <<chip, kernel, shadow, upset>>

Disabled(p) ==
    /\ IF shadow[p] THEN KernelOff ELSE UNCHANGED <<chip, kernel>>
    /\ shadow' = [shadow EXCEPT ![p] = FALSE]
    /\ UNCHANGED <<faults, upset>>

DisableFails(p) == shadow[p] /\ KernelOffFails /\ UNCHANGED shadow

Awake == kernel.probed /\ ~kernel.asleep

At(p, c) == Awake /\ call[p] = c

(* release_reader_control: unlock and forget. *)
ReleaseControl(p) ==
    /\ owner' = NoOwner
    /\ phase' = [phase EXCEPT ![p] = "out"]

----------------------------------------------------------------------------
(* ocr_imu_reader_init.                                                    *)

(* The lock file, which another process may hold: then init fails at once. *)
TakeLock(p) ==
    /\ At(p, "idle") /\ phase[p] = "out" /\ owner = NoOwner
    /\ owner' = p
    /\ phase' = [phase EXCEPT ![p] = "locked"]
    /\ UNCHANGED <<chip, kernel, shadow, running, started, thread, call,
                   faults, closing, kills, sleeps, leftOn, upset>>

\* Mutant: init takes the buffer for off without looking.
BugPrepare(p) ==
    /\ At(p, "idle") /\ phase[p] = "locked"
    /\ shadow' = [shadow EXCEPT ![p] = FALSE]
    /\ phase' = [phase EXCEPT ![p] = "prepared"]
    /\ leftOn' = FALSE
    /\ UNCHANGED <<chip, kernel, owner, running, started, thread, call,
                   closing, faults, kills, sleeps, upset>>

(* prepare_iio_buffer takes over the state it finds and clears a buffer that
   a killed process has left on. *)
Prepare(p) ==
    /\ At(p, "idle") /\ phase[p] = "locked"
    /\ \/ /\ IF kernel.bufOn THEN KernelOff ELSE UNCHANGED <<chip, kernel>>
          /\ shadow' = [shadow EXCEPT ![p] = FALSE]
          /\ phase' = [phase EXCEPT ![p] = "prepared"]
          /\ leftOn' = FALSE
          /\ UNCHANGED <<owner, faults, upset>>
       \/ /\ kernel.bufOn
          /\ KernelOffFails
          /\ shadow' = [shadow EXCEPT ![p] = TRUE]
          /\ ReleaseControl(p)
          /\ UNCHANGED leftOn
    /\ UNCHANGED <<running, started, thread, call, closing, kills, sleeps>>

(* Scan elements, buffer length, descriptor, layout and ring: the first that
   fails undoes what is there. *)
Discover(p) ==
    /\ At(p, "idle") /\ phase[p] = "prepared"
    /\ \/ /\ phase' = [phase EXCEPT ![p] = "ready"]
          /\ UNCHANGED <<owner, faults>>
       \/ Fault /\ ReleaseControl(p)
    /\ UNCHANGED <<chip, kernel, shadow, running, started, thread, call,
                   closing, kills, sleeps, leftOn, upset>>

----------------------------------------------------------------------------
(* ocr_imu_reader_start.                                                   *)

Start(p) ==
    /\ At(p, "idle") /\ phase[p] = "ready" /\ ~running[p]
    /\ call' = [call EXCEPT ![p] =
                  IF started[p] THEN "startJoin" ELSE "startEnable"]
    /\ UNCHANGED <<chip, kernel, owner, shadow, phase, running, started,
                   thread, faults, closing, kills, sleeps, leftOn, upset>>

(* A thread that ended by itself is joined and its buffer switched off. *)
StartJoin(p) ==
    /\ At(p, "startJoin") /\ thread[p] = "done"
    /\ started' = [started EXCEPT ![p] = FALSE]
    /\ thread' = [thread EXCEPT ![p] = "none"]
    /\ \/ Disabled(p) /\ call' = [call EXCEPT ![p] = "startEnable"]
       \/ DisableFails(p) /\ call' = [call EXCEPT ![p] = "idle"]
    /\ UNCHANGED <<owner, phase, running, closing, kills, sleeps, leftOn>>

StartEnable(p) ==
    /\ At(p, "startEnable")
    /\ \/ /\ Enabled(p)
          /\ running' = [running EXCEPT ![p] = TRUE]
          /\ call' = [call EXCEPT ![p] = "startThread"]
       \/ /\ EnableFails(p)
          /\ call' = [call EXCEPT ![p] = "idle"]
          /\ UNCHANGED running
    /\ UNCHANGED <<owner, phase, started, thread, closing, kills, sleeps,
                   leftOn>>

StartThread(p) ==
    /\ At(p, "startThread")
    /\ \/ /\ started' = [started EXCEPT ![p] = TRUE]
          /\ thread' = [thread EXCEPT ![p] = "loop"]
          /\ call' = [call EXCEPT ![p] = "idle"]
          /\ UNCHANGED <<running, faults>>
       \/ /\ Fault
          /\ running' = [running EXCEPT ![p] = FALSE]
          /\ call' = [call EXCEPT ![p] = "startUndo"]
          /\ UNCHANGED <<started, thread>>
    /\ UNCHANGED <<chip, kernel, owner, shadow, phase, closing, kills,
                   sleeps, leftOn, upset>>

StartUndo(p) ==
    /\ At(p, "startUndo")
    /\ Disabled(p) \/ DisableFails(p)
    /\ call' = [call EXCEPT ![p] = "idle"]
    /\ UNCHANGED <<owner, phase, running, started, thread, closing, kills,
                   sleeps, leftOn>>

----------------------------------------------------------------------------
(* imu_thread.                                                             *)

(* It leaves its loop when running has been cleared, or clears it itself
   when poll, read, parse or the ring fails. *)
ThreadLeaves(p) ==
    /\ Awake /\ thread[p] = "loop"
    /\ \/ ~running[p] /\ UNCHANGED faults
       \/ running[p] /\ Fault
    /\ running' = [running EXCEPT ![p] = FALSE]
    /\ thread' = [thread EXCEPT ![p] = "disable"]
    /\ UNCHANGED <<chip, kernel, owner, shadow, phase, started, call, closing,
                   kills, sleeps, leftOn, upset>>

ThreadDisables(p) ==
    /\ Awake /\ thread[p] = "disable"
    /\ Disabled(p) \/ DisableFails(p)
    /\ thread' = [thread EXCEPT ![p] = "done"]
    /\ UNCHANGED <<owner, phase, running, started, call, closing, kills,
                   sleeps, leftOn>>

----------------------------------------------------------------------------
(* ocr_imu_reader_stop and ocr_imu_reader_destroy, which calls stop.       *)

\* Mutant: stop does not clear running.
BugStop(p) ==
    /\ At(p, "idle") /\ phase[p] = "ready"
    /\ call' = [call EXCEPT ![p] = "stopDisable"]
    /\ \E d \in BOOLEAN : closing' = [closing EXCEPT ![p] = d]
    /\ UNCHANGED <<chip, kernel, owner, shadow, phase, running, started,
                   thread, faults, kills, sleeps, leftOn, upset>>

ReaderStop(p) ==
    /\ At(p, "idle") /\ phase[p] = "ready"
    /\ running' = [running EXCEPT ![p] = FALSE]
    /\ call' = [call EXCEPT ![p] = "stopDisable"]
    /\ \E d \in BOOLEAN : closing' = [closing EXCEPT ![p] = d]
    /\ UNCHANGED <<chip, kernel, owner, shadow, phase, started, thread,
                   faults, kills, sleeps, leftOn, upset>>

StopDisable(p) ==
    /\ At(p, "stopDisable")
    /\ \/ Disabled(p) /\ call' = [call EXCEPT ![p] = "stopJoin"]
       \/ DisableFails(p) /\ call' = [call EXCEPT ![p] = "stopJoinBad"]
    /\ UNCHANGED <<owner, phase, running, started, thread, closing, kills,
                   sleeps, leftOn>>

(* The join, then destroy's release; destroy keeps everything when stop
   reports an error. *)
StopJoin(p) ==
    /\ Awake /\ call[p] \in {"stopJoin", "stopJoinBad"}
    /\ started[p] => thread[p] = "done"
    /\ started' = [started EXCEPT ![p] = FALSE]
    /\ thread' = [thread EXCEPT ![p] = "none"]
    /\ call' = [call EXCEPT ![p] = "idle"]
    /\ closing' = [closing EXCEPT ![p] = FALSE]
    /\ IF closing[p] /\ call[p] = "stopJoin"
       THEN ReleaseControl(p) /\ shadow' = [shadow EXCEPT ![p] = FALSE]
       ELSE UNCHANGED <<owner, phase, shadow>>
    /\ UNCHANGED <<chip, kernel, running, faults, kills, sleeps, leftOn,
                   upset>>

----------------------------------------------------------------------------
(* The process is killed: its lock goes, the kernel's buffer stays. *)
ImuCrash(p) ==
    /\ kills < MaxKills /\ phase[p] # "out"
    /\ kills' = kills + 1
    /\ leftOn' = (leftOn \/ kernel.bufOn)
    /\ ReleaseControl(p)
    /\ shadow' = [shadow EXCEPT ![p] = FALSE]
    /\ running' = [running EXCEPT ![p] = FALSE]
    /\ started' = [started EXCEPT ![p] = FALSE]
    /\ thread' = [thread EXCEPT ![p] = "none"]
    /\ call' = [call EXCEPT ![p] = "idle"]
    /\ closing' = [closing EXCEPT ![p] = FALSE]
    /\ UNCHANGED <<chip, kernel, faults, sleeps, upset>>

Step(p) ==
    \/ TakeLock(p) \/ Prepare(p) \/ Discover(p)
    \/ Start(p) \/ StartJoin(p) \/ StartEnable(p) \/ StartThread(p)
    \/ StartUndo(p) \/ ThreadLeaves(p) \/ ThreadDisables(p)
    \/ ReaderStop(p) \/ StopDisable(p) \/ StopJoin(p)

ImuNext ==
    \/ Probe \/ ImuSuspend \/ ImuResume
    \/ \E p \in Users : Step(p) \/ ImuCrash(p)

(* Calls that have begun, and threads told to end, go on. *)
Progress(p) ==
    \/ StartJoin(p) \/ StartEnable(p) \/ StartThread(p) \/ StartUndo(p)
    \/ StopDisable(p) \/ StopJoin(p)

ImuFairness ==
    /\ WF_imuVars(ImuResume)
    /\ \A p \in Users : SF_imuVars(Progress(p)) /\ SF_imuVars(ThreadLeaves(p))
                        /\ SF_imuVars(ThreadDisables(p))

ImuSpec == ImuInit /\ [][ImuNext]_imuVars /\ ImuFairness

----------------------------------------------------------------------------
(* The process that holds the lock never believes the buffer to be off when
   it is on, and when nobody holds it the buffer is off, unless a killed
   process has left it on for the next one to clear: prepare_iio_buffer, the
   thread's own way out and stop all switch it off, each of which may fail. *)
BufferAccounted ==
    /\ \A p \in Users : phase[p] # "out" => owner = p
    /\ \A p \in Users : phase[p] \in {"prepared", "ready"} =>
                          (kernel.bufOn => shadow[p])
    /\ owner = NoOwner => (kernel.bufOn => leftOn)

(* A reading thread that has not been told to end has a sensor that
   interrupts into an enabled buffer, whatever starts, stops, deaths and
   suspends went before, as long as no disable and no suspend failed. *)
ReaderIsFed ==
    \A p \in Users :
      thread[p] = "loop" /\ running[p] /\ ~upset =>
        /\ kernel.bufOn
        /\ ~kernel.asleep => chip.power /\ chip.drdy

(* A call to start, stop or destroy returns, though stop and the thread on
   its way out both switch the buffer off and the join waits for the thread. *)
ReaderCallsReturn == \A p \in Users : (call[p] # "idle") ~> (call[p] = "idle")
=============================================================================
