----------------------------- MODULE FanControl -----------------------------
(***************************************************************************)
(* The user-space fan control (src/app/sensors/fan_ctrl.c) over one PWM    *)
(* channel of sysfs: the ownership lock, the export or the borrowing of    *)
(* the channel, the writes that set it up, the speed steps, and the way    *)
(* back.  Every sysfs write is a step that may fail; a process may die at  *)
(* any step, which frees the lock and leaves the channel as it is.  Duties *)
(* and periods are counted in quarters of the controller's own period.     *)
(***************************************************************************)
EXTENDS Integers, Sequences

CONSTANTS Procs,      \* processes that may run the controller
          Nobody,     \* no process
          Temps,      \* temperatures main reads, in degrees
          Channels,   \* how the channel may be before anybody starts
          MaxSysfsFaults, \* bound on failing sysfs accesses
          MaxCrashes      \* bound on dying processes

ASSUME FanAssumption ==
  /\ Nobody \notin Procs /\ Temps \subseteq Int
  /\ Channels \subseteq [exported : BOOLEAN, enable : {0, 1},
                         period : Nat, duty : Nat]

VARIABLES pwm,     \* the channel: [exported, enable, period, duty]
          lock,    \* holder of the ownership lock, or Nobody
          ctrl,    \* each process's controller
          found,   \* the channel as the last holder of the lock found it
          sysfsFaults, crashes
fanVars == <<pwm, lock, ctrl, found, sysfsFaults, crashes>>

FanMaxLevel == 4
Period == 4
Up   == <<45, 55, 65, 75>>
Down == <<42, 52, 62, 72>>

Off == [pc |-> "off", todo |-> <<>>, failed |-> FALSE, auto |-> FALSE,
        owned |-> FALSE, orig |-> <<>>, level |-> 0, temp |-> 0]

FanInit ==
  /\ pwm \in Channels
  /\ lock = Nobody
  /\ ctrl = [p \in Procs |-> Off]
  /\ found = pwm
  /\ sysfsFaults = 0 /\ crashes = 0

---------------------------------------------------------------------------
\* What the kernel lets sysfs write: a duty may not exceed the period, and
\* a channel with no period cannot be enabled.
Accepts(attr, v) ==
  /\ pwm.exported
  /\ attr = "duty" => v <= pwm.period
  /\ attr = "period" => v > 0 /\ pwm.duty <= v
  /\ attr = "enable" => v = 0 \/ pwm.period > 0

SysfsFault == sysfsFaults < MaxSysfsFaults /\ sysfsFaults' = sysfsFaults + 1

\* write_attribute: ok tells whether the write succeeds.
Write(attr, v, ok) ==
  \/ ok /\ Accepts(attr, v) /\ pwm' = [pwm EXCEPT ![attr] = v]
        /\ UNCHANGED sysfsFaults
  \/ ~ok /\ ~Accepts(attr, v) /\ UNCHANGED <<pwm, sysfsFaults>>
  \/ ~ok /\ Accepts(attr, v) /\ SysfsFault /\ UNCHANGED pwm

Reset(p) == ctrl' = [ctrl EXCEPT ![p] = Off]

\* finish_init_failure, and the end of a complete destroy
Release(p) == Reset(p) /\ lock' = Nobody

\* The five writes that set the channel up.
SetupWrites ==
  << <<"enable", 0>>, <<"duty", 0>>, <<"period", Period>>, <<"duty", 0>>,
     <<"enable", 1>> >>

\* Mutant: the old period is written back while the duty is still ours.
BugRestoreWrites(o) ==
  << <<"enable", 0>>, <<"period", o.period>>, <<"duty", 0>>,
     <<"enable", o.enable>> >>

\* restore_external_state
RestoreWrites(o) ==
  << <<"enable", 0>>, <<"duty", 0>>, <<"period", o.period>>,
     <<"duty", o.duty>>, <<"enable", o.enable>> >>

\* disable_pwm
DisableWrites == << <<"enable", 0>>, <<"duty", 0>> >>

\* The way back of controller c: a borrowed channel is restored, an owned
\* one is disabled and unexported.
WayBack(c) ==
  [c EXCEPT !.pc = "undo", !.failed = FALSE,
            !.todo = IF c.orig # <<>> THEN RestoreWrites(c.orig[1])
                     ELSE IF c.owned THEN DisableWrites ELSE <<>>]

---------------------------------------------------------------------------
\* ocr_fan_ctrl_init, one step per access.  A lock already held fails it
\* with nothing changed.
AcquireLock(p, auto) ==
  /\ ctrl[p].pc = "off" /\ lock = Nobody
  /\ lock' = p /\ found' = pwm
  /\ ctrl' = [ctrl EXCEPT ![p] = [Off EXCEPT !.pc = "locked", !.auto = auto]]
  /\ UNCHANGED <<pwm, sysfsFaults, crashes>>

\* no marked provider, or no export that the write gets through
ChannelMissing(p) ==
  /\ ctrl[p].pc = "locked"
  /\ ctrl[p].auto \/ ~pwm.exported
  /\ SysfsFault /\ Release(p)
  /\ UNCHANGED <<pwm, found, crashes>>

\* ensure_pwm_exported on a channel that exists: in automatic mode it is
\* taken for one a dead instance left, else its state is to be captured.
FoundExported(p) ==
  /\ ctrl[p].pc = "locked" /\ pwm.exported
  /\ ctrl' = [ctrl EXCEPT ![p] =
       IF ctrl[p].auto
       THEN [@ EXCEPT !.pc = "setup", !.owned = TRUE, !.todo = SetupWrites]
       ELSE [@ EXCEPT !.pc = "capture"]]
  /\ UNCHANGED <<pwm, lock, found, sysfsFaults, crashes>>

\* ensure_pwm_exported writes export; the directory may fail to appear.
Export(p) ==
  /\ ctrl[p].pc = "locked" /\ ~pwm.exported
  /\ pwm' = [pwm EXCEPT !.exported = TRUE]
  /\ LET mine == [ctrl[p] EXCEPT !.owned = TRUE] IN
     \/ ctrl' = [ctrl EXCEPT ![p] =
          [mine EXCEPT !.pc = "setup", !.todo = SetupWrites]]
        /\ UNCHANGED sysfsFaults
     \/ ctrl' = [ctrl EXCEPT ![p] = WayBack(mine)] /\ SysfsFault
  /\ UNCHANGED <<lock, found, crashes>>

\* capture_external_state
CaptureExternal(p) ==
  /\ ctrl[p].pc = "capture"
  /\ \/ /\ pwm.period > 0 /\ pwm.duty <= pwm.period
        /\ ctrl' = [ctrl EXCEPT ![p].pc = "setup", ![p].orig = <<pwm>>,
                                ![p].todo = SetupWrites]
        /\ UNCHANGED <<lock, sysfsFaults>>
     \/ pwm.period = 0 /\ Release(p) /\ UNCHANGED sysfsFaults
     \/ SysfsFault /\ Release(p)
  /\ UNCHANGED <<pwm, found, crashes>>

\* The set-up stops at its first failing write and takes the way back.
SetupWrite(p) ==
  /\ ctrl[p].pc = "setup"
  /\ \E ok \in BOOLEAN :
       /\ Write(ctrl[p].todo[1][1], ctrl[p].todo[1][2], ok)
       /\ ctrl' =
            IF ~ok THEN [ctrl EXCEPT ![p] = WayBack(@)]
            ELSE IF Len(ctrl[p].todo) = 1
            THEN [ctrl EXCEPT ![p].pc = "on", ![p].todo = <<>>]
            ELSE [ctrl EXCEPT ![p].todo = Tail(@)]
  /\ UNCHANGED <<lock, found, crashes>>

---------------------------------------------------------------------------
\* The level ocr_fan_ctrl_update wants: raised while the next threshold is
\* reached, then lowered while the last one is left.
Target(l, t) ==
  LET up == CHOOSE n \in l..FanMaxLevel :
              /\ \A m \in l..n-1 : t >= Up[m + 1]
              /\ n = FanMaxLevel \/ t < Up[n + 1]
  IN  CHOOSE n \in 0..up :
        /\ \A m \in n+1..up : t < Down[m]
        /\ n = 0 \/ t >= Down[n]

\* ocr_fan_ctrl_set_level: the level is committed after the write only.
SetLevel(p, l, t) ==
  \E ok \in BOOLEAN :
    /\ Write("duty", l, ok)
    /\ ctrl' = [ctrl EXCEPT ![p].level = IF ok THEN l ELSE @,
                            ![p].temp = IF ok THEN t ELSE 0]

\* A tick of main reads temperature t and updates the fan.
Update(p, t) ==
  /\ ctrl[p].pc = "on"
  /\ IF Target(ctrl[p].level, t) # ctrl[p].level
     THEN SetLevel(p, Target(ctrl[p].level, t), t)
     ELSE ctrl' = [ctrl EXCEPT ![p].temp = t] /\ UNCHANGED <<pwm, sysfsFaults>>
  /\ UNCHANGED <<lock, found, crashes>>

\* main has no temperature: full speed.
FullSpeed(p) ==
  /\ ctrl[p].pc = "on"
  /\ SetLevel(p, FanMaxLevel, 0)
  /\ UNCHANGED <<lock, found, crashes>>

---------------------------------------------------------------------------
\* ocr_fan_ctrl_destroy, of a running controller and again of one whose
\* way back failed.
Destroy(p) ==
  /\ ctrl[p].pc \in {"on", "kept"}
  /\ ctrl' = [ctrl EXCEPT ![p] = WayBack(@)]
  /\ UNCHANGED <<pwm, lock, found, sysfsFaults, crashes>>

\* restore_external_state and disable_pwm go on after a failing write.
UndoWrite(p) ==
  /\ ctrl[p].pc = "undo" /\ ctrl[p].todo # <<>>
  /\ \E ok \in BOOLEAN :
       /\ Write(ctrl[p].todo[1][1], ctrl[p].todo[1][2], ok)
       /\ ctrl' = [ctrl EXCEPT ![p].todo = Tail(@), ![p].failed = @ \/ ~ok]
  /\ UNCHANGED <<lock, found, crashes>>

\* A borrowed channel is given back when every write went through; else the
\* lock is kept for another try.
Restored(p) ==
  /\ ctrl[p].pc = "undo" /\ ctrl[p].todo = <<>> /\ ~ctrl[p].owned
  /\ IF ctrl[p].failed
     THEN ctrl' = [ctrl EXCEPT ![p].pc = "kept"] /\ UNCHANGED lock
     ELSE Release(p)
  /\ UNCHANGED <<pwm, found, sysfsFaults, crashes>>

\* unexport_owned_pwm, whatever became of the disabling
Unexport(p) ==
  /\ ctrl[p].pc = "undo" /\ ctrl[p].todo = <<>> /\ ctrl[p].owned
  /\ \/ /\ pwm' = [pwm EXCEPT !.exported = FALSE]
        /\ Release(p) /\ UNCHANGED sysfsFaults
     \/ /\ SysfsFault /\ ctrl' = [ctrl EXCEPT ![p].pc = "kept"]
        /\ UNCHANGED <<pwm, lock>>
  /\ UNCHANGED <<found, crashes>>

\* The process dies: the kernel drops its lock, the channel stays.
Crash(p) ==
  /\ ctrl[p].pc # "off" /\ crashes < MaxCrashes
  /\ crashes' = crashes + 1
  /\ Reset(p)
  /\ lock' = IF lock = p THEN Nobody ELSE lock
  /\ found' = pwm
  /\ UNCHANGED <<pwm, sysfsFaults>>

FanNext ==
  \E p \in Procs :
    \/ \E auto \in BOOLEAN : AcquireLock(p, auto)
    \/ ChannelMissing(p) \/ FoundExported(p) \/ Export(p)
    \/ CaptureExternal(p) \/ SetupWrite(p)
    \/ \E t \in Temps : Update(p, t)
    \/ FullSpeed(p) \/ Destroy(p) \/ UndoWrite(p) \/ Restored(p)
    \/ Unexport(p) \/ Crash(p)

FanSpec == FanInit /\ [][FanNext]_fanVars

---------------------------------------------------------------------------
\* A controller that gave up its lock left the channel as it found it, or
\* unexported: no failing write, of the set-up or of the way back, ends with
\* a half-configured channel that nobody owns.
FanGivenBack ==
  lock = Nobody => pwm = found \/ ~pwm.exported

\* While the fan runs, the channel carries the level the program believes
\* in, and after a successful update the level is the one of the hysteresis
\* band: a jump over several thresholds is followed at once.
FanDriven ==
  \A p \in Procs : ctrl[p].pc = "on" =>
    LET c == ctrl[p] IN
    /\ lock = p /\ pwm.exported
    /\ pwm.enable = 1 /\ pwm.period = Period /\ pwm.duty = c.level
    /\ c.temp > 0 => /\ c.level < FanMaxLevel => c.temp < Up[c.level + 1]
                     /\ c.level > 0 => c.temp >= Down[c.level]

FanSafe == FanGivenBack /\ FanDriven
=============================================================================
