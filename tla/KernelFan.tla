------------------------------ MODULE KernelFan ------------------------------
(***************************************************************************)
(* The fan control of the kernel module ocr-pwm-fan                        *)
(* (src/bsp/external-modules/pwm-fan/pwm_fan_ocr.c): a delayed work that   *)
(* reads the temperature and steps the PWM, the hwmon files that read and  *)
(* override it, system sleep and removal.  Sections under the driver's     *)
(* mutex are one step; the work's unlocked tail and the cancelling of the  *)
(* work are steps of their own.                                            *)
(***************************************************************************)
EXTENDS Integers, Sequences

CONSTANTS KernelTemps,     \* temperatures, in degrees, also below zero
          IntMax,          \* INT_MAX, in degrees
          ManualDuties,    \* duties written through hwmon
          MaxDriverFaults, \* bound on failing temperature reads and PWM writes
          MaxFanSleeps     \* bound on system suspends

\* the level table of the board's overlay: one threshold less than levels
Thresholds == <<40, 55, 65>>
Duties == <<0, 110, 180, 255>>
Hysteresis == 3
Top == Len(Thresholds)
DutyAt(l) == Duties[l + 1]

ASSUME KFanAssumption ==
    /\ IntMax \in Nat /\ IntMax >= Thresholds[Top]
    /\ KernelTemps \subseteq (-IntMax - 1) .. IntMax

VARIABLES bound,      \* the driver is probed
          level,      \* current_level
          duty,       \* the duty the PWM carries
          mode,       \* "auto" or "manual"
          suspended,
          work,       \* "idle", "queued" or "tail": before the rescheduling
          fanPm,      \* "awake", "cancelled" or "asleep"
          seen,       \* temperature of the last complete update, if any
          driverFaults, fanSleeps
kfanVars == <<bound, level, duty, mode, suspended, work, fanPm, seen,
              driverFaults, fanSleeps>>

\* ocr_pwm_fan_probe: the output is switched off, then the work scheduled.
KFanInit ==
  /\ bound = TRUE /\ level = 0 /\ duty = 0 /\ mode = "auto"
  /\ suspended = FALSE /\ work = "queued" /\ fanPm = "awake"
  /\ seen = {} /\ driverFaults = 0 /\ fanSleeps = 0

DriverFault ==
  driverFaults < MaxDriverFaults /\ driverFaults' = driverFaults + 1

\* ocr_pwm_fan_apply_duty_locked
Apply(d, ok) ==
  IF ok THEN duty' = d /\ UNCHANGED driverFaults
  ELSE DriverFault /\ UNCHANGED duty

\* An int compared with a u32 is converted to it: a temperature below zero
\* becomes one above every threshold.
Unsigned(t) == IF t < 0 THEN t + 2 * (IntMax + 1) ELSE t

\* The thresholds reached.
LevelReached(t) ==
  CHOOSE n \in 0..Top :
    /\ \A m \in 1..n : Unsigned(t) >= Thresholds[m]
    /\ n = Top \/ Unsigned(t) < Thresholds[n + 1]

\* ocr_pwm_fan_target_level: the thresholds reached, unless the temperature,
\* compared as an int here, is still within the hysteresis below the present
\* level's own.
TargetLevel(l, t) ==
  IF LevelReached(t) < l /\ t > Thresholds[l] - Hysteresis
  THEN l ELSE LevelReached(t)

\* ocr_pwm_fan_update_auto_locked: without a temperature the top level is
\* taken before its duty is written; else the level follows the write.
UpdateAuto ==
  \/ \E t \in KernelTemps, ok \in BOOLEAN :
       LET target == TargetLevel(level, t) IN
       IF target = level
       THEN ok /\ seen' = {t} /\ UNCHANGED <<level, duty, driverFaults>>
       ELSE /\ Apply(DutyAt(target), ok)
            /\ level' = IF ok THEN target ELSE level
            /\ seen' = IF ok THEN {t} ELSE {}
  \/ /\ DriverFault
     /\ level' = Top /\ seen' = {}
     /\ duty' \in {duty, DutyAt(Top)}

\* ocr_pwm_fan_work, under the lock
Work ==
  /\ work = "queued"
  /\ work' = "tail"
  /\ IF ~suspended /\ mode = "auto" THEN UpdateAuto
     ELSE UNCHANGED <<level, duty, seen, driverFaults>>
  /\ UNCHANGED <<bound, mode, suspended, fanPm, fanSleeps>>

\* its tail reads suspended without the lock
WorkTail ==
  /\ work = "tail"
  /\ work' = IF suspended THEN "idle" ELSE "queued"
  /\ UNCHANGED <<bound, level, duty, mode, suspended, fanPm, seen,
                 driverFaults, fanSleeps>>

\* ocr_pwm_fan_hwmon_write of pwm1: the mode turns manual even when the
\* write fails.
WritePwm(d) ==
  /\ bound /\ fanPm = "awake"
  /\ mode' = "manual"
  /\ \E ok \in BOOLEAN : Apply(d, ok)
  /\ seen' = {}
  /\ UNCHANGED <<bound, level, suspended, work, fanPm, fanSleeps>>

\* ocr_pwm_fan_hwmon_write of pwm1_enable
WriteMode(m) ==
  /\ bound /\ fanPm = "awake"
  /\ mode' = m
  /\ IF m = "auto" THEN UpdateAuto
     ELSE seen' = {} /\ UNCHANGED <<level, duty, driverFaults>>
  /\ UNCHANGED <<bound, suspended, work, fanPm, fanSleeps>>

\* cancel_delayed_work_sync, first step of suspend and of cleanup: it waits
\* for a running work and undoes its rescheduling.
StopWork ==
  /\ bound /\ fanPm = "awake" /\ work # "tail" /\ fanSleeps < MaxFanSleeps
  /\ fanSleeps' = fanSleeps + 1
  /\ work' = "idle" /\ fanPm' = "cancelled"
  /\ UNCHANGED <<bound, level, duty, mode, suspended, seen, driverFaults>>

\* ocr_pwm_fan_suspend; when it fails the system stays awake and does not
\* call resume.
Suspend ==
  /\ fanPm = "cancelled"
  /\ suspended' = TRUE /\ seen' = {}
  /\ \E ok \in BOOLEAN :
       Apply(0, ok) /\ fanPm' = IF ok THEN "asleep" ELSE "awake"
  /\ UNCHANGED <<bound, level, mode, work, fanSleeps>>

\* ocr_pwm_fan_resume
FanResume ==
  /\ fanPm = "asleep"
  /\ fanPm' = "awake" /\ suspended' = FALSE /\ work' = "queued"
  /\ UNCHANGED <<bound, level, duty, mode, seen, driverFaults, fanSleeps>>

\* ocr_pwm_fan_cleanup: the hwmon files are gone by then.
Cleanup ==
  /\ fanPm = "cancelled"
  /\ bound' = FALSE /\ suspended' = TRUE /\ fanPm' = "awake" /\ seen' = {}
  /\ \E ok \in BOOLEAN : Apply(0, ok)
  /\ UNCHANGED <<level, mode, work, fanSleeps>>

KFanNext ==
  \/ Work \/ WorkTail
  \/ \E d \in ManualDuties : WritePwm(d)
  \/ \E m \in {"auto", "manual"} : WriteMode(m)
  \/ StopWork \/ Suspend \/ FanResume \/ Cleanup

KFanSpec == KFanInit /\ [][KFanNext]_kfanVars

---------------------------------------------------------------------------
\* The work's self-scheduling survives sleep: unless a failed suspend left
\* the driver marked suspended, an awake driver has its work queued or just
\* running, and a removed one has none.
WorkArmed ==
  /\ bound /\ fanPm = "awake" /\ ~suspended => work # "idle"
  /\ ~bound \/ fanPm = "asleep" => work = "idle"

\* After an update that read a temperature the level is one it justifies: not
\* one it has already outgrown, and left only below its hysteresis.  Below zero
\* the fan runs at its top level, whatever level it comes from.
LevelJustified ==
  \A t \in seen :
    IF t < 0 THEN level = Top
    ELSE /\ level < Top => t < Thresholds[level + 1]
         /\ level > 0 => t > Thresholds[level] - Hysteresis

KernelFanSafe == WorkArmed /\ LevelJustified

\* After an update in automatic mode the PWM carries the duty the table of
\* levels gives to the level the driver is in.
DutyOfLevel == seen # {} => duty = DutyAt(level)
=============================================================================
