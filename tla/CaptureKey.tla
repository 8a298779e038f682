----------------------------- MODULE CaptureKey -----------------------------
(***************************************************************************)
(* The debouncing of the shutter key                                       *)
(* (src/bsp/external-modules/gpio-capture-key/gpio_capture_key.c): every   *)
(* edge restarts the delay of one work, the work samples the pin and       *)
(* reports a change, sleep cancels the work and resume samples again.      *)
(***************************************************************************)
EXTENDS Integers

CONSTANTS Debounce,   \* ticks the level must be stable
          MaxEdges,   \* bound on edges of the pin
          MaxKeyFaults, \* bound on failing reads and refused wake-ups
          MaxKeySleeps  \* bound on system suspends

ASSUME KeyAssumption == Debounce \in Nat

VARIABLES pin,      \* level of the pin
          pressed,  \* last_pressed: the level reported to the input core
          irq,      \* the interrupt is requested
          delay,    \* ticks to the work, or -1: not pending
          keyPm,    \* "awake", "cancelled" or "asleep"
          calm,     \* ticks since the last edge, up to Debounce
          missed,   \* an edge was dropped with nothing to pick it up
          edges, keyFaults, keySleeps
keyVars == <<pin, pressed, irq, delay, keyPm, calm, missed, edges, keyFaults,
             keySleeps>>

\* ocr_capture_key_probe has sampled the pin and not yet asked for the
\* interrupt.
KeyInit ==
  /\ pin \in BOOLEAN /\ pressed = pin
  /\ irq = FALSE /\ delay = -1 /\ keyPm = "awake"
  /\ calm = Debounce /\ missed = FALSE
  /\ edges = 0 /\ keyFaults = 0 /\ keySleeps = 0

KeyFault == keyFaults < MaxKeyFaults /\ keyFaults' = keyFaults + 1

RequestIrq ==
  /\ ~irq /\ irq' = TRUE
  /\ UNCHANGED <<pin, pressed, delay, keyPm, calm, missed, edges, keyFaults,
                 keySleeps>>

\* mod_delayed_work
Schedule(d) == Debounce

\* The pin moves; ocr_capture_key_irq if the interrupt is on.  Asleep, the
\* edge is left to the sampling of resume.
Edge ==
  /\ edges < MaxEdges /\ edges' = edges + 1
  /\ pin' = ~pin /\ calm' = 0
  /\ IF irq /\ keyPm # "asleep"
     THEN delay' = Schedule(delay) /\ missed' = FALSE
     ELSE missed' = (missed \/ ~irq) /\ UNCHANGED delay
  /\ UNCHANGED <<pressed, irq, keyPm, keyFaults, keySleeps>>

Tick ==
  /\ keyPm = "awake" /\ delay # 0
  /\ delay > 0 \/ calm < Debounce
  /\ delay' = IF delay > 0 THEN delay - 1 ELSE delay
  /\ calm' = IF calm < Debounce THEN calm + 1 ELSE calm
  /\ UNCHANGED <<pin, pressed, irq, keyPm, missed, edges, keyFaults,
                 keySleeps>>

\* ocr_capture_key_report_work: a failed read reports nothing and is not
\* tried again.
ReportWork ==
  /\ delay = 0
  /\ delay' = -1
  /\ \/ pressed' = pin /\ missed' = FALSE /\ UNCHANGED keyFaults
     \/ KeyFault /\ missed' = TRUE /\ UNCHANGED pressed
  /\ UNCHANGED <<pin, irq, keyPm, calm, edges, keySleeps>>

\* ocr_capture_key_suspend cancels the work, then arms the wake-up, which
\* may be refused: the system stays awake without a resume.
CancelWork ==
  /\ keyPm = "awake" /\ irq /\ keySleeps < MaxKeySleeps
  /\ keyPm' = "cancelled" /\ keySleeps' = keySleeps + 1
  /\ delay' = -1
  /\ missed' = (missed \/ delay >= 0)
  /\ UNCHANGED <<pin, pressed, irq, calm, edges, keyFaults>>

ArmWakeup ==
  /\ keyPm = "cancelled"
  /\ \/ keyPm' = "asleep" /\ UNCHANGED keyFaults
     \/ keyPm' = "awake" /\ KeyFault
  /\ UNCHANGED <<pin, pressed, irq, delay, calm, missed, edges, keySleeps>>

\* ocr_capture_key_resume
KeyResume ==
  /\ keyPm = "asleep" /\ keyPm' = "awake"
  /\ delay' = Debounce /\ missed' = FALSE
  /\ UNCHANGED <<pin, pressed, irq, calm, edges, keyFaults, keySleeps>>

KeyNext == RequestIrq \/ Edge \/ Tick \/ ReportWork \/ CancelWork \/ ArmWakeup
        \/ KeyResume
KeySpec == KeyInit /\ [][KeyNext]_keyVars

---------------------------------------------------------------------------
\* A level that is not reported yet has its sampling ahead, across sleep
\* too; only an edge before the interrupt is requested, a failed read or a
\* refused suspend leaves the reported state stale.
KeyPickedUp ==
  pressed # pin /\ keyPm = "awake" => delay >= 0 \/ missed

\* No bounce is reported: a report follows Debounce quiet ticks.
Debounced == [][pressed' # pressed => calm = Debounce]_keyVars
=============================================================================
