----------------------------- MODULE PairedRead -----------------------------
(***************************************************************************)
(* The two-byte samples of the AP3216C light sensor                        *)
(* (src/bsp/external-modules/ap3216c/iio_ap3216c.c): a sample is read in   *)
(* two I2C transfers under the driver's mutex, the low byte first, which   *)
(* makes the chip keep the matching high byte.  A transfer may fail; sleep *)
(* powers the chip down and up again while user space is frozen, and each  *)
(* of these writes may fail too.                                           *)
(***************************************************************************)
EXTENDS Integers

CONSTANTS Readers, NoReader, LightChannels,
          LightSamples,   \* samples a channel goes through, in turn
          MaxPairFaults,  \* bound on failing transfers
          MaxPairSleeps   \* bound on system suspends

ASSUME PairAssumption == NoReader \notin Readers /\ LightSamples \in Nat \ {0}

VARIABLES sample,  \* the sample each channel holds now
          latched, \* the sample whose high byte each channel presents
          active,  \* SYSTEM_CONFIG is ALS_PS_IR_ACTIVE
          mutex,   \* holder of the driver's mutex, or NoReader
          rd,      \* each reader: its step, channel and the bytes it has
          lightAsleep, \* the system sleeps
          pairFaults, pairSleeps
pairVars == <<sample, latched, active, mutex, rd, lightAsleep, pairFaults,
              pairSleeps>>

\* The types of the variables.
PairTypeOK ==
  /\ sample \in [LightChannels -> 0..LightSamples - 1]
  /\ latched \in [LightChannels -> 0..LightSamples - 1]
  /\ active \in BOOLEAN /\ lightAsleep \in BOOLEAN
  /\ mutex \in Readers \cup {NoReader}
  /\ rd \in [Readers -> [pc : {"idle", "low", "high", "done"},
                         ch : LightChannels \cup {NoReader},
                         low : 0..LightSamples - 1,
                         high : 0..LightSamples - 1]]

NoRead == [pc |-> "idle", ch |-> NoReader, low |-> 0, high |-> 0]

\* ap3216c_chip_init has started the conversions.
PairInit ==
  /\ sample = [c \in LightChannels |-> 0] /\ latched = sample
  /\ active = TRUE /\ mutex = NoReader
  /\ rd = [r \in Readers |-> NoRead]
  /\ lightAsleep = FALSE /\ pairFaults = 0 /\ pairSleeps = 0

\* The chip converts once more.
Convert(c) ==
  /\ active
  /\ sample' = [sample EXCEPT ![c] = (@ + 1) % LightSamples]
  /\ UNCHANGED <<latched, active, mutex, rd, lightAsleep, pairFaults,
                 pairSleeps>>

MayRead(r) == rd[r].pc = "idle" /\ mutex = NoReader /\ ~lightAsleep

\* ap3216c_read_raw takes the mutex for one channel.
ReadRaw(r, c) ==
  /\ MayRead(r)
  /\ mutex' = r
  /\ rd' = [rd EXCEPT ![r] = [NoRead EXCEPT !.pc = "low", !.ch = c]]
  /\ UNCHANGED <<sample, latched, active, lightAsleep, pairFaults, pairSleeps>>

\* ap3216c_read_pair_locked: the low byte, which latches the high one
ReadLow(r) ==
  /\ rd[r].pc = "low"
  /\ LET c == rd[r].ch IN
     /\ rd' = [rd EXCEPT ![r].pc = "high", ![r].low = sample[c]]
     /\ latched' = [latched EXCEPT ![c] = sample[c]]
  /\ UNCHANGED <<sample, active, mutex, lightAsleep, pairFaults, pairSleeps>>

ReadHigh(r) ==
  /\ rd[r].pc = "high"
  /\ rd' = [rd EXCEPT ![r].pc = "done", ![r].high = latched[rd[r].ch]]
  /\ mutex' = NoReader
  /\ UNCHANGED <<sample, latched, active, lightAsleep, pairFaults, pairSleeps>>

\* a transfer that fails, or moves fewer messages than asked
TransferFails(r) ==
  /\ rd[r].pc \in {"low", "high"} /\ pairFaults < MaxPairFaults
  /\ pairFaults' = pairFaults + 1
  /\ rd' = [rd EXCEPT ![r] = NoRead] /\ mutex' = NoReader
  /\ UNCHANGED <<sample, latched, active, lightAsleep, pairSleeps>>

Return(r) ==
  /\ rd[r].pc = "done"
  /\ rd' = [rd EXCEPT ![r] = NoRead]
  /\ UNCHANGED <<sample, latched, active, mutex, lightAsleep, pairFaults,
                 pairSleeps>>

WriteFails == pairFaults < MaxPairFaults /\ pairFaults' = pairFaults + 1
Frozen == \A r \in Readers : rd[r].pc = "idle"

\* ap3216c_suspend and ap3216c_resume, both under the mutex.  The system does
\* not sleep if the suspend fails, and runs on if the resume does.
LightSuspend ==
  /\ ~lightAsleep /\ Frozen /\ mutex = NoReader /\ pairSleeps < MaxPairSleeps
  /\ pairSleeps' = pairSleeps + 1
  /\ \/ active' = FALSE /\ lightAsleep' = TRUE /\ UNCHANGED pairFaults
     \/ WriteFails /\ UNCHANGED <<active, lightAsleep>>
  /\ UNCHANGED <<sample, latched, mutex, rd>>

LightResume ==
  /\ lightAsleep /\ lightAsleep' = FALSE
  /\ \/ active' = TRUE /\ UNCHANGED pairFaults
     \/ WriteFails /\ UNCHANGED active
  /\ UNCHANGED <<sample, latched, mutex, rd, pairSleeps>>

PairNext ==
  \/ \E c \in LightChannels : Convert(c)
  \/ \E r \in Readers :
       \/ \E c \in LightChannels : ReadRaw(r, c)
       \/ ReadLow(r) \/ ReadHigh(r) \/ TransferFails(r) \/ Return(r)
  \/ LightSuspend \/ LightResume

PairSpec == PairInit /\ [][PairNext]_pairVars

---------------------------------------------------------------------------
\* The two bytes a read returns are of one sample, whatever the chip
\* converts and other processes read in between.
OneSample == \A r \in Readers : rd[r].pc = "done" => rd[r].low = rd[r].high
=============================================================================
