------------------------------ MODULE MCDevices ------------------------------
(***************************************************************************)
(* The parts around the video path that do not share state with it or with *)
(* each other: motion sensor, ring buffer, pose history, message bus,      *)
(* event loop, both fan controllers, capture key and light sensor.  A      *)
(* behaviour is a behaviour of one part, chosen in the initial state; the  *)
(* other parts stay as they start.                                         *)
(***************************************************************************)
EXTENDS Devices

VARIABLE part

----------------------------------------------------------------------------
(* The channel as the boot left it: never exported, running under somebody
   else's values, or exported and never set. *)
BootChannels ==
    {[exported |-> FALSE, enable |-> 0, period |-> 0, duty |-> 0],
     [exported |-> TRUE, enable |-> 1, period |-> 8, duty |-> 6],
     [exported |-> TRUE, enable |-> 0, period |-> 0, duty |-> 0]}

(* Temperatures of each band of the kernel's table, of its hysteresis, and
   below zero. *)
RoomTemps == {-5, 39, 46, 53, 60, 70}

Parts == {"imu", "ring", "pose", "bus", "loop", "fan", "kfan", "key", "pair"}

(* The choices of a part that does not run are pinned to one value. *)
DevicesInit ==
    /\ part \in Parts
    /\ ImuInit /\ Init /\ PoseInit /\ BusInit /\ LoopInit
    /\ FanInit /\ KFanInit /\ KeyInit /\ PairInit
    /\ part # "pose" => skew = 0
    /\ part # "bus"  => kind = "caller"
    /\ part # "fan"  => ~pwm.exported
    /\ part # "key"  => ~pin

ImuStep == /\ part = "imu" /\ ImuNext
           /\ UNCHANGED <<part, vars, poseVars, busVars, loopVars, fanVars,
                          kfanVars, keyVars, pairVars>>
RingStep == /\ part = "ring" /\ Next
            /\ UNCHANGED <<part, imuVars, poseVars, busVars, loopVars,
                           fanVars, kfanVars, keyVars, pairVars>>
PoseStep == /\ part = "pose" /\ PoseNext
            /\ UNCHANGED <<part, imuVars, vars, busVars, loopVars, fanVars,
                           kfanVars, keyVars, pairVars>>
BusStep == /\ part = "bus" /\ BusNext
           /\ UNCHANGED <<part, imuVars, vars, poseVars, loopVars, fanVars,
                          kfanVars, keyVars, pairVars>>
LoopStep == /\ part = "loop" /\ LoopNext
            /\ UNCHANGED <<part, imuVars, vars, poseVars, busVars, fanVars,
                           kfanVars, keyVars, pairVars>>
FanStep == /\ part = "fan" /\ FanNext
           /\ UNCHANGED <<part, imuVars, vars, poseVars, busVars, loopVars,
                          kfanVars, keyVars, pairVars>>
KFanStep == /\ part = "kfan" /\ KFanNext
            /\ UNCHANGED <<part, imuVars, vars, poseVars, busVars, loopVars,
                           fanVars, keyVars, pairVars>>
KeyStep == /\ part = "key" /\ KeyNext
           /\ UNCHANGED <<part, imuVars, vars, poseVars, busVars, loopVars,
                          fanVars, kfanVars, pairVars>>
PairStep == /\ part = "pair" /\ PairNext
            /\ UNCHANGED <<part, imuVars, vars, poseVars, busVars, loopVars,
                           fanVars, kfanVars, keyVars>>

DevicesNext ==
    \/ ImuStep \/ RingStep \/ PoseStep \/ BusStep \/ LoopStep
    \/ FanStep \/ KFanStep \/ KeyStep \/ PairStep

devicesVars == <<part, imuVars, vars, poseVars, busVars, loopVars, fanVars,
                 kfanVars, keyVars, pairVars>>

(* The fair actions of a part are disabled in its initial state, so that a
   part that does not run is not bound to take them. *)
DevicesSpec ==
    /\ DevicesInit /\ [][DevicesNext]_devicesVars
    /\ ImuFairness /\ BusFairness /\ LoopFairness

----------------------------------------------------------------------------
(* imu_reader.c, msgbus.c and event_loop.c: the reader's calls return, every
   message is taken, and a stop ends the event loop. *)
DevicesLive == ReaderCallsReturn /\ MessagesTaken /\ StopEnds
=============================================================================
