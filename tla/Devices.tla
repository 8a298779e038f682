------------------------------- MODULE Devices -------------------------------
(***************************************************************************)
(* The parts around the video path about which theorems are proved: the    *)
(* motion and the light sensor, the pose of a frame, the ring buffer, the  *)
(* message bus, the event loop, the capture key and both fan controllers.  *)
(* They share no state; what is checked of two of them together is stated  *)
(* here.                                                                   *)
(***************************************************************************)
EXTENDS ImuReader, RingBuffer, MsgBus, EventLoop, CaptureKey, FanControl,
        KernelFan, PairedRead, PoseTrack

(* The sensors of iio_icm42688_spi.c, imu_reader.c and iio_ap3216c.c: the IIO
   buffer is on only for the process that owns the device or after a killed
   one, a running reader is fed, and a light value comes from one sample. *)
SensorsSound ==
    /\ ImuTypeOK /\ BufferAccounted /\ ReaderIsFed
    /\ PairTypeOK /\ OneSample

(* msgbus.c and gpio_capture_key.c: no message is left without a signal, no
   last level of the key without a work that reports it. *)
NothingMissed == BusTypeOK /\ SignalsCover /\ KeyPickedUp

(* event_loop.c and gpio_capture_key.c: a callback starts only by a
   registration that was in force when its copy was taken under the lock, and
   a level is reported only after it has been stable. *)
NoStaleEvent == []LoopTypeOK /\ DispatchesLive /\ Debounced

(* fan_ctrl.c and pwm_fan_ocr.c: the channel is driven by its owner and given
   back as it was found, and the kernel's fan is at the level the last
   temperature asks for, below zero at the top one. *)
FansSafe == FanSafe /\ KernelFanSafe
=============================================================================
