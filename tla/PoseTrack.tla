------------------------------ MODULE PoseTrack ------------------------------
(***************************************************************************)
(* From motion samples to the pose of a frame: the IMU thread fills a ring *)
(* (app/stab/imu_reader.c), the RGA worker drains it for every frame       *)
(* (update_stabilizer_from_imu in app/main/main.c), integrates the samples *)
(* (app/stab/attitude_fusion.c), keeps a history of poses                  *)
(* (app/stab/pose_history.c) and asks it for the pose at the moment the    *)
(* frame was exposed.                                                      *)
(*                                                                         *)
(* A sample is [ts, at]: its time stamp by the clock of the IIO core and   *)
(* the moment it was taken by the clock of the camera; a pose is named by  *)
(* the sample it was computed from.  skew is the difference of the clocks. *)
(***************************************************************************)
EXTENDS Integers, Sequences

CONSTANTS RingCount,  \* capacity of the ring
          HistoryCap, \* OCR_POSE_HISTORY_CAPACITY
          MaxDt,      \* longest step the fusion integrates (max_dt)
          Skews,      \* differences the two clocks may have
          Latency,    \* how old a frame may be when it is processed
          MaxTime     \* bound: end of the clock

ASSUME PoseAssumption ==
    /\ RingCount \in Nat \ {0} /\ HistoryCap \in Nat \ {0} /\ MaxDt \in Nat
    /\ Skews \subseteq Nat /\ Latency \in Nat /\ MaxTime \in Nat \ {0}

VARIABLES now, skew,
          ring,    \* samples between the two threads
          last,    \* g_last_imu_timestamp
          history, \* g_pose_history, oldest first
          frame,   \* exposure time of the frame being processed, 0 if none
          before, after, \* the search's low and high, 0 while there is none
          pose     \* [target, lo, hi] the worker last interpolated between

poseVars == <<now, skew, ring, last, history, frame, before, after, pose>>

Samples == [ts : Nat, at : Nat]

(* The types of the variables. *)
PoseTypeOK ==
    /\ now \in 1..MaxTime /\ skew \in Skews
    /\ ring \in Seq(Samples) /\ Len(ring) <= RingCount
    /\ last \in Nat
    /\ history \in Seq(Samples) /\ Len(history) <= HistoryCap
    /\ frame \in 0..MaxTime
    /\ before \in 0..Len(history) /\ after \in 0..Len(history)
    /\ after = 0 => before = 0
    /\ pose = <<>> \/ pose \in [target : 1..MaxTime, lo : Samples, hi : Samples]

PoseInit ==
    /\ now = 1 /\ skew \in Skews
    /\ ring = <<>> /\ last = 0 /\ history = <<>>
    /\ frame = 0 /\ before = 0 /\ after = 0 /\ pose = <<>>

----------------------------------------------------------------------------
(* Time passes, with a sample or without one; a full ring loses the newest. *)
PoseTick ==
    /\ now < MaxTime
    /\ now' = now + 1
    /\ \/ UNCHANGED ring
       \/ /\ Len(ring) < RingCount
          /\ ring' = Append(ring, [ts |-> now' + skew, at |-> now'])
    /\ UNCHANGED <<skew, last, history, frame, before, after, pose>>

(* Somebody sets the clock that the samples are stamped with. *)
SetClock ==
    /\ \E s \in Skews \ {skew} : skew' = s
    /\ UNCHANGED <<now, ring, last, history, frame, before, after, pose>>

(* A frame reaches the RGA worker some time after its exposure. *)
FrameArrives ==
    /\ frame = 0
    /\ \E t \in (now - Latency)..now : t > 0 /\ frame' = t
    /\ UNCHANGED <<now, skew, ring, last, history, before, after, pose>>

----------------------------------------------------------------------------
(* ocr_pose_history_push: time goes forward; a full history loses its oldest. *)
PushResult(h, s) ==
    IF s.ts <= 0 THEN -1
    ELSE IF h # <<>> /\ s.ts <= h[Len(h)].ts THEN -2 ELSE 0

Pushed(h, s) ==
    Append(IF Len(h) < HistoryCap THEN h ELSE Tail(h), s)

\* Mutant: time going backwards is not noticed.
BugStartsAnew(s) == FALSE

(* The worker takes one sample.  A time stamp that does not advance starts
   everything anew; a step longer than max_dt is refused by the fusion, and
   no pose is recorded for that sample. *)
StartsAnew(s) == last > 0 /\ s.ts <= last

TakeSample ==
    /\ frame # 0 /\ after = 0 /\ ring # <<>>
    /\ LET s == Head(ring)
           h == IF StartsAnew(s) THEN <<>> ELSE history
           dt == IF last > 0 /\ ~StartsAnew(s) THEN s.ts - last ELSE 0
           Push == CASE PushResult(h, s) = 0 -> Pushed(h, s)
                     [] PushResult(h, s) = -2 -> <<s>>
                     [] OTHER -> h
       IN /\ last' = s.ts
          /\ history' = IF dt \in 0..MaxDt THEN Push ELSE h
    /\ ring' = Tail(ring)
    /\ UNCHANGED <<now, skew, frame, before, after, pose>>

----------------------------------------------------------------------------
(* ocr_pose_history_sample: the ends outside the recorded time, else a binary
   search for the two neighbours, of which a step is an action. *)
Answer(i, j) ==
    /\ pose' = [target |-> frame, lo |-> history[i], hi |-> history[j]]
    /\ frame' = 0 /\ before' = 0 /\ after' = 0

(* Without a history the stabiliser keeps what it had. *)
Query ==
    /\ frame # 0 /\ after = 0 /\ ring = <<>>
    /\ CASE history = <<>> ->
              frame' = 0 /\ UNCHANGED <<before, after, pose>>
         [] history # <<>> /\ frame <= history[1].ts -> Answer(1, 1)
         [] history # <<>> /\ frame > history[1].ts
              /\ frame >= history[Len(history)].ts ->
              Answer(Len(history), Len(history))
         [] OTHER ->
              before' = 1 /\ after' = Len(history) /\ UNCHANGED <<frame, pose>>
    /\ UNCHANGED <<now, skew, ring, last, history>>

Middle == before + (after - before) \div 2

\* The sample in the middle is not after the frame: it is the new low.
NotAfter(m) == history[m].ts <= frame

Halve ==
    /\ after - before > 1
    /\ IF NotAfter(Middle) THEN before' = Middle /\ UNCHANGED after
                       ELSE after' = Middle /\ UNCHANGED before
    /\ UNCHANGED <<now, skew, ring, last, history, frame, pose>>

Found ==
    /\ after # 0 /\ after - before <= 1
    /\ Answer(before, after)
    /\ UNCHANGED <<now, skew, ring, last, history>>

PoseNext ==
    \/ PoseTick \/ SetClock \/ FrameArrives \/ TakeSample
    \/ Query \/ Halve \/ Found

PoseSpec == PoseInit /\ [][PoseNext]_poseVars

----------------------------------------------------------------------------
(* Poses are recorded in the order of their time stamps, and none recorded
   under an earlier setting of the clock is newer than the last sample: what
   the binary search of pose_history.c takes for granted. *)
HistoryOrdered ==
    /\ \A i, j \in 1..Len(history) : i < j => history[i].ts < history[j].ts
    /\ \A i \in 1..Len(history) : history[i].ts <= last

(* The two recorded poses a frame is given have nothing between them and the
   moment of the frame between them, or are the nearer end: while the search
   runs it keeps the moment between low and high, and what it ends with is
   the exact answer, whatever the clocks say. *)
SearchExact ==
    /\ after # 0 =>
         /\ frame # 0 /\ 0 < before /\ before < after
         /\ history[before].ts <= frame /\ frame < history[after].ts
    /\ frame = 0 /\ pose # <<>> /\ history # <<>> =>
         \E i, j \in 1..Len(history) :
           /\ pose.lo = history[i] /\ pose.hi = history[j]
           /\ \/ j = i + 1 /\ pose.lo.ts <= pose.target
                           /\ pose.target <= pose.hi.ts
              \/ i = 1 /\ j = 1 /\ pose.target <= pose.lo.ts
              \/ i = Len(history) /\ j = i /\ pose.target >= pose.lo.ts

(* The pose a frame is stabilised with was taken around its exposure: the
   two samples enclose it whenever samples from both sides were recorded. *)
Encloses(p) == p.lo.at <= p.target /\ p.target <= p.hi.at

PoseRight ==
    pose # <<>> /\ frame = 0 =>
      \/ Encloses(pose)
      \/ \A i \in 1..Len(history) : history[i].at >= pose.target
      \/ \A i \in 1..Len(history) : history[i].at <= pose.target

(* As long as both clocks agree, samples lost in a full ring, gaps the fusion
   refuses and late frames never give a frame the pose of another time; and
   the search is exact under any clock. *)
PoseInTime ==
    /\ SearchExact
    /\ (\A i \in 1..Len(history) : history[i].ts = history[i].at) => PoseRight

(* pose_history.c and main.c: the history is in order, the search exact, and
   a frame gets the pose of its time while both clocks agree. *)
PoseFound == PoseTypeOK /\ HistoryOrdered /\ PoseInTime
=============================================================================
