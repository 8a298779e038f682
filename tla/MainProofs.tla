----------------------------- MODULE MainProofs -----------------------------
(***************************************************************************)
(* What main does, for every value of the constants.  Start and cleanup    *)
(* (main.c): wherever the start stops, and whoever does not stop at the    *)
(* end, nothing is destroyed before its users.  The way to the screen      *)
(* (drm_device.c, drm_plane.c): nobody's output is taken.  Supervision     *)
(* (run_application, system_manager.c): the exit code names a cause that   *)
(* was there, and neither the watchdog nor the look at the frames ends a   *)
(* program that works.  The archive (archiver.c, storage_mgr.c): the       *)
(* cleanup never harms a photo that is being saved unless the date changes *)
(* under one of the two, and removes the oldest dates first and no more    *)
(* than it must.                                                           *)
(***************************************************************************)
EXTENDS Startup, DisplayRoute, Supervision, PhotoArchive, FiniteSetTheorems,
        TLAPS

-----------------------------------------------------------------------------
(* Start and cleanup. *)

\* The step of the cleanup that gives a resource back, and the step up to which
\* a worker may run.
Resources == {"pipeline", "overlay", "sink", "pool", "lock", "key", "session", "capture",
              "imu", "planes", "drm", "translator", "rec", "det", "archive", "system"}
Place(r) ==
    CASE r = "pipeline"   -> 5
      [] r = "overlay"    -> 6
      [] r = "sink"       -> 7
      [] r = "pool"       -> 8
      [] r = "lock"       -> 9
      [] r = "key"        -> 10
      [] r = "session"    -> 11
      [] r = "capture"    -> 12
      [] r = "imu"        -> 13
      [] r = "planes"     -> 14
      [] r = "drm"        -> 15
      [] r = "translator" -> 16
      [] r = "rec"        -> 17
      [] r = "det"        -> 18
      [] r = "archive"    -> 19
      [] r = "system"     -> 20

Threads == {"key", "capture", "imu", "nodes", "watchdog"}
Until(w) ==
    CASE w = "key"      -> 1
      [] w = "capture"  -> 2
      [] w = "imu"      -> 3
      [] w = "nodes"    -> 5
      [] w = "watchdog" -> 20

StartTypes ==
    /\ pc \in {"init", "run", "clean", "exited"}
    /\ pc = "init" => at \in 1..17
    /\ pc = "run" => at \in 1..6
    /\ pc = "clean" => at \in 1..21
    /\ have \subseteq got /\ got \subseteq Resources /\ running \subseteq Threads
    /\ screen \in {"found", "ours", "off"} /\ props \in BOOLEAN
    /\ stuck \in {"none", "key", "pipeline", "overlay", "sink"}
    /\ logged \subseteq Resources

\* Until the cleanup nothing is given back, and nodes come before the camera.
StartForward ==
    /\ pc \in {"init", "run"} => have = got /\ stuck = "none" /\ logged = {}
    /\ pc = "init" => running = {}
    /\ (pc = "init" /\ at = 17) \/ pc = "run" => "pipeline" \in have
    /\ pc = "run" /\ at > 1 => "nodes" \in running
    /\ "capture" \in running => "nodes" \in running

\* What refuses to go, and uses nothing itself.
Kept == logged \cap {"pool", "capture"}

\* The cleanup has given back what its steps so far are for, but for what failed,
\* and nothing else.
CleanupBackward ==
    pc = "clean" =>
      /\ have = {r \in got : Place(r) >= at \/ r \in Kept}
      /\ logged \subseteq got /\ \A r \in logged : Place(r) < at
      /\ \A w \in running : at <= Until(w) \/ (w = "key" /\ stuck = "key")
      /\ stuck = "none" \/ (stuck = "key" /\ at <= 4)
      /\ screen = "ours" => at <= 7
      /\ screen = "off" => at <= 15 \/ "drm" \in logged
      /\ props => at <= 14 \/ "planes" \in logged

\* Who gave up has said where.
EndKnown ==
    pc = "exited" /\ stuck = "none" =>
      /\ have = Kept /\ running = {}
      /\ screen = "found" \/ "drm" \in logged
      /\ ~props \/ "planes" \in logged

StartIInv == StartTypes /\ StartForward /\ CleanupBackward /\ UsersFirst /\ EndKnown

-----------------------------------------------------------------------------
\* The lists of main.
LEMMA TheSteps ==
  /\ Len(Steps) = 16 /\ Len(Workers) = 5 /\ Len(CleanupSteps) = 20
  /\ Steps[1] = "system" /\ Steps[2] = "capture" /\ Steps[3] = "drm" /\ Steps[4] = "planes"
  /\ Steps[5] = "overlay" /\ Steps[6] = "imu" /\ Steps[7] = "det" /\ Steps[8] = "rec"
  /\ Steps[9] = "translator" /\ Steps[10] = "archive" /\ Steps[11] = "session"
  /\ Steps[12] = "key" /\ Steps[13] = "pool" /\ Steps[14] = "sink" /\ Steps[15] = "lock"
  /\ Steps[16] = "pipeline"
BY DEF Steps, Workers, CleanupSteps

\* The steps of cleanup.
LEMMA TheCleanup ==
  /\ CleanupSteps[1] = "stopKey" /\ CleanupSteps[2] = "stopCapture"
  /\ CleanupSteps[3] = "stopImu" /\ CleanupSteps[4] = "checkKey"
  /\ CleanupSteps[5] = "pipeline" /\ CleanupSteps[6] = "overlay" /\ CleanupSteps[7] = "sink"
  /\ CleanupSteps[8] = "pool" /\ CleanupSteps[9] = "lock" /\ CleanupSteps[10] = "key"
  /\ CleanupSteps[11] = "session" /\ CleanupSteps[12] = "capture" /\ CleanupSteps[13] = "imu"
  /\ CleanupSteps[14] = "planes" /\ CleanupSteps[15] = "drm" /\ CleanupSteps[16] = "translator"
  /\ CleanupSteps[17] = "rec" /\ CleanupSteps[18] = "det" /\ CleanupSteps[19] = "archive"
  /\ CleanupSteps[20] = "system"
BY DEF CleanupSteps

\* A resource is given back at its place.
LEMMA ThePlaces ==
  ASSUME NEW i \in 5..20
  PROVE  CleanupSteps[i] \in Resources /\ Place(CleanupSteps[i]) = i
<1>1. i \in {5, 6, 7, 8, 9, 10, 11, 12, 13, 14, 15, 16, 17, 18, 19, 20}
  BY SMT
<1>2. CleanupSteps[i] \in Resources
  BY <1>1, TheCleanup DEF Resources
<1>3. /\ Place("pipeline") = 5 /\ Place("overlay") = 6 /\ Place("sink") = 7
      /\ Place("pool") = 8 /\ Place("lock") = 9 /\ Place("key") = 10
      /\ Place("session") = 11 /\ Place("capture") = 12 /\ Place("imu") = 13
      /\ Place("planes") = 14 /\ Place("drm") = 15 /\ Place("translator") = 16
      /\ Place("rec") = 17 /\ Place("det") = 18 /\ Place("archive") = 19
      /\ Place("system") = 20
  BY DEF Place
<1>4. Place(CleanupSteps[i]) = i
  <2>1. CASE i = 5 BY <2>1, <1>3, TheCleanup
  <2>2. CASE i = 6 BY <2>2, <1>3, TheCleanup
  <2>3. CASE i = 7 BY <2>3, <1>3, TheCleanup
  <2>4. CASE i = 8 BY <2>4, <1>3, TheCleanup
  <2>5. CASE i = 9 BY <2>5, <1>3, TheCleanup
  <2>6. CASE i = 10 BY <2>6, <1>3, TheCleanup
  <2>7. CASE i = 11 BY <2>7, <1>3, TheCleanup
  <2>8. CASE i = 12 BY <2>8, <1>3, TheCleanup
  <2>9. CASE i = 13 BY <2>9, <1>3, TheCleanup
  <2>10. CASE i = 14 BY <2>10, <1>3, TheCleanup
  <2>11. CASE i = 15 BY <2>11, <1>3, TheCleanup
  <2>12. CASE i = 16 BY <2>12, <1>3, TheCleanup
  <2>13. CASE i = 17 BY <2>13, <1>3, TheCleanup
  <2>14. CASE i = 18 BY <2>14, <1>3, TheCleanup
  <2>15. CASE i = 19 BY <2>15, <1>3, TheCleanup
  <2>16. CASE i = 20 BY <2>16, <1>3, TheCleanup
  <2>17. QED
    BY <1>1, <2>1, <2>2, <2>3, <2>4, <2>5, <2>6, <2>7, <2>8, <2>9, <2>10, <2>11, <2>12,
       <2>13, <2>14, <2>15, <2>16
<1>5. QED
  BY <1>2, <1>4

\* No two resources are given back by the same step.
LEMMA OnePlace ==
  ASSUME NEW r \in Resources, NEW s \in Resources, Place(r) = Place(s)
  PROVE  r = s
BY SMT DEF Place, Resources

\* What somebody uses is given back after him.
LEMMA UsedLater ==
  ASSUME NEW u \in Resources, NEW r \in Uses(u)
  PROVE  r \in Resources /\ Place(r) > Place(u)
BY SMT DEF Place, Resources, Uses

\* What a worker uses is given back after he has stopped; the key may not have.
LEMMA WorkersUse ==
  ASSUME NEW w \in Threads, NEW u \in UsersOf(w), NEW r \in Uses(u)
  PROVE  r \in Resources /\ Place(r) >= Until(w) /\ (w = "key" => Place(r) > 4)
BY SMT DEF Place, Resources, Uses, Until, Threads, UsersOf, WorkerOf

\* The workers and what each needs.
LEMMA WorkersAre ==
  ASSUME NEW i \in 1..5
  PROVE  /\ Workers[i] \in Threads
         /\ WorkerOf[Workers[i]] \in Resources
         /\ (Workers[i] = "capture" <=> i = 4) /\ (Workers[i] = "nodes" <=> i = 1)
         /\ WorkerOf["nodes"] = "pipeline"
BY SMT DEF Workers, WorkerOf, Threads, Resources

\* A step is found where it stands.
LEMMA FoundAt ==
  ASSUME NEW i \in 1..16
  PROVE  IndexOf(Steps[i]) = i
<1>1. \A j, k \in 1..16 : Steps[j] = Steps[k] => j = k
  BY SMT DEF Steps
<1>2. IndexOf(Steps[i]) \in 1..16 /\ Steps[IndexOf(Steps[i])] = Steps[i]
  BY TheSteps DEF IndexOf
<1>3. QED
  BY <1>1, <1>2

\* Who cannot do without a resource goes to the cleanup, others go on.
LEMMA GoesOn ==
  ASSUME NEW i \in 1..16
  PROVE  LET n == WithoutIt(Steps[i])
         IN  n = 0 \/ (n \in i + 1 .. 16)
<1>1. IndexOf("overlay") = 5 /\ IndexOf("imu") = 6 /\ IndexOf("translator") = 9
      /\ IndexOf("key") = 12 /\ IndexOf("pool") = 13
  BY FoundAt, TheSteps
<1>2. QED
  BY <1>1, TheSteps, SMT DEF WithoutIt, Steps

\* Resources are given back once the producers have stopped.
LEMMA PlacesAre ==
  ASSUME NEW r \in Resources
  PROVE  Place(r) \in 5..20
BY SMT DEF Place, Resources

\* While the cleanup is at a step, what has been acquired and has its place
\* there or later is there: so nobody's resources are gone before him.
LEMMA CleanUsers ==
  StartTypes /\ CleanupBackward /\ pc = "clean" => UsersFirst
<1> SUFFICES ASSUME StartTypes, CleanupBackward, pc = "clean",
                    NEW u \in have \cup UNION {UsersOf(w) : w \in running},
                    NEW r \in Uses(u) \cap got
             PROVE  r \in have
  BY DEF UsersFirst
<1>1. at \in 1..21 /\ have = {s \in got : Place(s) >= at \/ s \in Kept}
  BY DEF StartTypes, CleanupBackward
<1>2. CASE u \in have
  <2> u \notin Kept
    BY DEF Kept, Uses
  <2>1. u \in Resources /\ Place(u) >= at
    BY <1>1, <1>2 DEF StartTypes
  <2>2. r \in Resources /\ Place(r) > Place(u)
    BY <2>1, UsedLater
  <2>3. Place(r) >= at
    BY <1>1, <2>1, <2>2, PlacesAre, SMT
  <2>4. QED
    BY <1>1, <2>3
<1>3. CASE u \in UNION {UsersOf(w) : w \in running}
  <2>1. PICK w \in running : u \in UsersOf(w)
    BY <1>3
  <2>2. w \in Threads /\ (at <= Until(w) \/ (w = "key" /\ at <= 4))
    BY DEF StartTypes, CleanupBackward
  <2>3. r \in Resources /\ Place(r) >= Until(w) /\ (w = "key" => Place(r) > 4)
    BY <2>1, <2>2, WorkersUse
  <2>4. Until(w) \in Nat
    BY <2>2, SMT DEF Until, Threads
  <2>5. Place(r) >= at
    BY <1>1, <2>2, <2>3, <2>4, PlacesAre, SMT
  <2>6. QED
    BY <1>1, <2>5
<1>4. QED
  BY <1>2, <1>3

\* Each of the steps keeps the invariant: first those before the cleanup.
LEMMA StartKeeps ==
  ASSUME StartIInv,
         Acquire \/ InitDone \/ StartWorker \/ Modeset \/ LeaveLoop
  PROVE  StartIInv'
<1> USE DEF Go, Failure
<1>1. CASE Acquire
  <2> DEFINE r == Steps[at]
  <2>1. /\ pc = "init" /\ at \in 1..16 /\ have = got /\ stuck = "none" /\ running = {}
        /\ UNCHANGED <<running, screen, stuck, logged>> /\ logged = {}
    BY <1>1, TheSteps, SMT DEF Acquire, StartIInv, StartTypes, StartForward
  <2>2. r \in Resources
    BY <2>1, SMT DEF Steps, Resources
  <2>3. CASE /\ have' = have \cup {r} /\ got' = got \cup {r}
             /\ props' = (props \/ r = "planes")
             /\ pc' = "init" /\ at' = at + 1
    <3>1. have' = got' /\ got' \subseteq Resources
      BY <2>1, <2>2, <2>3 DEF StartIInv, StartTypes
    <3>2. at' = 17 => "pipeline" \in have'
      BY <2>1, <2>3, TheSteps, SMT
    <3>3. at' \in 1..17 /\ props' \in BOOLEAN
      BY <2>1, <2>3, SMT DEF StartIInv, StartTypes
    <3>4. StartTypes'
      BY <2>1, <2>3, <3>1, <3>3 DEF StartIInv, StartTypes
    <3>5. StartForward' /\ CleanupBackward' /\ UsersFirst' /\ EndKnown'
      BY <2>1, <2>3, <3>1, <3>2
      DEF StartIInv, StartForward, CleanupBackward, UsersFirst, EndKnown
    <3>6. QED
      BY <3>4, <3>5 DEF StartIInv
  <2>4. CASE UNCHANGED <<have, got, props>> /\ WithoutIt(r) = 0 /\ pc' = "clean" /\ at' = 1
    <3>1. have' = {s \in got' : Place(s) >= at' \/ s \in Kept'}
      BY <2>1, <2>4, PlacesAre, SMT DEF StartIInv, StartTypes
    <3>2. StartTypes'
      BY <2>1, <2>4 DEF StartIInv, StartTypes
    <3>3. StartForward' /\ CleanupBackward' /\ UsersFirst' /\ EndKnown'
      BY <2>1, <2>4, <3>1, SMT
      DEF StartIInv, StartTypes, StartForward, CleanupBackward, UsersFirst, EndKnown
    <3>4. QED
      BY <3>2, <3>3 DEF StartIInv
  <2>5. CASE UNCHANGED <<have, got, props>> /\ WithoutIt(r) # 0
             /\ pc' = "init" /\ at' = WithoutIt(r)
    <3>1. at' \in 1..16 /\ at' # 17
      BY <2>1, <2>5, GoesOn, SMT
    <3>2. StartTypes'
      BY <2>1, <2>5, <3>1, SMT DEF StartIInv, StartTypes
    <3>3. StartForward' /\ CleanupBackward' /\ UsersFirst' /\ EndKnown'
      BY <2>1, <2>5, <3>1
      DEF StartIInv, StartForward, CleanupBackward, UsersFirst, EndKnown
    <3>4. QED
      BY <3>2, <3>3 DEF StartIInv
  <2>6. QED
    BY <1>1, <2>3, <2>4, <2>5 DEF Acquire
<1>2. CASE InitDone
  <2>1. /\ pc = "init" /\ at = 17 /\ pc' = "run" /\ at' = 1
        /\ UNCHANGED <<have, got, running, screen, props, stuck, logged>>
    BY <1>2, TheSteps, SMT DEF InitDone, StartIInv, StartTypes
  <2>2. QED
    BY <2>1
    DEF StartIInv, StartTypes, StartForward, CleanupBackward, UsersFirst, EndKnown
<1>3. CASE StartWorker
  <2> DEFINE w == Workers[at]
  <2>1. /\ pc = "run" /\ at \in 1..5 /\ have = got /\ stuck = "none" /\ "pipeline" \in have
        /\ UNCHANGED <<have, got, screen, props, stuck, logged>> /\ logged = {}
    BY <1>3, TheSteps, SMT DEF StartWorker, StartIInv, StartTypes, StartForward
  <2>2. CASE /\ running' = IF WorkerOf[w] \in have THEN running \cup {w} ELSE running
             /\ pc' = "run" /\ at' = at + 1
    <3>1. running' \subseteq Threads /\ at' \in 1..6
      BY <2>1, <2>2, WorkersAre, SMT DEF StartIInv, StartTypes
    <3>2. at' > 1 => "nodes" \in running'
      BY <2>1, <2>2, WorkersAre, SMT DEF StartIInv, StartForward
    <3>3. QED
      BY <2>1, <2>2, <3>1, <3>2
      DEF StartIInv, StartTypes, StartForward, CleanupBackward, UsersFirst, EndKnown
  <2>3. CASE /\ UNCHANGED running
             /\ \/ w \in {"imu", "key"} /\ pc' = "run" /\ at' = at + 1
                \/ w \notin {"imu", "key"} /\ pc' = "clean" /\ at' = 1
    <3>1. have' = {s \in got' : Place(s) >= 1 \/ s \in Kept'}
      BY <2>1, PlacesAre, SMT DEF StartIInv, StartTypes
    <3>2. w \in {"imu", "key"} => at > 1
      BY <2>1, SMT DEF Workers
    <3>3. CASE w \in {"imu", "key"} /\ pc' = "run" /\ at' = at + 1
      <4>1. at' \in 1..6 /\ at > 1
        BY <2>1, <3>2, <3>3, SMT
      <4>2. QED
        BY <2>1, <2>3, <3>3, <4>1
        DEF StartIInv, StartTypes, StartForward, CleanupBackward, UsersFirst, EndKnown
    <3>4. CASE w \notin {"imu", "key"} /\ pc' = "clean" /\ at' = 1
      <4>1. \A v \in running' : at' <= Until(v)
        BY <2>3, <3>4, SMT DEF StartIInv, StartTypes, Threads, Until
      <4>2. StartTypes' /\ CleanupBackward'
        BY <2>1, <2>3, <3>1, <3>4, <4>1, SMT DEF StartIInv, StartTypes, CleanupBackward
      <4>3. QED
        BY <2>1, <2>3, <3>4, <4>2
        DEF StartIInv, StartForward, UsersFirst, EndKnown
    <3>5. QED
      BY <2>3, <3>3, <3>4
  <2>4. QED
    BY <1>3, <2>2, <2>3 DEF StartWorker
<1>4. CASE Modeset
  <2>1. /\ "nodes" \in running /\ ("capture" \in running \/ pc = "clean")
        /\ screen' = "ours"
        /\ UNCHANGED <<pc, at, have, got, running, props, stuck, logged>>
    BY <1>4 DEF Modeset
  <2>2. pc = "clean" => at <= 5
    BY <2>1, SMT DEF StartIInv, CleanupBackward, Until
  <2>3. StartTypes' /\ StartForward' /\ UsersFirst'
    BY <2>1 DEF StartIInv, StartTypes, StartForward, UsersFirst
  <2>4. CleanupBackward'
    <3>1. Kept' = Kept
      BY <2>1 DEF Kept
    <3>2. QED
      BY <2>1, <2>2, <3>1, SMT DEF StartIInv, StartTypes, CleanupBackward
  <2>5. EndKnown'
    BY <2>1 DEF StartIInv, EndKnown
  <2>6. QED
    BY <2>3, <2>4, <2>5 DEF StartIInv
<1>5. CASE LeaveLoop
  <2>1. /\ pc = "run" /\ have = got /\ stuck = "none" /\ pc' = "clean" /\ at' = 1
        /\ UNCHANGED <<have, got, running, screen, props, stuck, logged>>
        /\ logged = {}
    BY <1>5 DEF LeaveLoop, StartIInv, StartForward
  <2>2. have' = {s \in got' : Place(s) >= 1 \/ s \in Kept'}
    BY <2>1, PlacesAre, SMT DEF StartIInv, StartTypes
  <2>3. \A v \in running' : at' <= Until(v)
    BY <2>1, SMT DEF StartIInv, StartTypes, Threads, Until
  <2>4. StartTypes' /\ CleanupBackward'
    BY <2>1, <2>2, <2>3, SMT DEF StartIInv, StartTypes, CleanupBackward
  <2>5. QED
    BY <2>1, <2>4 DEF StartIInv, StartForward, UsersFirst, EndKnown
<1>6. QED
  BY <1>1, <1>2, <1>3, <1>4, <1>5

\* What a step of the cleanup has to show: what it gives back, whom it stops,
\* and that only its own failure is new.
LEMMA NextKeeps ==
  ASSUME StartIInv, pc = "clean", pc' = "clean", at \in 1..20, at' = at + 1,
         have' = {r \in have : Place(r) # at \/ r \in Kept'}, got' = got,
         logged \subseteq logged', logged' \subseteq have \cup logged,
         \A r \in logged' \ logged : Place(r) = at,
         running' \subseteq running,
         \A w \in running' : at < Until(w) \/ (w = "key" /\ stuck' = "key" /\ at < 4),
         "capture" \in running' => "nodes" \in running',
         stuck' \in {"none", "key"}, stuck' = "key" => at < 4,
         screen' \in {"found", "ours", "off"}, props' \in BOOLEAN,
         screen' = "ours" => at < 7,
         screen' = "off" => at < 15 \/ "drm" \in logged',
         props' => at < 14 \/ "planes" \in logged'
  PROVE  StartIInv'
<1>1. /\ have = {r \in got : Place(r) >= at \/ r \in Kept} /\ got \subseteq Resources
      /\ logged \subseteq got /\ \A r \in logged : Place(r) < at
  BY DEF StartIInv, StartTypes, CleanupBackward
<1>2. \A r \in got : Place(r) \in 5..20
  BY <1>1, PlacesAre
<1>3. have' = {r \in got' : Place(r) >= at' \/ r \in Kept'}
  <2>1. Kept \subseteq Kept' /\ \A r \in Kept' \ Kept : Place(r) = at
    BY DEF Kept
  <2>2. ASSUME NEW r \in got
        PROVE  ((Place(r) >= at \/ r \in Kept) /\ (Place(r) # at \/ r \in Kept'))
               <=> (Place(r) >= at + 1 \/ r \in Kept')
    <3>1. Place(r) \in 5..20
      BY <1>2
    <3>2. CASE r \in Kept'
      <4>1. r \in Kept \/ Place(r) >= at
        BY <2>1, <3>1, <3>2
      <4>2. QED
        BY <3>2, <4>1
    <3>3. CASE r \notin Kept'
      <4>1. r \notin Kept
        BY <2>1, <3>3
      <4>2. (Place(r) >= at /\ Place(r) # at) <=> Place(r) >= at + 1
        BY <3>1, SMT
      <4>3. QED
        BY <3>3, <4>1, <4>2
    <3>4. QED
      BY <3>2, <3>3
  <2>3. have' = {r \in got : /\ Place(r) >= at \/ r \in Kept
                             /\ Place(r) # at \/ r \in Kept'}
    BY <1>1
  <2>4. QED
    BY <2>2, <2>3
<1>4. logged' \subseteq got' /\ \A r \in logged' : Place(r) < at'
  <2>1. have \subseteq got /\ \A r \in logged : Place(r) < at
    BY <1>1
  <2>2. \A r \in logged' : r \in got /\ (Place(r) < at \/ Place(r) = at)
    BY <1>1, <2>1
  <2>3. QED
    BY <1>2, <2>2, SMT
<1>5. \A w \in running' : at' <= Until(w) \/ (w = "key" /\ stuck' = "key")
  <2>1. \A w \in Threads : Until(w) \in Nat
    BY SMT DEF Threads, Until
  <2>2. running' \subseteq Threads
    BY DEF StartIInv, StartTypes
  <2>3. QED
    BY <2>1, <2>2, SMT
<1>6. CleanupBackward'
  BY <1>3, <1>5, <1>4, SMT DEF CleanupBackward
<1>7. StartTypes'
  BY <1>1, <1>3, <1>4, SMT DEF StartIInv, StartTypes
<1>8. UsersFirst'
  <2>1. (pc = "clean")'
    OBVIOUS
  <2>2. QED
    BY <2>1, <1>6, <1>7, CleanUsers, PTL
<1>9. StartForward' /\ EndKnown'
  BY DEF StartForward, EndKnown
<1>10. QED
  BY <1>6, <1>7, <1>8, <1>9 DEF StartIInv

\* A cleanup that is given up keeps what is left, and says so.
LEMMA GivenUp ==
  ASSUME StartIInv, pc' = "exited",
         UNCHANGED <<have, got, running, screen, props, logged>>,
         stuck' \in {"key", "pipeline", "overlay", "sink"}
  PROVE  StartIInv'
<1>1. StartTypes' /\ StartForward' /\ CleanupBackward' /\ UsersFirst' /\ EndKnown'
  BY SMT DEF StartIInv, StartTypes, StartForward, CleanupBackward, UsersFirst, EndKnown
<1>2. QED
  BY <1>1 DEF StartIInv

\* Step r of the cleanup gives back r and nothing else.
LEMMA GivesBack ==
  ASSUME StartIInv, at \in 5..20, NEW s, s = CleanupSteps[at], s \notin Kept'
  PROVE  have \ {s} = {r \in have : Place(r) # at \/ r \in Kept'}
<1>1. s \in Resources /\ Place(s) = at /\ have \subseteq Resources
  BY ThePlaces DEF StartIInv, StartTypes
<1>2. \A r \in have : Place(r) # at <=> r # s
  BY <1>1, OnePlace
<1>3. QED
  BY <1>2

\* A step that fails and gives nothing back has logged it.
LEMMA KeepsIt ==
  ASSUME StartIInv, at \in 5..20, NEW s, s = CleanupSteps[at], s \in Kept'
  PROVE  have = {r \in have : Place(r) # at \/ r \in Kept'}
<1>1. s \in Resources /\ Place(s) = at /\ have \subseteq Resources
  BY ThePlaces DEF StartIInv, StartTypes
<1>2. \A r \in have : Place(r) = at => r = s
  BY <1>1, OnePlace
<1>3. QED
  BY <1>2

\* The steps of the cleanup that stop a worker give nothing back.
LEMMA GivesNothing ==
  ASSUME StartIInv, at \in 1..4
  PROVE  have = {r \in have : Place(r) # at \/ r \in Kept'}
<1>1. \A r \in have : Place(r) # at
  BY PlacesAre, SMT DEF StartIInv, StartTypes
<1>2. QED
  BY <1>1

\* When the cleanup stops whom.
LEMMA TheWorkers ==
  /\ Until("key") = 1 /\ Until("capture") = 2 /\ Until("imu") = 3
  /\ Until("nodes") = 5 /\ Until("watchdog") = 20
BY DEF Until

\* What is known in the cleanup, before one of its steps.
LEMMA CleaningKnown ==
  ASSUME StartIInv, pc = "clean"
  PROVE  /\ at \in 1..21 /\ have \subseteq got /\ running \subseteq Threads
         /\ \A w \in running : at <= Until(w) \/ (w = "key" /\ stuck = "key")
         /\ stuck \in {"none", "key"} /\ (stuck = "key" => at <= 4)
         /\ screen \in {"found", "ours", "off"} /\ props \in BOOLEAN
         /\ (screen = "ours" => at <= 7)
         /\ (screen = "off" => at <= 15 \/ "drm" \in logged)
         /\ (props => at <= 14 \/ "planes" \in logged)
         /\ \A r \in logged : Place(r) < at
         /\ ("capture" \in running => "nodes" \in running)
BY SMT DEF StartIInv, StartTypes, StartForward, CleanupBackward

\* Then those of the cleanup.
LEMMA CleanupKeeps ==
  ASSUME StartIInv,
         \/ StopKey \/ StopProducer("stopCapture", "capture")
         \/ StopProducer("stopImu", "imu") \/ CheckKey
         \/ \E s \in {"pipeline", "overlay", "sink"} : TakeDown(s)
         \/ \E i \in 8..Len(CleanupSteps) : Release(CleanupSteps[i])
         \/ CleanupDone
  PROVE  StartIInv'
<1> USE DEF Go, Next_, Cleaning
<1>1. CASE StopKey
  <2>1. pc = "clean" /\ at = 1 /\ pc' = "clean" /\ at' = 2
        /\ UNCHANGED <<have, got, screen, props, logged>>
    BY <1>1, CleaningKnown, TheSteps, SMT DEF StopKey, CleanupSteps
  <2>2. \/ running' = running \ {"key"} /\ stuck' = stuck
        \/ running' = running /\ stuck' = "key"
    BY <1>1 DEF StopKey
  <2>3. \A w \in Threads : w = "key" \/ Until(w) > 1
    BY SMT DEF Threads, Until
  <2>4. have' = {r \in have : Place(r) # at \/ r \in Kept'}
    BY <2>1, GivesNothing
  <2>5. QED
    BY <2>1, <2>2, <2>3, <2>4, CleaningKnown, NextKeeps, SMT
<1>2. CASE StopProducer("stopCapture", "capture")
  <2>1. pc = "clean" /\ at = 2 /\ pc' = "clean" /\ at' = 3
        /\ running' = running \ {"capture"}
        /\ UNCHANGED <<have, got, screen, props, stuck, logged>>
    BY <1>2, CleaningKnown, TheSteps, SMT DEF StopProducer, CleanupSteps
  <2>2. \A w \in Threads : Until(w) \in Nat /\ (w = "capture" \/ Until(w) # 2)
    BY SMT DEF Threads, Until
  <2>3. have' = {r \in have : Place(r) # at \/ r \in Kept'}
    BY <2>1, GivesNothing
  <2>4. QED
    BY <2>1, <2>2, <2>3, CleaningKnown, NextKeeps, SMT
<1>3. CASE StopProducer("stopImu", "imu")
  <2>1. pc = "clean" /\ at = 3 /\ pc' = "clean" /\ at' = 4
        /\ running' = running \ {"imu"}
        /\ UNCHANGED <<have, got, screen, props, stuck, logged>>
    BY <1>3, CleaningKnown, TheSteps, SMT DEF StopProducer, CleanupSteps
  <2>2. \A w \in Threads : Until(w) \in Nat /\ (w = "imu" \/ Until(w) # 3)
    BY SMT DEF Threads, Until
  <2>3. have' = {r \in have : Place(r) # at \/ r \in Kept'}
    BY <2>1, GivesNothing
  <2>4. QED
    BY <2>1, <2>2, <2>3, CleaningKnown, NextKeeps, SMT
<1>4. CASE CheckKey
  <2>1. pc = "clean" /\ at = 4 /\ UNCHANGED <<have, got, running, screen, props, stuck, logged>>
    BY <1>4, CleaningKnown, TheSteps, SMT DEF CheckKey, CleanupSteps
  <2>2. CASE stuck = "key"
    <3>1. pc' = "exited"
      BY <1>4, <2>2 DEF CheckKey
    <3>2. QED
      BY <2>1, <2>2, <3>1, GivenUp
  <2>3. CASE stuck # "key"
    <3>1. pc' = "clean" /\ at' = 5
      BY <1>4, <2>1, <2>3 DEF CheckKey
    <3>2. \A w \in Threads : Until(w) \in Nat /\ Until(w) # 4
      BY SMT DEF Threads, Until
    <3>3. have' = {r \in have : Place(r) # at \/ r \in Kept'}
      BY <2>1, GivesNothing
    <3>4. QED
      BY <2>1, <2>3, <3>1, <3>2, <3>3, CleaningKnown, NextKeeps, SMT
  <2>4. QED
    BY <2>2, <2>3
<1>5. CASE \E s \in {"pipeline", "overlay", "sink"} : TakeDown(s)
  <2>1. PICK s \in {"pipeline", "overlay", "sink"} : TakeDown(s)
    BY <1>5
  <2>2. /\ pc = "clean" /\ at \in 5..7 /\ s = CleanupSteps[at]
        /\ UNCHANGED <<got, props, logged>>
        /\ (s = "pipeline" <=> at = 5) /\ (s = "sink" <=> at = 7)
    BY <2>1, CleaningKnown, TheSteps, SMT DEF TakeDown, CleanupSteps
  <2>3. CASE UNCHANGED <<have, running, screen>> /\ pc' = "exited" /\ stuck' = s
    BY <2>2, <2>3, GivenUp
  <2>4. CASE /\ pc' = "clean" /\ at' = at + 1 /\ have' = have \ {s}
             /\ running' = IF s = "pipeline" THEN running \ {"nodes"} ELSE running
             /\ screen' = IF s = "sink" /\ screen = "ours" THEN "off" ELSE screen
             /\ UNCHANGED stuck
    <3>1. have' = {r \in have : Place(r) # at \/ r \in Kept'}
      <4>1. s \notin Kept
        BY <2>2 DEF Kept
      <4>2. s \notin Kept'
        BY <2>2, <4>1 DEF Kept
      <4>3. QED
        BY <2>2, <2>4, <4>2, GivesBack
    <3>2. \A w \in Threads : Until(w) \in Nat /\ (w = "nodes" <=> Until(w) = 5)
                             /\ (Until(w) < 5 \/ Until(w) = 5 \/ Until(w) = 20)
      BY SMT DEF Threads, Until
    <3>3. \A w \in running' : at < Until(w)
      BY <2>2, <2>4, <3>2, CleaningKnown, SMT
    <3>4. "capture" \notin running'
      BY <2>2, <3>3, TheWorkers, SMT
    <3>5. (screen' = "ours" => at < 7) /\ screen' \in {"found", "ours", "off"}
      BY <2>2, <2>4, CleaningKnown, SMT
    <3>6. running' \subseteq running
      BY <2>4
    <3>7. QED
      BY <2>2, <2>4, <3>1, <3>3, <3>4, <3>5, <3>6, CleaningKnown, NextKeeps, SMT
  <2>5. QED
    BY <2>1, <2>3, <2>4 DEF TakeDown, KeepRest
<1>6. CASE \E i \in 8..Len(CleanupSteps) : Release(CleanupSteps[i])
  <2>1. PICK i \in 8..20 : Release(CleanupSteps[i])
    BY <1>6, TheSteps
  <2> DEFINE s == CleanupSteps[i]
  <2>2. /\ pc = "clean" /\ at \in 1..20 /\ CleanupSteps[at] = s
        /\ pc' = "clean" /\ at' = at + 1 /\ UNCHANGED <<got, stuck>>
        /\ running' = IF s = "system" THEN running \ {"watchdog"} ELSE running
    BY <2>1, CleaningKnown, TheSteps, SMT DEF Release
  <2>3. at = i
    BY <2>2, SMT DEF CleanupSteps
  <2>4. /\ (s = "system" <=> i = 20) /\ (s = "planes" <=> i = 14)
        /\ (s = "drm" <=> i = 15)
    BY SMT DEF CleanupSteps
  <2>5. s \in Resources /\ Place(s) = at
    <3>1. i \in 5..20
      OBVIOUS
    <3>2. QED
      BY <2>3, <3>1, ThePlaces
  <2>6. /\ screen \in {"found", "ours", "off"} /\ props \in BOOLEAN
        /\ (screen = "ours" => at <= 7)
        /\ (screen = "off" => at <= 15 \/ "drm" \in logged)
        /\ (props => at <= 14 \/ "planes" \in logged)
        /\ \A r \in logged : Place(r) < at
    BY <2>2, CleaningKnown
  <2> HIDE DEF s
  <2>7. s \notin logged
    BY <2>3, <2>5, <2>6, SMT
  <2>8. /\ have' = {r \in have : Place(r) # at \/ r \in Kept'}
        /\ logged \subseteq logged' /\ logged' \subseteq have \cup logged
        /\ \A r \in logged' \ logged : Place(r) = at
        /\ screen' = screen \/ (screen' = "found" /\ s = "drm")
        /\ props' = props \/ (props' = FALSE)
        /\ s = "planes" => ~props' \/ "planes" \in logged'
        /\ s = "drm" => screen' = "found" \/ "drm" \in logged'
    <3>1. CASE /\ have' = have \ {s}
               /\ props' = PropsAfter(s) /\ screen' = ScreenAfter(s)
               /\ logged' = logged
      <4>1. s \notin Kept'
        BY <2>7, <3>1 DEF Kept
      <4>2. have' = {r \in have : Place(r) # at \/ r \in Kept'}
        BY <2>2, <2>3, <3>1, <4>1, GivesBack
      <4>3. props' = (props /\ s # "planes")
        BY <3>1 DEF PropsAfter
      <4>4. (props' = props \/ props' = FALSE) /\ (s = "planes" => ~props')
        BY <2>6, <4>3
      <4>5. screen' = IF s = "drm" THEN "found" ELSE screen
        BY <3>1 DEF ScreenAfter
      <4>6. QED
        BY <3>1, <4>2, <4>4, <4>5
    <3>2. CASE LogFailure(s)
      <4>1. /\ s \in have /\ logged' = logged \cup {s}
            /\ UNCHANGED <<props, screen>>
        BY <3>2 DEF LogFailure
      <4>2. CASE s \in {"pool", "capture"} /\ have' = have
        <5>1. s \in Kept'
          BY <4>1, <4>2 DEF Kept
        <5>2. have = {r \in have : Place(r) # at \/ r \in Kept'}
          BY <2>2, <2>3, <5>1, KeepsIt
        <5>3. QED
          BY <2>5, <4>1, <4>2, <5>2
      <4>3. CASE s \in {"planes", "drm"} /\ have' = have \ {s}
        <5>1. s \notin Kept'
          BY <4>3 DEF Kept
        <5>2. have' = {r \in have : Place(r) # at \/ r \in Kept'}
          BY <2>2, <2>3, <4>3, <5>1, GivesBack
        <5>3. QED
          BY <2>5, <4>1, <5>2
      <4>4. QED
        BY <3>2, <4>2, <4>3 DEF LogFailure
    <3>3. QED
      BY <2>1, <3>1, <3>2 DEF Release, s
  <2>9. \A w \in Threads :
          /\ Until(w) \in Nat
          /\ Until(w) <= 5 \/ (w = "watchdog" /\ Until(w) = 20)
    BY SMT DEF Threads, Until
  <2>10. running' \subseteq running /\ \A w \in running' : at < Until(w)
    BY <2>2, <2>3, <2>4, <2>9, CleaningKnown, SMT
  <2>11. "capture" \notin running'
    BY <2>3, <2>10, TheWorkers, SMT
  <2>12. props' \in BOOLEAN /\ (props' => at < 14 \/ "planes" \in logged')
    <3>1. props' \in BOOLEAN /\ (props' => props)
      <4>1. CASE props' = props
        BY <2>6, <4>1
      <4>2. CASE props' = FALSE
        BY <4>2
      <4>3. QED
        BY <2>8, <4>1, <4>2
    <3>2. props' => at <= 14 \/ "planes" \in logged'
      BY <2>6, <2>8, <3>1
    <3>3. props' /\ at = 14 => "planes" \in logged'
      BY <2>3, <2>4, <2>8
    <3>4. at <= 14 => at < 14 \/ at = 14
      BY <2>2, SMT
    <3>5. QED
      BY <3>1, <3>2, <3>3, <3>4
  <2>13. /\ screen' \in {"found", "ours", "off"}
         /\ screen' = "ours" => at < 7
         /\ screen' = "off" => at < 15 \/ "drm" \in logged'
    <3>1. screen' \in {"found", "ours", "off"} /\ screen' # "ours"
      BY <2>3, <2>6, <2>8, SMT
    <3>2. screen' = "off" => screen = "off" /\ (at <= 15 \/ "drm" \in logged')
      BY <2>6, <2>8
    <3>3. screen' = "off" /\ at = 15 => "drm" \in logged'
      BY <2>3, <2>4, <2>8
    <3>4. at <= 15 => at < 15 \/ at = 15
      BY <2>2, SMT
    <3>5. QED
      BY <3>1, <3>2, <3>3, <3>4
  <2>14. stuck' = stuck /\ stuck \in {"none", "key"} /\ (stuck = "key" => at <= 4)
    BY <2>2, CleaningKnown
  <2>15. stuck' = "key" => at < 4
    BY <2>3, <2>14, SMT
  <2>16. QED
    BY <2>2, <2>8, <2>10, <2>11, <2>12, <2>13, <2>14, <2>15, NextKeeps
<1>7. CASE CleanupDone
  <2>1. /\ pc = "clean" /\ at = 21 /\ pc' = "exited"
        /\ UNCHANGED <<have, got, running, screen, props, stuck, logged>>
    BY <1>7, CleaningKnown, TheSteps, SMT DEF CleanupDone
  <2>2. \A r \in got : Place(r) \in 5..20
    BY PlacesAre DEF StartIInv, StartTypes
  <2>3. have = Kept
    <3>1. Kept \subseteq got
      BY <2>1 DEF StartIInv, CleanupBackward, Kept
    <3>2. have = {r \in got : Place(r) >= 21 \/ r \in Kept}
      BY <2>1 DEF StartIInv, CleanupBackward
    <3>3. \A r \in got : ~(Place(r) >= 21)
      BY <2>2, SMT
    <3>4. QED
      BY <3>1, <3>2, <3>3
  <2>4. /\ stuck = "none"
        /\ screen = "found" \/ "drm" \in logged
        /\ ~props \/ "planes" \in logged
    BY <2>1, CleaningKnown, SMT
  <2>5. \A w \in Threads : Until(w) \in 1..20
    BY SMT DEF Threads, Until
  <2>6. running = {}
    <3> SUFFICES ASSUME NEW w \in running
                 PROVE  FALSE
      OBVIOUS
    <3>1. w \in Threads /\ 21 <= Until(w)
      BY <2>1, <2>4, CleaningKnown
    <3>2. Until(w) \in 1..20
      BY <2>5, <3>1
    <3>3. QED
      BY <3>1, <3>2, SMT
  <2>7. StartTypes' /\ StartForward' /\ CleanupBackward' /\ UsersFirst' /\ EndKnown'
    BY <2>1, <2>3, <2>4, <2>6
    DEF StartIInv, StartTypes, StartForward, CleanupBackward, UsersFirst, EndKnown, Kept
  <2>8. QED
    BY <2>7 DEF StartIInv
<1>8. QED
  BY <1>1, <1>2, <1>3, <1>4, <1>5, <1>6, <1>7

\* In every state main can reach, whatever fails, the invariant holds.
THEOREM StartInvariance == StartSpec => []StartIInv
<1>1. StartInit => StartIInv
  <2> SUFFICES ASSUME StartInit
               PROVE  StartIInv
    OBVIOUS
  <2>1. StartTypes
    <3>1. props \in BOOLEAN
      BY DEF StartInit
    <3>2. QED
      BY <3>1, SMT DEF StartInit, StartTypes
  <2>2. StartForward /\ CleanupBackward /\ EndKnown
    BY SMT DEF StartInit, StartForward, CleanupBackward, EndKnown
  <2>3. UsersFirst
    BY DEF StartInit, UsersFirst
  <2>4. QED
    BY <2>1, <2>2, <2>3 DEF StartIInv
<1>2. StartIInv /\ [StartNext]_startVars => StartIInv'
  <2> SUFFICES ASSUME StartIInv, [StartNext]_startVars
               PROVE  StartIInv'
    OBVIOUS
  <2>1. CASE StartNext
    BY <2>1, StartKeeps, CleanupKeeps DEF StartNext
  <2>2. CASE UNCHANGED startVars
    BY <2>2
    DEF startVars, StartIInv, StartTypes, StartForward, CleanupBackward, UsersFirst,
        EndKnown, Kept
  <2>3. QED
    BY <2>1, <2>2
<1>3. QED
  BY <1>1, <1>2, PTL DEF StartSpec

\* Whatever resource or worker is there, what it uses is there; and a cleanup
\* that was not given up ends every worker and leaves nothing but the pools that
\* refused to go, and the controller as it was found but for what could not be
\* written back.
THEOREM EndIsClean == StartSpec => []CleanEnd
<1>1. StartIInv => CleanEnd
  BY DEF StartIInv, StartForward, EndKnown, CleanEnd, NothingElseLeft, Kept
<1>2. QED
  BY <1>1, StartInvariance, PTL

-----------------------------------------------------------------------------
(* The way to the screen. *)

\* A display is looked for, then planes; what has been passed over is of no use.
RouteKnown ==
    /\ hw.plane \in Seq(Planes)
    /\ stage \in {"connector", "planes", "shown", "failed"}
    /\ stage = "connector" => crtc = None
    /\ stage \in {"connector", "planes"} => base = 0 /\ overlay = 0
    /\ stage \in {"planes", "shown"} => crtc # None
    /\ \A c \in Connectors \ left : ~Usable(c)

RouteIInv == RouteKnown /\ NothingTaken /\ AllowedIsFound

\* What the chosen CRTC is, and who else shows it.
LEMMA RouteTaken ==
  ASSUME NEW c \in Connectors, NEW k \in Routes(c)
  PROVE  /\ k # None
         /\ \A d \in Connectors \ {c} : Drives(k, d) => k = CurrentCrtc(c)
<1>1. CASE CurrentCrtc(c) # None
  BY <1>1 DEF Routes
<1>2. CASE CurrentCrtc(c) = None
  <2>1. PICK r \in FreeRoutes(c) : k = r[2]
    BY <1>2 DEF Routes
  <2>2. k \in Crtcs /\ ~UsedByOther(k, c)
    BY <2>1 DEF FreeRoutes
  <2>3. QED
    BY <2>2, HardwareAssumption DEF UsedByOther
<1>3. QED
  BY <1>1, <1>2

\* The modes set on a CRTC are set for all that show it.
LEMMA AllRouted ==
  ASSUME NEW c \in Connectors, NEW k \in Routes(c), hw.conn[c].lit
  PROVE  /\ c \in Routed(k, c)
         /\ \A d \in Connectors : Drives(k, d) => d \in Routed(k, c)
<1> DEFINE on == {d \in Connectors : Drives(k, d)}
<1>1. \A d \in Connectors : Drives(k, d) => d \in Routed(k, c)
  BY DEF Routed
<1>2. CASE on = {}
  BY <1>2 DEF Routed
<1>3. CASE on # {}
  <2>1. PICK d \in Connectors : Drives(k, d)
    BY <1>3
  <2>2. d = c \/ k = CurrentCrtc(c)
    BY <2>1, RouteTaken
  <2>3. Drives(k, c)
    BY <2>1, <2>2 DEF Drives
  <2>4. QED
    BY <1>1, <2>3
<1>4. QED
  BY <1>1, <1>2, <1>3

\* The planes that are chosen are planes of the hardware.
LEMMA PlanesNumbered ==
  ASSUME hw.plane \in Seq(Planes)
  PROVE  /\ 0 \notin Bases /\ 0 \notin Overlays
         /\ \A i \in Available : hw.plane[i] \in Planes
BY SMT DEF Bases, Overlays, Available

\* Whatever hardware there is and whoever uses it: no CRTC, connector or plane is
\* taken from another display, and what the hardware allows is found.
THEOREM RouteIsSound == RouteSpec => []RouteSound
<1>1. RouteInit => RouteIInv
  <2>1. SUFFICES ASSUME RouteInit PROVE RouteIInv
    OBVIOUS
  <2>2. hw.plane \in Seq(Planes)
    <3>1. PICK s \in Hardware : hw \in [conn : s.conn, enc : s.enc, plane : s.plane]
      BY <2>1 DEF RouteInit
    <3>2. QED
      BY <3>1, HardwareAssumption
  <2>3. QED
    BY <2>1, <2>2 DEF RouteInit, RouteIInv, RouteKnown, NothingTaken, AllowedIsFound
<1>2. RouteIInv /\ [RouteNext]_routeVars => RouteIInv'
  <2> SUFFICES ASSUME RouteIInv, [RouteNext]_routeVars PROVE RouteIInv'
    OBVIOUS
  <2>1. hw' = hw
    BY DEF RouteNext, routeVars, Connect, PassOver, NoScreen, ChoosePlanes
  <2>2. /\ Available' = Available /\ Bases' = Bases /\ Overlays' = Overlays
        /\ \A c \in Connectors : Usable(c)' <=> Usable(c)
        /\ \A c : CurrentCrtc(c)' = CurrentCrtc(c)
        /\ \A k, c : Drives(k, c)' <=> Drives(k, c)
    BY <2>1
    DEF Available, Bases, Overlays, Usable, Routed, Routes, FreeRoutes, RouteScore,
        UsedByOther, Drives, CurrentCrtc
  <2>3. CASE \E c \in Connectors : Connect(c)
    <3>c. PICK c \in Connectors : Connect(c)
      BY <2>3
    <3>k. PICK k \in Routes(c) : conn' = c /\ crtc' = k /\ routed' = Routed(k, c)
      BY <3>c DEF Connect
    <3>1. /\ stage = "connector" /\ stage' = "planes" /\ hw.conn[c].lit
          /\ UNCHANGED <<left, base, overlay>>
      BY <3>c DEF Connect, Usable
    <3>2. NothingTaken'
      <4>1. conn' \in routed' /\ Cardinality(routed') <= MaxRouted
        <5>1. Cardinality(Routed(k, c)) <= MaxRouted
          BY <3>c DEF Connect, Usable
        <5>2. QED
          BY <5>1, <3>1, <3>k, AllRouted
      <4>2. ASSUME NEW d \in Connectors \ {c}, Drives(k, d)
            PROVE  d \in Routed(k, c) /\ CurrentCrtc(c) = k
        BY <4>2, <3>1, AllRouted, RouteTaken
      <4>3. base' = 0 /\ overlay' = 0
        BY <3>1 DEF RouteIInv, RouteKnown
      <4>4. (\A d \in Connectors \ {conn} :
               Drives(crtc, d) => d \in routed /\ CurrentCrtc(conn) = crtc)'
        BY <2>1, <3>k, <4>2 DEF Drives, CurrentCrtc
      <4>5. QED
        BY <4>1, <4>3, <4>4 DEF NothingTaken
    <3>3. AllowedIsFound'
      BY <3>1 DEF AllowedIsFound
    <3>4. RouteKnown'
      BY <3>1, <3>k, <2>1, <2>2, RouteTaken DEF RouteIInv, RouteKnown
    <3>5. QED
      BY <3>2, <3>3, <3>4 DEF RouteIInv
  <2>4. CASE \E c \in Connectors : PassOver(c)
    BY <2>1, <2>2, <2>4 DEF PassOver, RouteIInv, RouteKnown, NothingTaken,
       AllowedIsFound
  <2>5. CASE NoScreen
    BY <2>1, <2>2, <2>5 DEF NoScreen, RouteIInv, RouteKnown, NothingTaken,
       AllowedIsFound
  <2>6. CASE ChoosePlanes
    <3>1. /\ stage = "planes" /\ crtc # None /\ stage' \in {"shown", "failed"}
          /\ UNCHANGED <<left, conn, crtc, routed>>
      BY <2>6 DEF ChoosePlanes, RouteIInv, RouteKnown
    <3>2. CASE Pairs # {}
      <4>1. PICK p \in Pairs : base' = p[1] /\ overlay' = p[2] /\ stage' = "shown"
        <5>1. Bases # {}
          BY <3>2 DEF Pairs
        <5>2. QED
          BY <2>6, <3>2, <5>1 DEF ChoosePlanes
      <4>2. base' \in Bases /\ overlay' \in Overlays /\ base' # overlay'
        BY <4>1 DEF Pairs
      <4>3. overlay' # 0
        BY <4>2, PlanesNumbered DEF RouteIInv, RouteKnown
      <4>4. QED
        BY <2>1, <2>2, <3>1, <4>1, <4>2, <4>3
        DEF RouteIInv, RouteKnown, NothingTaken, AllowedIsFound, Bases, Overlays,
           Available
    <3>3. CASE Pairs = {}
      <4>1. /\ overlay' = 0
            /\ \/ stage' = "shown" /\ base' \in Bases
               \/ stage' = "failed" /\ base' = 0 /\ Bases = {}
        BY <2>6, <3>3 DEF ChoosePlanes, RouteIInv, RouteKnown
      <4>2. ASSUME NEW i \in Bases, NEW j \in Overlays, i # j PROVE FALSE
        <5>1. <<i, j>> \in Pairs
          BY <4>2 DEF Pairs
        <5>2. QED
          BY <5>1, <3>3
      <4>3. Bases = {} => \A i \in Available : ~hw.plane[i].nv12 \/ hw.plane[i].type = "overlay"
        BY PlanesNumbered DEF Bases, Planes, RouteIInv, RouteKnown
      <4>4. AllowedIsFound'
        BY <2>1, <2>2, <3>1, <4>1, <4>2, <4>3 DEF AllowedIsFound
      <4>5. NothingTaken'
        BY <2>1, <2>2, <3>1, <4>1 DEF RouteIInv, NothingTaken, Bases, Available
      <4>6. QED
        BY <2>1, <2>2, <3>1, <4>4, <4>5 DEF RouteIInv, RouteKnown
    <3>4. QED
      BY <3>2, <3>3
  <2>7. CASE UNCHANGED routeVars
    BY <2>1, <2>2, <2>7
    DEF routeVars, RouteIInv, RouteKnown, NothingTaken, AllowedIsFound
  <2>8. QED
    BY <2>3, <2>4, <2>5, <2>6, <2>7 DEF RouteNext
<1>3. RouteIInv => RouteSound
  BY DEF RouteIInv, RouteSound
<1>4. QED
  BY <1>1, <1>2, <1>3, PTL DEF RouteSpec

-----------------------------------------------------------------------------
(* Supervision. *)

Started == {"head", "state", "check", "look", "feed", "work", "blocked", "sleep"}
Ended == {"cleanup", "join", "exited"}

\* A code that may be reported now.
Justified(code) ==
    /\ code = 0 => signalled
    /\ code = 10 => ~capOk
    /\ code = -1 => blocked

\* Whoever has stored a code, or is about to, has a cause for it.  After the end
\* the watchdog may still store its own, which nobody reads.
CodesJustified ==
    /\ signal => signalled
    /\ mpc \in {"code", "publish"} => Justified(mcode)
    /\ mpc \notin Ended =>
         /\ wpc \in {"code", "publish"} => blocked
         /\ \/ state = "SHUTTING_DOWN"
            \/ mpc \in {"publish", "leave"}
            \/ wpc = "publish"
            => Justified(exitCode)

\* There is no result before the end, no watchdog and no stall before the loop.
StagesKnown ==
    /\ mpc \notin Ended => result = NoResult
    /\ mpc \in {"start", "dog"} => wpc = "none" /\ state = "INIT"
    /\ mpc = "blocked" => blocked
    /\ mpc \in {"start", "dog", "announce"} => stalled = 0
    /\ mpc \in Started => stalled < StallLimit

\* The longest time until the loop feeds the watchdog again.
Due ==
    CASE mpc = "work"  -> mtimer + Period + 1
      [] mpc = "sleep" -> mtimer
      [] OTHER         -> 0

TimersSet ==
    /\ mpc = "work" => mtimer <= WorkMax
    /\ mpc = "sleep" => mtimer <= Period + 1

\* A loop that works feeds before the watchdog's patience ends: unless a feed is
\* waiting to be noticed, what has passed and what is due fit in one iteration.
FedInTime ==
    ~blocked /\ mpc \notin Ended /\ wpc \in {"load", "judge", "sleep"} =>
        /\ ~fed /\ ~(wpc = "judge" /\ saw) => age + Due <= WorkMax + Period + 1
        /\ wpc = "judge" /\ ~saw => age <= WorkMax + Period + 1

\* Without a new frame a period has gone by for each look that found none; a
\* signal cuts a sleep short, but then there is no further look.
StallsTimed ==
    ~fresh =>
        /\ mpc \in {"state", "check", "look"} => quiet >= stalled * Period
        /\ mpc = "head" /\ ~signal => quiet >= stalled * Period
        /\ mpc = "sleep" /\ ~signal => quiet + mtimer >= stalled * Period
        /\ mpc \in {"feed", "work", "blocked"} => quiet + Period >= stalled * Period

SupIInv ==
    /\ SupTypeOK
    /\ CodesJustified
    /\ StagesKnown
    /\ TimersSet
    /\ FedInTime
    /\ StallsTimed
    /\ ExitJustified

-----------------------------------------------------------------------------
\* What the proofs need of the times.
LEMMA Times ==
  /\ Timeout \in Nat /\ Period \in Nat /\ Period > 0
  /\ StallLimit \in Nat /\ StallLimit > 0 /\ WorkMax \in Nat
  /\ WorkMax + Period + 1 <= Timeout
  /\ StallLimit * Period \in Nat
BY TimesAssumption, SMT

\* The ticks that a number of stalled looks stands for.
LEMMA Product ==
  ASSUME NEW n \in 0 .. StallLimit
  PROVE  /\ n * Period \in Nat /\ n * Period <= StallLimit * Period
         /\ (n + 1) * Period = n * Period + Period /\ 0 * Period = 0
<1> USE Times
<1>1. n * Period \in Nat /\ 0 * Period = 0
  BY SMT
<1>2. (n + 1) * Period = n * Period + Period
  BY SMT
<1>3. n * Period <= StallLimit * Period
  <2>1. PICK k \in Nat : StallLimit = n + k
    <3>1. StallLimit - n \in Nat /\ StallLimit = n + (StallLimit - n)
      BY SMT
    <3>2. QED
      BY <3>1
  <2>2. (n + k) * Period = n * Period + k * Period /\ k * Period >= 0
    BY SMT
  <2>3. QED
    BY <1>1, <2>1, <2>2, SMT
<1>4. QED
  BY <1>1, <1>2, <1>3

\* Every variable keeps its type.
LEMMA StepTypes ==
  ASSUME SupIInv, [SupNext]_supVars
  PROVE  SupTypeOK'
<1> USE Times
    DEF manager, loop, frames, watchdog, history, supVars, SupIInv, SupTypeOK,
       StagesKnown,
        TimersSet, ExitCodes, StartFailures, NoResult, Started
<1>1. CASE Signal
  BY <1>1, SMT DEF Signal
<1>2. CASE Publish
  BY <1>2, SMT DEF Publish
<1>3. CASE CaptureDies
  <2>1. capOk' \in BOOLEAN
    BY <1>3 DEF CaptureDies
  <2>2. QED
    BY <1>3, <2>1, SMT DEF CaptureDies
<1>4. CASE StartCapture
  <2>1. capOk' \in BOOLEAN /\ result' \in ExitCodes \cup StartFailures \cup {NoResult}
    BY <1>4 DEF StartCapture
  <2>2. quiet' \in 0 .. StallLimit * Period
    BY <1>4, SMT DEF StartCapture
  <2>3. QED
    BY <1>4, <2>1, <2>2, SMT DEF StartCapture
<1>5. CASE StartWatchdog
  <2>1. /\ fed' \in BOOLEAN /\ wdRunning' \in BOOLEAN
        /\ result' \in ExitCodes \cup StartFailures \cup {NoResult}
    BY <1>5 DEF StartWatchdog
  <2>2. QED
    BY <1>5, <2>1, SMT DEF StartWatchdog
<1>6. CASE Announce
  BY <1>6, SMT DEF Announce
<1>7. CASE TakeSignal
  <2>1. signal' \in BOOLEAN
    BY <1>7 DEF TakeSignal
  <2>2. QED
    BY <1>7, <2>1, SMT DEF TakeSignal
<1>8. CASE NoSignal
  BY <1>8, SMT DEF NoSignal
<1>9. CASE ShouldExit
  BY <1>9, SMT DEF ShouldExit
<1>10. CASE RequestCode
  BY <1>10, SMT DEF RequestCode, Store
<1>11. CASE RequestState
  BY <1>11, SMT DEF RequestState, Store
<1>12. CASE CheckCapture
  BY <1>12, SMT DEF CheckCapture
<1>13. CASE LookAtFrame
  <2>1. fresh' \in BOOLEAN
    BY <1>13 DEF LookAtFrame
  <2>2. stalled' \in 0 .. StallLimit
    BY <1>13, SMT DEF LookAtFrame, Stalls
  <2>3. QED
    BY <1>13, <2>1, <2>2, SMT DEF LookAtFrame
<1>14. CASE Feed
  BY <1>14, SMT DEF Feed
<1>15. CASE Work
  BY <1>15, SMT DEF Work
<1>16. CASE Wake
  BY <1>16, SMT DEF Wake
<1>17. CASE Leave
  BY <1>17, SMT DEF Leave
<1>18. CASE Cleanup
  <2>1. capOk' \in BOOLEAN /\ wdRunning' \in BOOLEAN
    BY <1>18 DEF Cleanup
  <2>2. QED
    BY <1>18, <2>1, SMT DEF Cleanup
<1>19. CASE Join
  BY <1>19, SMT DEF Join
<1>20. CASE Block
  BY <1>20, SMT DEF Block
<1>21. CASE Unblock
  BY <1>21, SMT DEF Unblock
<1>22. CASE WatchBegin
  <2>1. fed' \in BOOLEAN
    BY <1>22 DEF WatchBegin
  <2>2. QED
    BY <1>22, <2>1, SMT DEF WatchBegin
<1>23. CASE WatchLoad
  <2>1. fed' \in BOOLEAN /\ saw' \in BOOLEAN
    BY <1>23 DEF WatchLoad, LoadCount
  <2>2. QED
    BY <1>23, <2>1, SMT DEF WatchLoad, LoadCount
<1>24. CASE WatchJudge
  BY <1>24, SMT DEF WatchJudge, WatchSleep
<1>25. CASE WatchWake
  BY <1>25, SMT DEF WatchWake
<1>26. CASE AlarmCode
  BY <1>26, SMT DEF AlarmCode, Store
<1>27. CASE AlarmState
  BY <1>27, SMT DEF AlarmState, Store
<1>28. CASE Tick
  BY <1>28, SMT DEF Tick, Waiting, Less, More
<1>29. CASE UNCHANGED supVars
  BY <1>29
<1>30. QED
  BY <1>1, <1>2, <1>3, <1>4, <1>5, <1>6, <1>7, <1>8, <1>9, <1>10, <1>11, <1>12, <1>13,
     <1>14, <1>15, <1>16, <1>17, <1>18, <1>19, <1>20, <1>21, <1>22, <1>23, <1>24, <1>25,
     <1>26, <1>27, <1>28, <1>29
  DEF SupNext, MainStep, WatchStep

\* Whoever stores a code has its cause.
LEMMA StepCodes ==
  ASSUME SupIInv, [SupNext]_supVars
  PROVE  CodesJustified'
<1> USE Times
    DEF manager, loop, frames, watchdog, history, supVars, SupIInv, SupTypeOK,
       CodesJustified,
        StagesKnown, Justified, Ended, ExitCodes
<1>1. CASE Signal
  BY <1>1, SMT DEF Signal
<1>2. CASE Publish
  BY <1>2, SMT DEF Publish
<1>3. CASE CaptureDies
  BY <1>3, SMT DEF CaptureDies
<1>4. CASE StartCapture
  BY <1>4, SMT DEF StartCapture
<1>5. CASE StartWatchdog
  BY <1>5, SMT DEF StartWatchdog
<1>6. CASE Announce
  BY <1>6, SMT DEF Announce
<1>7. CASE TakeSignal
  BY <1>7, SMT DEF TakeSignal
<1>8. CASE NoSignal
  BY <1>8, SMT DEF NoSignal
<1>9. CASE ShouldExit
  BY <1>9, SMT DEF ShouldExit
<1>10. CASE RequestCode
  BY <1>10, SMT DEF RequestCode, Store
<1>11. CASE RequestState
  BY <1>11, SMT DEF RequestState, Store
<1>12. CASE CheckCapture
  BY <1>12, SMT DEF CheckCapture
<1>13. CASE LookAtFrame
  BY <1>13, SMT DEF LookAtFrame, Stalls, Stalled
<1>14. CASE Feed
  BY <1>14, SMT DEF Feed
<1>15. CASE Work
  BY <1>15, SMT DEF Work
<1>16. CASE Wake
  BY <1>16, SMT DEF Wake
<1>17. CASE Leave
  BY <1>17, SMT DEF Leave
<1>18. CASE Cleanup
  BY <1>18, SMT DEF Cleanup
<1>19. CASE Join
  BY <1>19, SMT DEF Join
<1>20. CASE Block
  BY <1>20, SMT DEF Block
<1>21. CASE Unblock
  BY <1>21, SMT DEF Unblock
<1>22. CASE WatchBegin
  BY <1>22, SMT DEF WatchBegin
<1>23. CASE WatchLoad
  BY <1>23, SMT DEF WatchLoad, LoadCount
<1>24. CASE WatchJudge
  <2>1. wpc' = "code" /\ mpc \notin Ended => blocked
    BY <1>24, SMT DEF WatchJudge, WatchSleep, FedInTime
  <2>2. QED
    BY <1>24, <2>1, SMT DEF WatchJudge, WatchSleep
<1>25. CASE WatchWake
  BY <1>25, SMT DEF WatchWake
<1>26. CASE AlarmCode
  BY <1>26, SMT DEF AlarmCode, Store
<1>27. CASE AlarmState
  BY <1>27, SMT DEF AlarmState, Store
<1>28. CASE Tick
  BY <1>28, SMT DEF Tick, Waiting, Less, More
<1>29. CASE UNCHANGED supVars
  BY <1>29
<1>30. QED
  BY <1>1, <1>2, <1>3, <1>4, <1>5, <1>6, <1>7, <1>8, <1>9, <1>10, <1>11, <1>12, <1>13,
     <1>14, <1>15, <1>16, <1>17, <1>18, <1>19, <1>20, <1>21, <1>22, <1>23, <1>24, <1>25,
     <1>26, <1>27, <1>28, <1>29
  DEF SupNext, MainStep, WatchStep

\* The stages follow one another.
LEMMA StepStages ==
  ASSUME SupIInv, [SupNext]_supVars
  PROVE  StagesKnown'
<1> USE Times
    DEF manager, loop, frames, watchdog, history, supVars, SupIInv, SupTypeOK,
       StagesKnown,
        Started, Ended, NoResult
<1>1. CASE Signal
  BY <1>1, SMT DEF Signal
<1>2. CASE Publish
  BY <1>2, SMT DEF Publish
<1>3. CASE CaptureDies
  BY <1>3, SMT DEF CaptureDies
<1>4. CASE StartCapture
  BY <1>4, SMT DEF StartCapture
<1>5. CASE StartWatchdog
  BY <1>5, SMT DEF StartWatchdog
<1>6. CASE Announce
  BY <1>6, SMT DEF Announce
<1>7. CASE TakeSignal
  BY <1>7, SMT DEF TakeSignal
<1>8. CASE NoSignal
  BY <1>8, SMT DEF NoSignal
<1>9. CASE ShouldExit
  BY <1>9, SMT DEF ShouldExit
<1>10. CASE RequestCode
  BY <1>10, SMT DEF RequestCode, Store
<1>11. CASE RequestState
  BY <1>11, SMT DEF RequestState, Store
<1>12. CASE CheckCapture
  BY <1>12, SMT DEF CheckCapture
<1>13. CASE LookAtFrame
  BY <1>13, SMT DEF LookAtFrame, Stalls, Stalled
<1>14. CASE Feed
  BY <1>14, SMT DEF Feed
<1>15. CASE Work
  BY <1>15, SMT DEF Work
<1>16. CASE Wake
  BY <1>16, SMT DEF Wake
<1>17. CASE Leave
  BY <1>17, SMT DEF Leave
<1>18. CASE Cleanup
  BY <1>18, SMT DEF Cleanup
<1>19. CASE Join
  BY <1>19, SMT DEF Join
<1>20. CASE Block
  BY <1>20, SMT DEF Block
<1>21. CASE Unblock
  BY <1>21, SMT DEF Unblock
<1>22. CASE WatchBegin
  BY <1>22, SMT DEF WatchBegin
<1>23. CASE WatchLoad
  BY <1>23, SMT DEF WatchLoad, LoadCount
<1>24. CASE WatchJudge
  BY <1>24, SMT DEF WatchJudge, WatchSleep
<1>25. CASE WatchWake
  BY <1>25, SMT DEF WatchWake
<1>26. CASE AlarmCode
  BY <1>26, SMT DEF AlarmCode, Store
<1>27. CASE AlarmState
  BY <1>27, SMT DEF AlarmState, Store
<1>28. CASE Tick
  BY <1>28, SMT DEF Tick, Waiting, Less, More
<1>29. CASE UNCHANGED supVars
  BY <1>29
<1>30. QED
  BY <1>1, <1>2, <1>3, <1>4, <1>5, <1>6, <1>7, <1>8, <1>9, <1>10, <1>11, <1>12, <1>13,
     <1>14, <1>15, <1>16, <1>17, <1>18, <1>19, <1>20, <1>21, <1>22, <1>23, <1>24, <1>25,
     <1>26, <1>27, <1>28, <1>29
  DEF SupNext, MainStep, WatchStep

\* Each wait is as long as asked for, or a tick longer.
LEMMA StepTimers ==
  ASSUME SupIInv, [SupNext]_supVars
  PROVE  TimersSet'
<1> USE Times
    DEF manager, loop, frames, watchdog, history, supVars, SupIInv, SupTypeOK, TimersSet
<1>1. CASE Signal
  BY <1>1, SMT DEF Signal
<1>2. CASE Publish
  BY <1>2, SMT DEF Publish
<1>3. CASE CaptureDies
  BY <1>3, SMT DEF CaptureDies
<1>4. CASE StartCapture
  BY <1>4, SMT DEF StartCapture
<1>5. CASE StartWatchdog
  BY <1>5, SMT DEF StartWatchdog
<1>6. CASE Announce
  BY <1>6, SMT DEF Announce
<1>7. CASE TakeSignal
  BY <1>7, SMT DEF TakeSignal
<1>8. CASE NoSignal
  BY <1>8, SMT DEF NoSignal
<1>9. CASE ShouldExit
  BY <1>9, SMT DEF ShouldExit
<1>10. CASE RequestCode
  BY <1>10, SMT DEF RequestCode, Store
<1>11. CASE RequestState
  BY <1>11, SMT DEF RequestState, Store
<1>12. CASE CheckCapture
  BY <1>12, SMT DEF CheckCapture
<1>13. CASE LookAtFrame
  BY <1>13, SMT DEF LookAtFrame, Stalls, Stalled
<1>14. CASE Feed
  BY <1>14, SMT DEF Feed
<1>15. CASE Work
  BY <1>15, SMT DEF Work
<1>16. CASE Wake
  BY <1>16, SMT DEF Wake
<1>17. CASE Leave
  BY <1>17, SMT DEF Leave
<1>18. CASE Cleanup
  BY <1>18, SMT DEF Cleanup
<1>19. CASE Join
  BY <1>19, SMT DEF Join
<1>20. CASE Block
  BY <1>20, SMT DEF Block
<1>21. CASE Unblock
  BY <1>21, SMT DEF Unblock
<1>22. CASE WatchBegin
  BY <1>22, SMT DEF WatchBegin
<1>23. CASE WatchLoad
  BY <1>23, SMT DEF WatchLoad, LoadCount
<1>24. CASE WatchJudge
  BY <1>24, SMT DEF WatchJudge, WatchSleep
<1>25. CASE WatchWake
  BY <1>25, SMT DEF WatchWake
<1>26. CASE AlarmCode
  BY <1>26, SMT DEF AlarmCode, Store
<1>27. CASE AlarmState
  BY <1>27, SMT DEF AlarmState, Store
<1>28. CASE Tick
  BY <1>28, SMT DEF Tick, Waiting, Less, More
<1>29. CASE UNCHANGED supVars
  BY <1>29
<1>30. QED
  BY <1>1, <1>2, <1>3, <1>4, <1>5, <1>6, <1>7, <1>8, <1>9, <1>10, <1>11, <1>12, <1>13,
     <1>14, <1>15, <1>16, <1>17, <1>18, <1>19, <1>20, <1>21, <1>22, <1>23, <1>24, <1>25,
     <1>26, <1>27, <1>28, <1>29
  DEF SupNext, MainStep, WatchStep

\* No step makes the loop late.
LEMMA StepFed ==
  ASSUME SupIInv, [SupNext]_supVars
  PROVE  FedInTime'
<1> USE Times
    DEF manager, loop, frames, watchdog, history, supVars, SupIInv, SupTypeOK,
       TimersSet,
        FedInTime, Due, Ended, StagesKnown
<1>1. CASE Signal
  BY <1>1, SMT DEF Signal
<1>2. CASE Publish
  BY <1>2, SMT DEF Publish
<1>3. CASE CaptureDies
  BY <1>3, SMT DEF CaptureDies
<1>4. CASE StartCapture
  BY <1>4, SMT DEF StartCapture
<1>5. CASE StartWatchdog
  BY <1>5, SMT DEF StartWatchdog
<1>6. CASE Announce
  BY <1>6, SMT DEF Announce
<1>7. CASE TakeSignal
  BY <1>7, SMT DEF TakeSignal
<1>8. CASE NoSignal
  BY <1>8, SMT DEF NoSignal
<1>9. CASE ShouldExit
  BY <1>9, SMT DEF ShouldExit
<1>10. CASE RequestCode
  BY <1>10, SMT DEF RequestCode, Store
<1>11. CASE RequestState
  BY <1>11, SMT DEF RequestState, Store
<1>12. CASE CheckCapture
  BY <1>12, SMT DEF CheckCapture
<1>13. CASE LookAtFrame
  BY <1>13, SMT DEF LookAtFrame, Stalls, Stalled
<1>14. CASE Feed
  BY <1>14, SMT DEF Feed
<1>15. CASE Work
  BY <1>15, SMT DEF Work
<1>16. CASE Wake
  BY <1>16, SMT DEF Wake
<1>17. CASE Leave
  BY <1>17, SMT DEF Leave
<1>18. CASE Cleanup
  BY <1>18, SMT DEF Cleanup
<1>19. CASE Join
  BY <1>19, SMT DEF Join
<1>20. CASE Block
  BY <1>20, SMT DEF Block
<1>21. CASE Unblock
  BY <1>21, SMT DEF Unblock
<1>22. CASE WatchBegin
  BY <1>22, SMT DEF WatchBegin
<1>23. CASE WatchLoad
  BY <1>23, SMT DEF WatchLoad, LoadCount
<1>24. CASE WatchJudge
  BY <1>24, SMT DEF WatchJudge, WatchSleep
<1>25. CASE WatchWake
  BY <1>25, SMT DEF WatchWake
<1>26. CASE AlarmCode
  BY <1>26, SMT DEF AlarmCode, Store
<1>27. CASE AlarmState
  BY <1>27, SMT DEF AlarmState, Store
<1>28. CASE Tick
  <2>1. SUFFICES ASSUME ~blocked, mpc \notin Ended, wpc \in {"load", "judge", "sleep"}, ~fed
                PROVE  age' + Due' <= WorkMax + Period + 1 /\ wpc # "judge"
    BY <1>28, SMT DEF Tick, Waiting
  <2>2. mtimer > 0 /\ mpc \in {"work", "sleep"} /\ wpc = "sleep"
    BY <1>28, <2>1, SMT DEF Tick, Waiting
  <2>3. age' <= age + 1 /\ mtimer' = mtimer - 1 /\ age' \in Nat
    BY <1>28, <2>2, SMT DEF Tick, Less, More
  <2>4. QED
    BY <1>28, <2>1, <2>2, <2>3, SMT DEF Tick
<1>29. CASE UNCHANGED supVars
  BY <1>29
<1>30. QED
  BY <1>1, <1>2, <1>3, <1>4, <1>5, <1>6, <1>7, <1>8, <1>9, <1>10, <1>11, <1>12, <1>13,
     <1>14, <1>15, <1>16, <1>17, <1>18, <1>19, <1>20, <1>21, <1>22, <1>23, <1>24, <1>25,
     <1>26, <1>27, <1>28, <1>29
  DEF SupNext, MainStep, WatchStep

\* The result is justified when it is there, and stays so.
LEMMA StepExit ==
  ASSUME SupIInv, [SupNext]_supVars
  PROVE  ExitJustified'
<1> USE Times
    DEF manager, loop, frames, watchdog, history, supVars, SupIInv, SupTypeOK,
       CodesJustified,
        StagesKnown, ExitJustified, Justified, Ended, NoResult
<1>1. CASE Signal
  BY <1>1, SMT DEF Signal
<1>2. CASE Publish
  BY <1>2, SMT DEF Publish
<1>3. CASE CaptureDies
  BY <1>3, SMT DEF CaptureDies
<1>4. CASE StartCapture
  BY <1>4, SMT DEF StartCapture
<1>5. CASE StartWatchdog
  BY <1>5, SMT DEF StartWatchdog
<1>6. CASE Announce
  BY <1>6, SMT DEF Announce
<1>7. CASE TakeSignal
  BY <1>7, SMT DEF TakeSignal
<1>8. CASE NoSignal
  BY <1>8, SMT DEF NoSignal
<1>9. CASE ShouldExit
  BY <1>9, SMT DEF ShouldExit
<1>10. CASE RequestCode
  BY <1>10, SMT DEF RequestCode, Store
<1>11. CASE RequestState
  BY <1>11, SMT DEF RequestState, Store
<1>12. CASE CheckCapture
  BY <1>12, SMT DEF CheckCapture
<1>13. CASE LookAtFrame
  BY <1>13, SMT DEF LookAtFrame, Stalls, Stalled
<1>14. CASE Feed
  BY <1>14, SMT DEF Feed
<1>15. CASE Work
  BY <1>15, SMT DEF Work
<1>16. CASE Wake
  BY <1>16, SMT DEF Wake
<1>17. CASE Leave
  BY <1>17, SMT DEF Leave
<1>18. CASE Cleanup
  BY <1>18, SMT DEF Cleanup
<1>19. CASE Join
  BY <1>19, SMT DEF Join
<1>20. CASE Block
  BY <1>20, SMT DEF Block
<1>21. CASE Unblock
  BY <1>21, SMT DEF Unblock
<1>22. CASE WatchBegin
  BY <1>22, SMT DEF WatchBegin
<1>23. CASE WatchLoad
  BY <1>23, SMT DEF WatchLoad, LoadCount
<1>24. CASE WatchJudge
  BY <1>24, SMT DEF WatchJudge, WatchSleep
<1>25. CASE WatchWake
  BY <1>25, SMT DEF WatchWake
<1>26. CASE AlarmCode
  BY <1>26, SMT DEF AlarmCode, Store
<1>27. CASE AlarmState
  BY <1>27, SMT DEF AlarmState, Store
<1>28. CASE Tick
  BY <1>28, SMT DEF Tick, Waiting, Less, More
<1>29. CASE UNCHANGED supVars
  BY <1>29
<1>30. QED
  BY <1>1, <1>2, <1>3, <1>4, <1>5, <1>6, <1>7, <1>8, <1>9, <1>10, <1>11, <1>12, <1>13,
     <1>14, <1>15, <1>16, <1>17, <1>18, <1>19, <1>20, <1>21, <1>22, <1>23, <1>24, <1>25,
     <1>26, <1>27, <1>28, <1>29
  DEF SupNext, MainStep, WatchStep

\* What is more than a period later is later.
LEMMA Longer ==
  ASSUME NEW q \in Nat, NEW t \in Nat, NEW x \in Nat, q + Period >= x, t >= Period
  PROVE  q + t >= x
BY Times, SMT

\* No step makes the frames' time shorter than the looks tell.
LEMMA StepStalls ==
  ASSUME SupIInv, [SupNext]_supVars
  PROVE  StallsTimed'
<1> USE Times
    DEF manager, loop, frames, watchdog, history, supVars, SupIInv, SupTypeOK,
       StagesKnown,
        Started, StallsTimed
<1>1. CASE Signal
  BY <1>1, SMT DEF Signal
<1>2. CASE Publish
  BY <1>2, SMT DEF Publish
<1>3. CASE CaptureDies
  BY <1>3, SMT DEF CaptureDies
<1>4. CASE StartCapture
  BY <1>4, SMT DEF StartCapture
<1>5. CASE StartWatchdog
  BY <1>5, SMT DEF StartWatchdog
<1>6. CASE Announce
  <2>1. stalled = 0 /\ 0 * Period = 0
    BY <1>6, SMT DEF Announce
  <2>2. QED
    BY <1>6, <2>1, SMT DEF Announce
<1>7. CASE TakeSignal
  BY <1>7, SMT DEF TakeSignal
<1>8. CASE NoSignal
  BY <1>8, SMT DEF NoSignal
<1>9. CASE ShouldExit
  BY <1>9, SMT DEF ShouldExit
<1>10. CASE RequestCode
  BY <1>10, SMT DEF RequestCode, Store
<1>11. CASE RequestState
  BY <1>11, SMT DEF RequestState, Store
<1>12. CASE CheckCapture
  BY <1>12, SMT DEF CheckCapture
<1>13. CASE LookAtFrame
  <2>1. (stalled + 1) * Period = stalled * Period + Period
    BY Product
  <2>2. ~fresh => stalled' * Period = stalled * Period + Period
    BY <1>13, <2>1 DEF LookAtFrame, Stalls
  <2>3. fresh => stalled' * Period = 0
    BY <1>13, Product DEF LookAtFrame, Stalls
  <2>4. stalled * Period \in Nat
    BY Product
  <2>5. QED
    BY <1>13, <2>2, <2>3, <2>4, SMT DEF LookAtFrame
<1>14. CASE Feed
  BY <1>14, SMT DEF Feed
<1>15. CASE Work
  <2>1. /\ mpc = "work" /\ mpc' = "sleep" /\ mtimer' >= Period /\ mtimer' \in Nat
        /\ quiet' = quiet /\ stalled' = stalled /\ fresh' = fresh
    BY <1>15, SMT DEF Work
  <2>2. stalled * Period \in Nat
    BY Product
  <2>3. ~fresh => quiet + Period >= stalled * Period /\ quiet \in Nat
    BY <2>1, SMT
  <2>4. ~fresh => quiet + mtimer' >= stalled * Period
    BY <2>1, <2>2, <2>3, Longer
  <2>5. QED
    BY <2>1, <2>4
<1>16. CASE Wake
  BY <1>16, SMT DEF Wake
<1>17. CASE Leave
  BY <1>17, SMT DEF Leave
<1>18. CASE Cleanup
  BY <1>18, SMT DEF Cleanup
<1>19. CASE Join
  BY <1>19, SMT DEF Join
<1>20. CASE Block
  BY <1>20, SMT DEF Block
<1>21. CASE Unblock
  <2>1. /\ mpc = "blocked" /\ mpc' = "sleep" /\ mtimer' >= Period /\ mtimer' \in Nat
        /\ quiet' = quiet /\ stalled' = stalled /\ fresh' = fresh
    BY <1>21, SMT DEF Unblock
  <2>2. stalled * Period \in Nat
    BY Product
  <2>3. ~fresh => quiet + Period >= stalled * Period /\ quiet \in Nat
    BY <2>1, SMT
  <2>4. ~fresh => quiet + mtimer' >= stalled * Period
    BY <2>1, <2>2, <2>3, Longer
  <2>5. QED
    BY <2>1, <2>4
<1>22. CASE WatchBegin
  BY <1>22, SMT DEF WatchBegin
<1>23. CASE WatchLoad
  BY <1>23, SMT DEF WatchLoad, LoadCount
<1>24. CASE WatchJudge
  BY <1>24, SMT DEF WatchJudge, WatchSleep
<1>25. CASE WatchWake
  BY <1>25, SMT DEF WatchWake
<1>26. CASE AlarmCode
  BY <1>26, SMT DEF AlarmCode, Store
<1>27. CASE AlarmState
  BY <1>27, SMT DEF AlarmState, Store
<1>28. CASE Tick
  <2>1. stalled * Period \in Nat /\ stalled * Period <= StallLimit * Period
    BY Product
  <2>2. quiet' = IF quiet < StallLimit * Period THEN quiet + 1 ELSE quiet
    BY <1>28 DEF Tick, More
  <2>3. mtimer' = IF mtimer > 0 THEN mtimer - 1 ELSE 0
    BY <1>28 DEF Tick, Less
  <2>4. mpc = "sleep" => mtimer > 0
    BY <1>28, SMT DEF Tick, Waiting
  <2>5. mpc \notin {"state", "check", "look", "head", "feed"}
    BY <1>28, SMT DEF Tick, Waiting
  <2>6. QED
    BY <1>28, <2>1, <2>2, <2>3, <2>4, <2>5, SMT DEF Tick
<1>29. CASE UNCHANGED supVars
  BY <1>29
<1>30. QED
  BY <1>1, <1>2, <1>3, <1>4, <1>5, <1>6, <1>7, <1>8, <1>9, <1>10, <1>11, <1>12, <1>13,
     <1>14, <1>15, <1>16, <1>17, <1>18, <1>19, <1>20, <1>21, <1>22, <1>23, <1>24, <1>25,
     <1>26, <1>27, <1>28, <1>29
  DEF SupNext, MainStep, WatchStep

-----------------------------------------------------------------------------
(* The inductive invariant holds in every reachable state: types, the causes of
   the codes, the order of the stages, and how far each timer has come. *)
THEOREM SupervisionInvariance ==
  SupSpec => []SupIInv
<1>1. SupInit => SupIInv
  <2>1. SUFFICES ASSUME SupInit PROVE SupIInv
    OBVIOUS
  <2>2. SupTypeOK
    <3>1. /\ signal \in BOOLEAN /\ fresh \in BOOLEAN /\ capOk \in BOOLEAN
          /\ wdRunning \in BOOLEAN /\ fed \in BOOLEAN /\ saw \in BOOLEAN
          /\ signalled \in BOOLEAN /\ blocked \in BOOLEAN
      BY <2>1 DEF SupInit
    <3>2. QED
      BY <2>1, <3>1, Times, SMT
      DEF SupInit, SupTypeOK, ExitCodes, StartFailures, NoResult
  <2>3. CodesJustified /\ StagesKnown /\ TimersSet /\ ExitJustified
    BY <2>1, Times, SMT
    DEF SupInit, CodesJustified, Justified, StagesKnown, TimersSet, ExitJustified,
       Started,
        NoResult
  <2>4. FedInTime /\ StallsTimed
    BY <2>1 DEF SupInit, FedInTime, StallsTimed
  <2>5. QED
    BY <2>2, <2>3, <2>4 DEF SupIInv
<1>2. SupIInv /\ [SupNext]_supVars => SupIInv'
  BY StepTypes, StepCodes, StepStages, StepTimers, StepFed, StepStalls, StepExit DEF
     SupIInv
<1>3. QED
  BY <1>1, <1>2, PTL DEF SupSpec

(* Every exit has its cause, whoever asks for it and whoever else asks at the
   same time: success is only reported after a signal, 10 only when the capture
   has ended, -1 only if the loop was blocked or never started.  The watchdog
   takes no iteration that does not block for a hang, however its looks and the
   feeds interleave, and the loop ends no camera that delivers. *)
THEOREM ExitsAreSound ==
  SupSpec => ExitSound
<1> DEFINE Alarm == WatchJudge /\ wpc' = "code"
                      => blocked \/ mpc \in {"cleanup", "join", "exited"}
           Stall == LookAtFrame /\ mpc' = "code"
                      => quiet >= (StallLimit - 1) * Period
<1>1. SupIInv => Alarm
  <2>1. SUFFICES ASSUME SupIInv, WatchJudge, wpc' = "code", ~blocked, mpc \notin Ended
                 PROVE  FALSE
    BY DEF Ended
  <2>2. ~saw /\ age > Timeout /\ wpc = "judge"
    BY <2>1, SMT DEF WatchJudge, WatchSleep
  <2>3. age <= WorkMax + Period + 1
    BY <2>1, <2>2 DEF SupIInv, FedInTime
  <2>4. QED
    BY <2>1, <2>2, <2>3, Times, SMT DEF SupIInv, SupTypeOK
<1>2. SupIInv => Stall
  <2>1. SUFFICES ASSUME SupIInv, LookAtFrame, mpc' = "code"
                 PROVE  quiet >= (StallLimit - 1) * Period
    OBVIOUS
  <2>2. stalled \in 0 .. StallLimit /\ stalled < StallLimit /\ stalled' >= StallLimit
    BY <2>1, Times, SMT
    DEF SupIInv, SupTypeOK, StagesKnown, Started, LookAtFrame, Stalled
  <2>3. ~fresh /\ stalled = StallLimit - 1
    BY <2>1, <2>2, Times, SMT DEF LookAtFrame, Stalls
  <2>4. QED
    BY <2>1, <2>3 DEF SupIInv, StallsTimed, LookAtFrame
<1>3. SupIInv => SupTypeOK /\ ExitJustified
  BY DEF SupIInv
<1>4. SupIInv => Alarm /\ Stall
  BY <1>1, <1>2
<1> HIDE DEF Alarm, Stall
<1>5. SupIInv /\ [SupNext]_supVars => [Alarm /\ Stall]_supVars
  BY <1>4
<1>6. SupSpec => [][Alarm /\ Stall]_supVars
  BY <1>5, SupervisionInvariance, PTL DEF SupSpec
<1>7. QED
  BY <1>3, <1>6, SupervisionInvariance, PTL DEF ExitSound, NoFalseAlarm, Alarm, Stall

-----------------------------------------------------------------------------
(* The archive: the inductive invariant. *)

Walking == {"date", "photo"}
Writing == {"image", "text", "json", "saved"}

\* The number of a photo is taken once its directory is there.
CountFits == spc \in {"date", "photo"} => entry[2] = count /\ count <= MaxPhotos
EntryNamed == spc # "idle" => entry # NoPhoto

\* What the save has written is there while it goes on.
SaveKept ==
    /\ spc \in Writing => entry \in photos
    /\ spc \in {"text", "json", "saved"} => <<entry, "image">> \in files
    /\ spc \in {"json", "saved"} => <<entry, "text">> \in files
    /\ spc = "saved" => <<entry, "json">> \in files

\* While the date does not change both name today by the date they have read.
ClocksAgree ==
    /\ ~midnight /\ spc # "idle" => DateOf(entry) = today
    /\ ~midnight /\ cpc \in {"list", "next"} \cup Walking => day = today

\* The cleanup is in a directory of the list, which leaves out the day it read.
WalkKnown ==
    /\ cpc \in {"next"} \cup Walking => day \notin candidates
    /\ cpc \in Walking => cur # day
    /\ cpc \notin Walking => todo = {}
    /\ cpc # "photo" => inside = NoPhoto
    /\ cpc = "photo" => inside # NoPhoto /\ inside \notin todo

\* As long as no call fails there is no less in use than was measured ...
MeasuredLow == ~failed /\ cpc \in {"clock", "list", "next"} => used <= Used

\* ... and the list has every date but the one left out and the one being
\* removed: a save makes no other directory than that of today.
ListComplete ==
    ~failed /\ ~midnight =>
      /\ cpc = "next" => dates \subseteq candidates \cup {day}
      /\ cpc \in Walking => dates \subseteq candidates \cup {day, cur}

ArchIInv ==
    /\ ArchTypeOK
    /\ CountFits
    /\ EntryNamed
    /\ midnight \/ SaveKept
    /\ ClocksAgree
    /\ WalkKnown
    /\ MeasuredLow
    /\ ListComplete

-----------------------------------------------------------------------------
\* What the proofs need of the days and of the names.
LEMMA Days ==
  /\ FirstDay \in Nat /\ FirstDay > 0 /\ LastDay \in Nat /\ FirstDay <= LastDay
  /\ High \in Nat /\ Low \in Nat /\ MaxPhotos \in Nat /\ MaxFaults \in Nat
BY ArchiveAssumption

LEMMA NamesAre == Names[1] = "image" /\ Names[2] = "text" /\ Names[3] = "json"
BY DEF Names

LEMMA ContentsAre ==
  ASSUME NEW p
  PROVE  Contents(p) = {<<p, "image">>, <<p, "text">>, <<p, "json">>}
<1>1. Contents(p) = {<<p, Names[i]>> : i \in {1, 2, 3}}
  BY SMT DEF Contents
<1>2. QED
  BY <1>1, NamesAre

\* A photo is a pair of its date and its number.
LEMMA PhotosArePairs ==
  ASSUME ArchTypeOK
  PROVE  /\ \A p \in photos : /\ p = <<p[1], p[2]>> /\ p[1] \in dates
                              /\ p[1] \in 1..LastDay /\ p # NoPhoto
         /\ entry # NoPhoto => /\ entry = <<entry[1], entry[2]>>
                               /\ entry[1] \in 1..LastDay /\ entry[2] \in 1..MaxPhotos
         /\ \A f \in files : f = <<f[1], f[2]>> /\ f[1] \in photos
<1>1. ASSUME NEW p \in photos
      PROVE  p = <<p[1], p[2]>> /\ p[1] \in dates /\ p[1] \in 1..LastDay /\ p # NoPhoto
  <2>1. p \in dates \X (0..MaxPhotos)
    BY DEF ArchTypeOK
  <2>2. PICK d \in dates, n \in 0..MaxPhotos : p = <<d, n>>
    BY <2>1
  <2>3. d \in 1..LastDay
    BY <2>2 DEF ArchTypeOK
  <2>4. p # NoPhoto
    BY <2>2, <2>3, Days, SMT DEF NoPhoto
  <2>5. QED
    BY <2>2, <2>3, <2>4
<1>2. ASSUME entry # NoPhoto
      PROVE  /\ entry = <<entry[1], entry[2]>>
             /\ entry[1] \in 1..LastDay /\ entry[2] \in 1..MaxPhotos
  <2>1. entry \in (1..LastDay) \X (1..MaxPhotos)
    BY <1>2 DEF ArchTypeOK
  <2>2. PICK d \in 1..LastDay, n \in 1..MaxPhotos : entry = <<d, n>>
    BY <2>1
  <2>3. QED
    BY <2>2
<1>3. ASSUME NEW f \in files
      PROVE  f = <<f[1], f[2]>> /\ f[1] \in photos
  <2>1. f \in photos \X {"image", "text", "json"}
    BY DEF ArchTypeOK
  <2>2. PICK p \in photos, k \in {"image", "text", "json"} : f = <<p, k>>
    BY <2>1
  <2>3. QED
    BY <2>2
<1>4. QED
  BY <1>1, <1>2, <1>3

\* There are finitely many files, so that the space in use is a number.
LEMMA FilesFinite ==
  ASSUME ArchTypeOK
  PROVE  IsFiniteSet(files) /\ Used \in Nat
<1>1. IsFiniteSet(1..LastDay) /\ IsFiniteSet(0..MaxPhotos)
  BY Days, FS_Interval, SMT
<1>2. IsFiniteSet((1..LastDay) \X (0..MaxPhotos))
  BY <1>1, FS_Product
<1>3. photos \in SUBSET ((1..LastDay) \X (0..MaxPhotos))
  <2>1. ASSUME NEW p \in photos PROVE p \in (1..LastDay) \X (0..MaxPhotos)
    <3>1. p \in dates \X (0..MaxPhotos)
      BY DEF ArchTypeOK
    <3>2. PICK d \in dates, n \in 0..MaxPhotos : p = <<d, n>>
      BY <3>1
    <3>3. QED
      BY <3>2 DEF ArchTypeOK
  <2>2. QED
    BY <2>1
<1>4. IsFiniteSet(photos)
  BY <1>2, <1>3, FS_Subset
<1>5. IsFiniteSet({"image"}) /\ IsFiniteSet({"text"}) /\ IsFiniteSet({"json"})
  BY FS_Singleton
<1>6. IsFiniteSet({"image"} \cup {"text"} \cup {"json"})
  BY <1>5, FS_Union
<1>7. {"image"} \cup {"text"} \cup {"json"} = {"image", "text", "json"}
  OBVIOUS
<1>8. IsFiniteSet(photos \X {"image", "text", "json"})
  BY <1>4, <1>6, <1>7, FS_Product
<1>9. IsFiniteSet(files)
  BY <1>8, FS_Subset DEF ArchTypeOK
<1>10. QED
  BY <1>9, FS_CardinalityType DEF Used

LEMMA FilesFiniteNext ==
  ASSUME ArchTypeOK'
  PROVE  IsFiniteSet(files') /\ Used' \in Nat
<1>1. (ArchTypeOK => IsFiniteSet(files) /\ Used \in Nat)'
  BY FilesFinite, PTL
<1>2. QED
  BY <1>1, ArchiveAssumption

\* Every variable keeps its type.
LEMMA ArchiveTypes ==
  ASSUME ArchIInv, [ArchNext]_archVars
  PROVE  ArchTypeOK'
<1> USE Days, NamesAre DEF tree, saver, walk, cleaner, archVars, Fault, NoFault, ArchIInv,
    ArchTypeOK, CountFits, EntryNamed, WalkKnown, Walking
<1> USE PhotosArePairs, FilesFinite
<1>1. CASE Create
  BY <1>1, SMT DEF Create
<1>2. CASE MakeDate
  <2>1. dates' \subseteq 1..LastDay /\ dates \subseteq dates'
    BY <1>2 DEF MakeDate, Fail, DateOf
  <2>2. photos' \subseteq dates' \X (0..MaxPhotos)
    BY <1>2, <2>1 DEF MakeDate
  <2>3. QED
    BY <1>2, <2>1, <2>2, SMT DEF MakeDate, Fail
<1>3. CASE MakePhoto
  <2>1. entry \notin photos => photos' = photos \/ entry \in dates \X (0..MaxPhotos)
    <3>1. CASE DateOf(entry) \in dates
      <4>1. entry = <<entry[1], entry[2]>> /\ entry[1] \in dates /\ entry[2] \in 0..MaxPhotos
        BY <1>3, <3>1 DEF MakePhoto, DateOf
      <4>2. QED
        BY <4>1
    <3>2. CASE DateOf(entry) \notin dates
      BY <1>3, <3>2 DEF MakePhoto
    <3>3. QED
      BY <3>1, <3>2
  <2>2. photos' \subseteq dates \X (0..MaxPhotos) /\ photos \subseteq photos'
    BY <1>3, <2>1 DEF MakePhoto
  <2>3. files \subseteq photos' \X {"image", "text", "json"} /\ todo \subseteq photos'
    BY <2>2
  <2>4. QED
    BY <1>3, <2>2, <2>3, SMT DEF MakePhoto, Fail
<1>4. CASE SaveImage
  BY <1>4, SMT DEF SaveImage, Write, Fail
<1>5. CASE SaveText
  BY <1>5, SMT DEF SaveText, Write, Fail
<1>6. CASE SaveJson
  BY <1>6, SMT DEF SaveJson, Write, Fail
<1>7. CASE Notice
  BY <1>7, SMT DEF Notice
<1>8. CASE Look
  <2>1. failed' \in BOOLEAN
    BY <1>8 DEF Look
  <2>2. QED
    BY <1>8, <2>1, SMT DEF Look
<1>9. CASE Check
  <2>1. used' \in Nat
    BY <1>9 DEF Check
  <2>2. QED
    BY <1>9, <2>1, SMT DEF Check
<1>10. CASE ReadClock
  BY <1>10, SMT DEF ReadClock
<1>11. CASE List
  <2>1. failed' \in BOOLEAN /\ candidates' \subseteq dates
    BY <1>11 DEF List, Candidates
  <2>2. candidates' \subseteq 0..LastDay /\ cur' \in 0..LastDay
    BY <1>11, <2>1 DEF List
  <2>3. QED
    BY <1>11, <2>1, <2>2, SMT DEF List
<1>12. CASE Finish
  BY <1>12, SMT DEF Finish
<1>13. CASE OpenDate
  <2>1. failed' \in BOOLEAN /\ cur' \in candidates /\ candidates' \subseteq candidates
    BY <1>13 DEF OpenDate, Oldest
  <2>2. candidates' \cup {cur'} \subseteq 0..LastDay
    BY <2>1
  <2>3. todo' \subseteq photos
    BY <1>13 DEF OpenDate
  <2>4. QED
    BY <1>13, <2>1, <2>2, <2>3, SMT DEF OpenDate
<1>14. CASE OpenPhoto
  BY <1>14, SMT DEF OpenPhoto
<1>15. CASE Unlink
  BY <1>15, SMT DEF Unlink
<1>16. CASE RemovePhoto
  <2>1. CASE \E f \in files : f[1] = inside
    <3>1. failed' \in BOOLEAN
      BY <1>16, <2>1 DEF RemovePhoto, GiveUp
    <3>2. QED
      BY <1>16, <2>1, <3>1, SMT DEF RemovePhoto, GiveUp
  <2>2. CASE ~ \E f \in files : f[1] = inside
    <3>1. photos' = photos \ {inside} /\ inside' = NoPhoto /\ cpc' = "date" /\ files' = files
      BY <1>16, <2>2 DEF RemovePhoto
    <3>2. photos' \subseteq dates \X (0..MaxPhotos) /\ todo \subseteq photos'
      BY <1>16, <3>1 DEF RemovePhoto
    <3>3. files \subseteq photos' \X {"image", "text", "json"}
      <4>1. ASSUME NEW f \in files PROVE f \in photos' \X {"image", "text", "json"}
        <5>1. PICK p \in photos, k \in {"image", "text", "json"} : f = <<p, k>>
          OBVIOUS
        <5>2. p # inside
          BY <2>2, <5>1
        <5>3. QED
          BY <3>1, <5>1, <5>2
      <4>2. QED
        BY <4>1
    <3>4. QED
      BY <1>16, <2>2, <3>1, <3>2, <3>3, SMT DEF RemovePhoto
  <2>3. QED
    BY <2>1, <2>2
<1>17. CASE RemoveDate
  <2>1. CASE \E p \in photos : DateOf(p) = cur
    <3>1. /\ failed' \in BOOLEAN /\ cpc' = "next" /\ todo' = {} /\ inside' = NoPhoto
          /\ unlinks' = {} /\ UNCHANGED <<used, cur, dates, faults>>
      BY <1>17, <2>1 DEF RemoveDate, GiveUp
    <3>2. QED
      BY <1>17, <3>1, SMT DEF RemoveDate
  <2>2. CASE ~ \E p \in photos : DateOf(p) = cur
    <3>1. dates' = dates \ {cur} /\ Recheck /\ UNCHANGED <<cur, todo, inside, unlinks>>
      BY <1>17, <2>2 DEF RemoveDate
    <3>2. failed' \in BOOLEAN /\ used' \in Nat /\ cpc' = "next"
      BY <3>1 DEF Recheck
    <3>3. faults' \in Nat
      BY <3>1, SMT DEF Recheck
    <3>4. UNCHANGED <<today, photos, files, saver, day, candidates, midnight>>
      BY <1>17 DEF RemoveDate
    <3>5. dates' \subseteq 1..LastDay
      BY <3>1
    <3>6. photos \subseteq dates' \X (0..MaxPhotos)
      <4>1. ASSUME NEW p \in photos PROVE p \in dates' \X (0..MaxPhotos)
        <5>1. p \in dates \X (0..MaxPhotos) /\ DateOf(p) # cur
          BY <2>2
        <5>2. PICK d \in dates, n \in 0..MaxPhotos : p = <<d, n>>
          BY <5>1
        <5>3. d # cur
          BY <5>1, <5>2 DEF DateOf
        <5>4. QED
          BY <3>1, <5>2, <5>3
      <4>2. QED
        BY <4>1
    <3>7. QED
      BY <3>1, <3>2, <3>6, <3>3, <3>4, <3>5, SMT
  <2>3. QED
    BY <2>1, <2>2
<1>18. CASE CannotRemove
  BY <1>18, SMT DEF CannotRemove, GiveUp
<1>19. CASE NewDay
  BY <1>19, SMT DEF NewDay
<1>20. CASE UNCHANGED archVars
  BY <1>20
<1>21. QED
  BY <1>1, <1>2, <1>3, <1>4, <1>5, <1>6, <1>7, <1>8, <1>9, <1>10, <1>11, <1>12, <1>13,
     <1>14, <1>15, <1>16, <1>17, <1>18, <1>19, <1>20
  DEF ArchNext, Save, MakeRoom

\* The count is taken by the photo being made.
LEMMA StepCount ==
  ASSUME ArchIInv, [ArchNext]_archVars
  PROVE  CountFits' /\ EntryNamed'
<1> USE Days, NamesAre DEF tree, saver, walk, cleaner, archVars, Fault, NoFault, ArchIInv,
    ArchTypeOK, CountFits, EntryNamed, NoPhoto
<1>1. CASE Create
  BY <1>1, SMT DEF Create
<1>2. CASE MakeDate
  BY <1>2, SMT DEF MakeDate, Fail
<1>3. CASE MakePhoto
  BY <1>3, SMT DEF MakePhoto, Fail
<1>4. CASE SaveImage
  BY <1>4, SMT DEF SaveImage, Write, Fail
<1>5. CASE SaveText
  BY <1>5, SMT DEF SaveText, Write, Fail
<1>6. CASE SaveJson
  BY <1>6, SMT DEF SaveJson, Write, Fail
<1>7. CASE Notice
  BY <1>7, SMT DEF Notice
<1>8. CASE Look
  BY <1>8, SMT DEF Look
<1>9. CASE Check
  BY <1>9, SMT DEF Check
<1>10. CASE ReadClock
  BY <1>10, SMT DEF ReadClock
<1>11. CASE List
  BY <1>11, SMT DEF List, Candidates
<1>12. CASE Finish
  BY <1>12, SMT DEF Finish
<1>13. CASE OpenDate
  BY <1>13, SMT DEF OpenDate, Oldest
<1>14. CASE OpenPhoto
  BY <1>14, SMT DEF OpenPhoto
<1>15. CASE Unlink
  BY <1>15, SMT DEF Unlink
<1>16. CASE RemovePhoto
  BY <1>16, SMT DEF RemovePhoto, GiveUp
<1>17. CASE RemoveDate
  BY <1>17, SMT DEF RemoveDate, GiveUp, Recheck
<1>18. CASE CannotRemove
  BY <1>18, SMT DEF CannotRemove, GiveUp
<1>19. CASE NewDay
  BY <1>19, SMT DEF NewDay
<1>20. CASE UNCHANGED archVars
  BY <1>20
<1>21. QED
  BY <1>1, <1>2, <1>3, <1>4, <1>5, <1>6, <1>7, <1>8, <1>9, <1>10, <1>11, <1>12, <1>13,
     <1>14, <1>15, <1>16, <1>17, <1>18, <1>19, <1>20
  DEF ArchNext, Save, MakeRoom

\* The cleanup stays away from the photo being saved.
LEMMA StepKept ==
  ASSUME ArchIInv, [ArchNext]_archVars
  PROVE  midnight' \/ SaveKept'
<1> USE Days, NamesAre DEF tree, saver, walk, cleaner, archVars, Fault, NoFault, ArchIInv,
    ArchTypeOK, SaveKept, ClocksAgree, WalkKnown, EntryNamed, Walking, Writing
<1>1. CASE Create
  BY <1>1, SMT DEF Create
<1>2. CASE MakeDate
  BY <1>2, SMT DEF MakeDate, Fail
<1>3. CASE MakePhoto
  BY <1>3, SMT DEF MakePhoto, Fail
<1>4. CASE SaveImage
  BY <1>4, SMT DEF SaveImage, Write, Fail
<1>5. CASE SaveText
  BY <1>5, SMT DEF SaveText, Write, Fail
<1>6. CASE SaveJson
  BY <1>6, SMT DEF SaveJson, Write, Fail
<1>7. CASE Notice
  BY <1>7, SMT DEF Notice
<1>8. CASE Look
  BY <1>8, SMT DEF Look
<1>9. CASE Check
  BY <1>9, SMT DEF Check
<1>10. CASE ReadClock
  BY <1>10, SMT DEF ReadClock
<1>11. CASE List
  BY <1>11, SMT DEF List, Candidates
<1>12. CASE Finish
  BY <1>12, SMT DEF Finish
<1>13. CASE OpenDate
  BY <1>13, SMT DEF OpenDate, Oldest
<1>14. CASE OpenPhoto
  BY <1>14, SMT DEF OpenPhoto
<1>15. CASE Unlink
  BY <1>15, SMT DEF Unlink
<1>16. CASE RemovePhoto
  BY <1>16, SMT DEF RemovePhoto, GiveUp
<1>17. CASE RemoveDate
  BY <1>17, SMT DEF RemoveDate, GiveUp, Recheck
<1>18. CASE CannotRemove
  BY <1>18, SMT DEF CannotRemove, GiveUp
<1>19. CASE NewDay
  BY <1>19, SMT DEF NewDay
<1>20. CASE UNCHANGED archVars
  BY <1>20
<1>21. QED
  BY <1>1, <1>2, <1>3, <1>4, <1>5, <1>6, <1>7, <1>8, <1>9, <1>10, <1>11, <1>12, <1>13,
     <1>14, <1>15, <1>16, <1>17, <1>18, <1>19, <1>20
  DEF ArchNext, Save, MakeRoom

\* A new day is noticed by both, or is midnight for one.
LEMMA StepClocks ==
  ASSUME ArchIInv, [ArchNext]_archVars
  PROVE  ClocksAgree'
<1> USE Days, NamesAre DEF tree, saver, walk, cleaner, archVars, Fault, NoFault, ArchIInv,
    ArchTypeOK, ClocksAgree, Walking, DateOf
<1>1. CASE Create
  BY <1>1, SMT DEF Create
<1>2. CASE MakeDate
  BY <1>2, SMT DEF MakeDate, Fail
<1>3. CASE MakePhoto
  BY <1>3, SMT DEF MakePhoto, Fail
<1>4. CASE SaveImage
  BY <1>4, SMT DEF SaveImage, Write, Fail
<1>5. CASE SaveText
  BY <1>5, SMT DEF SaveText, Write, Fail
<1>6. CASE SaveJson
  BY <1>6, SMT DEF SaveJson, Write, Fail
<1>7. CASE Notice
  BY <1>7, SMT DEF Notice
<1>8. CASE Look
  BY <1>8, SMT DEF Look
<1>9. CASE Check
  BY <1>9, SMT DEF Check
<1>10. CASE ReadClock
  BY <1>10, SMT DEF ReadClock
<1>11. CASE List
  BY <1>11, SMT DEF List, Candidates
<1>12. CASE Finish
  BY <1>12, SMT DEF Finish
<1>13. CASE OpenDate
  BY <1>13, SMT DEF OpenDate, Oldest
<1>14. CASE OpenPhoto
  BY <1>14, SMT DEF OpenPhoto
<1>15. CASE Unlink
  BY <1>15, SMT DEF Unlink
<1>16. CASE RemovePhoto
  BY <1>16, SMT DEF RemovePhoto, GiveUp
<1>17. CASE RemoveDate
  BY <1>17, SMT DEF RemoveDate, GiveUp, Recheck
<1>18. CASE CannotRemove
  BY <1>18, SMT DEF CannotRemove, GiveUp
<1>19. CASE NewDay
  <2>1. ~midnight' => spc = "idle" /\ cpc = "idle"
    BY <1>19 DEF NewDay
  <2>2. spc' = spc /\ cpc' = cpc
    BY <1>19 DEF NewDay
  <2>3. QED
    BY <2>1, <2>2
<1>20. CASE UNCHANGED archVars
  BY <1>20
<1>21. QED
  BY <1>1, <1>2, <1>3, <1>4, <1>5, <1>6, <1>7, <1>8, <1>9, <1>10, <1>11, <1>12, <1>13,
     <1>14, <1>15, <1>16, <1>17, <1>18, <1>19, <1>20
  DEF ArchNext, Save, MakeRoom

\* The cleanup walks one directory of the list at a time.
LEMMA StepWalk ==
  ASSUME ArchIInv, [ArchNext]_archVars
  PROVE  WalkKnown'
<1> USE Days, NamesAre DEF tree, saver, walk, cleaner, archVars, Fault, NoFault, ArchIInv,
    ArchTypeOK, WalkKnown, Walking
<1> USE PhotosArePairs
<1>1. CASE Create
  BY <1>1, SMT DEF Create
<1>2. CASE MakeDate
  BY <1>2, SMT DEF MakeDate, Fail
<1>3. CASE MakePhoto
  BY <1>3, SMT DEF MakePhoto, Fail
<1>4. CASE SaveImage
  BY <1>4, SMT DEF SaveImage, Write, Fail
<1>5. CASE SaveText
  BY <1>5, SMT DEF SaveText, Write, Fail
<1>6. CASE SaveJson
  BY <1>6, SMT DEF SaveJson, Write, Fail
<1>7. CASE Notice
  BY <1>7, SMT DEF Notice
<1>8. CASE Look
  BY <1>8, SMT DEF Look
<1>9. CASE Check
  BY <1>9, SMT DEF Check
<1>10. CASE ReadClock
  BY <1>10, SMT DEF ReadClock
<1>11. CASE List
  BY <1>11, SMT DEF List, Candidates
<1>12. CASE Finish
  BY <1>12, SMT DEF Finish
<1>13. CASE OpenDate
  BY <1>13, SMT DEF OpenDate, Oldest
<1>14. CASE OpenPhoto
  <2>1. inside' \in photos /\ inside' # NoPhoto /\ inside' \notin todo' /\ cpc' = "photo"
    BY <1>14 DEF OpenPhoto
  <2>2. QED
    BY <1>14, <2>1 DEF OpenPhoto
<1>15. CASE Unlink
  BY <1>15, SMT DEF Unlink
<1>16. CASE RemovePhoto
  BY <1>16, SMT DEF RemovePhoto, GiveUp
<1>17. CASE RemoveDate
  BY <1>17, SMT DEF RemoveDate, GiveUp, Recheck
<1>18. CASE CannotRemove
  BY <1>18, SMT DEF CannotRemove, GiveUp
<1>19. CASE NewDay
  BY <1>19, SMT DEF NewDay
<1>20. CASE UNCHANGED archVars
  BY <1>20
<1>21. QED
  BY <1>1, <1>2, <1>3, <1>4, <1>5, <1>6, <1>7, <1>8, <1>9, <1>10, <1>11, <1>12, <1>13,
     <1>14, <1>15, <1>16, <1>17, <1>18, <1>19, <1>20
  DEF ArchNext, Save, MakeRoom

\* No date is missed: new ones are of the day that is left out.
LEMMA StepListed ==
  ASSUME ArchIInv, [ArchNext]_archVars
  PROVE  ListComplete'
<1> USE Days, NamesAre DEF tree, saver, walk, cleaner, archVars, Fault, NoFault, ArchIInv,
    ArchTypeOK, ListComplete, ClocksAgree, WalkKnown, Walking
<1>1. CASE Create
  BY <1>1, SMT DEF Create
<1>2. CASE MakeDate
  <2>1. ~midnight /\ cpc \in {"next"} \cup Walking => DateOf(entry) = day
    BY <1>2 DEF MakeDate
  <2>2. dates' \subseteq dates \cup {DateOf(entry)}
    BY <1>2 DEF MakeDate
  <2>3. UNCHANGED <<midnight, cpc, candidates, day, cur, failed>>
    BY <1>2 DEF MakeDate
  <2>4. QED
    BY <2>1, <2>2, <2>3
<1>3. CASE MakePhoto
  BY <1>3, SMT DEF MakePhoto, Fail
<1>4. CASE SaveImage
  BY <1>4, SMT DEF SaveImage, Write, Fail
<1>5. CASE SaveText
  BY <1>5, SMT DEF SaveText, Write, Fail
<1>6. CASE SaveJson
  BY <1>6, SMT DEF SaveJson, Write, Fail
<1>7. CASE Notice
  BY <1>7, SMT DEF Notice
<1>8. CASE Look
  BY <1>8, SMT DEF Look
<1>9. CASE Check
  BY <1>9, SMT DEF Check
<1>10. CASE ReadClock
  BY <1>10, SMT DEF ReadClock
<1>11. CASE List
  BY <1>11, SMT DEF List, Candidates
<1>12. CASE Finish
  BY <1>12, SMT DEF Finish
<1>13. CASE OpenDate
  BY <1>13, SMT DEF OpenDate, Oldest
<1>14. CASE OpenPhoto
  BY <1>14, SMT DEF OpenPhoto
<1>15. CASE Unlink
  BY <1>15, SMT DEF Unlink
<1>16. CASE RemovePhoto
  BY <1>16, SMT DEF RemovePhoto, GiveUp
<1>17. CASE RemoveDate
  <2>1. CASE \E p \in photos : DateOf(p) = cur
    BY <1>17, <2>1 DEF RemoveDate, GiveUp
  <2>2. CASE ~ \E p \in photos : DateOf(p) = cur
    <3>1. dates' = dates \ {cur} /\ cpc' = "next" /\ UNCHANGED <<midnight, candidates, day>>
      BY <1>17, <2>2 DEF RemoveDate, Recheck
    <3>2. ~failed' => ~failed
      BY <1>17, <2>2 DEF RemoveDate, Recheck
    <3>3. cpc = "date"
      BY <1>17 DEF RemoveDate
    <3>4. QED
      BY <3>1, <3>2, <3>3
  <2>3. QED
    BY <2>1, <2>2
<1>18. CASE CannotRemove
  BY <1>18, SMT DEF CannotRemove, GiveUp
<1>19. CASE NewDay
  <2>1. midnight' \/ cpc = "idle"
    BY <1>19 DEF NewDay
  <2>2. cpc' = cpc
    BY <1>19 DEF NewDay
  <2>3. QED
    BY <2>1, <2>2
<1>20. CASE UNCHANGED archVars
  BY <1>20
<1>21. QED
  BY <1>1, <1>2, <1>3, <1>4, <1>5, <1>6, <1>7, <1>8, <1>9, <1>10, <1>11, <1>12, <1>13,
     <1>14, <1>15, <1>16, <1>17, <1>18, <1>19, <1>20
  DEF ArchNext, Save, MakeRoom

\* No space is freed unnoticed, and a save only takes more.
LEMMA StepMeasured ==
  ASSUME ArchIInv, ArchTypeOK', [ArchNext]_archVars
  PROVE  MeasuredLow'
<1> USE Days, NamesAre DEF tree, saver, walk, cleaner, archVars, Fault, NoFault, MeasuredLow
<1>0. /\ MeasuredLow /\ Used \in Nat /\ Used' \in Nat /\ used \in Nat /\ failed \in BOOLEAN
      /\ files' = files => Used' = Used
      /\ files \subseteq files' => Used <= Used'
  <2>1. IsFiniteSet(files) /\ Used \in Nat /\ MeasuredLow /\ used \in Nat /\ failed \in BOOLEAN
    BY FilesFinite DEF ArchIInv, ArchTypeOK
  <2>2. IsFiniteSet(files') /\ Used' \in Nat
    BY FilesFiniteNext
  <2>3. files \subseteq files' => Used <= Used'
    BY <2>2, FS_Subset DEF Used
  <2>4. QED
    BY <2>1, <2>2, <2>3 DEF Used
<1> USE <1>0
<1>1. CASE Create
  BY <1>1, SMT DEF Create
<1>2. CASE MakeDate
  BY <1>2, SMT DEF MakeDate, Fail
<1>3. CASE MakePhoto
  BY <1>3, SMT DEF MakePhoto, Fail
<1>4. CASE SaveImage
  <2>1. files \subseteq files' /\ UNCHANGED <<cpc, used, failed>>
    BY <1>4 DEF SaveImage, Write, Fail
  <2>2. QED
    BY <2>1, SMT
<1>5. CASE SaveText
  <2>1. files \subseteq files' /\ UNCHANGED <<cpc, used, failed>>
    BY <1>5 DEF SaveText, Write, Fail
  <2>2. QED
    BY <2>1, SMT
<1>6. CASE SaveJson
  <2>1. files \subseteq files' /\ UNCHANGED <<cpc, used, failed>>
    BY <1>6 DEF SaveJson, Write, Fail
  <2>2. QED
    BY <2>1, SMT
<1>7. CASE Notice
  BY <1>7, SMT DEF Notice
<1>8. CASE Look
  BY <1>8, SMT DEF Look
<1>9. CASE Check
  BY <1>9, SMT DEF Check
<1>10. CASE ReadClock
  BY <1>10, SMT DEF ReadClock
<1>11. CASE List
  BY <1>11, SMT DEF List, Candidates
<1>12. CASE Finish
  BY <1>12, SMT DEF Finish
<1>13. CASE OpenDate
  BY <1>13, SMT DEF OpenDate, Oldest
<1>14. CASE OpenPhoto
  BY <1>14, SMT DEF OpenPhoto
<1>15. CASE Unlink
  BY <1>15, SMT DEF Unlink
<1>16. CASE RemovePhoto
  BY <1>16, SMT DEF RemovePhoto, GiveUp
<1>17. CASE RemoveDate
  BY <1>17, SMT DEF RemoveDate, GiveUp, Recheck
<1>18. CASE CannotRemove
  BY <1>18, SMT DEF CannotRemove, GiveUp
<1>19. CASE NewDay
  BY <1>19, SMT DEF NewDay
<1>20. CASE UNCHANGED archVars
  BY <1>20
<1>21. QED
  BY <1>1, <1>2, <1>3, <1>4, <1>5, <1>6, <1>7, <1>8, <1>9, <1>10, <1>11, <1>12, <1>13,
     <1>14, <1>15, <1>16, <1>17, <1>18, <1>19, <1>20
  DEF ArchNext, Save, MakeRoom

-----------------------------------------------------------------------------
LEMMA ArchiveStarts ==
  ASSUME ArchInit
  PROVE  ArchIInv
<1> USE Days, NamesAre
<1>1. photos = dates \X {0} /\ dates \subseteq 1..LastDay
  BY SMT DEF ArchInit
<1>2. photos \subseteq dates \X (0..MaxPhotos)
  <2>1. ASSUME NEW p \in photos PROVE p \in dates \X (0..MaxPhotos)
    <3>1. p \in dates \X {0}
      BY <1>1
    <3>2. 0 \in 0..MaxPhotos
      BY SMT
    <3>3. QED
      BY <3>1, <3>2, Z3
  <2>2. QED
    BY <2>1
<1>3. files \subseteq photos \X {"image", "text", "json"}
  <2>1. ASSUME NEW f \in files PROVE f \in photos \X {"image", "text", "json"}
    <3>1. PICK p \in photos : f \in Contents(p)
      BY DEF ArchInit
    <3>2. f \in {<<p, "image">>, <<p, "text">>, <<p, "json">>}
      BY <3>1, ContentsAre
    <3>3. QED
      BY <3>2
  <2>2. QED
    BY <2>1
<1>4. ArchTypeOK
  <2>1. failed \in BOOLEAN /\ midnight \in BOOLEAN
    BY DEF ArchInit
  <2>2. QED
    BY <1>1, <1>2, <1>3, <2>1, SMT DEF ArchInit, ArchTypeOK
<1>5. CountFits /\ EntryNamed /\ ClocksAgree /\ WalkKnown /\ MeasuredLow /\ ListComplete
  BY SMT
  DEF ArchInit, CountFits, EntryNamed, ClocksAgree, WalkKnown, MeasuredLow, ListComplete,
     Walking
<1>6. SaveKept
  BY DEF ArchInit, SaveKept, Writing
<1>7. QED
  BY <1>4, <1>5, <1>6 DEF ArchIInv

LEMMA ArchiveSteps ==
  ASSUME ArchIInv, [ArchNext]_archVars
  PROVE  ArchIInv'
<1>1. ArchTypeOK' /\ CountFits' /\ EntryNamed' /\ (midnight' \/ SaveKept') /\ ClocksAgree'
  BY ArchiveTypes, StepCount, StepKept, StepClocks
<1>2. WalkKnown' /\ ListComplete'
  BY StepWalk, StepListed
<1>3. MeasuredLow'
  BY <1>1, StepMeasured
<1>4. QED
  BY <1>1, <1>2, <1>3 DEF ArchIInv

\* A date is begun only when there is too little room, and the oldest one first.
LEMMA BegunRight ==
  ASSUME ArchIInv, [ArchNext]_archVars
  PROVE  BeginsRight
<1>1. SUFFICES ASSUME cpc = "next", cpc' = "date", ~failed
               PROVE  Used > Low /\ (midnight \/ \A d \in dates : d < cur' => d = day)
  BY DEF BeginsRight
<1>2. OpenDate
  BY <1>1, NamesAre, SMT
  DEF ArchNext, Save, MakeRoom, Create, MakeDate, MakePhoto, SaveImage, SaveText, SaveJson,
      Write, Notice, Look, Check, ReadClock, List, Finish, OpenPhoto, Unlink, RemovePhoto,
      RemoveDate, CannotRemove, NewDay, archVars, cleaner
<1>3. used > Low /\ cur' \in candidates /\ \A e \in candidates : cur' <= e
  BY <1>2 DEF OpenDate, Oldest
<1>4. used <= Used /\ Used \in Nat /\ used \in Nat
  BY <1>1, FilesFinite DEF ArchIInv, MeasuredLow, ArchTypeOK
<1>5. ~midnight => dates \subseteq candidates \cup {day}
  BY <1>1 DEF ArchIInv, ListComplete
<1>6. \A d \in dates : d \in candidates => ~(d < cur')
  <2>1. candidates \subseteq Nat /\ cur' \in Nat
    BY <1>3, Days, SMT DEF ArchIInv, ArchTypeOK
  <2>2. QED
    BY <1>3, <2>1, SMT
<1>7. QED
  BY <1>3, <1>4, <1>5, <1>6, Days, SMT

\* A cleanup ends with enough room, or when no older date is left.
LEMMA EndedRight ==
  ASSUME ArchIInv, [ArchNext]_archVars
  PROVE  EndsRight
<1>1. SUFFICES ASSUME cpc = "next", cpc' = "idle", ~failed, ~midnight, ~(used <= Low)
               PROVE  \A d \in dates : d >= day
  BY DEF EndsRight
<1>2. Finish
  BY <1>1, NamesAre, SMT
  DEF ArchNext, Save, MakeRoom, Create, MakeDate, MakePhoto, SaveImage, SaveText, SaveJson,
      Write, Notice, Look, Check, ReadClock, List, OpenDate, OpenPhoto, Unlink, RemovePhoto,
      RemoveDate, CannotRemove, NewDay, archVars, cleaner
<1>3. dates \subseteq {day}
  BY <1>1, <1>2 DEF Finish, ArchIInv, ListComplete
<1>4. day \in 0..LastDay
  BY DEF ArchIInv, ArchTypeOK
<1>5. day >= day
  BY <1>4, Days, SMT
<1>6. QED
  BY <1>3, <1>5

-----------------------------------------------------------------------------
(* The inductive invariant holds in every reachable state: types, the photo
   being saved, the dates both sides have read, where the cleanup is, what it
   has measured and what its list still owes. *)
THEOREM ArchiveInvariance ==
  ArchSpec => []ArchIInv
<1>1. ArchInit => ArchIInv
  BY ArchiveStarts
<1>2. ArchIInv /\ [ArchNext]_archVars => ArchIInv'
  BY ArchiveSteps
<1>3. QED
  BY <1>1, <1>2, PTL DEF ArchSpec

(* Unless the date changes under a save or a cleanup, what a save has written is
   never removed and a photo reported as saved is whole, however the two walks
   of the tree interleave and whatever call fails; and the cleanup removes the
   oldest dates first, only while space is short and until it is not. *)
THEOREM ArchiveIsSound ==
  ArchSpec => ArchiveSound
<1>1. ArchIInv => ArchTypeOK /\ (midnight \/ (HalfPhotoKept /\ SavedIsWhole))
  <2>1. SUFFICES ASSUME ArchIInv, SaveKept
                 PROVE  HalfPhotoKept /\ SavedIsWhole
    BY DEF ArchIInv
  <2>2. HalfPhotoKept
    <3>1. ASSUME NEW i \in 1..3, spc = Names[i]
          PROVE  entry \in photos /\ \A j \in 1..i - 1 : <<entry, Names[j]>> \in files
      <4>1. i = 1 \/ i = 2 \/ i = 3
        BY SMT
      <4>2. CASE i = 1
        <5>1. 1..i - 1 = {}
          BY <4>2, SMT
        <5>2. QED
          BY <2>1, <3>1, <4>2, <5>1, NamesAre DEF SaveKept, Writing
      <4>3. CASE i = 2
        <5>1. \A j \in 1..i - 1 : j = 1
          BY <4>3, SMT
        <5>2. QED
          BY <2>1, <3>1, <4>3, <5>1, NamesAre DEF SaveKept, Writing
      <4>4. CASE i = 3
        <5>1. \A j \in 1..i - 1 : j = 1 \/ j = 2
          BY <4>4, SMT
        <5>2. QED
          BY <2>1, <3>1, <4>4, <5>1, NamesAre DEF SaveKept, Writing
      <4>5. QED
        BY <4>1, <4>2, <4>3, <4>4
    <3>2. QED
      BY <3>1 DEF HalfPhotoKept
  <2>3. SavedIsWhole
    BY <2>1, ContentsAre DEF SaveKept, SavedIsWhole, Writing
  <2>4. QED
    BY <2>2, <2>3
<1>2. ArchIInv /\ [ArchNext]_archVars => [BeginsRight /\ EndsRight]_archVars
  BY BegunRight, EndedRight
<1>3. QED
  BY <1>1, <1>2, ArchiveInvariance, PTL DEF ArchSpec, ArchiveSound
=============================================================================
