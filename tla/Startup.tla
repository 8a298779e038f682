------------------------------- MODULE Startup -------------------------------
(***************************************************************************)
(* What main (src/app/main/main.c) sets up, in which order, and how its    *)
(* single cleanup path takes it down from any point: the ledger g_init,    *)
(* the workers it starts, and the state of the display controller, which   *)
(* is to be left as it was found.  Every step may fail; main is one        *)
(* thread, so a step is one call of main.                                  *)
(***************************************************************************)
EXTENDS Integers, Sequences

CONSTANT MaxFailures   \* bound on the steps that fail

VARIABLES pc,       \* "init", "run", "clean" or "exited"
          at,       \* index of the next step of that phase
          have,     \* resources held: the flags of g_init
          got,      \* resources ever acquired
          running,  \* workers that run
          screen,     \* "found", "ours" or "off": what the controller shows
          props,    \* plane properties are ours
          stuck,    \* the cleanup step that ended the cleanup early, or "none"
          logged,   \* history: cleanup steps that failed and were only logged
          ocrOnly,  \* configuration: allow_ocr_only
          failures
startVars == <<pc, at, have, got, running, screen, props, stuck, logged,
               ocrOnly, failures>>

---------------------------------------------------------------------------
\* The initialisation in the order of main, init_hardware, init_ai,
\* init_archive_and_input and init_pipeline.
Steps == << "system", "capture", "drm", "planes", "overlay", "imu",
            "det", "rec", "translator", "archive", "session", "key",
            "pool", "sink", "lock", "pipeline" >>
IndexOf(r) == CHOOSE i \in 1..Len(Steps) : Steps[i] = r

\* What main does without a resource: it stops (0), or goes on at a step.
\* No archive or no session means no photo key either.
WithoutIt(r) ==
  CASE r \in {"overlay", "imu", "key"} -> IndexOf(r) + 1
    [] r \in {"archive", "session"} -> IndexOf("pool")
    [] r = "translator" -> IF ocrOnly THEN IndexOf(r) + 1 ELSE 0
    [] OTHER -> 0

\* The workers in the order of run_application; the IMU and the key are
\* optional there too.
Workers == <<"nodes", "imu", "key", "capture", "watchdog">>
WorkerOf == [nodes |-> "pipeline", imu |-> "imu", key |-> "key",
             capture |-> "capture", watchdog |-> "system"]

\* What the code of a resource or of a worker touches: the display stages
\* hold the controller, the stages' callbacks everything they were given.
Uses(u) ==
  CASE u = "planes"  -> {"drm"}
    [] u = "overlay" -> {"drm", "planes"}
    [] u = "sink"    -> {"drm", "planes", "pool"}
    [] u = "session" -> {"archive"}
    [] u = "key"     -> {"session"}
    [] u = "nodes"   -> {"pipeline", "capture", "pool", "sink", "lock", "imu",
                         "overlay", "det", "rec", "translator", "session"}
    [] u = "capturing" -> {"capture", "pipeline"}
    [] OTHER -> {}
UsersOf(w) == CASE w = "capture" -> {"capturing"}
                [] w = "nodes" -> {"nodes"}
                [] OTHER -> {WorkerOf[w]}

StartInit ==
  /\ pc = "init" /\ at = 1
  /\ have = {} /\ got = {} /\ running = {}
  /\ screen = "found" /\ props = FALSE
  /\ stuck = "none" /\ logged = {} /\ ocrOnly \in BOOLEAN /\ failures = 0

Failure == failures < MaxFailures /\ failures' = failures + 1

Go(phase, i) == pc' = phase /\ at' = i

\* One initialisation step: an acquired resource goes into the ledger, a
\* failed one has undone itself.  ocr_drm_planes_init sets the properties.
Acquire ==
  /\ pc = "init" /\ at <= Len(Steps)
  /\ LET r == Steps[at] IN
     \/ /\ have' = have \cup {r} /\ got' = got \cup {r}
        /\ props' = (props \/ r = "planes")
        /\ Go("init", at + 1) /\ UNCHANGED failures
     \/ /\ Failure /\ UNCHANGED <<have, got, props>>
        /\ IF WithoutIt(r) = 0 THEN Go("clean", 1)
           ELSE Go("init", WithoutIt(r))
  /\ UNCHANGED <<running, screen, stuck, logged, ocrOnly>>

InitDone ==
  /\ pc = "init" /\ at > Len(Steps)
  /\ Go("run", 1)
  /\ UNCHANGED <<have, got, running, screen, props, stuck, logged, ocrOnly,
                 failures>>

\* run_application starts the consumers first, then the camera.
StartWorker ==
  /\ pc = "run" /\ at <= Len(Workers)
  /\ LET w == Workers[at] IN
     \/ /\ running' = IF WorkerOf[w] \in have THEN running \cup {w} ELSE running
        /\ Go("run", at + 1) /\ UNCHANGED failures
     \/ /\ Failure /\ UNCHANGED running
        /\ IF w \in {"imu", "key"} THEN Go("run", at + 1) ELSE Go("clean", 1)
  /\ UNCHANGED <<have, got, screen, props, stuck, logged, ocrOnly>>

\* The display node presents its first frame: ocr_drm_modeset.
Modeset ==
  /\ "nodes" \in running /\ screen # "ours"
  /\ "capture" \in running \/ pc = "clean"   \* a frame has come
  /\ screen' = "ours"
  /\ UNCHANGED <<pc, at, have, got, running, props, stuck, logged, ocrOnly,
                 failures>>

\* The main loop ends.
LeaveLoop ==
  /\ pc = "run" /\ at > Len(Workers)
  /\ Go("clean", 1)
  /\ UNCHANGED <<have, got, running, screen, props, stuck, logged, ocrOnly,
                 failures>>

---------------------------------------------------------------------------
\* Mutant: the session goes before the key that calls into it.
BugCleanupSteps ==
  << "stopKey", "stopCapture", "stopImu", "checkKey", "pipeline",
     "overlay", "sink", "pool", "lock", "session", "key", "capture", "imu",
     "planes", "drm", "translator", "rec", "det", "archive", "system" >>

\* cleanup
CleanupSteps ==
  << "stopKey", "stopCapture", "stopImu", "checkKey", "pipeline",
     "overlay", "sink", "pool", "lock", "key", "session", "capture", "imu",
     "planes", "drm", "translator", "rec", "det", "archive", "system" >>

Next_ == Go("clean", at + 1)
Cleaning(s) == pc = "clean" /\ at <= Len(CleanupSteps) /\ CleanupSteps[at] = s

\* Everything that still depends on a stage that did not stop is kept.
KeepRest(s) == Go("exited", 0) /\ stuck' = s

StopKey ==
  /\ Cleaning("stopKey") /\ Next_
  /\ \/ running' = running \ {"key"} /\ UNCHANGED <<stuck, failures>>
     \/ /\ "key" \in running /\ Failure
        /\ stuck' = "key" /\ UNCHANGED running
  /\ UNCHANGED <<have, got, screen, props, logged, ocrOnly>>

StopProducer(s, w) ==
  /\ Cleaning(s) /\ Next_
  /\ running' = running \ {w}
  /\ UNCHANGED <<have, got, screen, props, stuck, logged, ocrOnly, failures>>

CheckKey ==
  /\ Cleaning("checkKey")
  /\ IF stuck = "key" THEN Go("exited", 0) ELSE Next_
  /\ UNCHANGED <<have, got, running, screen, props, stuck, logged, ocrOnly,
                 failures>>

\* ocr_pipeline_destroy, ocr_overlay_destroy and ocr_drm_sink_destroy may
\* fail; the sink lets go of the primary plane by switching the CRTC off.
TakeDown(s) ==
  /\ Cleaning(s) /\ s \in {"pipeline", "overlay", "sink"}
  /\ \/ /\ Next_ /\ have' = have \ {s}
        /\ running' = IF s = "pipeline" THEN running \ {"nodes"} ELSE running
        /\ screen' = IF s = "sink" /\ screen = "ours" THEN "off" ELSE screen
        /\ UNCHANGED <<stuck, failures>>
     \/ /\ s \in have /\ Failure /\ KeepRest(s)
        /\ UNCHANGED <<have, running, screen>>
  /\ UNCHANGED <<got, props, logged, ocrOnly>>

\* ocr_drm_planes_destroy puts the properties back, ocr_drm_close the CRTC if
\* a mode was set on it.
PropsAfter(s) == props /\ s # "planes"
ScreenAfter(s) == IF s = "drm" THEN "found" ELSE screen

\* What is only logged: a pool whose buffers are still out, and with it the
\* camera, refuses to go; a property or the CRTC cannot be written, and planes
\* and controller are given up as they are.
LogFailure(s) ==
  /\ s \in have /\ Failure /\ logged' = logged \cup {s}
  /\ \/ s \in {"pool", "capture"} /\ UNCHANGED have
     \/ s = "planes" /\ props /\ have' = have \ {s}
     \/ s = "drm" /\ screen # "found" /\ have' = have \ {s}
  /\ UNCHANGED <<props, screen>>

\* The rest of the cleanup goes on whatever fails; ocr_system_manager_destroy
\* stops the watchdog.
Release(s) ==
  /\ Cleaning(s)
  /\ s \in {"pool", "lock", "key", "session", "capture", "imu", "planes",
            "drm", "translator", "rec", "det", "archive", "system"}
  /\ Next_
  /\ \/ /\ have' = have \ {s}
        /\ props' = PropsAfter(s) /\ screen' = ScreenAfter(s)
        /\ UNCHANGED <<logged, failures>>
     \/ LogFailure(s)
  /\ running' = IF s = "system" THEN running \ {"watchdog"} ELSE running
  /\ UNCHANGED <<got, stuck, ocrOnly>>

CleanupDone ==
  /\ pc = "clean" /\ at > Len(CleanupSteps)
  /\ Go("exited", 0)
  /\ UNCHANGED <<have, got, running, screen, props, stuck, logged, ocrOnly,
                 failures>>

StartNext ==
  \/ Acquire \/ InitDone \/ StartWorker \/ Modeset \/ LeaveLoop
  \/ StopKey \/ StopProducer("stopCapture", "capture")
  \/ StopProducer("stopImu", "imu") \/ CheckKey
  \/ \E s \in {"pipeline", "overlay", "sink"} : TakeDown(s)
  \/ \E i \in 8..Len(CleanupSteps) : Release(CleanupSteps[i])
  \/ CleanupDone

StartSpec == StartInit /\ [][StartNext]_startVars

---------------------------------------------------------------------------
\* Nothing is destroyed while somebody may still call into it: whatever a
\* resource in place or a running worker uses, if it was ever acquired, is
\* in place, at every point of start, of cleanup and of a cleanup given up.
UsersFirst ==
  \A u \in have \cup UNION {UsersOf(w) : w \in running} :
    Uses(u) \cap got \subseteq have

\* The camera feeds stages that run.  After a complete cleanup every worker has
\* ended, all that is left is what a logged failure refused to give back, and
\* the controller is as it was found unless restoring that very part failed.
NothingElseLeft ==
  /\ "capture" \in running => "nodes" \in running
  /\ pc = "exited" /\ stuck = "none" =>
       /\ running = {}
       /\ have = logged \cap {"pool", "capture"}
       /\ screen = "found" \/ "drm" \in logged
       /\ ~props \/ "planes" \in logged

\* Both, for every way the start may stop half way and the cleanup may fail.
CleanEnd == UsersFirst /\ NothingElseLeft
=============================================================================
