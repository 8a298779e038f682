---------------------------- MODULE PhotoArchive -----------------------------
(***************************************************************************)
(* The archive of photos.  The OCR worker saves one, with capture_session.c *)
(* and archiver.c, while the main loop makes room with storage_mgr.c.      *)
(* Both walk one tree, root/date/photo/file, by name and without a lock:   *)
(* what keeps the cleanup away from a photo being saved is that it leaves  *)
(* out the directory of today.  Dates are numbered; the unit of space is a *)
(* file.                                                                   *)
(***************************************************************************)
EXTENDS Integers, FiniteSets

CONSTANTS FirstDay, LastDay,   \* bound: the days the clock passes through
          High, Low,           \* archive_max_percent, and the cleanup's target
          MaxPhotos,           \* bound on the photos of this process
          MaxFaults            \* bound on the calls that fail

\* The clock starts after the days of which photos may be left.
ASSUME ArchiveAssumption ==
    /\ FirstDay \in Nat \ {0} /\ LastDay \in Nat /\ FirstDay <= LastDay
    /\ High \in Nat /\ Low \in Nat
    /\ MaxPhotos \in Nat /\ MaxFaults \in Nat

VARIABLES today,               \* the local date of CLOCK_REALTIME
          dates, photos, files,       \* what exists, by full name
          spc, entry, count,   \* the save: step, its photo; archiver's count
          cpc, used, day,      \* the cleanup: step, used_percent, today[]
          candidates, cur,     \* dirs[] from i on, dirs[i]
          todo, inside, unlinks,  \* what readdir still owes in both levels
          failed, midnight,    \* history: a call of this cleanup failed; the
                               \* date changed during a save or a cleanup
          faults
tree == <<dates, photos, files>>
saver == <<spc, entry, count>>
walk == <<cur, todo, inside, unlinks>>
cleaner == <<cpc, used, day, candidates, walk, failed>>
archVars == <<today, tree, saver, cleaner, midnight, faults>>

Names == <<"image", "text", "json">>
Contents(p) == {<<p, Names[i]>> : i \in 1..3}
DateOf(p) == p[1]
NoPhoto == <<0, 0>>

\* The blocks that statvfs would report as used.
Used == Cardinality(files)
Fault == faults < MaxFaults /\ faults' = faults + 1
NoFault == UNCHANGED faults

\* One photo is left of some of the days before; this process took none.
ArchInit ==
    /\ today = FirstDay
    /\ dates \in SUBSET (1..FirstDay - 1)
    /\ photos = dates \X {0}
    /\ files = UNION {Contents(p) : p \in photos}
    /\ spc = "idle" /\ entry = NoPhoto /\ count = 1
    /\ cpc = "idle" /\ used = 0 /\ day = 0 /\ candidates = {}
    /\ cur = 0 /\ todo = {} /\ inside = NoPhoto /\ unlinks = {}
    /\ failed = FALSE /\ midnight = FALSE /\ faults = 0

-----------------------------------------------------------------------------
(* The OCR worker: ocr_capture_session_save. *)

\* The clock is read once; date and photo number become the directory's name.
Create ==
    /\ spc = "idle" /\ count <= MaxPhotos
    /\ entry' = <<today, count>>
    /\ spc' = "date"
    /\ midnight' = (midnight /\ cpc # "idle")
    /\ UNCHANGED <<today, tree, count, cleaner, faults>>

\* save_photo shows the notice of a failure; what was written is left behind.
Fail == spc' = "idle" /\ UNCHANGED <<entry, count>>

\* mkdir_p makes the two directories one by one, and is content with those
\* that exist.
MakeDate ==
    /\ spc = "date"
    /\ \/ /\ NoFault /\ dates' = dates \cup {DateOf(entry)}
          /\ spc' = "photo" /\ UNCHANGED <<entry, count>>
       \/ Fault /\ Fail /\ UNCHANGED dates
    /\ UNCHANGED <<today, photos, files, cleaner, midnight>>

MakePhoto ==
    /\ spc = "photo"
    /\ \/ /\ NoFault /\ DateOf(entry) \in dates
          /\ photos' = photos \cup {entry}
          /\ spc' = Names[1] /\ count' = count + 1 /\ UNCHANGED entry
       \/ /\ IF DateOf(entry) \in dates THEN Fault ELSE NoFault
          /\ Fail /\ UNCHANGED photos
    /\ UNCHANGED <<today, dates, files, cleaner, midnight>>

\* A file cannot be opened when its directory is gone, and one that could not
\* be written in full stays.
Write(i) ==
    /\ spc = Names[i]
    /\ \/ /\ NoFault /\ entry \in photos
          /\ files' = files \cup {<<entry, Names[i]>>}
          /\ spc' = IF i < 3 THEN Names[i + 1] ELSE "saved"
          /\ UNCHANGED <<entry, count>>
       \/ /\ IF entry \in photos
             THEN Fault /\ files' \in {files, files \cup {<<entry, Names[i]>>}}
             ELSE NoFault /\ UNCHANGED files
          /\ Fail
    /\ UNCHANGED <<today, dates, photos, cleaner, midnight>>

SaveImage == Write(1)
SaveText == Write(2)
SaveJson == Write(3)

\* save_photo shows the notice of a success.
Notice ==
    /\ spc = "saved"
    /\ spc' = "idle"
    /\ UNCHANGED <<today, tree, entry, count, cleaner, midnight, faults>>

-----------------------------------------------------------------------------
(* The main loop, once a second: ocr_storage_mgr_check and _cleanup. *)

Look ==
    /\ cpc = "idle" /\ Used > High
    /\ cpc' = "check" /\ failed' = FALSE
    /\ UNCHANGED <<today, tree, saver, used, day, candidates, walk, midnight, faults>>

Check ==
    /\ cpc = "check"
    /\ \/ NoFault /\ used' = Used /\ cpc' = IF Used <= Low THEN "idle" ELSE "clock"
       \/ Fault /\ cpc' = "idle" /\ UNCHANGED used
    /\ UNCHANGED <<today, tree, saver, day, candidates, walk, failed, midnight>>

\* The root is opened, then the date is read, then the directory.
ReadClock ==
    /\ cpc = "clock"
    /\ \/ NoFault /\ day' = today /\ cpc' = "list"
       \/ Fault /\ cpc' = "idle" /\ UNCHANGED day
    /\ UNCHANGED <<today, tree, saver, used, candidates, walk, failed, midnight>>

\* Mutant: today's directory is a candidate like any other.
BugCandidates == dates

Candidates == dates \ {day}

\* Without memory for a name the list ends where readdir happens to be.
List ==
    /\ cpc = "list"
    /\ \/ NoFault /\ candidates' = Candidates /\ UNCHANGED failed
       \/ Fault /\ candidates' \in SUBSET Candidates /\ failed' = TRUE
    /\ cpc' = "next"
    /\ UNCHANGED <<today, tree, saver, used, day, walk, midnight>>

Oldest(S) == {d \in S : \A e \in S : d <= e}

Finish ==
    /\ cpc = "next"
    /\ used <= Low \/ candidates = {}
    /\ cpc' = "idle" /\ candidates' = {} /\ cur' = 0
    /\ UNCHANGED <<today, tree, saver, used, day, todo, inside, unlinks, failed,
                   midnight, faults>>

\* remove_dir_recursive_at of a date: opened, and from now on read.
OpenDate ==
    /\ cpc = "next" /\ used > Low
    /\ cur' \in Oldest(candidates)
    /\ candidates' = candidates \ {cur'}
    /\ \/ NoFault /\ cpc' = "date" /\ todo' = {p \in photos : DateOf(p) = cur'}
          /\ UNCHANGED failed
       \/ Fault /\ failed' = TRUE /\ UNCHANGED <<cpc, todo>>
    /\ UNCHANGED <<today, tree, saver, used, day, inside, unlinks, midnight>>

\* readdir may or may not return a photo that was made meanwhile.
OpenPhoto ==
    /\ cpc = "date"
    /\ \E p \in {q \in photos : DateOf(q) = cur} :
         /\ inside' = p
         /\ todo' = todo \ {p}
         /\ unlinks' = {f \in files : f[1] = p}
    /\ cpc' = "photo"
    /\ UNCHANGED <<today, tree, saver, used, day, candidates, cur, failed,
                   midnight, faults>>

\* What one level cannot remove, the level above gives up; the next date is
\* tried, with used as it was.
GiveUp == /\ cpc' = "next" /\ failed' = TRUE
          /\ todo' = {} /\ inside' = NoPhoto /\ unlinks' = {}
          /\ UNCHANGED <<used, cur>>

Unlink ==
    /\ cpc = "photo"
    /\ \E f \in {g \in files : g[1] = inside} :
         files' = files \ {f} /\ unlinks' = unlinks \ {f}
    /\ UNCHANGED <<today, dates, photos, saver, cpc, used, day, candidates, cur,
                   todo, inside, failed, midnight, faults>>

\* A stat, an unlink, or opening, closing or removing a directory fails.
CannotRemove ==
    /\ cpc \in {"date", "photo"}
    /\ Fault /\ GiveUp
    /\ UNCHANGED <<today, tree, saver, day, candidates, midnight>>

\* The directory goes if nothing was added after it had been read.
RemovePhoto ==
    /\ cpc = "photo" /\ unlinks = {}
    /\ IF \E f \in files : f[1] = inside
       THEN GiveUp /\ UNCHANGED photos
       ELSE /\ photos' = photos \ {inside} /\ inside' = NoPhoto
            /\ cpc' = "date" /\ UNCHANGED <<used, cur, todo, unlinks, failed>>
    /\ UNCHANGED <<today, dates, files, saver, day, candidates, midnight, faults>>

\* After every date that is gone; nobody looks whether the check succeeds.
Recheck ==
    /\ cpc' = "next"
    /\ \/ NoFault /\ used' = Used /\ UNCHANGED failed
       \/ Fault /\ failed' = TRUE /\ UNCHANGED used

RemoveDate ==
    /\ cpc = "date" /\ todo = {}
    /\ IF \E p \in photos : DateOf(p) = cur
       THEN GiveUp /\ NoFault /\ UNCHANGED dates
       ELSE /\ dates' = dates \ {cur} /\ Recheck
            /\ UNCHANGED <<cur, todo, inside, unlinks>>
    /\ UNCHANGED <<today, photos, files, saver, day, candidates, midnight>>

-----------------------------------------------------------------------------
\* External: midnight, or a clock that is set forward.
NewDay ==
    /\ today < LastDay
    /\ today' = today + 1
    /\ midnight' = (midnight \/ spc # "idle" \/ cpc # "idle")
    /\ UNCHANGED <<tree, saver, cleaner, faults>>

Save == \/ Create \/ MakeDate \/ MakePhoto
        \/ SaveImage \/ SaveText \/ SaveJson \/ Notice
MakeRoom == \/ Look \/ Check \/ ReadClock \/ List \/ Finish
            \/ OpenDate \/ OpenPhoto \/ Unlink \/ RemovePhoto \/ RemoveDate
            \/ CannotRemove

ArchNext == Save \/ MakeRoom \/ NewDay
ArchSpec == ArchInit /\ [][ArchNext]_archVars

-----------------------------------------------------------------------------
\* storage_mgr.c:176: today's directory is skipped so that half an archive is
\* never removed: what a save has written is there while it goes on.
HalfPhotoKept ==
    \A i \in 1..3 : spc = Names[i] => /\ entry \in photos
                                      /\ \A j \in 1..i - 1 : <<entry, Names[j]>> \in files

\* A photo that is reported as saved has its three files (capture_session.c:306).
SavedIsWhole == spc = "saved" => Contents(entry) \subseteq files

\* The type invariant.
ArchTypeOK ==
    /\ today \in FirstDay..LastDay /\ dates \subseteq 1..LastDay
    /\ photos \subseteq dates \X (0..MaxPhotos)
    /\ files \subseteq photos \X {"image", "text", "json"}
    /\ spc \in {"idle", "date", "photo", "image", "text", "json", "saved"}
    /\ cpc \in {"idle", "check", "clock", "list", "next", "date", "photo"}
    /\ candidates \cup {cur} \subseteq 0..LastDay /\ todo \subseteq photos
    /\ count \in 1..MaxPhotos + 1 /\ day \in 0..LastDay /\ used \in Nat
    /\ inside # NoPhoto => inside \in photos /\ DateOf(inside) = cur
    /\ entry \in ((1..LastDay) \X (1..MaxPhotos)) \cup {NoPhoto}
    /\ failed \in BOOLEAN /\ midnight \in BOOLEAN
    /\ faults \in Nat /\ unlinks \subseteq files

\* storage_mgr.c:136: from the oldest date on, and only while space is short:
\* when a date is begun no older one is left but today's, and unless a call
\* failed the disk is still too full.
BeginsRight ==
    cpc = "next" /\ cpc' = "date" /\ ~failed =>
      /\ Used > Low
      /\ midnight \/ \A d \in dates : d < cur' => d = day

\* A cleanup in which no call fails ends with enough room, or with no older
\* date to remove.
EndsRight ==
    cpc = "next" /\ cpc' = "idle" =>
      failed \/ midnight \/ used <= Low \/ \A d \in dates : d >= day

\* The cleanup never harms a photo that is being saved, unless the date changes
\* under one of the two, and removes what it must and no more; a photo reported
\* as saved is whole.
ArchiveSound ==
    /\ [](ArchTypeOK /\ (midnight \/ (HalfPhotoKept /\ SavedIsWhole)))
    /\ [][BeginsRight /\ EndsRight]_archVars
=============================================================================
