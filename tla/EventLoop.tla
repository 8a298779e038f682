------------------------------ MODULE EventLoop ------------------------------
(***************************************************************************)
(* The epoll loop of app/comm/event_loop.c.  One thread runs the loop; the *)
(* others, and the callbacks themselves, register, change and remove       *)
(* descriptors and ask it to stop.  The kernel hands out batches of        *)
(* pointers to items, which are looked at one by one after it has let go   *)
(* of them: each is copied under the lock, and its callback starts from    *)
(* that copy after the unlock.                                             *)
(***************************************************************************)
EXTENDS Naturals, Sequences, FiniteSets

CONSTANTS Fds,       \* descriptors that may be registered
          Contexts,  \* callback and user data a registration may carry
          LoopItems, \* items that may be allocated until destroy
          Wake,      \* the null pointer that stands for the wake descriptor
          MaxBatch   \* max_events

ASSUME LoopAssumption ==
    /\ IsFiniteSet(LoopItems) /\ Wake \notin LoopItems
    /\ MaxBatch \in Nat \ {0}

VARIABLES loopRunning, wake,  \* the flag and the wake descriptor's state
          item,      \* [fd, active, user] of the items allocated so far
          watched,   \* items the kernel knows
          runner,    \* where the running thread is
          batch,     \* events fetched and not looked at yet
          copy,      \* copy whose callback is to start, if there is one
          fetched,   \* history: the descriptors of the batch when fetched
          overtaken, \* history: the copy's item was removed or changed since
          stopper,   \* a thread inside stop
          asked      \* a stop has been asked of the present run

registry == <<item, watched, overtaken>>
dispatching == <<batch, copy, fetched>>
loopVars == <<loopRunning, wake, registry, runner, dispatching, stopper, asked>>

Copies == [item : LoopItems, fd : Fds, user : Contexts]

(* The types of the variables. *)
LoopTypeOK ==
    /\ loopRunning \in BOOLEAN /\ wake \in BOOLEAN
    /\ DOMAIN item \subseteq LoopItems
    /\ \A i \in DOMAIN item :
         item[i] \in [fd : Fds, active : BOOLEAN, user : Contexts]
    /\ watched \subseteq LoopItems
    /\ runner \in {"out", "drain", "test", "wait", "dispatch", "copied", "callback"}
    /\ batch \in Seq(LoopItems \cup {Wake}) /\ copy \subseteq Copies
    /\ overtaken \in BOOLEAN
    /\ stopper \in {"idle", "write"}
    /\ asked \in BOOLEAN

LoopInit ==
    /\ loopRunning = FALSE /\ wake = FALSE
    /\ item = <<>> /\ watched = {}
    /\ runner = "out" /\ batch = <<>> /\ copy = {} /\ fetched = <<>>
    /\ overtaken = FALSE
    /\ stopper = "idle" /\ asked = FALSE

Active(fd) == {i \in DOMAIN item : item[i].active /\ item[i].fd = fd}

(* ocr_event_loop_add, under the lock: one active item for a descriptor.  A
   call that fails, here and below, changes nothing. *)
Add(fd, user) ==
    /\ Active(fd) = {}
    /\ \E i \in LoopItems \ DOMAIN item :
         /\ item' = [j \in DOMAIN item \cup {i} |->
                       IF j = i THEN [fd |-> fd, active |-> TRUE, user |-> user]
                       ELSE item[j]]
         /\ watched' = watched \cup {i}
    /\ UNCHANGED <<overtaken, loopRunning, wake, runner, dispatching, stopper, asked>>

\* The copy in hand is one of item i.
InHand(i) == \E c \in copy : c.item = i

(* ocr_event_loop_del, under the lock: the item is kept for batches that may
   still hold it. *)
Del(fd) ==
    /\ \E i \in Active(fd) :
         /\ item' = [item EXCEPT ![i].active = FALSE]
         /\ watched' = watched \ {i}
         /\ overtaken' = (overtaken \/ InHand(i))
    /\ UNCHANGED <<loopRunning, wake, runner, dispatching, stopper, asked>>

(* ocr_event_loop_mod, under the lock: the same item with another callback or
   other user data. *)
Mod(fd, user) ==
    /\ \E i \in Active(fd) :
         /\ item' = [item EXCEPT ![i].user = user]
         /\ overtaken' = (overtaken \/ InHand(i))
    /\ UNCHANGED <<watched, loopRunning, wake, runner, dispatching, stopper, asked>>

(* ocr_event_loop_stop, by any thread: the flag, then the wake descriptor. *)
Stop ==
    /\ stopper = "idle"
    /\ loopRunning' = FALSE
    /\ stopper' = "write"
    /\ asked' = (asked \/ runner # "out")
    /\ UNCHANGED <<wake, registry, runner, dispatching>>

StopWrites ==
    /\ stopper = "write"
    /\ wake' = TRUE
    /\ stopper' = "idle"
    /\ UNCHANGED <<loopRunning, registry, runner, dispatching, asked>>

(* ocr_event_loop_run: the flag, then what is left of earlier wakeups. *)
Run ==
    /\ runner = "out" /\ ~loopRunning
    /\ loopRunning' = TRUE
    /\ runner' = "drain"
    /\ UNCHANGED <<wake, registry, dispatching, stopper, asked>>

Drain ==
    /\ runner = "drain"
    /\ wake' = FALSE
    /\ runner' = "test"
    /\ UNCHANGED <<loopRunning, registry, dispatching, stopper, asked>>

Leave ==
    /\ runner' = "out" /\ loopRunning' = FALSE /\ asked' = FALSE
    /\ UNCHANGED <<wake, registry, dispatching, stopper>>

Test ==
    /\ runner = "test"
    /\ \/ ~loopRunning /\ Leave
       \/ /\ loopRunning /\ runner' = "wait"
          /\ UNCHANGED <<loopRunning, asked, wake, registry, dispatching, stopper>>

(* The array of events cannot be allocated, or epoll_wait fails. *)
RunFails == runner \in {"test", "wait"} /\ Leave

Orders(S) == {s \in [1..Cardinality(S) -> S] :
                \A x \in S : \E k \in DOMAIN s : s[k] = x}

(* epoll_wait: some of the descriptors that are ready, in any order; the wake
   descriptor is ready while it has been written. *)
Wait ==
    /\ runner = "wait"
    /\ \E S \in SUBSET (watched \cup IF wake THEN {Wake} ELSE {}) :
         /\ S # {} /\ Cardinality(S) <= MaxBatch
         /\ wake /\ Cardinality(S) < MaxBatch => Wake \in S
         /\ batch' \in Orders(S)
         /\ fetched' = [i \in S \ {Wake} |-> item[i].fd]
    /\ runner' = "dispatch"
    /\ UNCHANGED <<copy, loopRunning, wake, registry, stopper, asked>>

\* Mutant: the item is not looked at again.
BugSnapshot(i) == {[item |-> i, fd |-> item[i].fd, user |-> item[i].user]}

(* The copy taken under the lock, of an item that is still active. *)
Snapshot(i) ==
    IF item[i].active
    THEN {[item |-> i, fd |-> item[i].fd, user |-> item[i].user]}
    ELSE {}

Dispatch ==
    /\ runner = "dispatch" /\ batch # <<>>
    /\ IF Head(batch) = Wake
       THEN wake' = FALSE /\ UNCHANGED <<copy, runner>>
       ELSE /\ copy' = Snapshot(Head(batch))
            /\ runner' = IF copy' = {} THEN "dispatch" ELSE "copied"
            /\ UNCHANGED wake
    /\ batch' = Tail(batch)
    /\ UNCHANGED <<fetched, registry, loopRunning, stopper, asked>>

(* The callback starts, after the unlock, with what was copied. *)
CallbackStarts ==
    /\ runner = "copied"
    /\ runner' = "callback"
    /\ copy' = {} /\ overtaken' = FALSE
    /\ UNCHANGED <<batch, fetched, item, watched, loopRunning, wake, stopper, asked>>

CallbackReturns ==
    /\ runner = "callback"
    /\ runner' = "dispatch"
    /\ UNCHANGED <<dispatching, registry, loopRunning, wake, stopper, asked>>

BatchDone ==
    /\ runner = "dispatch" /\ batch = <<>>
    /\ runner' = "test" /\ fetched' = <<>>
    /\ UNCHANGED <<batch, copy, registry, loopRunning, wake, stopper, asked>>

Loop ==
    Drain \/ Test \/ Wait \/ Dispatch \/ CallbackStarts \/ CallbackReturns \/ BatchDone

LoopNext ==
    \/ Run \/ Loop \/ RunFails \/ Stop \/ StopWrites
    \/ \E fd \in Fds : Del(fd) \/ \E user \in Contexts : Add(fd, user) \/ Mod(fd, user)

LoopFairness == WF_loopVars(Loop) /\ WF_loopVars(StopWrites)

LoopSpec == LoopInit /\ [][LoopNext]_loopVars /\ LoopFairness

----------------------------------------------------------------------------
\* The registration a copy was taken of is still as it was copied.
InForce(c) ==
    /\ c.item \in DOMAIN item
    /\ item[c.item] = [fd |-> c.fd, active |-> TRUE, user |-> c.user]

(* A callback that is about to start has its own descriptor's event, and its
   registration is in force, whatever was removed, changed or registered again
   since the batch was fetched.  The one exception is the copy already taken:
   a del or mod between the unlock and the call overtakes it, which is what
   the header warns of (event_loop.h:71, 78). *)
StartsInForce(c) == fetched[c.item] = c.fd /\ (InForce(c) \/ overtaken)

(* The items a batch points to are still there, and the kernel watches exactly
   the registrations that are active, one for a descriptor. *)
DispatchesLive ==
    /\ [](\A k \in 1..Len(batch) :
            batch[k] # Wake => batch[k] \in DOMAIN item)
    /\ [](\A fd \in Fds : Cardinality(Active(fd)) <= 1)
    /\ [](watched = UNION {Active(fd) : fd \in Fds})
    /\ [](\A c \in copy : StartsInForce(c))

(* A stop asked of a run ends it, although the flag and the wakeup are two
   steps, the run may be between its test and its wait, and a batch may be
   in progress. *)
StopEnds == asked ~> (runner = "out")
=============================================================================
