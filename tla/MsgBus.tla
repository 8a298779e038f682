------------------------------- MODULE MsgBus -------------------------------
(***************************************************************************)
(* The message bus of app/comm/msgbus.c: any number of posting threads put *)
(* messages into a ring one after the other and then add one to an eventfd *)
(* that one receiving thread waits on.  The queue and the eventfd are two  *)
(* objects and change at different moments.  The ring is the bounded queue *)
(* that RingBuffer implements.                                             *)
(*                                                                         *)
(* The receiver is either a "caller", which calls recv whenever it likes,  *)
(* or a "watcher", which has given the eventfd to an event loop and calls  *)
(* recv without waiting once for every time the loop reports it readable.  *)
(***************************************************************************)
EXTENDS Naturals, Sequences, FiniteSets

CONSTANTS Posters, Msgs, Capacity

ASSUME BusAssumption == IsFiniteSet(Posters) /\ Capacity \in Nat \ {0}

VARIABLES kind,     \* "caller" or "watcher"
          queue,    \* messages in the ring
          signals,  \* the eventfd's count
          poster,   \* what each posting thread does: "idle" or "signal"
          recv      \* where the receiving thread is

busVars == <<kind, queue, signals, poster, recv>>

Places == {"idle", "consume", "poll", "consumePolled", "popPolled"}

(* The types of the variables; each poster, and the receiver between
   its pop and its read, may leave one signal whose message has been taken. *)
BusTypeOK ==
    /\ kind \in {"caller", "watcher"}
    /\ queue \in Seq(Msgs) /\ Len(queue) <= Capacity
    /\ signals \in 0..(Capacity + Cardinality(Posters) + 1)
    /\ poster \in [Posters -> {"idle", "signal"}]
    /\ recv \in Places

BusInit ==
    /\ kind \in {"caller", "watcher"}
    /\ queue = <<>> /\ signals = 0
    /\ poster = [p \in Posters |-> "idle"]
    /\ recv = "idle"

(* ocr_msgbus_post: the push under the producers' lock; a full ring refuses
   and nothing is signalled. *)
PostPush(p) ==
    /\ poster[p] = "idle" /\ Len(queue) < Capacity
    /\ \E m \in Msgs : queue' = Append(queue, m)
    /\ poster' = [poster EXCEPT ![p] = "signal"]
    /\ UNCHANGED <<kind, signals, recv>>

PostSignal(p) ==
    /\ poster[p] = "signal"
    /\ signals' = signals + 1
    /\ poster' = [poster EXCEPT ![p] = "idle"]
    /\ UNCHANGED <<kind, queue, recv>>

(* ocr_msgbus_recv: a message that is there is taken at once. *)
RecvPop ==
    /\ recv = "idle" /\ queue # <<>>
    /\ kind = "watcher" => signals > 0
    /\ queue' = Tail(queue)
    /\ recv' = "consume"
    /\ UNCHANGED <<kind, signals, poster>>

(* Otherwise a caller with a time to wait polls; without one recv returns,
   which changes nothing. *)
RecvWait ==
    /\ recv = "idle" /\ queue = <<>> /\ kind = "caller"
    /\ recv' = "poll"
    /\ UNCHANGED <<kind, queue, signals, poster>>

\* Mutant: a plain eventfd, which a read empties.
BugConsumed == 0

(* msgbus_consume_signal: one off the count; nothing if it is zero. *)
Consumed == IF signals > 0 THEN signals - 1 ELSE 0

Consume ==
    /\ recv = "consume"
    /\ signals' = Consumed
    /\ recv' = "idle"
    /\ UNCHANGED <<kind, queue, poster>>

PollWakes ==
    /\ recv = "poll" /\ signals > 0
    /\ recv' = "consumePolled"
    /\ UNCHANGED <<kind, queue, signals, poster>>

PollTimesOut ==
    /\ recv = "poll" /\ signals = 0
    /\ recv' = "idle"
    /\ UNCHANGED <<kind, queue, signals, poster>>

ConsumePolled ==
    /\ recv = "consumePolled"
    /\ signals' = Consumed
    /\ recv' = "popPolled"
    /\ UNCHANGED <<kind, queue, poster>>

(* The signal may be one whose message has gone already. *)
PopPolled ==
    /\ recv = "popPolled"
    /\ queue' = IF queue = <<>> THEN queue ELSE Tail(queue)
    /\ recv' = "idle"
    /\ UNCHANGED <<kind, signals, poster>>

Receive == RecvPop \/ Consume \/ PollWakes \/ ConsumePolled \/ PopPolled

BusNext ==
    \/ \E p \in Posters : PostPush(p) \/ PostSignal(p)
    \/ Receive \/ RecvWait \/ PollTimesOut

(* A posting thread finishes its call, and the receiver does what it can; a
   time-out is never needed. *)
BusFairness ==
    WF_busVars(Receive) /\ \A p \in Posters : WF_busVars(PostSignal(p))

BusSpec == BusInit /\ [][BusNext]_busVars /\ BusFairness

----------------------------------------------------------------------------
Pending == Cardinality({p \in Posters : poster[p] = "signal"})

(* No wakeup is missed: signals and the posts about to signal cover every
   message in the queue, in whatever order the pushes, the signals and the
   receiver's pops and reads of the eventfd happen.  And a receiver that takes
   one message for each event leaves no signal behind that would wake its
   event loop for nothing. *)
SignalsCover ==
    /\ signals + Pending >=
         Len(queue) - (IF recv = "popPolled" /\ queue # <<>> THEN 1 ELSE 0)
    /\ kind = "watcher" /\ recv = "idle" => signals + Pending = Len(queue)

(* The queue does not stay full or waiting: a receiver that only goes by the
   eventfd, without any time-out, takes every message. *)
MessagesTaken ==
    \A n \in 1..Capacity :
      (Len(queue) = n) ~> (recv \in {"consume", "popPolled"})
=============================================================================
