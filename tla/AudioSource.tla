----------------------------- MODULE AudioSource -----------------------------
(***************************************************************************)
(* The encoded-audio queue between the codec task and the controller task  *)
(* (audio_source.c): a lock-free ring with one producer and one consumer,  *)
(* wrapping counters, and two latches that let the consumer ask again for  *)
(* an event whose packet has to be encrypted again.                        *)
(*                                                                         *)
(* Every access to shared memory is a step of its own, and a frame is      *)
(* copied in two steps, the left channel and then the right one.  Frames   *)
(* are numbered in the order they are published; 0 stands for silence.     *)
(***************************************************************************)
EXTENDS Integers, FiniteSets

CONSTANTS
  Queue,      \* ULL_AUDIO_QUEUE_FRAMES, 4 in the code
  Wrap,       \* the counters' modulus, 2^32 in the code
  Start,      \* the counters' value when the observation begins, queue empty
  MaxFrames,  \* bound: frames ever published
  MaxEvent,   \* bound: the largest radio event asked for
  Tries       \* attempts of the statistics reader, 3 in the code

ASSUME QueueAssumption == Queue \in Nat \ {0}
ASSUME WrapAssumption == Wrap \in Nat /\ Wrap > Queue /\ Wrap % Queue = 0
ASSUME StartAssumption == Start \in 0..Wrap-1
ASSUME BoundAssumption == MaxFrames \in Nat /\ MaxEvent \in Nat
ASSUME TriesAssumption == Tries \in Nat \ {0}

VARIABLES
  written, read,    \* the published counters, modulo Wrap
  ring,             \* the Queue slots
  producer,         \* local state of ull_audio_source_push
  consumer,         \* local state of ull_audio_source_select
  latch, last,      \* the two latches; the last event selected (-1: none)
  selected,         \* selections made, modulo 2
  discarded,        \* frames thrown away for skipped events or a reconnect
  paused,           \* the producer is parked behind the reconnect barrier
  stats,            \* local state of ull_audio_source_stats
  pushed,           \* history: frames published
  given,            \* history: first answer to each event of this session
  recent,           \* history: the last two events selected, newest first
  answer,           \* history: the latest call and what it returned
  floor,            \* history: frames published before this session
  delivered         \* history: frames handed to the consumer

vars == <<written, read, ring, producer, consumer, latch, last, selected,
          discarded, paused, stats, pushed, given, recent, answer, floor, delivered>>

Counters == 0..Wrap-1
Frames == [left : 0..MaxFrames, right : 0..MaxFrames]
Silence == [left |-> 0, right |-> 0]
NotAsked == [left |-> -1, right |-> -1]
Events == 0..MaxEvent
NoLatch == [valid |-> FALSE, event |-> 0, present |-> FALSE, data |-> Silence]
NoStats == [pc |-> "idle", read |-> 0, written |-> 0, truth |-> 0, tries |-> 0]
NoAnswer == [event |-> 0, result |-> 0, data |-> NotAsked]

Plus(a, b) == (a + b) % Wrap
Used(w, r) == (w - r) % Wrap
Slot(n) == n % Queue

TypeOK ==
  /\ written \in Counters /\ read \in Counters
  /\ ring \in [0..Queue-1 -> Frames]
  /\ producer \in [pc : {"idle", "left", "right", "publish"}, w : Counters]
  /\ consumer \in [pc : {"idle", "load", "left", "right", "store"},
                   event : Events, read : Counters, available : 0..Queue]
  /\ latch \in [0..1 -> [valid : BOOLEAN, event : Events, present : BOOLEAN,
                         data : Frames]]
  /\ last \in -1..MaxEvent
  /\ selected \in 0..1
  /\ discarded \in 0..MaxFrames
  /\ paused \in BOOLEAN
  /\ stats \in [pc : {"idle", "written", "again", "done"}, read : Counters,
                written : Counters, truth : 0..Wrap-1, tries : 0..Tries]
  /\ pushed \in 0..MaxFrames /\ floor \in 0..MaxFrames
  /\ delivered \in 0..MaxFrames
  /\ given \in [Events -> Frames \cup {NotAsked}]
  /\ recent \in [1..2 -> -1..MaxEvent]
  /\ answer \in [event : Events, result : -1..1, data : Frames \cup {NotAsked}]

Init ==
  /\ written = Start /\ read = Start
  /\ ring = [i \in 0..Queue-1 |-> Silence]
  /\ producer = [pc |-> "idle", w |-> 0]
  /\ consumer = [pc |-> "idle", event |-> 0, read |-> 0, available |-> 0]
  /\ latch = [i \in 0..1 |-> NoLatch]
  /\ last = -1 /\ selected = 0 /\ discarded = 0 /\ paused = FALSE
  /\ stats = NoStats
  /\ pushed = 0 /\ floor = 0 /\ delivered = 0
  /\ given = [e \in Events |-> NotAsked]
  /\ recent = <<-1, -1>>
  /\ answer = NoAnswer

-------------------------------------------------------------------------------
(***************************************************************************)
(* ull_audio_source_push, called by the codec task.  A full ring refuses.  *)
(***************************************************************************)
consumerSide == <<read, consumer, latch, last, selected, discarded, given,
                  recent, answer, floor, delivered>>

\* A bug that lets the ring hold one frame more than it has slots.
HasRoomForOneMore(w, r) == Used(w, r) <= Queue
HasRoom(w, r) == Used(w, r) < Queue

PushLoad ==
  /\ ~paused /\ producer.pc = "idle" /\ pushed < MaxFrames
  /\ HasRoom(written, read)
  /\ producer' = [pc |-> "left", w |-> written]
  /\ UNCHANGED <<written, ring, paused, stats, pushed, consumerSide>>

PushLeft ==
  /\ producer.pc = "left"
  /\ ring' = [ring EXCEPT ![Slot(producer.w)].left = pushed + 1]
  /\ producer' = [producer EXCEPT !.pc = "right"]
  /\ UNCHANGED <<written, paused, stats, pushed, consumerSide>>

PushRight ==
  /\ producer.pc = "right"
  /\ ring' = [ring EXCEPT ![Slot(producer.w)].right = pushed + 1]
  /\ producer' = [producer EXCEPT !.pc = "publish"]
  /\ UNCHANGED <<written, paused, stats, pushed, consumerSide>>

PushPublish ==
  /\ producer.pc = "publish"
  /\ written' = Plus(producer.w, 1)
  /\ pushed' = pushed + 1
  /\ producer' = [pc |-> "idle", w |-> 0]
  /\ UNCHANGED <<ring, paused, stats, consumerSide>>

-------------------------------------------------------------------------------
(***************************************************************************)
(* ull_audio_source_select, called by the controller task.  An event still *)
(* latched is answered again from its latch; an earlier one is refused.    *)
(***************************************************************************)
producerSide == <<written, ring, producer, paused, stats, pushed>>

\* A bug that answers any valid latch.
LatchedIgnoringEvent(e) == {i \in 0..1 : latch[i].valid}
Latched(e) == {i \in 0..1 : latch[i].valid /\ latch[i].event = e}

\* The loop takes the first matching latch.
FirstLatched(e) == CHOOSE i \in Latched(e) : \A j \in Latched(e) : i <= j

SelectAgain ==
  /\ consumer.pc = "idle"
  /\ \E e \in Events :
       /\ Latched(e) # {}
       /\ LET hit == latch[FirstLatched(e)] IN
          answer' = [event |-> e, result |-> IF hit.present THEN 1 ELSE 0,
                     data |-> hit.data]
  /\ UNCHANGED <<producerSide, read, consumer, latch, last, selected,
                 discarded, given, recent, floor, delivered>>

SelectBackwards ==
  /\ consumer.pc = "idle"
  /\ \E e \in Events :
       /\ Latched(e) = {} /\ e <= last
       /\ answer' = [event |-> e, result |-> -1, data |-> NotAsked]
  /\ UNCHANGED <<producerSide, read, consumer, latch, last, selected,
                 discarded, given, recent, floor, delivered>>

SelectCall ==
  /\ consumer.pc = "idle"
  /\ \E e \in Events :
       /\ Latched(e) = {} /\ e > last
       /\ consumer' = [consumer EXCEPT !.pc = "load", !.event = e, !.read = read]
  /\ UNCHANGED <<producerSide, read, latch, last, selected, discarded, given,
                 recent, answer, floor, delivered>>

\* A bug that keeps the audio of skipped events and so adds latency.
SkippedKeepsAudio(e) == 0
Skipped(e) == IF last = -1 THEN 0 ELSE e - last - 1

NextLatch(e) == selected

\* Sees the producer's counter; drops the audio of skipped events; takes a
\* latch for this event.  Silence if nothing is left.
SelectLoad ==
  /\ consumer.pc = "load"
  /\ LET available == Used(written, consumer.read)
         skipped == Skipped(consumer.event)
         discard == IF skipped < available THEN skipped ELSE available
         slot == NextLatch(consumer.event)
     IN
     /\ discarded' = discarded + discard
     /\ latch' = [latch EXCEPT ![slot] =
                    [valid |-> TRUE, event |-> consumer.event,
                     present |-> available > discard,
                     data |-> IF available > discard THEN @.data ELSE Silence]]
     /\ consumer' = [consumer EXCEPT
                       !.pc = IF available > discard THEN "left" ELSE "store",
                       !.read = Plus(consumer.read, discard),
                       !.available = available - discard]
  /\ UNCHANGED <<producerSide, read, last, selected, given, recent, answer,
                 floor, delivered>>

SelectLeft ==
  /\ consumer.pc = "left"
  /\ latch' = [latch EXCEPT ![NextLatch(consumer.event)].data.left =
                 ring[Slot(consumer.read)].left]
  /\ consumer' = [consumer EXCEPT !.pc = "right"]
  /\ UNCHANGED <<producerSide, read, last, selected, discarded, given, recent,
                 answer, floor, delivered>>

SelectRight ==
  /\ consumer.pc = "right"
  /\ latch' = [latch EXCEPT ![NextLatch(consumer.event)].data.right =
                 ring[Slot(consumer.read)].right]
  /\ consumer' = [consumer EXCEPT !.pc = "store", !.read = Plus(@, 1)]
  /\ UNCHANGED <<producerSide, read, last, selected, discarded, given, recent,
                 answer, floor, delivered>>

SelectStore ==
  /\ consumer.pc = "store"
  /\ read' = consumer.read
  /\ last' = consumer.event
  /\ selected' = 1 - selected
  /\ LET e == consumer.event
         data == latch[NextLatch(e)].data
         present == consumer.available > 0
     IN
     /\ given' = [given EXCEPT ![e] = data]
     /\ recent' = <<e, recent[1]>>
     /\ answer' = [event |-> e, result |-> IF present THEN 1 ELSE 0, data |-> data]
     /\ delivered' = IF present THEN delivered + 1 ELSE delivered
  /\ consumer' = [pc |-> "idle", event |-> 0, read |-> 0, available |-> 0]
  /\ UNCHANGED <<producerSide, latch, discarded, floor>>

-------------------------------------------------------------------------------
(***************************************************************************)
(* The barrier of reconnect_barrier.h as the two ends see it, and          *)
(* ull_audio_source_rearm, which the controller calls between selections.  *)
(***************************************************************************)
Pause ==
  /\ ~paused /\ producer.pc = "idle"
  /\ paused' = TRUE
  /\ UNCHANGED <<written, ring, producer, stats, pushed, consumerSide>>

Resume ==
  /\ paused
  /\ paused' = FALSE
  /\ UNCHANGED <<written, ring, producer, stats, pushed, consumerSide>>

ReadAfterRearm == written

Rearm ==
  /\ paused /\ consumer.pc = "idle"
  /\ discarded' = discarded + Used(written, read)
  /\ read' = ReadAfterRearm
  /\ latch' = [i \in 0..1 |-> NoLatch]
  /\ last' = -1
  /\ given' = [e \in Events |-> NotAsked]
  /\ recent' = <<-1, -1>>
  /\ answer' = NoAnswer
  /\ floor' = pushed
  /\ UNCHANGED <<producerSide, consumer, selected, delivered>>

-------------------------------------------------------------------------------
(***************************************************************************)
(* ull_audio_source_stats, called from any task: the occupancy is accepted *)
(* only if the consumer's counter did not move around the producer's.      *)
(* stats.truth is a history: the occupancy at the moment of the read of    *)
(* the producer's counter.                                                 *)
(***************************************************************************)
queueSide == <<written, ring, producer, paused, pushed, consumerSide>>

StatsRead ==
  /\ stats.pc = "idle" /\ stats.tries < Tries
  /\ stats' = [stats EXCEPT !.pc = "written", !.read = read, !.tries = @ + 1]
  /\ UNCHANGED queueSide

StatsWritten ==
  /\ stats.pc = "written"
  /\ stats' = [stats EXCEPT !.pc = "again", !.written = written,
                            !.truth = Used(written, read)]
  /\ UNCHANGED queueSide

\* A bug that skips the second look at the consumer's counter.
StableUnchecked(r, w, again) == Used(w, r) <= Queue
Stable(r, w, again) == r = again /\ Used(w, r) <= Queue

StatsAgain ==
  /\ stats.pc = "again"
  /\ stats' = IF Stable(stats.read, stats.written, read)
              THEN [stats EXCEPT !.pc = "done"]
              ELSE [NoStats EXCEPT !.tries = stats.tries]
  /\ UNCHANGED queueSide

StatsReturn ==
  /\ stats.pc = "done" \/ (stats.pc = "idle" /\ stats.tries = Tries)
  /\ stats' = NoStats
  /\ UNCHANGED queueSide

Next ==
  \/ PushLoad \/ PushLeft \/ PushRight \/ PushPublish
  \/ SelectAgain \/ SelectBackwards \/ SelectCall \/ SelectLoad
  \/ SelectLeft \/ SelectRight \/ SelectStore
  \/ Pause \/ Resume \/ Rearm
  \/ StatsRead \/ StatsWritten \/ StatsAgain \/ StatsReturn

Spec == Init /\ [][Next]_vars

-------------------------------------------------------------------------------
(***************************************************************************)
(* Safety.  All over the queue as a sequence of published frames: the      *)
(* ring holds the frames floor+1.. in order, and the answers of a session  *)
(* take from its front.                                                    *)
(***************************************************************************)
Present(e) == given[e] # NotAsked /\ given[e] # Silence

\* The two channels of an answered frame are of one frame: the producer never
\* writes into the slot being copied, however the counters wrap.
ChannelsTogether ==
  \A e \in Events : given[e] # NotAsked => given[e].left = given[e].right

\* Asking again for an event gives the same audio, or silence again, so an
\* event that is encrypted twice never carries different PCM; and the event on
\* the air and its prepared successor are never refused, even when frames were
\* skipped between them.
SameAgain ==
  IF answer.result = -1 THEN answer.event \notin {recent[1], recent[2]}
  ELSE answer.result >= 0 => answer.data = given[answer.event]

\* The audio keeps pace with the events: it never repeats, never runs ahead of
\* the radio, and when two successive selections both found audio, the frames
\* are as far apart as the events (a skipped event adds no latency).
KeepsPace ==
  /\ \A e, f \in Events : e < f /\ Present(e) /\ Present(f) =>
       given[f].left - given[e].left \in 1..(f - e)
  /\ recent[2] # -1 /\ Present(recent[1]) /\ Present(recent[2]) =>
       given[recent[1]].left - given[recent[2]].left = recent[1] - recent[2]

\* The ring never holds more frames than it has slots (select's test for that
\* never fires), and between selections every frame is queued, delivered or
\* counted as discarded; after a reconnection no audio of the session before it
\* is played; and the occupancy that is reported was the true one at some moment
\* of the call, even if the consumer or a reconnection ran in between.
Accounted ==
  /\ TypeOK
  /\ Used(written, read) <= Queue
  /\ consumer.pc = "idle" =>
       pushed = delivered + discarded + Used(written, read)
  /\ \A e \in Events : Present(e) => given[e].left > floor
  /\ stats.pc = "done" => Used(stats.written, stats.read) = stats.truth
==============================================================================
