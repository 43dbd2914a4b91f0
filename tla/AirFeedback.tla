----------------------------- MODULE AirFeedback -----------------------------
(***************************************************************************)
(* The time line and the sequence numbers of the audio frames              *)
(* (air_session.c, air_feedback.c and their use in raw_llcp.c and          *)
(* tone_trial.c).                                                          *)
(*                                                                         *)
(* Nothing in a frame says which frame it is: both sides count from an     *)
(* instant of the parent link. The headset expects one sequence number per *)
(* stream, advances it when it takes a packet and otherwise once a frame,  *)
(* and tells it in its replies; the program extrapolates from the last     *)
(* reply over the frames that went by.                                     *)
(*                                                                         *)
(* Times are pairs of a coarse clock, that wraps at Clock, and a fine one, *)
(* Tick steps to the coarse one.                                           *)
(***************************************************************************)
EXTENDS Integers

CONSTANTS Clock,     \* 2^28
          Tick,      \* 625
          Interval,  \* of the frames, in fine steps (10000)
          Acl,       \* interval of the parent link, in coarse steps (96)
          Counters,  \* its event counters wrap (2^16)
          Lead,      \* events from the second E0 to its instant (24)
          MaxAhead,  \* a plan is for 2..MaxAhead events ahead (32)
          Horizon,   \* the second stream starts within, fine steps (4000000)
          SeqMod,    \* sequence numbers wrap (16)
          Shifts,    \* fine steps a change of the link's parameters moves it by
          MaxFrame   \* bound: frames

ASSUME AirAssumption ==
    /\ {Clock, Tick, Interval, Acl, Counters, Lead, MaxAhead, Horizon, SeqMod, MaxFrame}
            \subseteq Nat \ {0}
    /\ SeqMod > 1 /\ Shifts \subseteq Nat /\ Interval % Tick = 0

Never == MaxFrame + Horizon

VARIABLES
    link,      \* [hs, hus, counter]: an anchor of the parent link
    plan,      \* of the first stream: [hs, hus, instant]
    e0,        \* counter of the event at which the second E0 was sent, or -1,
               \* and the anchor of then
    second,    \* plan of the second stream, or NoPlan
    starts,    \* stream_starts
    frame,     \* number of the present frame
    sent,      \* [on, mask, seq, known]: what it carries; known: seq comes from
               \* a reply
    expected,  \* the headset: next sequence number of each stream
    took,      \* ... streams whose packet it took in this frame
    blind,     \* history: streams of which a packet was sent before any reply,
               \* to a headset whose number was exactly one ahead
    fb,        \* channels: [valid, frame, expected, after]
    old        \* a reply of before: [time, records], or NoSnapshot

timeline == <<link, plan, e0, second>>
vars == <<timeline, starts, frame, sent, expected, took, blind, fb, old>>

Streams == 1..2
NoPlan == [hs |-> 0, hus |-> 0, instant |-> -1]
NoSnapshot == [hs |-> 0, hus |-> 0, records |-> {}]
Silent == [on |-> FALSE, mask |-> {}, seq |-> <<0, 0>>, known |-> {}]

-----------------------------------------------------------------------------
(* Instants.                                                               *)

Later(t, fine) == [hs |-> (t.hs + (t.hus + fine) \div Tick) % Clock, hus |-> (t.hus + fine) % Tick]

\* ull_air_session_time.
SessionTime(p, f) == Later([hs |-> p.hs, hus |-> p.hus], f * Interval)

\* The anchor of the parent link n events later.
Anchor(a, n) == [hs |-> (a.hs + n * Acl) % Clock, hus |-> a.hus, counter |-> (a.counter + n) % Counters]

\* ull_air_session_plan_build; the agreed offset is 2 of the 30 fine steps of
\* an event.
Plan(a, instant) ==
    LET ahead == (instant - a.counter) % Counters
        t == Later([hs |-> (a.hs + ahead * Acl) % Clock, hus |-> a.hus], 2)
    IN  IF ahead \in 2..MaxAhead THEN [hs |-> t.hs, hus |-> t.hus, instant |-> instant] ELSE NoPlan

\* The fine steps from one time to another, the coarse clock's difference
\* taken forwards.
Elapsed(from, to) == ((to.hs - from.hs) % Clock) * Tick + to.hus - from.hus

\* Mutant: the second stream may start between two frames.
OnGridAnywhere(delta) == delta > 0 /\ delta <= Horizon

\* ull_raw_prepare_second_stream: it starts with a frame of the first.
OnGridAt(delta) == delta > 0 /\ delta <= Horizon /\ delta % Interval = 0

-----------------------------------------------------------------------------
(* Sequence numbers.                                                       *)

Age(f, start) == IF f > start THEN f - start - 1 ELSE 0

Uses(s, f) == fb[s].valid /\ fb[s].frame >= starts[s] /\ f >= fb[s].frame

\* Mutant: the reply that acknowledged the packet is counted twice.
SequenceTwice(s, f) ==
    IF Uses(s, f) THEN (fb[s].expected + Age(f, starts[s]) - Age(fb[s].frame, starts[s])) % SeqMod
    ELSE Age(f, starts[s]) % SeqMod

\* ull_air_feedback_sequences.
Sequence(s, f) ==
    IF Uses(s, f)
    THEN LET advance == Age(f, starts[s]) - Age(fb[s].frame, starts[s])
         IN  (fb[s].expected + advance - (IF fb[s].after /\ advance > 0 THEN 1 ELSE 0)) % SeqMod
    ELSE Age(f, starts[s]) % SeqMod

TypeOK ==
    /\ plan.hs \in 0..(Clock - 1) /\ plan.hus \in 0..(Tick - 1)
    /\ e0 \in [sent : BOOLEAN, anchor : [hs : 0..(Clock - 1), hus : 0..(Tick - 1), counter : 0..(Counters - 1)]]
    /\ starts[1] = 0 /\ starts[2] \in 1..Never /\ frame \in 0..MaxFrame
    /\ sent.mask \subseteq Streams /\ sent.seq \in [Streams -> 0..(SeqMod - 1)]
    /\ expected \in [Streams -> 0..(SeqMod - 1)] /\ took \subseteq Streams
    /\ blind \subseteq Streams
    /\ fb \in [Streams -> [valid : BOOLEAN, frame : 0..MaxFrame, expected : 0..(SeqMod - 1), after : BOOLEAN]]

\* The first plan is committed; clock and counter may be about to wrap. What
\* the headset counts from is its own affair.
Init ==
    /\ link \in {[hs |-> h, hus |-> u, counter |-> c] :
                    h \in {0, Clock - 1}, u \in {0, Tick - 1}, c \in {0, Counters - 1}}
    /\ plan = Plan(link, (link.counter + 2) % Counters)
    /\ e0 = [sent |-> FALSE, anchor |-> link] /\ second = NoPlan
    /\ starts = <<0, Never>> /\ frame = 0 /\ sent = Silent
    /\ expected \in [Streams -> 0..(SeqMod - 1)] /\ took = {} /\ blind = {}
    /\ fb = [s \in Streams |-> [valid |-> FALSE, frame |-> 0, expected |-> 0, after |-> FALSE]]
    /\ old = NoSnapshot

-----------------------------------------------------------------------------
(* The second stream's instant. The parent link's event that is next when  *)
(* frame f is on the air:                                                  *)

Events(f) == 2 + (f * Interval) \div (Acl * Tick)
Now(f) == Anchor(link, Events(f))

SendE0 ==
    /\ ~e0.sent /\ e0' = [sent |-> TRUE, anchor |-> Now(frame)]
    /\ UNCHANGED <<link, plan, second, starts, frame, sent, expected, took, blind, fb, old>>

\* A change of the link's parameters moves its anchors.
Shift ==
    /\ \E d \in Shifts \ {0} :
          LET t == Later([hs |-> link.hs, hus |-> link.hus], d)
          IN  link' = [link EXCEPT !.hs = t.hs, !.hus = t.hus]
    /\ second = NoPlan /\ link.hs \in {plan.hs - 2 * Acl, plan.hs - 2 * Acl + Clock}
    /\ UNCHANGED <<plan, e0, second, starts, frame, sent, expected, took, blind, fb, old>>

\* ull_raw_prepare_second_stream, with plan_for_current_anchor: the plan from
\* the anchor of now is the one from that of the E0.
Prepare ==
    /\ e0.sent /\ second = NoPlan
    /\ LET instant == (e0.anchor.counter + Lead) % Counters
           original == Plan(e0.anchor, instant)
           delta == Elapsed(plan, original)
       IN  /\ original # NoPlan /\ Plan(Now(frame), instant) = original /\ OnGridAt(delta)
           /\ second' = original /\ starts' = [starts EXCEPT ![2] = delta \div Interval]
    /\ UNCHANGED <<link, plan, e0, frame, sent, expected, took, blind, fb, old>>

-----------------------------------------------------------------------------
(* Frames. The first two only listen; the second stream is sent when its   *)
(* start has come and the headset has replied for it.                      *)

Carries(f) ==
    IF f < 2 THEN {} ELSE {s \in Streams : s = 1 \/ (f >= starts[2] /\ fb[2].valid)}

\* prepare_frame and its submission, or the frame is skipped.
Transmit ==
    /\ ~sent.on /\ took = {}
    /\ sent' = [on |-> TRUE, mask |-> Carries(frame), seq |-> [s \in Streams |-> Sequence(s, frame)],
                known |-> {s \in Streams : Uses(s, frame)}]
    /\ blind' = blind \cup {s \in Carries(frame) :
            ~Uses(s, frame) /\ expected[s] = (Sequence(s, frame) + 1) % SeqMod}
    /\ UNCHANGED <<timeline, starts, frame, expected, took, fb, old>>

\* The headset takes a packet with the number it expects; a repeated one
\* has that no longer.
HeadsetTakes ==
    /\ sent.on
    /\ took' = took \cup {s \in sent.mask : sent.seq[s] = expected[s]} /\ took' # took
    /\ expected' = [s \in Streams |-> IF s \in took' \ took THEN (expected[s] + 1) % SeqMod ELSE expected[s]]
    /\ UNCHANGED <<timeline, starts, frame, sent, blind, fb, old>>

\* A reply has a record of one or both streams that have started.
Snapshot(r) ==
    LET t == SessionTime(plan, frame)
    IN  [hs |-> t.hs, hus |-> t.hus, records |-> {<<s, expected[s]>> : s \in r}]

\* ull_air_feedback_accept_frame: the reply lies in the slot of the frame.
InSlot(p, f, x) ==
    LET t == SessionTime(p, f)
    IN  (x.hs - t.hs) % Clock < Clock \div 2 /\ Elapsed(t, x) \in 0..(Interval - 1)

\* ... it updates the channels; ull_air_feedback_note_tx then finds which
\* packets of this frame it acknowledges.
Updated(s, e) ==
    LET same == fb[s].valid /\ fb[s].frame = frame /\ fb[s].expected = e
        acked == s \in sent.mask /\ e = (sent.seq[s] + 1) % SeqMod
    IN  [valid |-> TRUE, frame |-> frame, expected |-> e, after |-> (same /\ fb[s].after) \/ acked]

Accept(x) ==
    IF InSlot(plan, frame, x)
    THEN fb' = [s \in Streams |-> IF \E e \in 0..(SeqMod - 1) : <<s, e>> \in x.records
                                  THEN Updated(s, CHOOSE e \in 0..(SeqMod - 1) : <<s, e>> \in x.records)
                                  ELSE fb[s]]
    ELSE UNCHANGED fb

Reply ==
    /\ sent.on
    /\ \E r \in SUBSET {s \in Streams : starts[s] <= frame} \ {{}} :
          Accept(Snapshot(r)) /\ old' = Snapshot(r)
    /\ UNCHANGED <<timeline, starts, frame, sent, expected, took, blind>>

\* A reply of an earlier frame is collected again.
OldReply ==
    /\ sent.on /\ old # NoSnapshot /\ Accept(old)
    /\ UNCHANGED <<timeline, starts, frame, sent, expected, took, blind, old>>

\* The headset's number of a packet it did not take expires. Its first frame
\* has none: the start of a stream listens.
NextFrame ==
    /\ frame < MaxFrame /\ frame' = frame + 1
    /\ expected' = [s \in Streams |-> IF s \in took \/ frame <= starts[s] THEN expected[s]
                                      ELSE (expected[s] + 1) % SeqMod]
    /\ took' = {} /\ sent' = Silent
    /\ UNCHANGED <<timeline, starts, blind, fb, old>>

Next ==
    \/ SendE0 \/ Shift \/ Prepare \/ Transmit \/ HeadsetTakes \/ Reply \/ OldReply \/ NextFrame

Spec == Init /\ [][Next]_vars

-----------------------------------------------------------------------------
(* Properties.                                                             *)

\* What the headset told once stays right however many frames are skipped,
\* missed or not answered: a packet has the number the headset expects of its
\* stream, whether or not the last reply came after the packet was taken, and
\* although numbers wrap and an old reply is found again. And a packet counts as
\* acknowledged (after_tx) only if it was taken: "only authenticated ACKs establish
\* receipt of the completed audio event by the headset" (tone_trial.c:902).
\* One case is out of step: the first stream, when it was sent before any reply to
\* a headset that was exactly one ahead. ull_air_feedback_note_tx takes the first
\* reply for an acknowledgement of a packet that was not taken, and so every later
\* one: the stream stays one behind and none of its packets is ever taken.
InStep ==
    /\ blind \subseteq {1} \ took
    /\ \A s \in sent.known :
           sent.seq[s] = (expected[s] - (IF s \in took \cup blind THEN 1 ELSE 0)) % SeqMod
    /\ \A s \in Streams :
           fb[s].valid /\ fb[s].frame = frame /\ fb[s].after => s \in took \cup blind

\* Both streams share one time line: the second starts exactly at the frame
\* of the first it is counted from, also when the coarse clock or the event
\* counter has wrapped in between or the parent link has moved.
OneTimeline ==
    /\ TypeOK
    /\ second # NoPlan =>
           SessionTime(plan, starts[2]) = [hs |-> second.hs, hus |-> second.hus]
=============================================================================
