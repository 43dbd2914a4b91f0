----------------------------- MODULE Air_proofs ------------------------------
(***************************************************************************)
(* Proofs about what the radio has on the air: the times and sequence      *)
(* numbers of two streams (AirFeedback), the join of the second stream     *)
(* over a parent link that the radio has taken over (AirParent), and one   *)
(* radio event with the ROM's arbiter and ring (RadioTx).                  *)
(***************************************************************************)
EXTENDS AirFeedback, AirParent, RadioTx, TLAPS

(***************************************************************************)
(* AirFeedback, for every clock, tick, interval, horizon and modulus of    *)
(* the sequence numbers: the second stream starts at a frame of the first, *)
(* and a number that is derived from a reply is the one the headset        *)
(* expects.                                                                *)
(***************************************************************************)
\* The parent link's anchor, and that a stream has not started before its plan
\* is known; the plan lies at a frame.
LinkTypes ==
    /\ link \in [hs : 0..(Clock - 1), hus : 0..(Tick - 1), counter : 0..(Counters - 1)]
    /\ starts = <<0, starts[2]>>
LineInv ==
    /\ second = NoPlan => starts[2] = Never
    /\ second # NoPlan =>
           SessionTime(plan, starts[2]) = [hs |-> second.hs, hus |-> second.hus]
TimeInv == TypeOK /\ LinkTypes /\ LineInv

\* What the program holds for the number of the frame: the one the headset would
\* expect of a stream had it not taken the packet of this frame, but one less of a
\* stream that was sent blind.
One(b) == IF b THEN 1 ELSE 0
Ahead(s) == s \in took \cup blind
Base(s) == (expected[s] - One(Ahead(s))) % SeqMod

\* Only a stream that has started is sent, the second one only upon a reply; what is
\* known was told in a frame after the start, and in this frame only behind the packet.
\* A stream once sent blind is sent in every frame, and never taken.
CarryInv ==
    /\ sent.on \in BOOLEAN /\ sent.known \subseteq Streams
    /\ took \subseteq sent.mask
    /\ ~sent.on => sent.mask = {} /\ sent.known = {} /\ took = {}
    /\ \A s \in sent.mask : starts[s] < frame
    /\ 2 \in sent.mask => 2 \in sent.known
    /\ \A s \in Streams : fb[s].valid =>
           /\ starts[s] <= fb[s].frame /\ fb[s].frame <= frame
           /\ fb[s].frame = frame => sent.on
           /\ fb[s].after => starts[s] < fb[s].frame
    /\ blind \subseteq {1} \ took
    /\ 1 \in blind => frame > 1 /\ (sent.on => 1 \in sent.mask)

\* A number one above the packet's says that the packet was taken, or that the stream
\* was sent blind.
AckInv == \A s \in sent.mask : Ahead(s) <=> expected[s] = (sent.seq[s] + 1) % SeqMod

\* The program counts frames from the start, and from every reply.
CountInv ==
    /\ 1 \in blind => Base(1) = Age(frame, 0) % SeqMod
    /\ \A s \in Streams : fb[s].valid =>
           Base(s) = (fb[s].expected + Age(frame, starts[s]) - Age(fb[s].frame, starts[s])
                      - One(fb[s].after)) % SeqMod
    /\ 1 \in sent.mask \ sent.known => sent.seq[1] = Age(frame, 0) % SeqMod

\* What a reply of this frame says of a stream.
Acks(s, e) == s \in sent.mask /\ e = (sent.seq[s] + 1) % SeqMod
Told(s, e) ==
    /\ e = (Base(s) + One(Acks(s, e))) % SeqMod
    /\ Acks(s, e) => Ahead(s)

\* The reply kept is of an earlier frame, or still true.
OldInv ==
    old # NoSnapshot => \E f \in 0..frame :
        /\ SessionTime(plan, f) = [hs |-> old.hs, hus |-> old.hus]
        /\ f = frame => \A s \in Streams, e \in 0..(SeqMod - 1) : <<s, e>> \in old.records =>
               sent.on /\ starts[s] <= frame /\ Told(s, e)

NumbersInv == CarryInv /\ AckInv /\ CountInv /\ OldInv /\ InStep

-------------------------------------------------------------------------------
(***************************************************************************)
(* Counting with a modulus.                                                *)
(***************************************************************************)
LEMMA DivisionOf ==
  ASSUME NEW m \in Nat \ {0}, NEW a \in Int
  PROVE  a \div m \in Int /\ a = m * (a \div m) + (a % m) /\ a % m \in 0..(m - 1)
OBVIOUS

\* Quotient and remainder are the only ones.
LEMMA OnlyDivision ==
  ASSUME NEW m \in Nat \ {0}, NEW p \in Int, NEW q \in Int,
         NEW r \in 0..(m - 1), NEW s \in 0..(m - 1), m * p + r = m * q + s
  PROVE  p = q /\ r = s
<1>1. ~(p < q)
  <2> SUFFICES ASSUME p < q PROVE FALSE
    OBVIOUS
  <2>1. m * q >= m * (p + 1)
    OBVIOUS
  <2>2. m * (p + 1) = m * p + m
    OBVIOUS
  <2> QED BY <2>1, <2>2
<1>2. ~(q < p)
  <2> SUFFICES ASSUME q < p PROVE FALSE
    OBVIOUS
  <2>1. m * p >= m * (q + 1)
    OBVIOUS
  <2>2. m * (q + 1) = m * q + m
    OBVIOUS
  <2> QED BY <2>1, <2>2
<1> QED BY <1>1, <1>2

LEMMA RemainderOf ==
  ASSUME NEW m \in Nat \ {0}, NEW q \in Int, NEW r \in 0..(m - 1)
  PROVE  (m * q + r) % m = r
<1>1. m * q + r \in Int
  OBVIOUS
<1> DEFINE a == m * q + r
           p == a \div m
           s == a % m
<1>2. p \in Int /\ a = m * p + s /\ s \in 0..(m - 1)
  BY <1>1, DivisionOf
<1>3. m * p + s = m * q + r
  BY <1>2
<1> HIDE DEF a, p, s
<1>4. s = r
  BY <1>2, <1>3, OnlyDivision
<1> QED BY <1>4 DEF a, s

\* Whole turns do not count.
LEMMA WholeTurns ==
  ASSUME NEW m \in Nat \ {0}, NEW a \in Int, NEW q \in Int
  PROVE  (a + m * q) % m = a % m
<1> DEFINE d == a \div m
           r == a % m
<1>1. d \in Int /\ a = m * d + r /\ r \in 0..(m - 1)
  BY DivisionOf
<1> HIDE DEF d, r
<1>2. a + m * q = m * (d + q) + r
  BY <1>1
<1>3. (m * (d + q) + r) % m = r
  BY <1>1, RemainderOf
<1> QED BY <1>2, <1>3 DEF r

\* Taking the remainder early makes no difference.
LEMMA EarlyRemainder ==
  ASSUME NEW m \in Nat \ {0}, NEW a \in Int, NEW b \in Int
  PROVE  /\ ((a % m) + b) % m = (a + b) % m
         /\ ((a % m) - (b % m)) % m = (a - b) % m
<1> DEFINE c == a \div m
           d == b \div m
           r == a % m
           s == b % m
<1>1. c \in Int /\ a = m * c + r /\ r \in Int /\ d \in Int /\ b = m * d + s /\ s \in Int
  BY DivisionOf
<1> HIDE DEF c, d, r, s
<1> DEFINE x == r + b
           y == r - s
           z == c - d
<1>2. a + b = x + m * c /\ a - b = y + m * z /\ x \in Int /\ y \in Int /\ z \in Int
  BY <1>1
<1> HIDE DEF x, y, z
<1>3. (x + m * c) % m = x % m /\ (y + m * z) % m = y % m
  BY <1>1, <1>2, WholeTurns
<1>4. (a + b) % m = x % m
  BY <1>2, <1>3
<1>5. (a - b) % m = y % m
  BY <1>2, <1>3
<1>6. x = (a % m) + b /\ y = (a % m) - (b % m)
  BY DEF x, y, r, s
<1> QED BY <1>4, <1>5, <1>6

-------------------------------------------------------------------------------
(***************************************************************************)
(* Instants.                                                               *)
(***************************************************************************)
LEMMA Numbers ==
  /\ Clock \in Nat \ {0} /\ Tick \in Nat \ {0} /\ Interval \in Nat \ {0} /\ Acl \in Nat \ {0}
  /\ Counters \in Nat \ {0} /\ Lead \in Nat \ {0} /\ MaxAhead \in Nat \ {0}
  /\ Horizon \in Nat \ {0} /\ SeqMod \in Nat \ {0} /\ SeqMod > 1 /\ MaxFrame \in Nat \ {0}
  /\ Shifts \subseteq Nat /\ Interval % Tick = 0
BY AirAssumption

LEMMA LaterTyped ==
  ASSUME NEW t, t.hs \in Int, t.hus \in Int, NEW d \in Int
  PROVE  /\ Later(t, d).hs \in 0..(Clock - 1) /\ Later(t, d).hus \in 0..(Tick - 1)
         /\ Later(t, d) = [hs |-> Later(t, d).hs, hus |-> Later(t, d).hus]
<1>1. (t.hus + d) \div Tick \in Int /\ (t.hus + d) % Tick \in 0..(Tick - 1)
  <2>1. t.hus + d \in Int /\ Tick \in Nat \ {0}
    BY Numbers
  <2> QED BY <2>1, DivisionOf
<1>2. t.hs + (t.hus + d) \div Tick \in Int
  BY <1>1
<1>3. (t.hs + (t.hus + d) \div Tick) % Clock \in 0..(Clock - 1)
  BY <1>2, Numbers, DivisionOf
<1> QED BY <1>1, <1>3 DEF Later

LEMMA AnchorTyped ==
  ASSUME NEW a \in [hs : 0..(Clock - 1), hus : 0..(Tick - 1), counter : 0..(Counters - 1)],
         NEW n \in Int
  PROVE  Anchor(a, n) \in [hs : 0..(Clock - 1), hus : 0..(Tick - 1), counter : 0..(Counters - 1)]
<1>1. a.hs + n * Acl \in Int /\ a.counter + n \in Int
  BY Numbers
<1>2. (a.hs + n * Acl) % Clock \in 0..(Clock - 1) /\ (a.counter + n) % Counters \in 0..(Counters - 1)
  BY <1>1, Numbers, DivisionOf
<1> QED BY <1>2 DEF Anchor

LEMMA PlanTyped ==
  ASSUME NEW a \in [hs : 0..(Clock - 1), hus : 0..(Tick - 1), counter : 0..(Counters - 1)],
         NEW instant \in Int
  PROVE  Plan(a, instant).hs \in 0..(Clock - 1) /\ Plan(a, instant).hus \in 0..(Tick - 1)
<1> DEFINE ahead == (instant - a.counter) % Counters
           at == [hs |-> (a.hs + ahead * Acl) % Clock, hus |-> a.hus]
           t == Later(at, 2)
<1>1. instant - a.counter \in Int
  BY Numbers
<1>2. ahead \in Int
  BY <1>1, Numbers, DivisionOf
<1>3. a.hs + ahead * Acl \in Int
  BY <1>2, Numbers
<1>4. (a.hs + ahead * Acl) % Clock \in Int
  BY <1>3, Numbers, DivisionOf
<1>5. at.hs \in Int /\ at.hus \in Int
  BY <1>4, Numbers
<1> HIDE DEF at
<1>6. t.hs \in 0..(Clock - 1) /\ t.hus \in 0..(Tick - 1)
  BY <1>5, LaterTyped
<1>7. Plan(a, instant) = IF ahead \in 2..MaxAhead THEN [hs |-> t.hs, hus |-> t.hus, instant |-> instant] ELSE NoPlan
  BY DEF Plan, at
<1>8. NoPlan.hs \in 0..(Clock - 1) /\ NoPlan.hus \in 0..(Tick - 1)
  BY Numbers DEF NoPlan
<1> HIDE DEF t, ahead
<1> QED BY <1>6, <1>7, <1>8

\* Going from one instant to the other by what elapsed between them.
LEMMA ElapsedLater ==
  ASSUME NEW from, NEW to, from.hs \in 0..(Clock - 1), from.hus \in 0..(Tick - 1),
         to.hs \in 0..(Clock - 1), to.hus \in 0..(Tick - 1)
  PROVE  /\ Elapsed(from, to) \in Int
         /\ Later([hs |-> from.hs, hus |-> from.hus], Elapsed(from, to)) = [hs |-> to.hs, hus |-> to.hus]
<1> DEFINE k == (to.hs - from.hs) % Clock
           x == from.hus + Elapsed(from, to)
<1>1. to.hs - from.hs \in Int
  BY Numbers
<1>2. k \in Int
  BY <1>1, Numbers, DivisionOf
<1>3. Elapsed(from, to) = k * Tick + to.hus - from.hus
  BY DEF Elapsed
<1>4. (from.hs + k) % Clock = to.hs
  <2> DEFINE diff == to.hs - from.hs
  <2>0. diff \in Int /\ from.hs \in Int /\ Clock \in Nat \ {0}
    BY <1>1, Numbers
  <2> HIDE DEF diff
  <2>1. ((diff % Clock) + from.hs) % Clock = (diff + from.hs) % Clock
    BY <2>0, EarlyRemainder
  <2>2. diff + from.hs = to.hs
    BY Numbers DEF diff
  <2>3. to.hs % Clock = to.hs
    <3>1. (Clock * 0 + to.hs) % Clock = to.hs
      BY Numbers, RemainderOf
    <3>2. Clock * 0 + to.hs = to.hs
      BY Numbers
    <3> QED BY <3>1, <3>2
  <2>4. (diff % Clock) + from.hs = from.hs + k
    BY <1>2, Numbers DEF diff
  <2> QED BY <2>1, <2>2, <2>3, <2>4
<1> HIDE DEF k
<1>5. k * Tick \in Int
  BY <1>2, Numbers
<1>6. x = Tick * k + to.hus /\ Elapsed(from, to) \in Int /\ x \in Int
  BY <1>2, <1>3, <1>5, Numbers
<1> HIDE DEF x
<1>7. x \div Tick = k /\ x % Tick = to.hus
  <2>1. x \div Tick \in Int /\ x = Tick * (x \div Tick) + (x % Tick) /\ x % Tick \in 0..(Tick - 1)
    BY <1>6, Numbers, DivisionOf
  <2> DEFINE p == x \div Tick
             r == x % Tick
  <2> HIDE DEF p, r
  <2>2. p \in Int /\ r \in 0..(Tick - 1) /\ Tick * p + r = Tick * k + to.hus
    BY <1>6, <2>1 DEF p, r
  <2>3. Tick \in Nat \ {0} /\ k \in Int /\ to.hus \in 0..(Tick - 1)
    BY <1>2, Numbers
  <2>4. p = k /\ r = to.hus
    BY <2>2, <2>3, OnlyDivision
  <2> QED BY <2>4 DEF p, r
<1>8. Later([hs |-> from.hs, hus |-> from.hus], Elapsed(from, to))
      = [hs |-> (from.hs + x \div Tick) % Clock, hus |-> x % Tick]
  BY DEF Later, x
<1> QED BY <1>4, <1>6, <1>7, <1>8

-------------------------------------------------------------------------------
(***************************************************************************)
(* Types, and the second stream's place on the time line.                  *)
(***************************************************************************)
Channel == [valid : BOOLEAN, frame : 0..MaxFrame, expected : 0..(SeqMod - 1), after : BOOLEAN]

LEMMA Typed ==
  ASSUME TypeOK, LinkTypes
  PROVE  /\ frame \in 0..MaxFrame /\ frame \in Int /\ starts \in [Streams -> Nat]
         /\ sent.mask \subseteq Streams /\ sent.seq \in [Streams -> 0..(SeqMod - 1)]
         /\ expected \in [Streams -> 0..(SeqMod - 1)] /\ took \subseteq Streams
         /\ fb \in [Streams -> Channel] /\ 1 \in Streams /\ 2 \in Streams
         /\ starts[1] = 0 /\ starts[2] \in 1..Never /\ Never \in Nat
<1>1. Never \in Nat
  BY Numbers DEF Never
<1>2. starts = <<0, starts[2]>> /\ starts[2] \in Nat
  BY <1>1 DEF TypeOK, LinkTypes
<1>3. starts \in [Streams -> Nat]
  BY <1>2 DEF Streams
<1> QED BY <1>1, <1>3, Numbers DEF TypeOK, Channel, Streams

LEMMA SequenceTyped ==
  ASSUME TypeOK, LinkTypes, NEW s \in Streams
  PROVE  Sequence(s, frame) \in 0..(SeqMod - 1)
<1>1. starts[s] \in Int /\ frame \in Int /\ fb[s].frame \in Int /\ fb[s].expected \in Int
  BY Typed DEF Channel
<1>2. Age(frame, starts[s]) \in Int /\ Age(fb[s].frame, starts[s]) \in Int
  BY <1>1 DEF Age
<1> DEFINE advance == Age(frame, starts[s]) - Age(fb[s].frame, starts[s])
           n == fb[s].expected + advance - (IF fb[s].after /\ advance > 0 THEN 1 ELSE 0)
<1>3. n \in Int /\ SeqMod \in Nat \ {0}
  BY <1>1, <1>2, Numbers
<1>4. Sequence(s, frame) = IF Uses(s, frame) THEN n % SeqMod ELSE Age(frame, starts[s]) % SeqMod
  BY DEF Sequence
<1> HIDE DEF n
<1>5. n % SeqMod \in 0..(SeqMod - 1) /\ Age(frame, starts[s]) % SeqMod \in 0..(SeqMod - 1)
  BY <1>2, <1>3, DivisionOf
<1> QED BY <1>4, <1>5

LEMMA AcceptTyped ==
  ASSUME TypeOK, LinkTypes, NEW x, Accept(x)
  PROVE  fb' \in [Streams -> Channel]
<1>1. ASSUME NEW s \in Streams, NEW e \in 0..(SeqMod - 1)
      PROVE  Updated(s, e) \in Channel
  <2> DEFINE same == fb[s].valid /\ fb[s].frame = frame /\ fb[s].expected = e
             acked == s \in sent.mask /\ e = (sent.seq[s] + 1) % SeqMod
             after == (same /\ fb[s].after) \/ acked
  <2>1. after \in BOOLEAN
    OBVIOUS
  <2>2. Updated(s, e) = [valid |-> TRUE, frame |-> frame, expected |-> e, after |-> after]
    BY DEF Updated
  <2> HIDE DEF after
  <2> QED BY <2>1, <2>2, <1>1, Typed DEF Channel
<1>2. CASE InSlot(plan, frame, x)
  <2> DEFINE at(s) == CHOOSE e \in 0..(SeqMod - 1) : <<s, e>> \in x.records
             new(s) == IF \E e \in 0..(SeqMod - 1) : <<s, e>> \in x.records
                       THEN Updated(s, at(s)) ELSE fb[s]
  <2>1. fb' = [s \in Streams |-> new(s)]
    BY <1>2 DEF Accept
  <2>2. ASSUME NEW s \in Streams PROVE new(s) \in Channel
    <3>1. CASE \E e \in 0..(SeqMod - 1) : <<s, e>> \in x.records
      <4>1. at(s) \in 0..(SeqMod - 1)
        BY <3>1
      <4> HIDE DEF at
      <4>2. Updated(s, at(s)) \in Channel
        BY <1>1, <4>1
      <4> QED BY <3>1, <4>2
    <3>2. CASE ~ \E e \in 0..(SeqMod - 1) : <<s, e>> \in x.records
      BY <3>2, Typed
    <3> QED BY <3>1, <3>2
  <2> HIDE DEF new
  <2> QED BY <2>1, <2>2
<1>3. CASE ~InSlot(plan, frame, x)
  BY <1>3, Typed DEF Accept
<1> QED BY <1>2, <1>3

LEMMA NowTyped ==
  ASSUME TypeOK, LinkTypes
  PROVE  Now(frame) \in [hs : 0..(Clock - 1), hus : 0..(Tick - 1), counter : 0..(Counters - 1)]
<1>1. frame * Interval \in Int /\ Acl * Tick \in Nat \ {0}
  BY Numbers DEF TypeOK
<1>2. (frame * Interval) \div (Acl * Tick) \in Int
  BY <1>1, DivisionOf
<1>3. Events(frame) \in Int
  BY <1>2 DEF Events
<1> QED BY <1>3, AnchorTyped DEF Now, LinkTypes

LEMMA TimesStart ==
  ASSUME Init
  PROVE  TimeInv
<1>1. link \in [hs : 0..(Clock - 1), hus : 0..(Tick - 1), counter : 0..(Counters - 1)]
  BY Numbers DEF Init
<1>2. (link.counter + 2) % Counters \in Int
  <2>1. link.counter + 2 \in Int /\ Counters \in Nat \ {0}
    BY <1>1, Numbers
  <2> QED BY <2>1, DivisionOf
<1>3. plan.hs \in 0..(Clock - 1) /\ plan.hus \in 0..(Tick - 1)
  BY <1>1, <1>2, PlanTyped DEF Init
<1>4. expected \in [Streams -> 0..(SeqMod - 1)]
  BY DEF Init
<1>5. starts = <<0, Never>> /\ Never \in 1..Never /\ 0 \in 0..(SeqMod - 1) /\ 0 \in 0..MaxFrame
  BY Numbers DEF Init, Never
<1>6. fb \in [Streams -> Channel]
  BY <1>5 DEF Init, Channel
<1>7. sent.mask = {} /\ sent.seq \in [Streams -> 0..(SeqMod - 1)]
  BY <1>5 DEF Init, Silent, Streams
<1>8. TypeOK
  BY <1>1, <1>3, <1>4, <1>5, <1>6, <1>7 DEF Init, TypeOK, Channel
<1>9. LinkTypes /\ LineInv
  BY <1>1, <1>5 DEF Init, LinkTypes, LineInv
<1> QED BY <1>8, <1>9 DEF TimeInv

\* ull_raw_prepare_second_stream: a plan whose distance is a whole number of frames
\* is that many frames away.
LEMMA PrepareTimes ==
  ASSUME TimeInv, Prepare
  PROVE  TimeInv'
<1> DEFINE instant == (e0.anchor.counter + Lead) % Counters
           original == Plan(e0.anchor, instant)
           delta == Elapsed(plan, original)
<1>1. /\ original # NoPlan /\ OnGridAt(delta) /\ second' = original
      /\ starts' = [starts EXCEPT ![2] = delta \div Interval]
      /\ UNCHANGED <<link, plan, e0, frame, sent, expected, took, blind, fb, old>>
  BY DEF Prepare
<1>2. e0.anchor \in [hs : 0..(Clock - 1), hus : 0..(Tick - 1), counter : 0..(Counters - 1)]
  BY DEF TimeInv, TypeOK
<1>3. instant \in Int
  <2>1. e0.anchor.counter + Lead \in Int /\ Counters \in Nat \ {0}
    BY <1>2, Numbers
  <2> QED BY <2>1, DivisionOf
<1> HIDE DEF instant
<1>4. original.hs \in 0..(Clock - 1) /\ original.hus \in 0..(Tick - 1)
  BY <1>2, <1>3, PlanTyped
<1> HIDE DEF original
<1>5. plan.hs \in 0..(Clock - 1) /\ plan.hus \in 0..(Tick - 1)
  BY DEF TimeInv, TypeOK
<1>6. delta \in Int /\ Later([hs |-> plan.hs, hus |-> plan.hus], delta) = [hs |-> original.hs, hus |-> original.hus]
  BY <1>4, <1>5, ElapsedLater
<1> HIDE DEF delta
<1> DEFINE d == delta \div Interval
<1>7. delta > 0 /\ delta <= Horizon /\ delta % Interval = 0
  BY <1>1 DEF OnGridAt
<1>8. Interval \in Nat \ {0} /\ d \in Int /\ delta = Interval * d
  BY <1>6, <1>7, Numbers, DivisionOf
<1> HIDE DEF d
<1>9. d \in 1..Never
  <2>1. d >= 1
    <3> SUFFICES ASSUME d <= 0 PROVE FALSE
      BY <1>8
    <3>1. Interval * d <= 0
      BY <1>8
    <3> QED BY <1>7, <1>8, <3>1
  <2>2. Interval * d >= d
    BY <1>8, <2>1
  <2>3. d <= Horizon
    BY <1>7, <1>8, <2>2, Numbers
  <2> QED BY <1>8, <2>1, <2>3, Numbers DEF Never
<1>10. starts' = <<0, d>> /\ starts'[1] = 0 /\ starts'[2] = d
  <2>1. starts = <<0, starts[2]>> /\ starts' = [starts EXCEPT ![2] = d]
    BY <1>1 DEF TimeInv, LinkTypes, d
  <2> QED BY <2>1
<1>11. d * Interval = delta
  BY <1>8
<1>12. SessionTime(plan, d) = [hs |-> original.hs, hus |-> original.hus]
  BY <1>6, <1>11 DEF SessionTime
<1>13. LineInv'
  BY <1>1, <1>10, <1>12 DEF LineInv, SessionTime, Later
<1>14. TypeOK'
  BY <1>1, <1>9, <1>10 DEF TimeInv, TypeOK
<1>15. LinkTypes'
  BY <1>1, <1>10 DEF TimeInv, LinkTypes
<1> QED BY <1>13, <1>14, <1>15 DEF TimeInv

LEMMA TimesStep ==
  ASSUME TimeInv, [Next]_vars
  PROVE  TimeInv'
<1>0. TypeOK /\ LinkTypes /\ LineInv
  BY DEF TimeInv
<1>1. ASSUME UNCHANGED <<plan, second, starts>> PROVE LineInv'
  BY <1>0, <1>1 DEF LineInv, SessionTime, Later
<1>2. ASSUME UNCHANGED <<link, starts>> PROVE LinkTypes'
  BY <1>0, <1>2 DEF LinkTypes
<1>3. CASE UNCHANGED vars
  BY <1>0, <1>1, <1>2, <1>3 DEF vars, timeline, TimeInv, TypeOK
<1>4. CASE SendE0
  <2>1. UNCHANGED <<link, plan, second, starts, frame, sent, expected, took, blind, fb, old>>
        /\ e0' = [sent |-> TRUE, anchor |-> Now(frame)]
    BY <1>4 DEF SendE0
  <2>2. TypeOK'
    BY <1>0, <2>1, NowTyped DEF TypeOK
  <2> QED BY <1>1, <1>2, <2>1, <2>2 DEF TimeInv
<1>5. CASE Shift
  <2>1. UNCHANGED <<plan, e0, second, starts, frame, sent, expected, took, blind, fb, old>>
    BY <1>5 DEF Shift
  <2>2. link'\in [hs : 0..(Clock - 1), hus : 0..(Tick - 1), counter : 0..(Counters - 1)]
    <3>1. PICK d \in Shifts \ {0} :
             link' = [link EXCEPT !.hs = Later([hs |-> link.hs, hus |-> link.hus], d).hs,
                                  !.hus = Later([hs |-> link.hs, hus |-> link.hus], d).hus]
      BY <1>5 DEF Shift
    <3> DEFINE at == [hs |-> link.hs, hus |-> link.hus]
    <3>2. at.hs \in Int /\ at.hus \in Int /\ d \in Int
      BY <1>0, Numbers DEF LinkTypes
    <3>3. Later(at, d).hs \in 0..(Clock - 1) /\ Later(at, d).hus \in 0..(Tick - 1)
      BY <3>2, LaterTyped
    <3> QED BY <1>0, <3>1, <3>3 DEF LinkTypes
  <2>3. TypeOK' /\ LinkTypes'
    BY <1>0, <2>1, <2>2 DEF TypeOK, LinkTypes
  <2> QED BY <1>1, <2>1, <2>3 DEF TimeInv
<1>6. CASE Prepare
  BY <1>6, PrepareTimes
<1>7. CASE Transmit
  <2>1. UNCHANGED <<link, plan, e0, second, starts, frame, expected, took, fb, old>>
        /\ blind' \subseteq blind \cup Carries(frame)
    BY <1>7 DEF Transmit, timeline
  <2>2. sent'.mask = Carries(frame) /\ sent'.seq = [s \in Streams |-> Sequence(s, frame)]
    BY <1>7 DEF Transmit
  <2>3. Carries(frame) \subseteq Streams
    BY DEF Carries
  <2>4. sent'.seq \in [Streams -> 0..(SeqMod - 1)]
    BY <1>0, <2>2, SequenceTyped
  <2>5. TypeOK'
    BY <1>0, <2>1, <2>2, <2>3, <2>4 DEF TypeOK
  <2> QED BY <1>1, <1>2, <2>1, <2>5 DEF TimeInv
<1>8. CASE HeadsetTakes
  <2>1. UNCHANGED <<link, plan, e0, second, starts, frame, sent, blind, fb, old>>
        /\ took' = took \cup {s \in sent.mask : sent.seq[s] = expected[s]}
    BY <1>8 DEF HeadsetTakes, timeline
  <2>2. expected' = [s \in Streams |-> IF s \in took' \ took THEN (expected[s] + 1) % SeqMod ELSE expected[s]]
    BY <1>8 DEF HeadsetTakes
  <2>3. ASSUME NEW s \in Streams PROVE (expected[s] + 1) % SeqMod \in 0..(SeqMod - 1) /\ expected[s] \in 0..(SeqMod - 1)
    <3>1. expected[s] + 1 \in Int /\ SeqMod \in Nat \ {0} /\ expected[s] \in 0..(SeqMod - 1)
      BY <1>0, Typed, Numbers
    <3> QED BY <3>1, DivisionOf
  <2>4. expected' \in [Streams -> 0..(SeqMod - 1)]
    BY <2>2, <2>3
  <2>5. TypeOK'
    BY <1>0, <2>1, <2>4 DEF TypeOK
  <2> QED BY <1>1, <1>2, <2>1, <2>5 DEF TimeInv
<1>9. CASE Reply \/ OldReply
  <2>1. UNCHANGED <<link, plan, e0, second, starts, frame, sent, expected, took, blind>>
    BY <1>9 DEF Reply, OldReply, timeline
  <2>2. fb' \in [Streams -> Channel]
    BY <1>0, <1>9, AcceptTyped DEF Reply, OldReply
  <2>3. TypeOK'
    BY <1>0, <2>1, <2>2 DEF TypeOK, Channel
  <2> QED BY <1>1, <1>2, <2>1, <2>3 DEF TimeInv
<1>10. CASE NextFrame
  <2>1. UNCHANGED <<link, plan, e0, second, starts, blind, fb, old>> /\ frame' = frame + 1 /\ frame < MaxFrame
        /\ took' = {} /\ sent' = Silent
    BY <1>10 DEF NextFrame, timeline
  <2>2. expected' = [s \in Streams |-> IF s \in took \/ frame <= starts[s] THEN expected[s]
                                       ELSE (expected[s] + 1) % SeqMod]
    BY <1>10 DEF NextFrame
  <2>3. ASSUME NEW s \in Streams PROVE (expected[s] + 1) % SeqMod \in 0..(SeqMod - 1) /\ expected[s] \in 0..(SeqMod - 1)
    <3>1. expected[s] + 1 \in Int /\ SeqMod \in Nat \ {0} /\ expected[s] \in 0..(SeqMod - 1)
      BY <1>0, Typed, Numbers
    <3> QED BY <3>1, DivisionOf
  <2>4. expected' \in [Streams -> 0..(SeqMod - 1)]
    BY <2>2, <2>3
  <2>5. frame' \in 0..MaxFrame
    BY <1>0, <2>1, Numbers DEF TypeOK
  <2>6. sent'.mask = {} /\ sent'.seq \in [Streams -> 0..(SeqMod - 1)]
    BY <2>1, Numbers DEF Silent, Streams
  <2>7. TypeOK'
    BY <1>0, <2>1, <2>4, <2>5, <2>6 DEF TypeOK
  <2> QED BY <1>1, <1>2, <2>1, <2>7 DEF TimeInv
<1> QED BY <1>3, <1>4, <1>5, <1>6, <1>7, <1>8, <1>9, <1>10 DEF Next

\* Instants and numbers stay in their ranges, and the plan of the second stream on
\* the first one's grid, through every change of the parent link (air_session.c).
THEOREM TimesKept == Spec => []TimeInv
BY TimesStart, TimesStep, PTL DEF Spec

\* ull_raw_prepare_second_stream: the second stream starts exactly at the frame of
\* the first it is counted from, wherever clock and event counter wrap.
THEOREM StreamsShareTimeLine == Spec => []OneTimeline
<1>1. TimeInv => OneTimeline
  BY DEF TimeInv, LineInv, OneTimeline
<1> QED BY <1>1, TimesKept, PTL

-------------------------------------------------------------------------------
(***************************************************************************)
(* Sequence numbers.                                                       *)
(***************************************************************************)
LEMMA Wraps ==
  ASSUME NEW a \in Int, NEW c \in Int
  PROVE  /\ a % SeqMod \in 0..(SeqMod - 1)
         /\ ((a % SeqMod) + c) % SeqMod = (a + c) % SeqMod
         /\ a \in 0..(SeqMod - 1) => a % SeqMod = a
<1>1. SeqMod \in Nat \ {0}
  BY Numbers
<1>2. a % SeqMod \in 0..(SeqMod - 1)
  BY <1>1, DivisionOf
<1>3. ((a % SeqMod) + c) % SeqMod = (a + c) % SeqMod
  BY <1>1, EarlyRemainder
<1>4. ASSUME a \in 0..(SeqMod - 1) PROVE a % SeqMod = a
  <2>1. (SeqMod * 0 + a) % SeqMod = a
    BY <1>1, <1>4, RemainderOf
  <2>2. SeqMod * 0 + a = a
    BY <1>1
  <2> QED BY <2>1, <2>2
<1> QED BY <1>2, <1>3, <1>4

\* Numbers that wrap to the same one stay the same.
LEMMA WrapsAlike ==
  ASSUME NEW a \in Int, NEW b \in Int, NEW c \in Int, a % SeqMod = b % SeqMod
  PROVE  (a + c) % SeqMod = (b + c) % SeqMod
<1>1. ((a % SeqMod) + c) % SeqMod = (a + c) % SeqMod /\ ((b % SeqMod) + c) % SeqMod = (b + c) % SeqMod
  BY Wraps
<1> QED BY <1>1

\* The next number is another one.
LEMMA NextDiffers ==
  ASSUME NEW a \in Int
  PROVE  (a + 1) % SeqMod # a % SeqMod
<1> SUFFICES ASSUME (a + 1) % SeqMod = a % SeqMod PROVE FALSE
  OBVIOUS
<1> DEFINE b == a + 1
           c == -a
<1>1. b \in Int /\ c \in Int /\ b + c = 1 /\ a + c = 0
  OBVIOUS
<1>2. b % SeqMod = a % SeqMod
  OBVIOUS
<1> HIDE DEF b, c
<1>3. (b + c) % SeqMod = (a + c) % SeqMod
  BY <1>1, <1>2, WrapsAlike
<1>4. 1 % SeqMod = 1 /\ 0 % SeqMod = 0
  <2>1. 1 \in 0..(SeqMod - 1) /\ 0 \in 0..(SeqMod - 1)
    BY Numbers
  <2> QED BY <2>1, Wraps
<1> QED BY <1>1, <1>3, <1>4

LEMMA BaseOf ==
  ASSUME TimeInv, NEW s \in Streams
  PROVE  /\ Base(s) \in 0..(SeqMod - 1) /\ Base(s) \in Int
         /\ Ahead(s) => expected[s] = (Base(s) + 1) % SeqMod
         /\ ~Ahead(s) => Base(s) = expected[s]
<1>1. expected[s] \in 0..(SeqMod - 1) /\ expected[s] \in Int /\ SeqMod \in Nat \ {0}
  BY Typed, Numbers DEF TimeInv
<1>2. CASE Ahead(s)
  <2> DEFINE a == expected[s] - 1
  <2>1. Base(s) = a % SeqMod /\ a \in Int /\ a + 1 = expected[s]
    BY <1>1, <1>2 DEF Base, Ahead, One
  <2> HIDE DEF a
  <2>2. Base(s) \in 0..(SeqMod - 1) /\ (Base(s) + 1) % SeqMod = (a + 1) % SeqMod
    BY <2>1, Wraps
  <2>3. (a + 1) % SeqMod = expected[s]
    BY <1>1, <2>1, Wraps
  <2> QED BY <1>1, <1>2, <2>2, <2>3
<1>3. CASE ~Ahead(s)
  <2>1. Base(s) = (expected[s] - 0) % SeqMod /\ expected[s] - 0 = expected[s]
    BY <1>1, <1>3 DEF Base, Ahead, One
  <2>2. Base(s) = expected[s]
    BY <1>1, <2>1, Wraps
  <2> QED BY <1>1, <1>3, <2>2
<1> QED BY <1>2, <1>3

LEMMA NumbersStart ==
  ASSUME Init
  PROVE  NumbersInv
<1>1. TimeInv
  BY TimesStart
<1>2. took = {} /\ sent.on = FALSE /\ sent.mask = {} /\ sent.known = {} /\ frame = 0
      /\ old = NoSnapshot /\ blind = {}
      /\ \A s \in Streams : ~fb[s].valid
  BY DEF Init, Silent, Streams
<1>3. CarryInv /\ AckInv /\ OldInv /\ InStep
  BY <1>2 DEF CarryInv, AckInv, OldInv, InStep
<1>4. CountInv
  BY <1>2 DEF CountInv
<1> QED BY <1>3, <1>4 DEF NumbersInv

LEMMA NumbersUnchanged ==
  ASSUME NumbersInv, UNCHANGED <<plan, starts, frame, sent, expected, took, blind, fb, old>>
  PROVE  NumbersInv'
<1>1. CarryInv' /\ AckInv' /\ InStep'
  BY DEF NumbersInv, CarryInv, AckInv, Ahead, InStep
<1>2. \A s \in Streams : Base(s)' = Base(s)
  BY DEF Base, Ahead, One
<1>3. CountInv'
  BY <1>2 DEF NumbersInv, CountInv, Age, One, Streams
<1>4. OldInv'
  BY <1>2 DEF NumbersInv, OldInv, SessionTime, Later, Told, Acks, Ahead, One
<1> QED BY <1>1, <1>3, <1>4 DEF NumbersInv

\* Nothing is known of the second stream before its plan is.
LEMMA PrepareNumbers ==
  ASSUME TimeInv, NumbersInv, Prepare
  PROVE  NumbersInv'
<1>1. UNCHANGED <<plan, frame, sent, expected, took, blind, fb, old>> /\ second = NoPlan
  BY DEF Prepare
<1>2. starts[1] = 0 /\ starts'[1] = 0
  <2>1. TimeInv'
    BY PrepareTimes
  <2> QED BY <2>1 DEF TimeInv, TypeOK
<1>3. frame < starts[2]
  <2>1. starts[2] = Never /\ frame \in 0..MaxFrame
    BY <1>1 DEF TimeInv, LineInv, TypeOK
  <2> QED BY <2>1, Numbers DEF Never
<1>4. frame \in Int /\ starts[2] \in Int /\ fb[2].frame \in Int
  BY Typed DEF TimeInv, Channel
<1>5. ~fb[2].valid /\ 2 \notin sent.mask
  BY <1>3, <1>4 DEF NumbersInv, CarryInv, Streams
<1>6. \A s \in Streams : Base(s)' = Base(s)
  BY <1>1 DEF Base, Ahead, One
<1>7. Streams = {1, 2}
  BY DEF Streams
<1>8. CarryInv'
  BY <1>1, <1>2, <1>5, <1>7, Typed DEF NumbersInv, CarryInv, TimeInv
<1>9. AckInv' /\ InStep'
  BY <1>1 DEF NumbersInv, AckInv, Ahead, InStep
<1>10. CountInv'
  BY <1>1, <1>2, <1>5, <1>6, <1>7 DEF NumbersInv, CountInv, Age, One
<1>11. OldInv'
  <2> SUFFICES ASSUME old # NoSnapshot PROVE OldInv'
    BY <1>1 DEF OldInv
  <2>1. PICK f \in 0..frame :
           /\ SessionTime(plan, f) = [hs |-> old.hs, hus |-> old.hus]
           /\ f = frame => \A s \in Streams, e \in 0..(SeqMod - 1) : <<s, e>> \in old.records =>
                  sent.on /\ starts[s] <= frame /\ Told(s, e)
    BY DEF NumbersInv, OldInv
  <2>2. SessionTime(plan', f) = SessionTime(plan, f)
    BY <1>1 DEF SessionTime, Later
  <2>3. ASSUME f = frame, NEW s \in Streams, NEW e \in 0..(SeqMod - 1), <<s, e>> \in old.records
        PROVE  sent.on /\ starts'[s] <= frame /\ Told(s, e)'
    <3>1. sent.on /\ starts[s] <= frame /\ Told(s, e)
      BY <2>1, <2>3
    <3>2. s = 1
      BY <1>3, <1>4, <1>7, <3>1
    <3>3. Told(s, e)'
      BY <1>1, <1>6, <3>1 DEF Told, Acks, Ahead, One
    <3> QED BY <1>2, <3>1, <3>2, <3>3
  <2> QED BY <1>1, <2>1, <2>2, <2>3 DEF OldInv
<1> QED BY <1>8, <1>9, <1>10, <1>11 DEF NumbersInv

\* ull_air_feedback_sequences: the number sent is that of the frame.
LEMMA SequenceRight ==
  ASSUME TimeInv, NumbersInv, ~sent.on, NEW s \in Streams, Uses(s, frame)
  PROVE  Sequence(s, frame) = Base(s)
<1>1. fb[s].valid /\ starts[s] <= fb[s].frame /\ fb[s].frame < frame
      /\ (fb[s].after => starts[s] < fb[s].frame)
  <2>1. fb[s].frame \in Int /\ frame \in Int
    BY Typed DEF TimeInv, Channel
  <2> QED BY <2>1 DEF NumbersInv, CarryInv, Uses
<1>2. starts[s] \in Int /\ fb[s].frame \in Int /\ frame \in Int /\ fb[s].expected \in Int
      /\ fb[s].after \in BOOLEAN
  BY Typed DEF TimeInv, Channel
<1> DEFINE advance == Age(frame, starts[s]) - Age(fb[s].frame, starts[s])
<1>3. advance \in Int /\ (fb[s].after => advance > 0)
  BY <1>1, <1>2 DEF Age
<1>4. Sequence(s, frame) = (fb[s].expected + advance - (IF fb[s].after /\ advance > 0 THEN 1 ELSE 0)) % SeqMod
  BY DEF Sequence
<1>5. Base(s) = (fb[s].expected + Age(frame, starts[s]) - Age(fb[s].frame, starts[s]) - One(fb[s].after)) % SeqMod
  BY <1>1 DEF NumbersInv, CountInv
<1>6. fb[s].expected + advance - (IF fb[s].after /\ advance > 0 THEN 1 ELSE 0)
      = fb[s].expected + Age(frame, starts[s]) - Age(fb[s].frame, starts[s]) - One(fb[s].after)
  BY <1>1, <1>2, <1>3 DEF One, Age
<1> QED BY <1>4, <1>5, <1>6

LEMMA TransmitNumbers ==
  ASSUME TimeInv, NumbersInv, Transmit
  PROVE  NumbersInv'
<1>1. ~sent.on /\ took = {} /\ UNCHANGED <<plan, starts, frame, expected, took, fb, old>>
  BY DEF Transmit, timeline
<1>2. /\ sent'.on = TRUE /\ sent'.mask = Carries(frame)
      /\ sent'.seq = [s \in Streams |-> Sequence(s, frame)]
      /\ sent'.known = {s \in Streams : Uses(s, frame)}
      /\ blind' = blind \cup {s \in Carries(frame) :
             ~Uses(s, frame) /\ expected[s] = (Sequence(s, frame) + 1) % SeqMod}
  BY DEF Transmit
<1>3. /\ frame \in Int /\ starts[1] = 0 /\ Streams = {1, 2}
      /\ \A s \in Streams : starts[s] \in Int /\ fb[s].frame \in Int
  BY Typed DEF TimeInv, Channel, Streams
<1>4. \A s \in Streams : fb[s].valid => starts[s] <= fb[s].frame /\ fb[s].frame < frame
  BY <1>1, <1>3 DEF NumbersInv, CarryInv
<1>5. \A s \in Carries(frame) :
         /\ frame > 1 /\ s \in Streams /\ starts[s] < frame
         /\ s = 2 => Uses(2, frame)
  <2>1. \A s \in Carries(frame) : frame >= 2 /\ s \in Streams /\ (s = 1 \/ (frame >= starts[2] /\ fb[2].valid))
    BY <1>3 DEF Carries
  <2> QED BY <1>3, <1>4, <2>1 DEF Uses
<1>6. CarryInv'
  <2>1. blind' \subseteq {1} \ took'
    <3>1. \A s \in Carries(frame) : ~Uses(s, frame) => s = 1
      BY <1>3, <1>5
    <3>2. blind \subseteq {1}
      BY DEF NumbersInv, CarryInv
    <3> QED BY <1>1, <1>2, <3>1, <3>2
  <2>2. 1 \in blind' => frame > 1 /\ 1 \in sent'.mask
    <3>1. frame > 1 => 1 \in Carries(frame)
      BY <1>3 DEF Carries
    <3>2. ASSUME 1 \in blind' PROVE frame > 1
      <4>1. 1 \in blind \/ 1 \in Carries(frame)
        BY <1>2, <3>2
      <4>2. 1 \in blind => frame > 1
        BY DEF NumbersInv, CarryInv
      <4> QED BY <1>5, <4>1, <4>2
    <3> QED BY <1>2, <3>1, <3>2
  <2>3. /\ \A s \in sent'.mask : starts[s] < frame
        /\ 2 \in sent'.mask => 2 \in sent'.known
        /\ sent'.known \subseteq Streams /\ sent'.on /\ took' \subseteq sent'.mask
    BY <1>1, <1>2, <1>3, <1>5
  <2>4. ASSUME NEW s \in Streams, fb[s].valid
        PROVE  /\ starts[s] <= fb[s].frame /\ fb[s].frame <= frame
               /\ fb[s].after => starts[s] < fb[s].frame
    <3>1. fb[s].after => starts[s] < fb[s].frame
      BY <2>4 DEF NumbersInv, CarryInv
    <3> QED BY <1>3, <1>4, <2>4, <3>1
  <2>5. sent'.on \in BOOLEAN /\ UNCHANGED <<starts, frame, fb>>
    BY <1>1, <1>2
  <2> QED BY <2>1, <2>2, <2>3, <2>4, <2>5 DEF CarryInv
<1>7. ASSUME NEW s \in Streams, Uses(s, frame)
      PROVE  /\ sent'.seq[s] = Base(s) /\ Base(s)' = Base(s)
             /\ Ahead(s)' <=> Ahead(s)
  <2>1. s \in blind' <=> s \in blind
    BY <1>2, <1>7
  <2> QED BY <1>1, <1>2, <1>7, <2>1, SequenceRight DEF Base, Ahead, One
<1>8. 1 \in Streams /\ (~Uses(1, frame) => sent'.seq[1] = Age(frame, 0) % SeqMod)
  BY <1>2, <1>3 DEF Sequence
<1>9. ASSUME NEW s \in Streams, ~Uses(s, frame)
      PROVE  ~fb[s].valid
  BY <1>3, <1>4, <1>9 DEF Uses
<1>10. ASSUME ~Uses(1, frame), 1 \in Carries(frame)
       PROVE  /\ Ahead(1)' <=> expected[1] = (sent'.seq[1] + 1) % SeqMod
              /\ 1 \in blind' => Base(1)' = Age(frame, 0) % SeqMod
  <2> DEFINE age == Age(frame, 0)
             n == sent'.seq[1]
  <2>1. n = age % SeqMod /\ age \in Int /\ n \in 0..(SeqMod - 1) /\ n \in Int
    <3>1. age \in Int
      BY <1>3 DEF Age
    <3> HIDE DEF age
    <3>2. age % SeqMod \in 0..(SeqMod - 1)
      BY <3>1, Wraps
    <3>3. n = age % SeqMod
      BY <1>8, <1>10 DEF age
    <3> HIDE DEF n
    <3> QED BY <3>1, <3>2, <3>3, Numbers
  <2>2. Sequence(1, frame) = n
    BY <1>2, <1>8
  <2>3. 1 \notin took /\ took' = took /\ expected' = expected
    BY <1>1
  <2>4. expected[1] \in 0..(SeqMod - 1) /\ expected[1] \in Int
    BY <1>8, Typed DEF TimeInv
  <2> HIDE DEF age, n
  <2>5. 1 \in blind => expected[1] = (n + 1) % SeqMod
    <3>1. 1 \in blind => Ahead(1) /\ Base(1) = n
      BY <2>1 DEF NumbersInv, CountInv, Ahead, age
    <3> QED BY <1>8, <3>1, BaseOf
  <2>6. 1 \in blind' <=> expected[1] = (n + 1) % SeqMod
    BY <1>2, <1>10, <2>2, <2>5
  <2>7. expected[1] = (n + 1) % SeqMod => (expected[1] - 1) % SeqMod = n
    <3> DEFINE a == n + 1
               c == -1
    <3>1. a \in Int /\ c \in Int /\ a + c = n
      BY <2>1
    <3>2. expected[1] = (n + 1) % SeqMod => expected[1] = a % SeqMod /\ expected[1] - 1 = (a % SeqMod) + c
      BY <2>4
    <3> HIDE DEF a, c
    <3>3. ((a % SeqMod) + c) % SeqMod = (a + c) % SeqMod /\ n % SeqMod = n
      BY <2>1, <3>1, Wraps
    <3> QED BY <3>1, <3>2, <3>3
  <2>8. 1 \in blind' => Base(1)' = (expected[1] - 1) % SeqMod
    BY <2>3 DEF Base, Ahead, One
  <2>9. Ahead(1)' <=> 1 \in blind'
    BY <2>3 DEF Ahead
  <2> QED BY <2>1, <2>6, <2>7, <2>8, <2>9 DEF age, n
<1>11. InStep'
  <2>1. \A s \in sent'.known : sent'.seq[s] = Base(s)'
    BY <1>2, <1>7
  <2>2. \A s \in Streams : fb'[s].valid => fb'[s].frame # frame'
    BY <1>1 DEF NumbersInv, CarryInv
  <2> QED BY <1>1, <1>6, <2>1, <2>2 DEF InStep, CarryInv, Base, Ahead, One
<1>12. CountInv'
  <2>1. 1 \in blind' => Base(1)' = Age(frame, 0) % SeqMod
    <3>1. CASE Uses(1, frame)
      <4>1. 1 \in blind' => 1 \in blind
        BY <1>2, <3>1
      <4> QED BY <1>7, <1>8, <3>1, <4>1 DEF NumbersInv, CountInv
    <3>2. CASE ~Uses(1, frame)
      <4>1. 1 \in blind' => 1 \in Carries(frame)
        BY <1>2, <1>3, <1>6 DEF CarryInv
      <4> QED BY <1>10, <3>2, <4>1
    <3> QED BY <3>1, <3>2
  <2>2. ASSUME NEW s \in Streams, fb[s].valid
        PROVE  Base(s)' = (fb[s].expected + Age(frame, starts[s]) - Age(fb[s].frame, starts[s])
                           - One(fb[s].after)) % SeqMod
    <3>1. Base(s)' = Base(s)
      BY <1>7, <1>9, <2>2
    <3> QED BY <2>2, <3>1 DEF NumbersInv, CountInv
  <2>3. 1 \in sent'.mask \ sent'.known => sent'.seq[1] = Age(frame, 0) % SeqMod
    BY <1>2, <1>8
  <2> QED BY <1>1, <2>1, <2>2, <2>3 DEF CountInv, Age, One
<1>13. AckInv'
  <2> SUFFICES ASSUME NEW s \in sent'.mask
               PROVE  Ahead(s)' <=> expected[s] = (sent'.seq[s] + 1) % SeqMod
    BY <1>1 DEF AckInv
  <2>1. s \in Streams /\ s \in Carries(frame)
    <3>1. s \in Carries(frame)
      BY <1>2
    <3> QED BY <1>5, <3>1
  <2>2. CASE Uses(s, frame)
    <3>1. Base(s) \in 0..(SeqMod - 1) /\ Base(s) \in Int
      BY <2>1, BaseOf
    <3>2. (Base(s) + 1) % SeqMod # Base(s) % SeqMod /\ Base(s) % SeqMod = Base(s)
      BY <3>1, NextDiffers, Wraps
    <3> QED BY <1>7, <2>1, <2>2, <3>2, BaseOf
  <2>3. CASE ~Uses(s, frame)
    <3>1. s = 1
      <4>1. s # 2
        BY <1>5, <2>1, <2>3
      <4> QED BY <1>3, <2>1, <4>1
    <3> QED BY <1>10, <2>1, <2>3, <3>1
  <2> QED BY <2>2, <2>3
<1>14. OldInv'
  <2> SUFFICES ASSUME old # NoSnapshot PROVE OldInv'
    BY <1>1 DEF OldInv
  <2>1. PICK f \in 0..frame :
           /\ SessionTime(plan, f) = [hs |-> old.hs, hus |-> old.hus]
           /\ f = frame => \A s \in Streams, e \in 0..(SeqMod - 1) : <<s, e>> \in old.records => sent.on
    BY DEF NumbersInv, OldInv
  <2>2. SessionTime(plan', f) = SessionTime(plan, f)
    BY <1>1 DEF SessionTime, Later
  <2>3. f = frame => \A s \in Streams, e \in 0..(SeqMod - 1) : <<s, e>> \notin old.records
    BY <1>1, <2>1
  <2> QED BY <1>1, <2>1, <2>2, <2>3 DEF OldInv
<1> QED BY <1>6, <1>11, <1>12, <1>13, <1>14 DEF NumbersInv

\* A packet is taken with the number that the headset expects; what it expects but
\* for the packet stays.
LEMMA TakesNumbers ==
  ASSUME TimeInv, NumbersInv, HeadsetTakes
  PROVE  NumbersInv'
<1>1. UNCHANGED <<plan, starts, frame, sent, blind, fb, old>> /\ sent.on
  BY DEF HeadsetTakes, timeline
<1>2. took' = took \cup {s \in sent.mask : sent.seq[s] = expected[s]}
  BY DEF HeadsetTakes
<1>3. expected' = [s \in Streams |-> IF s \in took' \ took THEN (expected[s] + 1) % SeqMod ELSE expected[s]]
  BY DEF HeadsetTakes
<1>4. ASSUME NEW s \in Streams
      PROVE  /\ Base(s)' = Base(s)
             /\ s \in took' \ took => s \notin blind
             /\ s \in sent.mask => (Ahead(s)' <=> expected'[s] = (sent.seq[s] + 1) % SeqMod)
  <2>1. expected[s] \in 0..(SeqMod - 1) /\ expected[s] \in Int
    BY Typed DEF TimeInv
  <2>2. s \in sent.mask => (Ahead(s) <=> expected[s] = (sent.seq[s] + 1) % SeqMod)
    BY DEF NumbersInv, AckInv
  <2>3. CASE s \in took' \ took
    <3>1. expected'[s] = (expected[s] + 1) % SeqMod /\ sent.seq[s] = expected[s] /\ s \in sent.mask
      BY <1>2, <1>3, <2>3
    <3> DEFINE a == expected[s] + 1
               c == -1
    <3>2. a \in Int /\ c \in Int /\ a + c = expected[s] /\ (a % SeqMod) + c = (a % SeqMod) - 1
      BY <2>1, Numbers
    <3> HIDE DEF a, c
    <3>3. ((a % SeqMod) + c) % SeqMod = (a + c) % SeqMod
      BY <3>2, Wraps
    <3>4. expected[s] % SeqMod = expected[s]
      BY <2>1, Wraps
    <3>5. (expected'[s] - 1) % SeqMod = expected[s]
      BY <3>1, <3>2, <3>3, <3>4 DEF a
    <3>6. Ahead(s)' /\ Base(s)' = (expected'[s] - 1) % SeqMod
      BY <2>3 DEF Base, Ahead, One
    <3>7. ~Ahead(s)
      <4>1. (expected[s] + 1) % SeqMod # expected[s] % SeqMod
        BY <2>1, NextDiffers
      <4> QED BY <2>2, <3>1, <3>4, <4>1
    <3>8. Base(s) = expected[s] /\ s \notin blind
      BY <3>7, BaseOf DEF Ahead
    <3> QED BY <2>3, <3>1, <3>5, <3>6, <3>8
  <2>4. CASE s \notin took' \ took
    <3>1. expected'[s] = expected[s] /\ (Ahead(s)' <=> Ahead(s))
      BY <1>1, <1>2, <1>3, <2>4 DEF Ahead
    <3> QED BY <2>2, <2>4, <3>1 DEF Base, One
  <2> QED BY <2>3, <2>4
<1>5. sent.mask \subseteq Streams /\ sent.known \subseteq Streams
  BY Typed DEF TimeInv, NumbersInv, CarryInv
<1>6. CarryInv'
  BY <1>1, <1>2, <1>4, <1>5 DEF NumbersInv, CarryInv
<1>7. AckInv'
  BY <1>1, <1>4, <1>5 DEF AckInv
<1>8. \A s : Ahead(s) => Ahead(s)'
  BY <1>1, <1>2 DEF Ahead
<1>9. InStep'
  <2>1. \A s \in sent.known : sent.seq[s] = Base(s)'
    BY <1>4, <1>5 DEF NumbersInv, InStep, Base, Ahead, One
  <2>2. \A s \in Streams : fb'[s].valid /\ fb'[s].frame = frame' /\ fb'[s].after => Ahead(s)'
    BY <1>1, <1>8 DEF NumbersInv, InStep, Ahead
  <2> QED BY <1>1, <1>6, <2>1, <2>2 DEF InStep, CarryInv, Base, Ahead, One
<1>10. CountInv'
  BY <1>1, <1>4 DEF NumbersInv, CountInv, Age, One, Streams
<1>11. OldInv'
  BY <1>1, <1>4, <1>8 DEF NumbersInv, OldInv, SessionTime, Later, Told, Acks, One
<1> QED BY <1>6, <1>7, <1>9, <1>10, <1>11 DEF NumbersInv

\* ull_air_feedback_accept_frame and ull_air_feedback_note_tx: the channel's record
\* says after exactly when the reply came behind the packet.
LEMMA AcceptNumbers ==
  ASSUME TimeInv, NumbersInv, sent.on, NEW x, Accept(x),
         UNCHANGED <<starts, frame, sent, expected, took, blind>>,
         InSlot(plan, frame, x) =>
             \A s \in Streams, e \in 0..(SeqMod - 1) : <<s, e>> \in x.records =>
                 starts[s] <= frame /\ Told(s, e)
  PROVE  CarryInv' /\ CountInv' /\ InStep'
<1>1. /\ frame \in Int /\ \A s \in Streams : starts[s] \in Int
  BY Typed DEF TimeInv
<1>2. ASSUME NEW s \in Streams, NEW e \in 0..(SeqMod - 1), starts[s] <= frame, Told(s, e)
      PROVE  /\ Updated(s, e) = [valid |-> TRUE, frame |-> frame, expected |-> e, after |-> Acks(s, e)]
             /\ Base(s) = (e - One(Acks(s, e))) % SeqMod
  <2>1. Base(s) \in 0..(SeqMod - 1) /\ Base(s) \in Int /\ e \in Int
    BY BaseOf, Numbers
  <2>2. e = (Base(s) + One(Acks(s, e))) % SeqMod
    BY <1>2 DEF Told
  <2>3. Base(s) % SeqMod = Base(s) /\ e % SeqMod = e
    BY <2>1, <1>2, Wraps
  <2>4. Base(s) = (e - One(Acks(s, e))) % SeqMod
    <3>1. CASE Acks(s, e)
      <4> DEFINE a == Base(s) + 1
                 c == -1
      <4>1. a \in Int /\ c \in Int /\ a + c = Base(s)
        BY <2>1
      <4>2. e = a % SeqMod /\ e + c = e - One(Acks(s, e))
        BY <2>1, <2>2, <3>1 DEF One
      <4> HIDE DEF a, c
      <4>3. ((a % SeqMod) + c) % SeqMod = (a + c) % SeqMod
        BY <4>1, Wraps
      <4> QED BY <2>3, <4>1, <4>2, <4>3
    <3>2. CASE ~Acks(s, e)
      <4>1. Base(s) + One(Acks(s, e)) = Base(s) /\ e - One(Acks(s, e)) = e
        BY <2>1, <3>2 DEF One
      <4> QED BY <2>2, <2>3, <4>1
    <3> QED BY <3>1, <3>2
  <2>5. ASSUME fb[s].valid, fb[s].frame = frame, fb[s].expected = e, fb[s].after, ~Acks(s, e)
        PROVE  FALSE
    <3> DEFINE age == Age(frame, starts[s])
    <3>1. age \in Int
      BY <1>1 DEF Age
    <3>2. Base(s) = (e + age - age - One(fb[s].after)) % SeqMod
      BY <2>5 DEF NumbersInv, CountInv
    <3> HIDE DEF age
    <3> DEFINE a == e - 1
    <3>3. e + age - age - One(fb[s].after) = a /\ a \in Int /\ a + 1 = e
      BY <2>1, <2>5, <3>1 DEF One
    <3>4. Base(s) + One(Acks(s, e)) = Base(s)
      BY <2>1, <2>5 DEF One
    <3> HIDE DEF a
    <3>5. (a + 1) % SeqMod # a % SeqMod
      BY <3>3, NextDiffers
    <3> QED BY <2>2, <2>3, <3>2, <3>3, <3>4, <3>5
  <2>6. Updated(s, e) = [valid |-> TRUE, frame |-> frame, expected |-> e, after |-> Acks(s, e)]
    <3> DEFINE same == fb[s].valid /\ fb[s].frame = frame /\ fb[s].expected = e
               acked == s \in sent.mask /\ e = (sent.seq[s] + 1) % SeqMod
               after == (same /\ fb[s].after) \/ acked
    <3>1. Updated(s, e) = [valid |-> TRUE, frame |-> frame, expected |-> e, after |-> after]
      BY DEF Updated
    <3>2. Acks(s, e) = acked /\ acked \in BOOLEAN /\ (same /\ fb[s].after => Acks(s, e))
      BY <2>5 DEF Acks
    <3>3. after = Acks(s, e)
      BY <3>2
    <3> HIDE DEF after
    <3> QED BY <3>1, <3>3
  <2> QED BY <2>4, <2>6
<1>3. ASSUME NEW s \in Streams
      PROVE  \/ fb'[s] = fb[s]
             \/ /\ InSlot(plan, frame, x)
                /\ \E e \in 0..(SeqMod - 1) : <<s, e>> \in x.records /\ fb'[s] = Updated(s, e)
  <2>1. CASE InSlot(plan, frame, x)
    <3> DEFINE at(t) == CHOOSE e \in 0..(SeqMod - 1) : <<t, e>> \in x.records
               told(t) == \E e \in 0..(SeqMod - 1) : <<t, e>> \in x.records
    <3>1. fb' = [t \in Streams |-> IF told(t) THEN Updated(t, at(t)) ELSE fb[t]]
      BY <2>1 DEF Accept
    <3>2. fb'[s] = IF told(s) THEN Updated(s, at(s)) ELSE fb[s]
      BY <3>1
    <3>3. told(s) => at(s) \in 0..(SeqMod - 1) /\ <<s, at(s)>> \in x.records
      OBVIOUS
    <3> HIDE DEF at, told
    <3> QED BY <2>1, <3>2, <3>3
  <2>2. CASE ~InSlot(plan, frame, x)
    BY <2>2 DEF Accept
  <2> QED BY <2>1, <2>2
<1>4. ASSUME NEW s \in Streams
      PROVE  \/ fb'[s] = fb[s]
             \/ \E e \in 0..(SeqMod - 1) :
                    /\ starts[s] <= frame /\ Base(s) = (e - One(Acks(s, e))) % SeqMod
                    /\ Acks(s, e) => Ahead(s)
                    /\ fb'[s] = [valid |-> TRUE, frame |-> frame, expected |-> e, after |-> Acks(s, e)]
  BY <1>2, <1>3 DEF Told
<1>5. \A s \in Streams : Base(s)' = Base(s)
  BY DEF Base, Ahead, One
<1>6. ASSUME NEW s \in Streams, fb'[s].valid
      PROVE  /\ starts[s] <= fb'[s].frame /\ fb'[s].frame <= frame
             /\ fb'[s].frame = frame => sent.on
             /\ fb'[s].after => starts[s] < fb'[s].frame
             /\ Base(s) = (fb'[s].expected + Age(frame, starts[s]) - Age(fb'[s].frame, starts[s])
                           - One(fb'[s].after)) % SeqMod
  <2>1. CASE fb'[s] = fb[s]
    BY <1>6, <2>1 DEF NumbersInv, CarryInv, CountInv
  <2>2. CASE fb'[s] # fb[s]
    <3>1. PICK e \in 0..(SeqMod - 1) :
             /\ starts[s] <= frame /\ Base(s) = (e - One(Acks(s, e))) % SeqMod
             /\ fb'[s] = [valid |-> TRUE, frame |-> frame, expected |-> e, after |-> Acks(s, e)]
      BY <1>4, <2>2
    <3>2. fb'[s].frame = frame /\ fb'[s].expected = e /\ fb'[s].after = Acks(s, e)
      BY <3>1
    <3>3. Acks(s, e) => starts[s] < frame
      BY DEF Acks, NumbersInv, CarryInv
    <3> DEFINE age == Age(frame, starts[s])
    <3>4. age \in Int /\ e \in Int /\ One(Acks(s, e)) \in Int
      BY <1>1, Numbers DEF Age, One
    <3> HIDE DEF age
    <3>5. e + age - age - One(Acks(s, e)) = e - One(Acks(s, e))
      BY <3>4
    <3> QED BY <1>1, <3>1, <3>2, <3>3, <3>5 DEF age
  <2> QED BY <2>1, <2>2
<1>7. CarryInv'
  BY <1>6 DEF NumbersInv, CarryInv
<1>8. CountInv'
  <2>1. 1 \in blind => Base(1)' = Age(frame, 0) % SeqMod
    BY <1>5 DEF NumbersInv, CountInv, Streams
  <2>2. 1 \in sent.mask \ sent.known => sent.seq[1] = Age(frame, 0) % SeqMod
    BY DEF NumbersInv, CountInv
  <2> QED BY <1>5, <1>6, <2>1, <2>2 DEF CountInv, Age, One
<1>9. ASSUME NEW s \in Streams, fb'[s].valid, fb'[s].frame = frame, fb'[s].after
      PROVE  Ahead(s)
  <2>1. CASE fb'[s] = fb[s]
    BY <1>9, <2>1 DEF NumbersInv, InStep, Ahead
  <2>2. CASE fb'[s] # fb[s]
    <3>1. PICK e \in 0..(SeqMod - 1) :
             /\ Acks(s, e) => Ahead(s)
             /\ fb'[s] = [valid |-> TRUE, frame |-> frame, expected |-> e, after |-> Acks(s, e)]
      BY <1>4, <2>2
    <3> QED BY <1>9, <3>1
  <2> QED BY <2>1, <2>2
<1>10. InStep'
  BY <1>9 DEF NumbersInv, InStep, Ahead
<1> QED BY <1>7, <1>8, <1>10

LEMMA ReplyNumbers ==
  ASSUME TimeInv, NumbersInv, Reply
  PROVE  NumbersInv'
<1>1. sent.on /\ UNCHANGED <<plan, starts, frame, sent, expected, took, blind>>
  BY DEF Reply, timeline
<1>2. PICK r \in SUBSET {s \in Streams : starts[s] <= frame} \ {{}} : Accept(Snapshot(r)) /\ old' = Snapshot(r)
  BY DEF Reply
<1>3. /\ Snapshot(r).records = {<<s, expected[s]>> : s \in r}
      /\ SessionTime(plan, frame) = [hs |-> Snapshot(r).hs, hus |-> Snapshot(r).hus]
  BY DEF Snapshot, SessionTime, Later
<1>4. ASSUME NEW s \in Streams, NEW e \in 0..(SeqMod - 1), <<s, e>> \in Snapshot(r).records
      PROVE  starts[s] <= frame /\ Told(s, e)
  <2>1. s \in r /\ e = expected[s] /\ starts[s] <= frame
    BY <1>2, <1>3, <1>4
  <2>2. Acks(s, e) <=> Ahead(s)
    BY <1>1, <2>1 DEF Acks, Ahead, NumbersInv, AckInv, CarryInv
  <2>3. expected[s] \in 0..(SeqMod - 1) /\ expected[s] \in Int /\ Base(s) \in Int
    BY BaseOf, Typed DEF TimeInv
  <2>4. CASE Ahead(s)
    <3>1. expected[s] = (Base(s) + 1) % SeqMod
      BY <2>4, BaseOf
    <3> QED BY <2>1, <2>2, <2>4, <3>1 DEF Told, One
  <2>5. CASE ~Ahead(s)
    <3>1. Base(s) = expected[s] /\ expected[s] % SeqMod = expected[s]
      BY <2>3, <2>5, BaseOf, Wraps
    <3>2. Base(s) + One(Acks(s, e)) = Base(s)
      BY <2>2, <2>3, <2>5 DEF One
    <3> QED BY <2>1, <2>2, <2>5, <3>1, <3>2 DEF Told
  <2> QED BY <2>1, <2>4, <2>5
<1>5. CarryInv' /\ CountInv' /\ InStep'
  BY <1>1, <1>2, <1>4, AcceptNumbers
<1>6. AckInv'
  BY <1>1 DEF NumbersInv, AckInv, Ahead
<1>7. OldInv'
  <2>1. frame \in 0..frame
    BY Typed DEF TimeInv
  <2>2. \A s \in Streams, e \in 0..(SeqMod - 1) : <<s, e>> \in old'.records =>
           sent'.on /\ starts'[s] <= frame' /\ Told(s, e)'
    BY <1>1, <1>2, <1>4 DEF Told, Acks, Base, Ahead, One
  <2>3. SessionTime(plan', frame) = [hs |-> old'.hs, hus |-> old'.hus]
    BY <1>1, <1>2, <1>3
  <2> QED BY <1>1, <2>1, <2>2, <2>3 DEF OldInv, SessionTime
<1> QED BY <1>5, <1>6, <1>7 DEF NumbersInv

-------------------------------------------------------------------------------
(***************************************************************************)
(* A reply of another frame.                                               *)
(***************************************************************************)
Steps == Interval \div Tick

LEMMA StepsOf == Steps \in Nat \ {0} /\ Interval = Tick * Steps
<1>1. Interval \div Tick \in Int /\ Interval = Tick * (Interval \div Tick) + (Interval % Tick)
  BY Numbers, DivisionOf
<1>2. Steps \in Int /\ Interval = Tick * Steps
  BY <1>1, Numbers DEF Steps
<1>3. ~(Steps <= 0)
  <2> SUFFICES ASSUME Steps <= 0 PROVE FALSE
    OBVIOUS
  <2>1. Tick * Steps <= 0
    BY <1>2, Numbers
  <2> QED BY <1>2, <2>1, Numbers
<1> QED BY <1>2, <1>3

LEMMA SessionTimeIs ==
  ASSUME TimeInv, NEW f \in Nat
  PROVE  SessionTime(plan, f) = [hs |-> (plan.hs + f * Steps) % Clock, hus |-> plan.hus]
<1>1. plan.hs \in 0..(Clock - 1) /\ plan.hus \in 0..(Tick - 1) /\ plan.hus \in Int
  BY Numbers DEF TimeInv, TypeOK
<1> DEFINE k == f * Steps
           x == plan.hus + f * Interval
<1>2. k \in Int /\ f * Interval = Tick * k
  <2>1. f * (Tick * Steps) = Tick * (f * Steps) /\ f * Steps \in Int
    BY StepsOf, Numbers
  <2> QED BY <2>1, StepsOf
<1>3. x \in Int /\ x = Tick * k + plan.hus
  <2>1. Tick * k \in Int
    BY <1>2, Numbers
  <2> QED BY <1>1, <1>2, <2>1
<1> HIDE DEF k, x
<1> DEFINE p == x \div Tick
           r == x % Tick
<1>4. p \in Int /\ x = Tick * p + r /\ r \in 0..(Tick - 1)
  BY <1>3, Numbers, DivisionOf
<1> HIDE DEF p, r
<1>5. p = k /\ r = plan.hus
  <2>1. Tick \in Nat \ {0} /\ Tick * p + r = Tick * k + plan.hus
    BY <1>3, <1>4, Numbers
  <2> QED BY <1>1, <1>2, <1>4, <2>1, OnlyDivision
<1>6. SessionTime(plan, f) = [hs |-> (plan.hs + p) % Clock, hus |-> r]
  BY DEF SessionTime, Later, p, r, x
<1> QED BY <1>5, <1>6 DEF k

\* ull_air_feedback_accept_frame: while a session does not last a whole turn of the
\* coarse clock, a reply of one frame lies in no other frame's slot.
LEMMA OtherSlot ==
  ASSUME (MaxFrame + 1) * Interval <= Clock * Tick, TimeInv, NEW f \in 0..frame, f # frame,
         NEW x, SessionTime(plan, f) = [hs |-> x.hs, hus |-> x.hus]
  PROVE  ~InSlot(plan, frame, x)
<1>1. /\ frame \in Nat /\ f \in Nat /\ f < frame /\ frame <= MaxFrame /\ MaxFrame \in Nat
      /\ plan.hs \in Int /\ plan.hus \in Int
  BY Numbers DEF TimeInv, TypeOK
<1> DEFINE t == SessionTime(plan, frame)
           a == plan.hs + f * Steps
           b == plan.hs + frame * Steps
           n == frame - f
<1>2. t = [hs |-> b % Clock, hus |-> plan.hus] /\ x.hs = a % Clock /\ x.hus = plan.hus
  <2>1. SessionTime(plan, f) = [hs |-> a % Clock, hus |-> plan.hus]
    BY <1>1, SessionTimeIs
  <2>2. t = [hs |-> b % Clock, hus |-> plan.hus]
    BY <1>1, SessionTimeIs
  <2> HIDE DEF a, b, t
  <2> QED BY <2>1, <2>2
<1>3. a \in Int /\ b \in Int /\ a - b = -(n * Steps) /\ n \in Nat /\ n > 0 /\ n <= MaxFrame
  <2>1. f * Steps \in Int /\ frame * Steps \in Int /\ n * Steps = frame * Steps - f * Steps
    BY <1>1, StepsOf
  <2> QED BY <1>1, <2>1
<1>4. (n + 1) * Steps <= Clock
  <2>1. (MaxFrame + 1) * (Tick * Steps) <= Clock * Tick
    BY StepsOf
  <2> DEFINE m == (MaxFrame + 1) * Steps
  <2>2. m \in Int /\ (MaxFrame + 1) * (Tick * Steps) = Tick * m
    BY <1>1, StepsOf, Numbers
  <2>3. (n + 1) * Steps <= m
    BY <1>1, <1>3, StepsOf
  <2> HIDE DEF m, n
  <2>4. Tick * m <= Tick * Clock
    BY <2>1, <2>2, Numbers
  <2>5. ~(m > Clock)
    <3> SUFFICES ASSUME m > Clock PROVE FALSE
      OBVIOUS
    <3>1. Tick * m >= Tick * (Clock + 1) /\ Tick * (Clock + 1) = Tick * Clock + Tick /\ Tick * Clock \in Int
      BY <2>2, Numbers
    <3> QED BY <2>2, <2>4, <3>1, Numbers
  <2>6. (n + 1) * Steps \in Int
    BY <1>3, StepsOf
  <2> QED BY <2>2, <2>3, <2>5, <2>6, Numbers
<1> HIDE DEF a, b, n
<1> DEFINE back == n * Steps
<1>5. back \in Int /\ back > 0 /\ back + Steps <= Clock
  <2>1. (n + 1) * Steps = n * Steps + Steps /\ n * Steps \in Int /\ n * Steps > 0
    BY <1>3, StepsOf
  <2> QED BY <1>4, <2>1
<1>6. a - b = -back
  BY <1>3
<1> HIDE DEF back
<1>7. ((a % Clock) - (b % Clock)) % Clock = Clock - back
  <2>1. ((a % Clock) - (b % Clock)) % Clock = (a - b) % Clock
    BY <1>3, Numbers, EarlyRemainder
  <2> DEFINE r == Clock - back
             q == -1
  <2>2. r \in 0..(Clock - 1) /\ q \in Int /\ Clock * q + r = a - b
    BY <1>5, <1>6, StepsOf, Numbers
  <2> HIDE DEF r, q
  <2>3. (Clock * q + r) % Clock = r
    BY <2>2, Numbers, RemainderOf
  <2> QED BY <2>1, <2>2, <2>3 DEF r
<1>8. Elapsed(t, x) = (Clock - back) * Tick
  <2>1. Elapsed(t, x) = ((x.hs - t.hs) % Clock) * Tick + x.hus - t.hus
    BY DEF Elapsed
  <2>2. x.hs - t.hs = (a % Clock) - (b % Clock) /\ x.hus = plan.hus /\ t.hus = plan.hus
    BY <1>2
  <2>3. (Clock - back) * Tick \in Int
    BY <1>5, Numbers
  <2> HIDE DEF t
  <2> QED BY <1>1, <1>7, <2>1, <2>2, <2>3
<1>9. (Clock - back) * Tick >= Interval
  <2> DEFINE d == Clock - back
  <2>1. d \in Int /\ d >= Steps
    BY <1>5, StepsOf, Numbers
  <2> HIDE DEF d
  <2>2. d * Tick >= Steps * Tick /\ Steps * Tick = Tick * Steps
    BY <2>1, StepsOf, Numbers
  <2> QED BY <2>2, StepsOf DEF d
<1>10. Elapsed(t, x) \notin 0..(Interval - 1)
  <2>1. (Clock - back) * Tick \in Int
    BY <1>5, Numbers
  <2> HIDE DEF t
  <2> QED BY <1>8, <1>9, <2>1, Numbers
<1> QED BY <1>10 DEF InSlot

LEMMA OldReplyNumbers ==
  ASSUME (MaxFrame + 1) * Interval <= Clock * Tick, TimeInv, NumbersInv, OldReply
  PROVE  NumbersInv'
<1>1. sent.on /\ old # NoSnapshot /\ Accept(old) /\ UNCHANGED <<plan, starts, frame, sent, expected, took, blind, old>>
  BY DEF OldReply, timeline
<1>2. PICK f \in 0..frame :
         /\ SessionTime(plan, f) = [hs |-> old.hs, hus |-> old.hus]
         /\ f = frame => \A s \in Streams, e \in 0..(SeqMod - 1) : <<s, e>> \in old.records =>
                sent.on /\ starts[s] <= frame /\ Told(s, e)
  BY <1>1 DEF NumbersInv, OldInv
<1>3. InSlot(plan, frame, old) => f = frame
  BY <1>2, OtherSlot
<1>4. InSlot(plan, frame, old) =>
          \A s \in Streams, e \in 0..(SeqMod - 1) : <<s, e>> \in old.records =>
              starts[s] <= frame /\ Told(s, e)
  BY <1>2, <1>3
<1>5. CarryInv' /\ CountInv' /\ InStep'
  BY <1>1, <1>4, AcceptNumbers
<1>6. AckInv'
  BY <1>1 DEF NumbersInv, AckInv, Ahead
<1>7. OldInv'
  BY <1>1 DEF NumbersInv, OldInv, SessionTime, Later, Told, Acks, Base, Ahead, One
<1> QED BY <1>5, <1>6, <1>7 DEF NumbersInv

\* An expired number and a taken packet's both go on to the next.
LEMMA FrameNumbers ==
  ASSUME TimeInv, NumbersInv, NextFrame
  PROVE  NumbersInv'
<1>1. UNCHANGED <<plan, starts, blind, fb, old>> /\ frame' = frame + 1 /\ took' = {} /\ sent' = Silent
  BY DEF NextFrame, timeline
<1>2. expected' = [s \in Streams |-> IF s \in took \/ frame <= starts[s] THEN expected[s]
                                     ELSE (expected[s] + 1) % SeqMod]
  BY DEF NextFrame
<1>3. /\ frame \in Nat /\ starts[1] = 0 /\ Streams = {1, 2}
      /\ \A s \in Streams : starts[s] \in Int /\ fb[s].frame \in Int /\ fb[s].expected \in Int
                            /\ fb[s].after \in BOOLEAN
  BY Typed DEF TimeInv, Channel, Streams, TypeOK
<1>4. sent'.mask = {} /\ sent'.known = {} /\ sent'.on = FALSE
  BY <1>1 DEF Silent
<1>5. CarryInv'
  <2>1. ASSUME NEW s \in Streams, fb[s].valid
        PROVE  /\ starts[s] <= fb[s].frame /\ fb[s].frame <= frame' /\ fb[s].frame # frame'
               /\ fb[s].after => starts[s] < fb[s].frame
    <3>1. starts[s] <= fb[s].frame /\ fb[s].frame <= frame /\ (fb[s].after => starts[s] < fb[s].frame)
      BY <2>1 DEF NumbersInv, CarryInv
    <3> QED BY <1>1, <1>3, <3>1
  <2>2. blind' \subseteq {1} \ took' /\ (1 \in blind' => frame' > 1)
    BY <1>1, <1>3 DEF NumbersInv, CarryInv
  <2> QED BY <1>1, <1>4, <2>1, <2>2 DEF CarryInv
<1>6. AckInv' /\ InStep'
  <2>1. \A s \in Streams : fb'[s].valid => fb'[s].frame # frame'
    BY <1>4, <1>5 DEF CarryInv
  <2> QED BY <1>4, <1>5, <2>1 DEF AckInv, InStep, CarryInv
<1>7. ASSUME NEW s \in Streams
      PROVE  Base(s)' = (Base(s) + One(frame > starts[s])) % SeqMod
  <2>1. expected[s] \in 0..(SeqMod - 1) /\ expected[s] \in Int /\ Base(s) \in Int /\ Base(s) \in 0..(SeqMod - 1)
    BY BaseOf, Typed DEF TimeInv
  <2> DEFINE k == One(frame > starts[s])
  <2>2. k \in Int /\ (frame > starts[s] => k = 1) /\ (frame <= starts[s] => k = 0)
    BY <1>3 DEF One
  <2>3. Base(s)' = IF s \in blind THEN (expected'[s] - 1) % SeqMod ELSE expected'[s] % SeqMod
    <3>1. expected'[s] \in Int
      <4>1. expected[s] + 1 \in Int
        BY <2>1
      <4>2. (expected[s] + 1) % SeqMod \in 0..(SeqMod - 1)
        BY <4>1, Wraps
      <4> QED BY <1>2, <2>1, <4>2, Numbers
    <3>2. Ahead(s)' <=> s \in blind
      BY <1>1 DEF Ahead
    <3>3. expected'[s] - 0 = expected'[s]
      BY <3>1
    <3> QED BY <3>2, <3>3 DEF Base, One
  <2> HIDE DEF k
  <2>4. CASE s \in took
    <3>1. frame > starts[s] /\ s \notin blind
      BY <1>3, <2>4 DEF NumbersInv, CarryInv
    <3>2. expected'[s] = expected[s] /\ expected[s] = (Base(s) + 1) % SeqMod
      BY <1>2, <2>4, BaseOf DEF Ahead
    <3>3. expected[s] % SeqMod = expected[s]
      BY <2>1, Wraps
    <3> QED BY <2>2, <2>3, <3>1, <3>2, <3>3 DEF k
  <2>5. CASE s \notin took
    <3>1. expected'[s] = (expected[s] + k) % SeqMod
      <4>1. CASE frame <= starts[s]
        <5>1. expected'[s] = expected[s] /\ expected[s] % SeqMod = expected[s]
          BY <1>2, <2>1, <4>1, Wraps
        <5>2. expected[s] + k = expected[s]
          BY <2>1, <2>2, <4>1
        <5> QED BY <5>1, <5>2
      <4>2. CASE ~(frame <= starts[s])
        <5>1. expected'[s] = (expected[s] + 1) % SeqMod
          BY <1>2, <2>5, <4>2
        <5>2. k = 1
          BY <1>3, <2>2, <4>2
        <5> QED BY <5>1, <5>2
      <4> QED BY <4>1, <4>2
    <3>2. CASE s \in blind
      <4> DEFINE a == expected[s] + k
                 b == Base(s) + 1
                 c == -1
                 d == k - 1
      <4>1. /\ a \in Int /\ b \in Int /\ c \in Int /\ d \in Int
            /\ a + c = expected[s] + d /\ b + d = Base(s) + k
        BY <2>1, <2>2
      <4>2. expected'[s] = a % SeqMod /\ expected[s] = b % SeqMod
        BY <3>1, <3>2, BaseOf DEF Ahead
      <4> HIDE DEF a, b, d
      <4>3. ((a % SeqMod) + c) % SeqMod = (a + c) % SeqMod /\ ((b % SeqMod) + d) % SeqMod = (b + d) % SeqMod
        BY <4>1, Wraps
      <4>4. expected'[s] - 1 = expected'[s] + c
        <5>1. a % SeqMod \in 0..(SeqMod - 1)
          BY <4>1, Wraps
        <5> QED BY <4>2, <5>1
      <4>5. (expected'[s] + c) % SeqMod = (Base(s) + k) % SeqMod
        BY <4>1, <4>2, <4>3
      <4> QED BY <2>3, <3>2, <4>4, <4>5 DEF k
    <3>3. CASE s \notin blind
      <4> DEFINE a == expected[s] + k
      <4>1. a \in Int /\ expected'[s] = a % SeqMod
        BY <2>1, <2>2, <3>1
      <4>2. Base(s) = expected[s]
        BY <2>5, <3>3, BaseOf DEF Ahead
      <4> HIDE DEF a
      <4>3. a % SeqMod \in 0..(SeqMod - 1) /\ a % SeqMod \in Int
        <5>1. a % SeqMod \in 0..(SeqMod - 1)
          BY <4>1, Wraps
        <5> QED BY <5>1, Numbers
      <4>4. (a % SeqMod) % SeqMod = a % SeqMod
        BY <4>3, Wraps
      <4>5. Base(s)' = a % SeqMod
        BY <2>3, <3>3, <4>1, <4>4
      <4> QED BY <4>2, <4>5 DEF a, k
    <3> QED BY <3>2, <3>3
  <2> QED BY <2>4, <2>5
<1>8. ASSUME NEW s \in Streams
      PROVE  Age(frame', starts[s]) = Age(frame, starts[s]) + One(frame > starts[s])
  BY <1>1, <1>3 DEF Age, One
<1>9. ASSUME NEW s \in Streams, NEW a \in Int, Base(s) = a % SeqMod
      PROVE  Base(s)' = (a + One(frame > starts[s])) % SeqMod
  <2>1. One(frame > starts[s]) \in Int
    BY DEF One
  <2> QED BY <1>7, <1>9, <2>1, Wraps
<1>10. CountInv'
  <2>1. 1 \in blind => Base(1)' = Age(frame', 0) % SeqMod
    <3> DEFINE age == Age(frame, 0)
    <3>1. age \in Int
      BY <1>3 DEF Age
    <3>2. Age(frame', 0) = age + One(frame > 0)
      BY <1>3, <1>8
    <3>3. 1 \in blind => Base(1) = age % SeqMod
      BY DEF NumbersInv, CountInv
    <3> HIDE DEF age
    <3>4. 1 \in blind => Base(1)' = (age + One(frame > 0)) % SeqMod
      BY <1>3, <1>9, <3>1, <3>3
    <3> QED BY <3>2, <3>4
  <2>2. ASSUME NEW s \in Streams, fb[s].valid
        PROVE  Base(s)' = (fb[s].expected + Age(frame', starts[s]) - Age(fb[s].frame, starts[s])
                           - One(fb[s].after)) % SeqMod
    <3> DEFINE age == Age(frame, starts[s])
               then == Age(fb[s].frame, starts[s])
               k == One(frame > starts[s])
               a == fb[s].expected + age - then - One(fb[s].after)
    <3>1. age \in Int /\ then \in Int /\ k \in Int /\ One(fb[s].after) \in Int /\ fb[s].expected \in Int
      BY <1>3 DEF Age, One
    <3>2. Age(frame', starts[s]) = age + k
      BY <1>8
    <3>3. Base(s) = a % SeqMod
      BY <2>2 DEF NumbersInv, CountInv
    <3> HIDE DEF age, then, k
    <3>4. a \in Int /\ a + k = fb[s].expected + Age(frame', starts[s]) - then - One(fb[s].after)
      BY <3>1, <3>2
    <3> HIDE DEF a
    <3>5. Base(s)' = (a + k) % SeqMod
      BY <1>9, <3>3, <3>4 DEF k
    <3> QED BY <3>4, <3>5 DEF then
  <2> QED BY <1>1, <1>4, <2>1, <2>2 DEF CountInv
<1>11. OldInv'
  <2> SUFFICES ASSUME old # NoSnapshot PROVE OldInv'
    BY <1>1 DEF OldInv
  <2>1. PICK f \in 0..frame : SessionTime(plan, f) = [hs |-> old.hs, hus |-> old.hus]
    BY DEF NumbersInv, OldInv
  <2>2. SessionTime(plan', f) = SessionTime(plan, f)
    BY <1>1 DEF SessionTime, Later
  <2>3. f \in 0..frame' /\ f # frame'
    BY <1>1, <1>3
  <2> QED BY <1>1, <2>1, <2>2, <2>3 DEF OldInv
<1> QED BY <1>5, <1>6, <1>10, <1>11 DEF NumbersInv

\* ull_air_feedback_sequences, its extrapolation and ull_air_feedback_note_tx: in a
\* session shorter than a turn of the coarse clock, and wherever the headset counts
\* from, the number of a packet that was derived from a reply is the one the headset
\* expects, and only a packet that was taken is noted as acknowledged. The one stream
\* of which this is not so is named: the first, sent before any reply to a headset
\* exactly one ahead; it is one behind, and is never taken.
THEOREM SequencesInStep ==
  ASSUME (MaxFrame + 1) * Interval <= Clock * Tick
  PROVE  Spec => []InStep
<1>1. Init => NumbersInv
  BY NumbersStart
<1>2. TimeInv /\ NumbersInv /\ [Next]_vars => NumbersInv'
  <2> SUFFICES ASSUME TimeInv, NumbersInv, [Next]_vars PROVE NumbersInv'
    OBVIOUS
  <2>1. CASE UNCHANGED vars
    BY <2>1, NumbersUnchanged DEF vars, timeline
  <2>2. CASE SendE0
    BY <2>2, NumbersUnchanged DEF SendE0
  <2>3. CASE Shift
    BY <2>3, NumbersUnchanged DEF Shift
  <2> QED BY <2>1, <2>2, <2>3, PrepareNumbers, TransmitNumbers, TakesNumbers, ReplyNumbers,
             OldReplyNumbers, FrameNumbers DEF Next
<1>3. NumbersInv => InStep
  BY DEF NumbersInv
<1> QED BY <1>1, <1>2, <1>3, TimesKept, PTL DEF Spec

-------------------------------------------------------------------------------
(***************************************************************************)
(* AirParent: E2 is confirmed only when the headset has taken it.          *)
(***************************************************************************)
Polled == [sn |-> poll.sn, nesn |-> poll.nesn]
AskedE1 == reply.present /\ reply.kind = "e1" /\ reply.sn = poll.nesn

\* While E1 is awaited the frames carry the hardware's bits.
Awaits ==
    /\ ~air.active
    /\ reply.present => poll.sent
    /\ poll.sent =>
        /\ poll.kind = "empty"
        /\ ~moved => acl = Polled
        /\ moved => headset.sn = poll.nesn
        /\ acl # Polled => headset.out = "empty" /\ ~AskedE1
        /\ AskedE1 => headset.out = "e1" /\ headset.sn = poll.nesn
        /\ reply.present /\ reply.nesn # poll.sn => headset.nesn = reply.nesn

\* While E2 is on its way the hardware's bit is not the one of E2.
Pends ==
    /\ poll.sent /\ poll.kind = "e2" /\ poll.sn = air.tx_sn
    /\ air.hardware.sn # air.tx_sn
    /\ ~moved => acl = air.hardware
    /\ headset.nesn # air.tx_sn => headset.took
    /\ reply.present /\ reply.nesn # air.tx_sn => headset.took

JoinInv ==
    /\ JoinTypeOK
    /\ confirmed => headset.took
    /\ trial /\ e1 = "expected" => Awaits
    /\ trial /\ air.active => e1 = "air" /\ committed
    /\ trial /\ air.active /\ air.pending => Pends

LEMMA JoinStarts == ASSUME JoinInit PROVE JoinInv
<1> USE DEF JoinInit, Bit, Nothing, NoReply, Inactive
<1>1. /\ acl \in [sn : Bit, nesn : Bit]
      /\ headset \in [sn : Bit, nesn : Bit, out : {"empty", "e1"}, e1 : BOOLEAN, took : BOOLEAN]
      /\ air \in [active : BOOLEAN, pending : BOOLEAN, tx_sn : Bit, rx_nesn : Bit,
                  hardware : [sn : Bit, nesn : Bit]]
      /\ ~air.active
  <2>1. headset \in [sn : Bit, nesn : Bit, out : {"empty", "e1"}, e1 : BOOLEAN, took : BOOLEAN]
    OBVIOUS
  <2>2. [sn |-> 0, nesn |-> 0] \in [sn : Bit, nesn : Bit]
    OBVIOUS
  <2>3. /\ air \in [active : BOOLEAN, pending : BOOLEAN, tx_sn : Bit, rx_nesn : Bit,
                    hardware : [sn : Bit, nesn : Bit]]
        /\ ~air.active
    BY <2>2
  <2> QED BY <2>1, <2>3
<1>2. /\ poll \in [sent : BOOLEAN, kind : {"empty", "e2"}, sn : Bit, nesn : Bit] /\ ~poll.sent
      /\ reply \in [present : BOOLEAN, kind : {"empty", "e1"}, sn : Bit, nesn : Bit] /\ ~reply.present
  OBVIOUS
<1>3. {fresh, committed, confirmed, heard, moved, trial} \subseteq BOOLEAN
  BY Zenon
<1>4. e1 \in {"expected", "air", "acl"} /\ ~confirmed
  OBVIOUS
<1>5. JoinTypeOK
  BY <1>1, <1>2, <1>3, <1>4 DEF JoinTypeOK
<1>6. Awaits
  BY <1>1, <1>2 DEF Awaits
<1> QED BY <1>1, <1>4, <1>5, <1>6 DEF JoinInv

\* What a PDU does to the headset.
LEMMA Heard ==
  ASSUME JoinTypeOK, NEW p, p.sn \in Bit, p.nesn \in Bit, Hears(p)
  PROVE  /\ headset' \in [sn : Bit, nesn : Bit, out : {"empty", "e1"}, e1 : BOOLEAN, took : BOOLEAN]
         /\ headset'.sn = p.nesn
         /\ p.nesn = headset.sn => headset'.out = headset.out
         /\ headset'.nesn = IF p.sn = headset.nesn THEN 1 - headset.nesn ELSE headset.nesn
         /\ headset.took => headset'.took
         /\ p.sn = headset.nesn /\ p.kind = "e2" => headset'.took
<1> DEFINE h == headset
<1>1. h \in [sn : Bit, nesn : Bit, out : {"empty", "e1"}, e1 : BOOLEAN, took : BOOLEAN]
  BY DEF JoinTypeOK
<1>2. PICK e \in BOOLEAN : 
        headset' = [sn   |-> IF p.nesn # h.sn THEN 1 - h.sn ELSE h.sn,
                    nesn |-> IF p.sn = h.nesn THEN 1 - h.nesn ELSE h.nesn,
                    out  |-> IF p.nesn = h.sn THEN h.out ELSE IF e THEN "e1" ELSE "empty",
                    e1   |-> h.e1 /\ ~e,
                    took |-> h.took \/ (p.sn = h.nesn /\ p.kind = "e2")]
  BY DEF Hears
<1> HIDE DEF h
<1>3. (IF p.nesn # h.sn THEN 1 - h.sn ELSE h.sn) \in Bit /\ (IF p.sn = h.nesn THEN 1 - h.nesn ELSE h.nesn) \in Bit
  BY <1>1 DEF Bit
<1>4. headset' \in [sn : Bit, nesn : Bit, out : {"empty", "e1"}, e1 : BOOLEAN, took : BOOLEAN]
  BY <1>1, <1>2, <1>3
<1>5. headset'.sn = p.nesn
  BY <1>1, <1>2 DEF Bit
<1> QED BY <1>1, <1>2, <1>4, <1>5 DEF h

LEMMA HearsPoll == ASSUME JoinInv, HeadsetHears PROVE JoinInv'
<1> USE DEF HeadsetHears, session
<1>1. JoinTypeOK /\ poll.sn \in Bit /\ poll.nesn \in Bit /\ headset.nesn \in Bit /\ headset.sn \in Bit
  BY DEF JoinInv, JoinTypeOK
<1>2. /\ headset' \in [sn : Bit, nesn : Bit, out : {"empty", "e1"}, e1 : BOOLEAN, took : BOOLEAN]
      /\ headset'.sn = poll.nesn
      /\ poll.nesn = headset.sn => headset'.out = headset.out
      /\ headset'.nesn = IF poll.sn = headset.nesn THEN 1 - headset.nesn ELSE headset.nesn
      /\ headset.took => headset'.took
      /\ poll.sn = headset.nesn /\ poll.kind = "e2" => headset'.took
  BY <1>1, Heard
<1>3. JoinTypeOK'
  <2>1. {fresh, committed, confirmed, heard, moved, trial}' \subseteq BOOLEAN
    BY <1>1, Zenon DEF JoinTypeOK
  <2> QED BY <1>1, <1>2, <2>1 DEF JoinTypeOK
<1>4. ASSUME trial, e1 = "expected" PROVE Awaits'
  BY <1>1, <1>2, <1>4 DEF JoinInv, Awaits, Polled, AskedE1, Bit
<1>5. ASSUME trial, air.active, air.pending PROVE Pends'
  BY <1>1, <1>2, <1>5 DEF JoinInv, Pends, Bit
<1> QED BY <1>2, <1>3, <1>4, <1>5 DEF JoinInv

LEMMA HeadsetAnswers == ASSUME JoinInv, HeadsetReplies PROVE JoinInv'
<1> USE DEF HeadsetReplies, session
<1>1. JoinTypeOK
  BY DEF JoinInv
<1>2. reply' \in [present : BOOLEAN, kind : {"empty", "e1"}, sn : Bit, nesn : Bit]
  BY <1>1 DEF JoinTypeOK
<1>3. JoinTypeOK'
  <2>1. {fresh, committed, confirmed, heard, moved, trial}' \subseteq BOOLEAN
    BY <1>1, Zenon DEF JoinTypeOK
  <2> QED BY <1>1, <1>2, <2>1 DEF JoinTypeOK
<1>4. reply'.nesn = headset.nesn /\ reply'.sn = headset.sn /\ reply'.kind = headset.out
  OBVIOUS
<1>5. ASSUME trial, e1 = "expected" PROVE Awaits'
  BY <1>1, <1>4, <1>5 DEF JoinInv, Awaits, Polled, AskedE1, Bit, JoinTypeOK
<1>6. ASSUME trial, air.active, air.pending PROVE Pends'
  BY <1>4, <1>6 DEF JoinInv, Pends
<1> QED BY <1>3, <1>5, <1>6 DEF JoinInv

LEMMA AclPolls == ASSUME JoinInv, AclPoll PROVE JoinInv'
<1> USE DEF AclPoll, session
<1> DEFINE p == [kind |-> "empty", sn |-> acl.sn, nesn |-> acl.nesn]
<1>1. /\ JoinTypeOK /\ p.sn \in Bit /\ p.nesn \in Bit /\ headset.nesn \in Bit /\ headset.sn \in Bit
      /\ p.sn = acl.sn /\ p.nesn = acl.nesn /\ poll.sn \in Bit
      /\ acl \in [sn : Bit, nesn : Bit] /\ Polled.sn = poll.sn /\ Polled.nesn = poll.nesn
  BY DEF JoinInv, JoinTypeOK, Polled
<1>2. /\ headset' \in [sn : Bit, nesn : Bit, out : {"empty", "e1"}, e1 : BOOLEAN, took : BOOLEAN]
      /\ headset'.sn = acl.nesn
      /\ acl.nesn = headset.sn => headset'.out = headset.out
      /\ headset'.nesn = IF acl.sn = headset.nesn THEN 1 - headset.nesn ELSE headset.nesn
      /\ headset.took => headset'.took
  <2> HIDE DEF p
  <2>1. Hears(p)
    BY DEF p
  <2> QED BY <1>1, <2>1, Heard
<1>3. JoinTypeOK'
  <2>1. {fresh, committed, confirmed, heard, moved, trial}' \subseteq BOOLEAN
    BY <1>1, Zenon DEF JoinTypeOK
  <2> QED BY <1>1, <1>2, <2>1 DEF JoinTypeOK
<1> HIDE DEF p
<1>4. ASSUME trial, e1 = "expected" PROVE Awaits'
  <2>1. Awaits
    BY <1>4 DEF JoinInv
  <2>2. CASE ~poll.sent
    BY <2>1, <2>2 DEF Awaits
  <2>3. CASE poll.sent
    <3>1. acl.sn = poll.sn /\ acl.nesn = poll.nesn /\ acl = Polled
      BY <1>1, <2>1, <2>3 DEF Awaits
    <3> QED BY <1>1, <1>2, <2>1, <2>3, <3>1 DEF Awaits, Polled, AskedE1, Bit
  <2> QED BY <2>2, <2>3
<1>5. ASSUME trial, air.active, air.pending PROVE Pends'
  BY <1>1, <1>2, <1>5 DEF JoinInv, Pends, Bit
<1> QED BY <1>2, <1>3, <1>4, <1>5 DEF JoinInv

LEMMA AclReplies == ASSUME JoinInv, AclReply PROVE JoinInv'
<1> USE DEF AclReply
<1>1. /\ JoinTypeOK /\ headset.nesn \in Bit /\ headset.sn \in Bit
      /\ acl \in [sn : Bit, nesn : Bit] /\ Polled.sn = poll.sn /\ Polled.nesn = poll.nesn
  BY DEF JoinInv, JoinTypeOK, Polled
<1>2. acl' \in [sn : Bit, nesn : Bit] /\ e1' \in {"expected", "air", "acl"} /\ (e1' = "expected" => e1 = "expected")
      /\ (e1 = "air" => e1' = "air")
  BY <1>1 DEF JoinTypeOK, Bit
<1>3. JoinTypeOK'
  <2>1. {fresh, committed, confirmed, heard, moved, trial}' \subseteq BOOLEAN
    BY <1>1, Zenon DEF JoinTypeOK
  <2> QED BY <1>1, <1>2, <2>1 DEF JoinTypeOK
<1>4. ASSUME trial, e1' = "expected" PROVE Awaits'
  <2>1. Awaits /\ e1 = "expected"
    BY <1>2, <1>4 DEF JoinInv
  <2>2. ~(headset.out = "e1" /\ headset.sn = acl.nesn)
    BY <1>4, <2>1
  <2>3. CASE ~poll.sent
    BY <2>1, <2>3 DEF Awaits
  <2>4. CASE poll.sent /\ acl = Polled
    <3>1. headset.sn = poll.nesn /\ headset.out # "e1"
      BY <1>1, <2>1, <2>2, <2>4 DEF Awaits
    <3>2. headset.out = "empty"
      BY <1>1, <3>1 DEF JoinTypeOK
    <3> QED BY <2>1, <2>4, <3>1, <3>2 DEF Awaits, Polled, AskedE1
  <2>5. CASE poll.sent /\ acl # Polled
    BY <2>1, <2>5 DEF Awaits, Polled, AskedE1
  <2> QED BY <2>3, <2>4, <2>5
<1>5. ASSUME trial, air.active, air.pending PROVE Pends'
  BY <1>1, <1>5 DEF JoinInv, Pends
<1> QED BY <1>2, <1>3, <1>4, <1>5 DEF JoinInv

(***************************************************************************)
(* A step of the trial, on the operators' record.                          *)
(***************************************************************************)
AirBits == [active : BOOLEAN, pending : BOOLEAN, tx_sn : Bit, rx_nesn : Bit,
            hardware : [sn : Bit, nesn : Bit]]
AirRecords == [air : AirBits, e1 : {"expected", "air", "acl"}, committed : BOOLEAN, confirmed : BOOLEAN]

\* What has just been activated: E2 will have the bit that the headset expects
\* and the hardware does not have.
JustActivated(s) ==
    /\ ~s.air.pending /\ poll.sn # s.air.tx_sn /\ acl.sn # s.air.tx_sn
    /\ headset.nesn = s.air.tx_sn

Unanswered(s) ==
    /\ poll.kind = "e2" /\ poll.sn = s.air.tx_sn
    /\ s.air.hardware.sn # s.air.tx_sn
    /\ headset.nesn # s.air.tx_sn => headset.took
    /\ reply.present /\ reply.nesn # s.air.tx_sn => headset.took

\* What is known of the record while a frame is evaluated.
Known(s) ==
    /\ s \in AirRecords
    /\ s.confirmed => headset.took
    /\ s.e1 = "expected" => e1 = "expected"
    /\ s.air.active => s.e1 = "air"
    /\ s.air.active /\ ~s.committed => JustActivated(s)
    /\ s.air.active /\ s.air.pending => Unanswered(s)

LEMMA ContinuedWell ==
  ASSUME NEW s \in AirRecords, NEW rx, rx.sn \in Bit, rx.nesn \in Bit, s.air.active
  PROVE  LET a == s.air
             ack == Acknowledges(a, rx)
             c == Continued(s, rx)
         IN  /\ c \in AirRecords /\ c.e1 = s.e1 /\ c.committed = s.committed
             /\ c.confirmed <=> s.confirmed \/ (ack /\ a.pending)
             /\ c.air.hardware = a.hardware
             /\ c.air.pending <=> a.pending /\ ~ack
             /\ ~ack => c.air.tx_sn = a.tx_sn
<1> DEFINE a == s.air
           ack == Acknowledges(a, rx)
           n == [a EXCEPT !.tx_sn = IF ack THEN 1 - @ ELSE @,
                          !.pending = @ /\ ~ack,
                          !.rx_nesn = IF rx.sn = @ THEN 1 - @ ELSE @]
           agree == n.tx_sn = acl.sn /\ n.rx_nesn = acl.nesn
           done == ack /\ a.pending /\ agree
           b == [n EXCEPT !.active = ~done]
<1>1. Continued(s, rx) = [s EXCEPT !.air = b, !.confirmed = @ \/ (ack /\ a.pending)]
  BY DEF Continued
<1>2. a \in AirBits
  BY DEF AirRecords
<1>3. ack \in BOOLEAN
  BY DEF Acknowledges, Exact
<1> HIDE DEF ack
<1>4. /\ n \in AirBits /\ n.hardware = a.hardware /\ (n.pending <=> a.pending /\ ~ack)
      /\ ~ack => n.tx_sn = a.tx_sn
  <2>1. (IF ack THEN 1 - a.tx_sn ELSE a.tx_sn) \in Bit /\ (IF rx.sn = a.rx_nesn THEN 1 - a.rx_nesn ELSE a.rx_nesn) \in Bit
    BY <1>2 DEF AirBits, Bit
  <2> QED BY <1>2, <1>3, <2>1 DEF AirBits
<1> HIDE DEF n, agree
<1>5. (~done) \in BOOLEAN
  <2>1. done \in BOOLEAN
    OBVIOUS
  <2> HIDE DEF done
  <2> QED BY <2>1
<1>6. /\ b \in AirBits /\ b.hardware = n.hardware /\ b.pending = n.pending /\ b.tx_sn = n.tx_sn
  BY <1>4, <1>5 DEF AirBits
<1> HIDE DEF b, a, done
<1>7. s.confirmed \/ (ack /\ a.pending) \in BOOLEAN
  BY Zenon
<1> DEFINE c == [s EXCEPT !.air = b, !.confirmed = @ \/ (ack /\ a.pending)]
<1>8. /\ c \in AirRecords /\ c.e1 = s.e1 /\ c.committed = s.committed /\ c.air = b
      /\ c.confirmed <=> s.confirmed \/ (ack /\ a.pending)
  BY <1>6, <1>7 DEF AirRecords
<1> HIDE DEF c
<1>9. Continued(s, rx) = c
  BY <1>1 DEF c
<1> QED BY <1>4, <1>6, <1>8, <1>9 DEF a, ack

LEMMA ReceivedKnown ==
  ASSUME JoinInv, trial, reply.present, NEW s, Known(s)
  PROVE  Known(Received(s, reply))
<1>1. /\ s \in AirRecords /\ reply.sn \in Bit /\ reply.nesn \in Bit /\ acl \in [sn : Bit, nesn : Bit]
      /\ poll.sn \in Bit /\ poll.nesn \in Bit /\ headset.nesn \in Bit
  BY DEF Known, JoinInv, JoinTypeOK
<1>2. CASE ~s.air.active /\ Activates(s, reply)
  <2>1. Received(s, reply) = Activated(s, reply)
    BY <1>2 DEF Received
  <2>2. e1 = "expected" /\ s.e1 = "expected" /\ Awaits /\ poll.sent /\ AskedE1
    BY <1>2 DEF Known, Activates, JoinInv, Awaits, AskedE1
  <2>3. /\ acl = Polled /\ headset.nesn = reply.nesn /\ reply.nesn # poll.sn /\ acl.sn = poll.sn
    BY <1>2, <2>2 DEF Activates, Awaits, Polled
  <2> DEFINE a == [active |-> TRUE, pending |-> FALSE, tx_sn |-> reply.nesn,
                   rx_nesn |-> 1 - reply.sn, hardware |-> acl]
             d == [s EXCEPT !.e1 = "air", !.air = a]
  <2>4. /\ a \in AirBits /\ a.tx_sn = reply.nesn /\ ~a.pending /\ a.active
    BY <1>1 DEF AirBits, Bit
  <2> HIDE DEF a
  <2>5. d \in AirRecords /\ d.air = a /\ d.e1 = "air" /\ d.confirmed = s.confirmed
    BY <1>1, <2>4 DEF AirRecords
  <2>6. Activated(s, reply) = d
    BY DEF Activated, a
  <2> HIDE DEF d
  <2>7. Known(d)
    BY <2>3, <2>4, <2>5 DEF Known, JustActivated
  <2> QED BY <2>1, <2>6, <2>7
<1>3. CASE s.air.active /\ Current(s.air)
  <2>1. Received(s, reply) = Continued(s, reply)
    BY <1>3 DEF Received
  <2> DEFINE c == Continued(s, reply)
             ack == Acknowledges(s.air, reply)
  <2>2. /\ c \in AirRecords /\ c.e1 = s.e1 /\ c.committed = s.committed
        /\ c.confirmed <=> s.confirmed \/ (ack /\ s.air.pending)
        /\ c.air.hardware = s.air.hardware
        /\ c.air.pending <=> s.air.pending /\ ~ack
        /\ ~ack => c.air.tx_sn = s.air.tx_sn
    BY <1>1, <1>3, ContinuedWell
  <2> HIDE DEF c
  <2>3. ack => poll.sn = s.air.tx_sn /\ reply.nesn # s.air.tx_sn
    BY DEF Acknowledges, Exact
  <2> HIDE DEF ack
  <2>4. s.e1 = "air" /\ (s.confirmed => headset.took)
    BY <1>3 DEF Known
  <2>5. c.confirmed => headset.took
    BY <1>3, <2>2, <2>3, <2>4 DEF Known, Unanswered
  <2>6. ~c.committed => JustActivated(c)
    BY <1>3, <2>2, <2>3 DEF Known, JustActivated
  <2>7. c.air.pending => Unanswered(c)
    BY <1>3, <2>2, <2>3 DEF Known, Unanswered
  <2>8. Known(c)
    BY <2>2, <2>4, <2>5, <2>6, <2>7 DEF Known
  <2> QED BY <2>1, <2>8 DEF c
<1>4. CASE ~(~s.air.active /\ Activates(s, reply)) /\ ~(s.air.active /\ Current(s.air))
  <2>1. Received(s, reply) = s
    BY <1>4 DEF Received
  <2> QED BY <2>1
<1> QED BY <1>2, <1>3, <1>4

LEMMA CollectedKnown ==
  ASSUME JoinInv, trial, 
         NEW s \in Collected([air |-> air, e1 |-> e1, committed |-> committed, confirmed |-> confirmed])
  PROVE  Known(s)
<1> DEFINE r == [air |-> air, e1 |-> e1, committed |-> committed, confirmed |-> confirmed]
<1>1. Known(r)
  <2>1. /\ air \in AirBits /\ e1 \in {"expected", "air", "acl"} /\ committed \in BOOLEAN /\ confirmed \in BOOLEAN
    BY DEF JoinInv, JoinTypeOK, AirBits
  <2>2. r \in AirRecords /\ r.air = air /\ r.e1 = e1 /\ r.committed = committed /\ r.confirmed = confirmed
    BY <2>1 DEF AirRecords
  <2> HIDE DEF r
  <2>3. air.active /\ air.pending => Unanswered(r)
    BY <2>2 DEF JoinInv, Pends, Unanswered
  <2> QED BY <2>2, <2>3 DEF Known, JoinInv
<1> HIDE DEF r
<1>2. s \in Collected(r)
  BY DEF r
<1>3. CASE ~reply.present
  BY <1>1, <1>2, <1>3 DEF Collected
<1>4. CASE reply.present
  <2>1. Known(Received(r, reply))
    BY <1>1, <1>4, ReceivedKnown
  <2>2. Known(Received(Received(r, reply), reply))
    BY <1>4, <2>1, ReceivedKnown
  <2> QED BY <1>2, <1>4, <2>1, <2>2 DEF Collected
<1> QED BY <1>3, <1>4

LEMMA CommittedWell ==
  ASSUME NEW s \in AirRecords
  PROVE  LET c == Committed(s)
         IN  /\ c \in AirRecords /\ c.e1 = s.e1
             /\ ~Advances(s) => c = s
             /\ Advances(s) => c.committed /\ ~c.confirmed /\ c.air.active = s.air.active /\ c.air.pending
                               /\ c.air.tx_sn = s.air.tx_sn /\ c.air.hardware = s.air.hardware
<1>1. CASE ~Advances(s)
  BY <1>1 DEF Committed
<1>2. CASE Advances(s)
  <2> DEFINE a == [s.air EXCEPT !.pending = TRUE]
             c == [s EXCEPT !.air.pending = TRUE, !.confirmed = FALSE, !.committed = TRUE]
  <2>1. /\ a \in AirBits /\ a.active = s.air.active /\ a.pending
        /\ a.tx_sn = s.air.tx_sn /\ a.hardware = s.air.hardware
    BY DEF AirRecords, AirBits
  <2>2. c = [s EXCEPT !.air = a, !.confirmed = FALSE, !.committed = TRUE]
    BY DEF AirRecords
  <2> HIDE DEF a
  <2>3. c \in AirRecords /\ c.air = a /\ c.e1 = s.e1 /\ c.committed /\ ~c.confirmed
    BY <2>1, <2>2 DEF AirRecords
  <2>4. Committed(s) = c
    BY <1>2 DEF Committed
  <2> HIDE DEF c
  <2> QED BY <1>2, <2>1, <2>3, <2>4
<1> QED BY <1>1, <1>2

LEMMA JoinStepKept == ASSUME JoinInv, Step PROVE JoinInv'
<1>1. PICK s \in Collected([air |-> air, e1 |-> e1, committed |-> committed, confirmed |-> confirmed]) :
        StepNext(s, Committed(s))
  BY DEF Step
<1>2. trial /\ Known(s)
  BY CollectedKnown DEF Step
<1> DEFINE c == Committed(s)
<1>3. /\ s \in AirRecords /\ c \in AirRecords /\ c.e1 = s.e1
      /\ ~Advances(s) => c = s
      /\ Advances(s) => c.committed /\ ~c.confirmed /\ c.air.active = s.air.active /\ c.air.pending
                        /\ c.air.tx_sn = s.air.tx_sn /\ c.air.hardware = s.air.hardware
  BY <1>2, CommittedWell DEF Known
<1>4. StepNext(s, c)
  BY <1>1
<1> HIDE DEF c
<1>5. /\ acl' = acl /\ headset' = headset /\ fresh' = fresh
      /\ heard' = FALSE /\ reply' = NoReply /\ moved' = FALSE
  BY DEF Step
<1>6. /\ acl \in [sn : Bit, nesn : Bit] /\ fresh \in BOOLEAN
      /\ headset \in [sn : Bit, nesn : Bit, out : {"empty", "e1"}, e1 : BOOLEAN, took : BOOLEAN]
  BY DEF JoinInv, JoinTypeOK
<1>7. reply' \in [present : BOOLEAN, kind : {"empty", "e1"}, sn : Bit, nesn : Bit] /\ ~reply'.present
  BY <1>5 DEF NoReply, Bit
<1>8. /\ Nothing \in [sent : BOOLEAN, kind : {"empty", "e2"}, sn : Bit, nesn : Bit]
      /\ Pdu(c.air) \in [sent : BOOLEAN, kind : {"empty", "e2"}, sn : Bit, nesn : Bit]
  <2>1. c.air \in AirBits
    BY <1>3 DEF AirRecords
  <2>2. Nothing \in [sent : BOOLEAN, kind : {"empty", "e2"}, sn : Bit, nesn : Bit]
    BY DEF Nothing, Bit
  <2>3. Pdu(c.air) \in [sent : BOOLEAN, kind : {"empty", "e2"}, sn : Bit, nesn : Bit]
    BY <1>6, <2>1 DEF Pdu, AirBits, Bit
  <2> QED BY <2>2, <2>3
<1>9. ASSUME NEW t \in AirRecords, Keeps(t), trial' \in BOOLEAN,
             poll' \in [sent : BOOLEAN, kind : {"empty", "e2"}, sn : Bit, nesn : Bit]
      PROVE  JoinTypeOK'
  <2>1. /\ air' \in AirBits /\ e1' \in {"expected", "air", "acl"}
        /\ committed' \in BOOLEAN /\ confirmed' \in BOOLEAN
    BY <1>9 DEF Keeps, AirRecords
  <2>2. heard' \in BOOLEAN /\ moved' \in BOOLEAN /\ fresh' \in BOOLEAN
    BY <1>5, <1>6, Zenon
  <2>3. {fresh, committed, confirmed, heard, moved, trial}' \subseteq BOOLEAN
    BY <1>9, <2>1, <2>2, Zenon
  <2>4. acl' \in [sn : Bit, nesn : Bit]
        /\ headset' \in [sn : Bit, nesn : Bit, out : {"empty", "e1"}, e1 : BOOLEAN, took : BOOLEAN]
    BY <1>5, <1>6
  <2> QED BY <1>7, <1>9, <2>1, <2>3, <2>4 DEF JoinTypeOK, AirBits
<1>10. CASE (Advances(s) => CanCommit(s)) /\ HasPdu(c.air)
  <2>1. air' = c.air /\ e1' = c.e1 /\ committed' = c.committed /\ confirmed' = c.confirmed
        /\ trial' = TRUE /\ poll' = Pdu(c.air) /\ Keeps(c)
    BY <1>4, <1>10 DEF StepNext, Keeps
  <2>2. JoinTypeOK'
    <3>1. trial' \in BOOLEAN
      BY <2>1, Zenon
    <3> QED BY <1>3, <1>8, <1>9, <2>1, <3>1
  <2>3. c.confirmed => headset.took
    BY <1>2, <1>3 DEF Known
  <2>4. ASSUME c.e1 = "expected" PROVE Awaits'
    <3>1. ~c.air.active
      BY <1>2, <1>3, <2>4 DEF Known, Advances
    <3>2. poll' = [sent |-> TRUE, kind |-> "empty", sn |-> acl.sn, nesn |-> acl.nesn]
      BY <2>1, <3>1 DEF Pdu
    <3>3. acl = [sn |-> acl.sn, nesn |-> acl.nesn]
      BY <1>6
    <3>4. acl' = Polled' /\ poll'.sent /\ poll'.kind = "empty"
      BY <1>5, <3>2, <3>3 DEF Polled
    <3> QED BY <1>5, <1>7, <2>1, <3>1, <3>4 DEF Awaits, AskedE1
  <2>5. ASSUME c.air.active PROVE c.e1 = "air" /\ c.committed
    BY <1>2, <1>3, <2>5 DEF Known, Advances
  <2>6. ASSUME c.air.active, c.air.pending PROVE Pends'
    <3>1. poll' = [sent |-> TRUE, kind |-> "e2", sn |-> c.air.tx_sn, nesn |-> c.air.rx_nesn]
      BY <2>1, <2>6 DEF Pdu
    <3>2. acl = c.air.hardware
      BY <1>10, <2>6 DEF HasPdu, Current
    <3>3. c.air.hardware.sn # c.air.tx_sn /\ (headset.nesn # c.air.tx_sn => headset.took)
      BY <1>2, <1>3, <2>6, <3>2 DEF Known, JustActivated, Unanswered, Advances
    <3> QED BY <1>5, <1>7, <2>1, <3>1, <3>2, <3>3 DEF Pends
  <2> QED BY <1>5, <2>1, <2>2, <2>3, <2>4, <2>5, <2>6 DEF JoinInv
<1>11. CASE ~((Advances(s) => CanCommit(s)) /\ HasPdu(c.air))
  <2> DEFINE t == IF Advances(s) /\ ~CanCommit(s) THEN s ELSE c
  <2>1. Keeps(t) /\ trial' = FALSE /\ poll' = Nothing
    BY <1>4, <1>11 DEF StepNext
  <2>2. t \in AirRecords /\ (t.confirmed => headset.took)
    BY <1>2, <1>3 DEF Known
  <2> HIDE DEF t
  <2>3. JoinTypeOK'
    <3>1. trial' \in BOOLEAN
      BY <2>1, Zenon
    <3> QED BY <1>8, <1>9, <2>1, <2>2, <3>1
  <2> QED BY <1>5, <2>1, <2>2, <2>3 DEF JoinInv, Keeps
<1> QED BY <1>10, <1>11

LEMMA SecondKept == ASSUME JoinInv, SecondPasses PROVE JoinInv'
<1> USE DEF SecondPasses
<1>1. JoinTypeOK'
  <2>1. {fresh, committed, confirmed, heard, moved, trial}' \subseteq BOOLEAN
    BY Zenon DEF JoinInv, JoinTypeOK
  <2> QED BY <2>1 DEF JoinInv, JoinTypeOK
<1> QED BY <1>1 DEF JoinInv, Awaits, Pends, Polled, AskedE1

LEMMA JoinSteps == ASSUME JoinInv, [JoinNext]_joinVars PROVE JoinInv'
<1>1. CASE UNCHANGED joinVars
  <2>1. JoinTypeOK'
    BY <1>1 DEF joinVars, session, JoinInv, JoinTypeOK
  <2> QED BY <1>1, <2>1 DEF joinVars, session, JoinInv, Awaits, Pends, Polled, AskedE1
<1> QED BY <1>1, HearsPoll, HeadsetAnswers, AclPolls, AclReplies, JoinStepKept, SecondKept DEF JoinNext

\* The inductive invariant of the join: while E1 is awaited the frames carry the
\* hardware's bits, and while E2 is on its way the hardware's bit is another one.
THEOREM JoinInvariant == JoinSpec => []JoinInv
<1>1. JoinInit => JoinInv
  BY JoinStarts
<1>2. JoinInv /\ [JoinNext]_joinVars => JoinInv'
  BY JoinSteps
<1> QED BY <1>1, <1>2, PTL DEF JoinSpec

\* raw_llcp.c, ull_raw_receive_air_control: the second stream counts as joined only
\* when the headset has received E2, from any bits that the parent link had.
THEOREM ConfirmedWasTaken == JoinSpec => []ConfirmedTaken
<1>1. JoinInv => ConfirmedTaken
  BY DEF JoinInv, ConfirmedTaken
<1> QED BY <1>1, JoinInvariant, PTL

-------------------------------------------------------------------------------
(***************************************************************************)
(* RadioTx, for any set of modes: what the struct says of the hardware,    *)
(* the arbiter and the ring holds, also after an interference, and what    *)
(* was not interfered with is in its place.                                *)
(***************************************************************************)
\* The order in which entries are pushed.
Rank(e) == CASE e \in {"stale", "first", "follow"} -> 1
             [] e = "reply" -> 2
             [] e = "stop" -> 3
             [] OTHER -> 4
Entries == Used \cap Own
Open == Entries \ called

RingInv ==
  /\ ring \in Seq(Own \cup {"foreign", "stale"})
  /\ \A i, j \in 1..Len(ring): i < j => Rank(ring[i]) < Rank(ring[j])
  /\ arb = "foreign" <=> "foreign" \in Used

\* Whose entries are in the ring: those of the event, and of the predecessor
\* that a followup has forgotten.
OwnInv ==
  /\ Entries \cup called \subseteq Mine \cup (IF tx.followActive THEN {"first"} ELSE {})
  /\ tx.followActive =>
       tx.mode = "follow" /\ ~tx.followPending /\ ("first" \in Used => "first" \in called)
  /\ tx.followPending => tx.mode = "follow"
  /\ tx.ended \subseteq called
  /\ tx.phase = "idle" => Entries = {} /\ called = {} /\ ~tx.followPending
  /\ tx.phase = "ended" => Open = {}
  /\ tx.phase \in {"queued", "cancelled", "refused"} =>
       Mine \cap (called \cup Entries) = {} /\ (Prequeued => tx.ended = {})

\* The flags say what is ours in the hardware, and how long.
HwInv ==
  /\ (tx.globals <=> "globals" \in hw) /\ (tx.alarm <=> "alarm" \in hw)
  /\ tx.storage <=> "buffer" \in hw
  /\ tx.storage <=> tx.phase # "idle"
  /\ tx.phase \in {"idle", "queued"} => ~tx.globals /\ ~tx.alarm
  /\ tx.phase = "idle" => arb # "ours"
  /\ queued => tx.phase = "queued"
  /\ Open # {} => tx.globals

StopInv == stopping => ~queued /\ ~tx.followPending

\* What nothing has interfered with is in its place.
IntactInv ==
  ~interfered =>
    /\ handle /\ tx.phase # "fault"
    /\ Started(tx) =>
         /\ arb = "ours" /\ Used \subseteq Mine
         /\ Mine \ called \subseteq Used /\ Mine \ called # {}
         /\ Prequeued => tx.ended = called
    /\ Open # {} => Started(tx)
    /\ Prequeued /\ tx.phase = "ended" => arb = "ours"

Structs == [phase: Phases, mode: AllModes, followPending: BOOLEAN,
            followActive: BOOLEAN, ended: SUBSET Own, stopAbort: BOOLEAN,
            rxInvalid: BOOLEAN, good: BOOLEAN,
            alarm: BOOLEAN, globals: BOOLEAN, storage: BOOLEAN]

EventTyped ==
  /\ tx \in Structs /\ arb \in {"none", "ours", "foreign"}
  /\ called \subseteq Own /\ aborted \subseteq Own
  /\ hw \subseteq {"alarm", "globals", "buffer"}
  /\ queued \in BOOLEAN /\ handle \in BOOLEAN /\ interfered \in BOOLEAN /\ stopping \in BOOLEAN

EventInv == EventTyped /\ RingInv /\ OwnInv /\ HwInv /\ StopInv /\ IntactInv

(***************************************************************************)
(* The ring.                                                               *)
(***************************************************************************)
\* Few entries fit, since their ranks increase.
LEMMA RingShort ==
  ASSUME RingInv
  PROVE  /\ Len(ring) \in 0..4 /\ DOMAIN ring = 1..Len(ring)
         /\ \A i \in 1..Len(ring): ring[i] \in Own \cup {"foreign", "stale"}
         /\ Used = {ring[i]: i \in 1..Len(ring)}
<1>1. ring \in Seq(Own \cup {"foreign", "stale"}) BY DEF RingInv
<1>2. DOMAIN ring = 1..Len(ring) /\ Len(ring) \in Nat BY <1>1
<1>3. \A i \in 1..Len(ring): ring[i] \in Own \cup {"foreign", "stale"} BY <1>1
<1>4. Used = {ring[i]: i \in 1..Len(ring)} BY <1>2 DEF Used, Range
<1>5. \A i \in 1..Len(ring): Rank(ring[i]) \in 1..4 BY DEF Rank
<1>6. ASSUME Len(ring) > 4 PROVE FALSE
  <2>1. /\ 1 \in 1..Len(ring) /\ 2 \in 1..Len(ring) /\ 3 \in 1..Len(ring)
        /\ 4 \in 1..Len(ring) /\ 5 \in 1..Len(ring)
    BY <1>2, <1>6
  <2>2. /\ Rank(ring[1]) < Rank(ring[2]) /\ Rank(ring[2]) < Rank(ring[3])
        /\ Rank(ring[3]) < Rank(ring[4]) /\ Rank(ring[4]) < Rank(ring[5])
    BY <2>1 DEF RingInv
  <2>3. /\ Rank(ring[1]) \in 1..4 /\ Rank(ring[2]) \in 1..4 /\ Rank(ring[3]) \in 1..4
        /\ Rank(ring[4]) \in 1..4 /\ Rank(ring[5]) \in 1..4
    BY <2>1, <1>5
  <2> QED BY <2>2, <2>3
<1> QED BY <1>2, <1>3, <1>4, <1>6

\* The entry on the air is the oldest one that was not called back.
LEMMA OnAirOldest ==
  ASSUME RingInv, OnAir # "none"
  PROVE  \E i \in 1..Len(ring):
           /\ OnAir = ring[i] /\ ring[i] \notin called \cup {"stale"}
           /\ \A j \in 1..Len(ring): ring[j] \notin called \cup {"stale"} => i <= j
<1>1. Waiting # {} BY DEF OnAir
<1>2. Waiting = {i \in 1..Len(ring): ring[i] \notin called \cup {"stale"}}
  BY RingShort DEF Waiting
<1>3. Waiting \subseteq 1..4 BY <1>2, RingShort
<1>4. \E i \in Waiting: \A j \in Waiting: i <= j
  <2>1. CASE 1 \in Waiting BY <2>1, <1>3
  <2>2. CASE 1 \notin Waiting /\ 2 \in Waiting BY <2>2, <1>3
  <2>3. CASE 1 \notin Waiting /\ 2 \notin Waiting /\ 3 \in Waiting BY <2>3, <1>3
  <2>4. CASE 1 \notin Waiting /\ 2 \notin Waiting /\ 3 \notin Waiting
    <3>1. \A i \in Waiting: i = 4 BY <2>4, <1>3
    <3> QED BY <3>1, <1>1
  <2> QED BY <2>1, <2>2, <2>3, <2>4
<1> DEFINE o == CHOOSE i \in Waiting: \A j \in Waiting: i <= j
<1>5. OnAir = ring[o] BY <1>1 DEF OnAir
<1>6. o \in Waiting /\ \A j \in Waiting: o <= j BY <1>4
<1> HIDE DEF o
<1> QED BY <1>2, <1>5, <1>6

LEMMA Concatenation ==
  ASSUME NEW S, NEW s \in Seq(S), NEW t \in Seq(S)
  PROVE  /\ s \o t \in Seq(S) /\ Len(s \o t) = Len(s) + Len(t)
         /\ \A k \in 1..(Len(s) + Len(t)):
              (s \o t)[k] = IF k <= Len(s) THEN s[k] ELSE t[k - Len(s)]
OBVIOUS

\* Removing one entry.
LEMMA EntryRemoved ==
  ASSUME RingInv, NEW i \in DOMAIN ring, ring' = WithoutEntry(i)
  PROVE  /\ ring' \in Seq(Own \cup {"foreign", "stale"})
         /\ \A j, k \in 1..Len(ring'): j < k => Rank(ring'[j]) < Rank(ring'[k])
         /\ Used' = Used \ {ring[i]}
<1> DEFINE n == Len(ring)
           from(j) == IF j < i THEN j ELSE j + 1
<1>1. n \in 0..4 /\ i \in 1..n /\ DOMAIN ring = 1..n BY RingShort
<1>2. ring \in Seq(Own \cup {"foreign", "stale"}) BY DEF RingInv
<1>3. /\ Len(ring') = n - 1
      /\ \A j \in 1..(n - 1): ring'[j] = ring[from(j)]
      /\ ring' \in Seq(Own \cup {"foreign", "stale"})
  <2> DEFINE front == SubSeq(ring, 1, i - 1)
             back == SubSeq(ring, i + 1, n)
  <2>1. /\ front \in Seq(Own \cup {"foreign", "stale"}) /\ Len(front) = i - 1
        /\ \A j \in 1..(i - 1): front[j] = ring[j]
    BY <1>1, <1>2
  <2>2. /\ back \in Seq(Own \cup {"foreign", "stale"}) /\ Len(back) = n - i
        /\ \A j \in 1..(n - i): back[j] = ring[j + i]
    BY <1>1, <1>2
  <2>3. ring' = front \o back BY DEF WithoutEntry
  <2> HIDE DEF front, back
  <2>c. /\ front \o back \in Seq(Own \cup {"foreign", "stale"})
        /\ Len(front \o back) = Len(front) + Len(back)
        /\ \A k \in 1..(Len(front) + Len(back)):
             (front \o back)[k] = IF k <= Len(front) THEN front[k] ELSE back[k - Len(front)]
    BY <2>1, <2>2, Concatenation
  <2>n. Len(front) + Len(back) = n - 1 BY <2>1, <2>2, <1>1
  <2>4. Len(ring') = n - 1 /\ ring' \in Seq(Own \cup {"foreign", "stale"})
    BY <2>c, <2>n, <2>3
  <2>5. ASSUME NEW j \in 1..(n - 1) PROVE ring'[j] = ring[from(j)]
    <3>1. CASE j < i BY <3>1, <2>1, <2>c, <2>n, <2>3, <1>1
    <3>2. CASE ~(j < i)
      <4>1. ring'[j] = back[j - (i - 1)] BY <3>2, <2>1, <2>c, <2>n, <2>3, <1>1
      <4>2. j - (i - 1) \in 1..(n - i) BY <3>2, <1>1
      <4>3. back[j - (i - 1)] = ring[(j - (i - 1)) + i] BY <4>2, <2>2
      <4>4. (j - (i - 1)) + i = j + 1 BY <1>1
      <4> QED BY <4>1, <4>3, <4>4, <3>2
    <3> QED BY <3>1, <3>2
  <2> QED BY <2>4, <2>5
<1>4. \A j \in 1..(n - 1): from(j) \in 1..n /\ from(j) # i BY <1>1
<1>5. \A j, k \in 1..(n - 1): j < k => from(j) < from(k) BY <1>1
<1>6. \A j \in 1..n: j # i => \E k \in 1..(n - 1): from(k) = j
  <2> SUFFICES ASSUME NEW j \in 1..n, j # i PROVE \E k \in 1..(n - 1): from(k) = j OBVIOUS
  <2>1. CASE j < i BY <2>1, <1>1
  <2>2. CASE j > i
    <3>1. j - 1 \in 1..(n - 1) /\ from(j - 1) = j BY <2>2, <1>1
    <3> QED BY <3>1
  <2> QED BY <2>1, <2>2, <1>1
<1>7. \A j \in 1..n: j # i => ring[j] # ring[i]
  <2> SUFFICES ASSUME NEW j \in 1..n, j # i PROVE ring[j] # ring[i] OBVIOUS
  <2>1. Rank(ring[j]) < Rank(ring[i]) \/ Rank(ring[i]) < Rank(ring[j])
    BY <1>1 DEF RingInv
  <2>2. Rank(ring[j]) \in 1..4 /\ Rank(ring[i]) \in 1..4 BY DEF Rank
  <2> QED BY <2>1, <2>2
<1>8. Used = {ring[j]: j \in 1..n} BY <1>1 DEF Used, Range
<1>9. Used' = {ring'[j]: j \in 1..(n - 1)} BY <1>3, <1>1 DEF Used, Range
<1> HIDE DEF from
<1>10. Used' = Used \ {ring[i]}
  <2>1. ASSUME NEW e \in Used' PROVE e \in Used \ {ring[i]}
    <3>1. PICK j \in 1..(n - 1): e = ring'[j] BY <1>9
    <3>2. e = ring[from(j)] /\ from(j) \in 1..n /\ from(j) # i BY <3>1, <1>3, <1>4
    <3> QED BY <3>2, <1>7, <1>8
  <2>2. ASSUME NEW e \in Used \ {ring[i]} PROVE e \in Used'
    <3>1. PICK j \in 1..n: e = ring[j] BY <1>8
    <3>2. j # i BY <3>1
    <3>3. PICK k \in 1..(n - 1): from(k) = j BY <3>2, <1>6
    <3>4. e = ring'[k] BY <3>1, <3>3, <1>3
    <3> QED BY <3>4, <1>9
  <2> QED BY <2>1, <2>2
<1>11. \A j, k \in 1..(n - 1): j < k => Rank(ring'[j]) < Rank(ring'[k])
  BY <1>3, <1>4, <1>5 DEF RingInv
<1> QED BY <1>3, <1>10, <1>11

\* A foreign entry is pushed behind all others.
LEMMA ForeignPushed ==
  ASSUME RingInv, "foreign" \notin Used, ring' = Append(ring, "foreign")
  PROVE  /\ ring' \in Seq(Own \cup {"foreign", "stale"})
         /\ \A j, k \in 1..Len(ring'): j < k => Rank(ring'[j]) < Rank(ring'[k])
         /\ Used' = Used \cup {"foreign"}
<1> DEFINE n == Len(ring)
<1>1. n \in 0..4 /\ DOMAIN ring = 1..n /\ Used = {ring[i]: i \in 1..n} BY RingShort
<1>2. ring \in Seq(Own \cup {"foreign", "stale"}) BY DEF RingInv
<1>3. /\ Len(ring') = n + 1
      /\ \A j \in 1..n: ring'[j] = ring[j]
      /\ ring'[n + 1] = "foreign"
      /\ ring' \in Seq(Own \cup {"foreign", "stale"})
  BY <1>1, <1>2
<1>4. \A j \in 1..n: ring[j] \in Own \cup {"stale"} BY <1>1, <1>2
<1>5. \A j \in 1..n: Rank(ring'[j]) < Rank(ring'[n + 1])
  BY <1>3, <1>4 DEF Rank, Own
<1>6. Used' = {ring'[j]: j \in 1..(n + 1)} BY <1>3, <1>1 DEF Used, Range
<1>7. Used' = Used \cup {"foreign"} BY <1>1, <1>3, <1>6
<1>8. \A j, k \in 1..(n + 1): j < k => Rank(ring'[j]) < Rank(ring'[k])
  <2> SUFFICES ASSUME NEW j \in 1..(n + 1), NEW k \in 1..(n + 1), j < k
               PROVE  Rank(ring'[j]) < Rank(ring'[k])
    OBVIOUS
  <2>1. CASE k = n + 1 BY <2>1, <1>1, <1>5
  <2>2. CASE k # n + 1
    <3>1. j \in 1..n /\ k \in 1..n BY <2>2, <1>1
    <3>2. Rank(ring[j]) < Rank(ring[k]) BY <3>1 DEF RingInv
    <3> QED BY <3>1, <3>2, <1>3
  <2> QED BY <2>1, <2>2
<1> QED BY <1>3, <1>7, <1>8

(***************************************************************************)
(* The programs of an event.                                               *)
(***************************************************************************)
LEMMA MineIs ==
  ASSUME tx.mode \in AllModes, tx.followActive => tx.mode = "follow"
  PROVE  /\ tx.followActive => Mine = {"follow"}
         /\ ~tx.followActive /\ tx.mode = "reply" => Mine = {"first", "reply"}
         /\ ~tx.followActive /\ tx.mode = "repeat" => Mine = {"first", "reply", "stop"}
         /\ ~tx.followActive /\ ~Prequeued => Mine = {"first"}
<1>1. CASE tx.followActive
  <2>1. Programs = <<"follow">> BY <1>1 DEF Programs, Repeat
  <2>2. Mine = {"follow"} BY <2>1 DEF Mine, Range
  <2> QED BY <2>2, <1>1
<1>2. CASE ~tx.followActive /\ tx.mode = "reply"
  <2>1. Programs = <<"first", "reply">> BY <1>2 DEF Programs, Repeat
  <2>2. Mine = {"first", "reply"} BY <2>1 DEF Mine, Range
  <2> QED BY <2>2, <1>2 DEF Prequeued
<1>3. CASE ~tx.followActive /\ tx.mode = "repeat"
  <2>1. Programs = <<"first", "reply", "stop">> BY <1>3 DEF Programs, Repeat
  <2>2. Mine = {"first", "reply", "stop"} BY <2>1 DEF Mine, Range
  <2> QED BY <2>2, <1>3 DEF Prequeued
<1>4. CASE ~tx.followActive /\ ~Prequeued
  <2>1. Programs = <<"first">> BY <1>4 DEF Programs, Repeat, Prequeued
  <2>2. Mine = {"first"} BY <2>1 DEF Mine, Range
  <2> QED BY <2>2, <1>4 DEF Prequeued
<1> QED BY <1>1, <1>2, <1>3, <1>4 DEF Prequeued

LEMMA MineOwn ==
  ASSUME tx.mode \in AllModes, tx.followActive => tx.mode = "follow"
  PROVE  Mine \subseteq Own /\ Mine # {}
<1>1. \/ tx.followActive \/ tx.mode = "reply" \/ tx.mode = "repeat" \/ ~Prequeued
  BY DEF Prequeued
<1> QED BY <1>1, MineIs DEF Own

\* They depend on the mode and on whether the followup runs.
LEMMA MineKept ==
  ASSUME tx'.mode = tx.mode, tx'.followActive = tx.followActive
  PROVE  Mine' = Mine /\ Prequeued' = Prequeued
BY DEF Mine, Programs, Prequeued, Repeat

LEMMA FollowIsMine ==
  ASSUME tx'.followActive, tx'.mode = "follow"
  PROVE  Mine' = {"follow"}
<1>1. Programs' = <<"follow">> BY DEF Programs, Repeat
<1> QED BY <1>1 DEF Mine, Range

\* The programs pushed onto an empty ring.
LEMMA ProgramsPushed ==
  ASSUME ring = <<>>,
         NEW n \in 0..Len(Programs), ring' = ring \o SubSeq(Programs, 1, n)
  PROVE  /\ ring' \in Seq(Own \cup {"foreign", "stale"})
         /\ \A j, k \in 1..Len(ring'): j < k => Rank(ring'[j]) < Rank(ring'[k])
         /\ Used' \subseteq Mine /\ (n = Len(Programs) => Used' = Mine)
<1> DEFINE p == Programs
<1>1. /\ p \in Seq(Own) /\ Len(p) \in 1..3
      /\ \A j, k \in 1..Len(p): j < k => Rank(p[j]) < Rank(p[k])
  <2>1. p \in {<<"follow">>, <<"first", "reply">>, <<"first", "reply", "stop">>, <<"first">>}
    BY DEF Programs
  <2> HIDE DEF p
  <2>2. CASE p = <<"follow">> BY <2>2 DEF Own
  <2>3. CASE p = <<"first">> BY <2>3 DEF Own
  <2>4. CASE p = <<"first", "reply">> BY <2>4 DEF Own, Rank
  <2>5. CASE p = <<"first", "reply", "stop">> BY <2>5 DEF Own, Rank
  <2> QED BY <2>1, <2>2, <2>3, <2>4, <2>5
<1>2. Mine = {p[i]: i \in 1..Len(p)} BY <1>1 DEF Mine, Range
<1>3. n \in 0..Len(p) OBVIOUS
<1> DEFINE s == SubSeq(p, 1, n)
<1>4. s \in Seq(Own) /\ Len(s) = n /\ \A i \in 1..n: s[i] = p[i]
  BY <1>1, <1>3
<1>5. ring' = s
  <2> HIDE DEF p, s
  <2>1. ring' = <<>> \o s BY DEF p, s
  <2> QED BY <2>1, <1>4
<1>6. Used' = {p[i]: i \in 1..n}
  <2>1. DOMAIN s = 1..n /\ \A i \in 1..n: s[i] = p[i] BY <1>4
  <2> HIDE DEF s, p
  <2>2. Used' = {s[i]: i \in 1..n} BY <2>1, <1>5 DEF Used, Range
  <2> QED BY <2>1, <2>2
<1>7. n = Len(p) => Used' = Mine BY <1>2, <1>6
<1> HIDE DEF p, s
<1>8. Used' \subseteq Mine BY <1>1, <1>2, <1>3, <1>6
<1>9. ring' \in Seq(Own \cup {"foreign", "stale"}) BY <1>4, <1>5
<1>10. \A j, k \in 1..Len(ring'): j < k => Rank(ring'[j]) < Rank(ring'[k])
  BY <1>1, <1>3, <1>4, <1>5
<1> QED BY <1>7, <1>8, <1>9, <1>10 DEF p

\* What collect forgets is only the predecessor of a followup, and keeps its
\* place.
LEMMA EntriesForgotten ==
  ASSUME RingInv, Entries \subseteq {"first"},
         ring' = [i \in DOMAIN ring |-> IF ring[i] \in Own THEN "stale" ELSE ring[i]]
  PROVE  /\ ring' \in Seq(Own \cup {"foreign", "stale"})
         /\ \A j, k \in 1..Len(ring'): j < k => Rank(ring'[j]) < Rank(ring'[k])
         /\ Entries' = {} /\ ("foreign" \in Used' <=> "foreign" \in Used)
<1> DEFINE n == Len(ring)
<1>1. /\ n \in 0..4 /\ DOMAIN ring = 1..n /\ Used = {ring[i]: i \in 1..n}
      /\ \A i \in 1..n: ring[i] \in Own \cup {"foreign", "stale"}
  BY RingShort
<1>2. /\ ring' = [i \in 1..n |-> IF ring[i] \in Own THEN "stale" ELSE ring[i]]
  BY <1>1
<1>3. ring' \in Seq(Own \cup {"foreign", "stale"}) /\ Len(ring') = n
  BY <1>1, <1>2
<1>4. \A i \in 1..n: Rank(ring'[i]) = Rank(ring[i]) /\ ring'[i] \notin Own
  <2> SUFFICES ASSUME NEW i \in 1..n PROVE Rank(ring'[i]) = Rank(ring[i]) /\ ring'[i] \notin Own
    OBVIOUS
  <2>1. ring[i] \in Own => ring[i] = "first" BY <1>1 DEF Entries
  <2> QED BY <1>2, <2>1 DEF Rank, Own
<1>5. Used' = {ring'[i]: i \in 1..n} BY <1>3, <1>1 DEF Used, Range
<1>6. Entries' = {} BY <1>4, <1>5 DEF Entries
<1>7. \A i \in 1..n: ring'[i] = "foreign" <=> ring[i] = "foreign" BY <1>2 DEF Own
<1>8. "foreign" \in Used' <=> "foreign" \in Used BY <1>1, <1>5, <1>7
<1>9. \A j, k \in 1..n: j < k => Rank(ring'[j]) < Rank(ring'[k])
  BY <1>1, <1>4 DEF RingInv
<1> QED BY <1>3, <1>6, <1>8, <1>9

(***************************************************************************)
(* What the invariant says of an event that nothing has interfered with.   *)
(***************************************************************************)
\* A program that is not over belongs to a started event.
LEMMA OpenStarted ==
  ASSUME EventInv, Open # {}
  PROVE  /\ tx.phase \in {"active", "aborting", "ended", "fault"}
         /\ tx.globals /\ ~queued
         /\ ~interfered => Started(tx) /\ Open \subseteq Mine
<1>1. tx.phase \in Phases /\ tx \in Structs BY DEF EventInv, EventTyped, Structs
<1>2. tx.mode \in AllModes /\ (tx.followActive => tx.mode = "follow")
  BY DEF EventInv, OwnInv, EventTyped, Structs
<1>3. PICK e \in Entries: e \notin called BY DEF Open
<1>4. e \in Used /\ e \in Mine \cup (IF tx.followActive THEN {"first"} ELSE {})
  BY <1>3 DEF EventInv, OwnInv, Entries
<1>5. e \in Mine
  <2> SUFFICES ASSUME e \notin Mine PROVE FALSE OBVIOUS
  <2>1. tx.followActive /\ e = "first" BY <1>4
  <2>2. "first" \in called BY <2>1, <1>4 DEF EventInv, OwnInv
  <2> QED BY <2>1, <2>2, <1>3
<1>6. tx.phase \notin {"idle", "queued", "cancelled", "refused"}
  BY <1>3, <1>5 DEF EventInv, OwnInv
<1>7. tx.phase \in {"active", "aborting", "ended", "fault"} BY <1>1, <1>6 DEF Phases
<1>8. tx.globals /\ ~queued BY <1>6 DEF EventInv, HwInv
<1>9. ASSUME ~interfered PROVE Started(tx) /\ Open \subseteq Mine
  <2>1. Started(tx) BY <1>9 DEF EventInv, IntactInv
  <2>2. Used \subseteq Mine BY <1>9, <2>1 DEF EventInv, IntactInv
  <2> QED BY <2>1, <2>2 DEF Open, Entries
<1> QED BY <1>7, <1>8, <1>9

\* A started event is the active one, and the consumer of the ring is its own.
LEMMA MayAlwaysAbort ==
  ASSUME EventInv, ~interfered, Started(tx)
  PROVE  MayAbort
<1>1. /\ arb = "ours" /\ Used \subseteq Mine
      /\ Mine \ called \subseteq Used /\ Mine \ called # {}
  BY DEF EventInv, IntactInv
<1>2. Len(ring) \in 0..4 /\ Used = {ring[i]: i \in 1..Len(ring)} /\ ring \in Seq(Own \cup {"foreign", "stale"})
  BY RingShort DEF EventInv, RingInv
<1>3. 1 \in 1..Len(ring)
  <2>1. Used # {} BY <1>1
  <2> QED BY <2>1, <1>2
<1>4. ring # <<>> /\ Head(ring) = ring[1] BY <1>2, <1>3
<1>5. Head(ring) \in Used BY <1>2, <1>3, <1>4
<1> QED BY <1>1, <1>4, <1>5 DEF MayAbort, ActiveIsOurs, ConsumerIsOurs, EntryIsOurs

\* Its callbacks come in the order of its programs.
LEMMA InOrder ==
  ASSUME EventInv, ~interfered, NEW e \in Own, NEW reason,
         e = OnAir \/ (e \in Open /\ reason = 4)
  PROVE  e \in Open /\ ~Faulty(e, reason)
<1>1. e \in Open
  <2>1. CASE e \in Open BY <2>1
  <2>2. CASE e = OnAir
    <3>1. OnAir # "none" BY <2>2 DEF Own
    <3>2. PICK i \in 1..Len(ring): OnAir = ring[i] /\ ring[i] \notin called \cup {"stale"}
      BY <3>1, OnAirOldest DEF EventInv
    <3>3. e \in Used BY <3>2, <2>2, RingShort DEF EventInv
    <3> QED BY <3>2, <3>3, <2>2 DEF Open, Entries
  <2> QED BY <2>1, <2>2
<1>2. Started(tx) /\ e \in Mine /\ e \in Used
  BY <1>1, OpenStarted DEF Open, Entries
<1>3. EntryIsOurs(e) BY <1>2 DEF EntryIsOurs
<1>4. tx.mode \in AllModes /\ (tx.followActive => tx.mode = "follow")
  BY DEF EventInv, OwnInv, EventTyped, Structs
<1>5. ASSUME Overtaking(e, reason) PROVE FALSE
  <2>1. reason # 4 /\ SkipIsOvertaking(e, reason) BY <1>5 DEF Overtaking
  <2>2. e = OnAir BY <2>1
  <2>3. e \in {"reply", "stop"} BY <2>1 DEF SkipIsOvertaking
  <2>4. Prequeued /\ Mine \in {{"first", "reply"}, {"first", "reply", "stop"}}
    <3>1. ~(Mine \subseteq {"first", "follow"}) BY <1>2, <2>3
    <3> QED BY <3>1, <1>4, MineIs DEF Prequeued
  <2>5. tx.ended = called /\ Mine \ called \subseteq Used
    BY <1>2, <2>4 DEF EventInv, IntactInv
  <2>6. PICK d \in Mine \ called: Rank(d) < Rank(e)
    <3>1. CASE e = "reply"
      <4>1. "first" \notin called BY <2>1, <2>5, <3>1 DEF SkipIsOvertaking
      <4>2. "first" \in Mine BY <2>4
      <4> QED BY <4>1, <4>2, <3>1 DEF Rank
    <3>2. CASE e = "stop"
      <4>1. ~({"first", "reply"} \subseteq called) BY <2>1, <2>5, <3>2 DEF SkipIsOvertaking
      <4>2. {"first", "reply"} \subseteq Mine BY <2>4
      <4> QED BY <4>1, <4>2, <3>2 DEF Rank
    <3> QED BY <3>1, <3>2, <2>3
  <2>7. d \in Used /\ d # "stale" BY <2>4, <2>5
  <2>8. OnAir # "none" BY <2>2 DEF Own
  <2>9. PICK i \in 1..Len(ring):
          OnAir = ring[i] /\ \A j \in 1..Len(ring): ring[j] \notin called \cup {"stale"} => i <= j
    BY <2>8, OnAirOldest DEF EventInv
  <2>10. PICK j \in 1..Len(ring): d = ring[j] BY <2>7, RingShort DEF EventInv
  <2>11. i <= j BY <2>6, <2>7, <2>9, <2>10
  <2>12. Len(ring) \in 0..4 BY RingShort DEF EventInv
  <2>13. i = j \/ i < j BY <2>11, <2>12
  <2>14. CASE i = j
    <3>1. d = e BY <2>14, <2>2, <2>9, <2>10
    <3>2. Rank(e) \in 1..4 BY DEF Rank
    <3> QED BY <3>1, <3>2, <2>6
  <2>15. CASE i < j
    <3>1. Rank(e) < Rank(d) BY <2>15, <2>2, <2>9, <2>10 DEF EventInv, RingInv
    <3>2. Rank(e) \in 1..4 /\ Rank(d) \in 1..4 BY DEF Rank
    <3> QED BY <3>1, <3>2, <2>6
  <2> QED BY <2>13, <2>14, <2>15
<1> QED BY <1>1, <1>3, <1>5 DEF Faulty

\* The entry on the air is one that is not over.
LEMMA OnAirOpen ==
  ASSUME EventInv, OnAir \in Own
  PROVE  OnAir \in Open
<1>1. OnAir # "none" BY DEF Own
<1>2. PICK i \in 1..Len(ring): OnAir = ring[i] /\ ring[i] \notin called \cup {"stale"}
  BY <1>1, OnAirOldest DEF EventInv
<1>3. OnAir \in Used BY <1>2, RingShort DEF EventInv
<1> QED BY <1>2, <1>3 DEF Open, Entries

\* What an abort command does to the struct.
LEMMA AbortEffect ==
  ASSUME EventInv, NEW t \in Structs, t.phase = tx.phase
  PROVE  /\ AbortActive(t) \in Structs /\ AbortedBy(t) \subseteq Own
         /\ \E p \in Phases, s \in BOOLEAN:
              AbortActive(t) = [t EXCEPT !.phase = p, !.stopAbort = s]
         /\ \/ AbortActive(t).phase = tx.phase
            \/ Started(tx) /\ AbortActive(t).phase = "aborting"
            \/ Started(tx) /\ interfered /\ AbortActive(t).phase = "fault"
<1>1. Started(t) <=> Started(tx) BY DEF Started
<1>2. aborted \subseteq Own BY DEF EventInv, EventTyped
<1>3. t.phase \in Phases /\ t.stopAbort \in BOOLEAN BY DEF Structs
<1>4. t = [t EXCEPT !.phase = t.phase, !.stopAbort = t.stopAbort] BY DEF Structs
<1>5. CASE ~Started(t)
  <2>1. AbortActive(t) = t /\ AbortedBy(t) = aborted BY <1>5 DEF AbortActive, AbortedBy
  <2>2. \E p \in Phases, s \in BOOLEAN: t = [t EXCEPT !.phase = p, !.stopAbort = s]
    BY <1>3, <1>4
  <2> QED BY <2>1, <2>2, <1>2
<1>6. CASE Started(t) /\ ~MayAbort
  <2>1. AbortActive(t) = [t EXCEPT !.phase = "fault"] /\ AbortedBy(t) = aborted
    BY <1>6 DEF AbortActive, AbortedBy
  <2>2. interfered BY <1>1, <1>6, MayAlwaysAbort DEF EventInv, EventTyped
  <2>3. [t EXCEPT !.phase = "fault"] = [t EXCEPT !.phase = "fault", !.stopAbort = t.stopAbort]
    BY DEF Structs
  <2>4. "fault" \in Phases BY DEF Phases
  <2>5. [t EXCEPT !.phase = "fault"] \in Structs /\ [t EXCEPT !.phase = "fault"].phase = "fault"
    BY <2>4 DEF Structs
  <2> QED BY <2>1, <2>2, <2>3, <2>4, <2>5, <1>1, <1>2, <1>3, <1>6
<1>7. CASE Started(t) /\ MayAbort
  <2> DEFINE s == t.stopAbort \/ Head(ring) = "stop"
             u == [t EXCEPT !.phase = "aborting", !.stopAbort = s]
  <2>1. AbortActive(t) = u /\ AbortedBy(t) = aborted \cup {Head(ring)}
    BY <1>7 DEF AbortActive, AbortedBy
  <2>2. s \in BOOLEAN OBVIOUS
  <2> HIDE DEF s
  <2>3. "aborting" \in Phases BY DEF Phases
  <2>4. u \in Structs /\ u.phase = "aborting" BY <2>2, <2>3 DEF Structs
  <2>5. Head(ring) \in Own
    <3>1. Head(ring) \in Mine BY <1>7 DEF MayAbort, ConsumerIsOurs, EntryIsOurs
    <3> QED BY <3>1, MineOwn DEF EventInv, OwnInv, EventTyped, Structs
  <2>6. \E p \in Phases, b \in BOOLEAN: u = [t EXCEPT !.phase = p, !.stopAbort = b]
    BY <2>2, <2>3
  <2> QED BY <2>1, <2>4, <2>5, <2>6, <1>1, <1>2, <1>7
<1> QED BY <1>5, <1>6, <1>7

(***************************************************************************)
(* Steps that touch neither the ring nor the callbacks: they abort the     *)
(* event, end its wait for the arbiter, give it up, or are interferences.  *)
(***************************************************************************)
LEMMA StructStep ==
  ASSUME EventInv, EventTyped',
         tx'.mode = tx.mode, tx'.followActive = tx.followActive, tx'.ended = tx.ended,
         tx'.globals = tx.globals, tx'.storage = tx.storage,
         tx'.followPending => tx.followPending,
         tx'.alarm => tx.alarm, tx'.alarm <=> "alarm" \in hw',
         "globals" \in hw' <=> "globals" \in hw, "buffer" \in hw' <=> "buffer" \in hw,
         ring' = ring, called' = called, arb' = arb,
         queued' => queued, stopping' => ~queued' /\ ~tx'.followPending,
         interfered => interfered', ~interfered' => handle' = handle,
         \/ tx'.phase = tx.phase
         \/ Started(tx) /\ tx'.phase = "aborting"
         \/ tx.phase # "idle" /\ interfered' /\ ~queued' /\ tx'.phase = "fault"
         \/ tx.phase = "queued" /\ ~queued' /\ tx'.phase \in {"cancelled", "refused"}
  PROVE  EventInv'
<1>1. Mine' = Mine /\ Prequeued' = Prequeued BY MineKept
<1>2. Used' = Used /\ Entries' = Entries /\ Open' = Open BY DEF Used, Entries, Open
<1>3. RingInv' BY <1>2 DEF EventInv, RingInv
<1>4. OwnInv'
  <2>1. \/ tx'.phase = tx.phase \/ tx'.phase \in {"aborting", "fault"}
        \/ tx.phase = "queued" /\ tx'.phase \in {"cancelled", "refused"}
    OBVIOUS
  <2>2. tx'.followActive => ~tx'.followPending BY DEF EventInv, OwnInv
  <2> QED BY <1>1, <1>2, <2>1, <2>2 DEF EventInv, OwnInv
<1>5. HwInv'
  <2>1. tx.storage <=> tx.phase # "idle" BY DEF EventInv, HwInv
  <2>2. tx'.phase = "idle" <=> tx.phase = "idle" BY DEF Started
  <2>3. queued' => tx'.phase = "queued"
    <3>1. queued => tx.phase = "queued" BY DEF EventInv, HwInv
    <3> QED BY <3>1 DEF Started
  <2>4. tx'.phase \in {"idle", "queued"} => tx.phase \in {"idle", "queued"} OBVIOUS
  <2> QED BY <1>2, <2>1, <2>2, <2>3, <2>4 DEF EventInv, HwInv
<1>6. StopInv' BY DEF StopInv
<1>7. IntactInv'
  <2> SUFFICES ASSUME ~interfered' PROVE IntactInv' BY DEF IntactInv
  <2>1. ~interfered /\ handle' BY DEF EventInv, IntactInv
  <2>2. Started(tx)' <=> Started(tx) BY <2>1 DEF Started
  <2>3. tx'.phase = "ended" => tx.phase = "ended" OBVIOUS
  <2>4. tx'.phase # "fault" BY <2>1 DEF EventInv, IntactInv
  <2> QED BY <1>1, <1>2, <2>1, <2>2, <2>3, <2>4 DEF EventInv, IntactInv
<1> QED BY <1>3, <1>4, <1>5, <1>6, <1>7 DEF EventInv

\* The arbiter starts nothing, or our event never gets its programs.
LEMMA StartRefusedInv ==
  ASSUME EventInv, ArbStart, StartRefused \/ StartNoEntry
  PROVE  EventInv'
<1>1. /\ queued /\ arb = "none" /\ tx.phase = "queued" /\ queued' = FALSE
      /\ UNCHANGED <<called, aborted, handle, stopping>> /\ arb' = arb
      /\ UNCHANGED <<ring, hw>>
  BY DEF ArbStart, StartRefused, StartNoEntry
<1>2. PICK p \in {"refused", "fault"}:
        /\ tx' = [tx EXCEPT !.phase = p]
        /\ p = "refused" => interfered' = interfered
        /\ p = "fault" => interfered' = TRUE
  BY DEF StartRefused, StartNoEntry
<1>3. tx \in Structs BY DEF EventInv, EventTyped
<1>4. /\ tx'.phase = p /\ tx'.mode = tx.mode /\ tx'.followActive = tx.followActive
      /\ tx'.followPending = tx.followPending
      /\ tx'.ended = tx.ended /\ tx'.globals = tx.globals /\ tx'.storage = tx.storage
      /\ tx'.alarm = tx.alarm /\ tx' \in Structs
  BY <1>2, <1>3 DEF Structs, Phases
<1>5. interfered' \in BOOLEAN BY <1>2 DEF EventInv, EventTyped
<1>6. EventTyped' BY <1>1, <1>4, <1>5 DEF EventInv, EventTyped
<1>7. stopping' => ~queued' /\ ~tx'.followPending BY <1>1, <1>4 DEF EventInv, StopInv
<1>8. tx'.alarm <=> "alarm" \in hw' BY <1>1, <1>4 DEF EventInv, HwInv
<1> QED BY <1>1, <1>2, <1>4, <1>5, <1>6, <1>7, <1>8, StructStep

LEMMA ArbCancelInv ==
  ASSUME EventInv, ArbCancel
  PROVE  EventInv'
<1>1. tx.phase = "queued" BY DEF ArbCancel, EventInv, HwInv
<1>2. /\ queued /\ queued' = FALSE /\ tx' = [tx EXCEPT !.phase = "cancelled"]
      /\ UNCHANGED <<arb, ring, called, aborted, hw, handle, interfered, stopping>>
  BY <1>1 DEF ArbCancel
<1>3. tx \in Structs BY DEF EventInv, EventTyped
<1>4. /\ tx'.phase = "cancelled" /\ tx'.mode = tx.mode /\ tx'.followActive = tx.followActive
      /\ tx'.followPending = tx.followPending
      /\ tx'.ended = tx.ended /\ tx'.globals = tx.globals /\ tx'.storage = tx.storage
      /\ tx'.alarm = tx.alarm /\ tx' \in Structs
  BY <1>2, <1>3 DEF Structs, Phases
<1>5. EventTyped' BY <1>2, <1>4 DEF EventInv, EventTyped
<1>6. stopping' => ~queued' /\ ~tx'.followPending BY <1>2, <1>4 DEF EventInv, StopInv
<1>7. tx'.alarm <=> "alarm" \in hw' BY <1>2, <1>4 DEF EventInv, HwInv
<1> QED BY <1>1, <1>2, <1>4, <1>5, <1>6, <1>7, StructStep

\* An abort command, on a struct t that differs from tx as described.
LEMMA AbortStep ==
  ASSUME EventInv, NEW t \in Structs,
         t.phase = tx.phase, t.mode = tx.mode, t.followActive = tx.followActive,
         t.ended = tx.ended, t.globals = tx.globals, t.storage = tx.storage,
         t.followPending => tx.followPending, t.alarm => tx.alarm,
         t.alarm <=> "alarm" \in hw', hw' \subseteq hw,
         "globals" \in hw' <=> "globals" \in hw, "buffer" \in hw' <=> "buffer" \in hw,
         tx' = AbortActive(t), aborted' = AbortedBy(t) \/ aborted' = AbortedBy(tx),
         stopping' \in BOOLEAN, stopping' => ~queued /\ ~t.followPending,
         UNCHANGED <<arb, queued, ring, called, handle, interfered>>
  PROVE  EventInv'
<1>1. /\ tx' \in Structs /\ AbortedBy(t) \subseteq Own /\ AbortedBy(tx) \subseteq Own
      /\ \/ tx'.phase = tx.phase
         \/ Started(tx) /\ tx'.phase = "aborting"
         \/ Started(tx) /\ interfered /\ tx'.phase = "fault"
  BY AbortEffect DEF EventInv, EventTyped
<1>2. PICK p \in Phases, s \in BOOLEAN: tx' = [t EXCEPT !.phase = p, !.stopAbort = s]
  <2>1. \E p \in Phases, s \in BOOLEAN:
          AbortActive(t) = [t EXCEPT !.phase = p, !.stopAbort = s]
    BY AbortEffect, Zenon
  <2>2. tx' = AbortActive(t) OBVIOUS
  <2> QED BY <2>1, <2>2, Zenon
<1>3. /\ tx'.mode = tx.mode /\ tx'.followActive = tx.followActive /\ tx'.ended = tx.ended
      /\ tx'.globals = tx.globals /\ tx'.storage = tx.storage
      /\ tx'.followPending = t.followPending /\ tx'.alarm = t.alarm
  BY <1>2 DEF Structs
<1>4. EventTyped' BY <1>1 DEF EventInv, EventTyped
<1>5. Started(tx) => ~queued /\ tx.phase # "idle" BY DEF Started, EventInv, HwInv
<1> QED BY <1>1, <1>3, <1>4, <1>5, StructStep

LEMMA ArbStopInv ==
  ASSUME EventInv, ArbStop
  PROVE  EventInv'
<1>1. tx \in Structs /\ stopping \in BOOLEAN BY DEF EventInv, EventTyped
<1>2. tx.alarm <=> "alarm" \in hw BY DEF EventInv, HwInv
<1>3. stopping => ~queued /\ ~tx.followPending BY DEF EventInv, StopInv
<1> QED BY <1>1, <1>2, <1>3, AbortStep DEF ArbStop

LEMMA AlarmInv ==
  ASSUME EventInv, Alarm
  PROVE  EventInv'
<1> DEFINE t == ClearAlarm(tx)
<1>1. tx \in Structs /\ stopping \in BOOLEAN BY DEF EventInv, EventTyped
<1>2. /\ t \in Structs /\ t.phase = tx.phase /\ t.mode = tx.mode
      /\ t.followActive = tx.followActive /\ t.ended = tx.ended
      /\ t.globals = tx.globals /\ t.storage = tx.storage
      /\ t.followPending = tx.followPending /\ t.alarm = FALSE
  BY <1>1 DEF Structs, ClearAlarm
<1>3. /\ hw' = hw \ {"alarm"} /\ tx' = AbortActive(t) /\ aborted' = AbortedBy(tx)
      /\ UNCHANGED <<arb, queued, ring, called, handle, interfered, stopping>>
  BY DEF Alarm
<1> HIDE DEF t
<1>4. /\ hw' \subseteq hw /\ "alarm" \notin hw'
      /\ "globals" \in hw' <=> "globals" \in hw
  BY <1>3
<1>5. "buffer" \in hw' <=> "buffer" \in hw BY <1>3
<1>6. stopping => ~queued /\ ~t.followPending BY <1>2 DEF EventInv, StopInv
<1> QED BY <1>1, <1>2, <1>3, <1>4, <1>5, <1>6, AbortStep

LEMMA CollectAbortInv ==
  ASSUME EventInv, CollectAbort
  PROVE  EventInv'
<1> DEFINE t == [tx EXCEPT !.stopAbort = TRUE]
<1>1. tx \in Structs /\ stopping \in BOOLEAN BY DEF EventInv, EventTyped
<1>2. /\ t \in Structs /\ t.phase = tx.phase /\ t.mode = tx.mode
      /\ t.followActive = tx.followActive /\ t.ended = tx.ended
      /\ t.globals = tx.globals /\ t.storage = tx.storage
      /\ t.followPending = tx.followPending /\ t.alarm = tx.alarm
  BY <1>1 DEF Structs
<1>3. /\ tx' = AbortActive(t) /\ aborted' = AbortedBy(tx) /\ hw' = hw
      /\ UNCHANGED <<arb, queued, ring, called, handle, interfered, stopping>>
  BY DEF CollectAbort
<1> HIDE DEF t
<1>4. t.alarm <=> "alarm" \in hw' BY <1>2, <1>3 DEF EventInv, HwInv
<1>5. stopping => ~queued /\ ~t.followPending BY <1>2 DEF EventInv, StopInv
<1> QED BY <1>1, <1>2, <1>3, <1>4, <1>5, AbortStep

\* A step that declares the event lost.
LEMMA FaultStep ==
  ASSUME EventInv, tx' = [tx EXCEPT !.phase = "fault"],
         tx.phase # "idle", ~queued', interfered,
         stopping' \in BOOLEAN, stopping' => ~tx.followPending, queued' \in BOOLEAN,
         UNCHANGED <<arb, ring, called, aborted, hw, handle, interfered>>
  PROVE  EventInv'
<1>1. tx \in Structs BY DEF EventInv, EventTyped
<1>2. /\ tx'.phase = "fault" /\ tx'.mode = tx.mode /\ tx'.followActive = tx.followActive
      /\ tx'.followPending = tx.followPending
      /\ tx'.ended = tx.ended /\ tx'.globals = tx.globals /\ tx'.storage = tx.storage
      /\ tx'.alarm = tx.alarm /\ tx' \in Structs
  BY <1>1 DEF Structs, Phases
<1>3. EventTyped' BY <1>2 DEF EventInv, EventTyped
<1>4. tx'.alarm <=> "alarm" \in hw' BY <1>2 DEF EventInv, HwInv
<1> QED BY <1>2, <1>3, <1>4, StructStep

\* What a received packet changes.
LEMMA ReceiveEffect ==
  ASSUME NEW t \in Structs, NEW e, NEW packet
  PROVE  /\ Receive(t, e, packet) \in Structs
         /\ Receive(t, e, packet).phase = t.phase /\ Receive(t, e, packet).mode = t.mode
         /\ Receive(t, e, packet).followActive = t.followActive
         /\ Receive(t, e, packet).followPending = t.followPending
         /\ Receive(t, e, packet).ended = t.ended /\ Receive(t, e, packet).alarm = t.alarm
         /\ Receive(t, e, packet).globals = t.globals
         /\ Receive(t, e, packet).storage = t.storage
<1> DEFINE r == t.rxInvalid \/ packet = "invalid"
           g == t.good \/ (packet = "good" /\ e # "stop")
<1>1. Receive(t, e, packet) = [t EXCEPT !.rxInvalid = r, !.good = g] BY DEF Receive
<1>2. r \in BOOLEAN /\ g \in BOOLEAN OBVIOUS
<1> HIDE DEF r, g
<1> QED BY <1>1, <1>2 DEF Structs

LEMMA RxPacketInv ==
  ASSUME EventInv, NEW packet \in Packets, RxPacket(packet)
  PROVE  EventInv'
<1> DEFINE e == OnAir
           t == Receive(tx, e, packet)
           native == tx.followPending
           enough == /\ tx.followActive \/ e = "reply" \/ native \/ Repeat
                     /\ ~t.rxInvalid /\ t.good
           u == [t EXCEPT !.followPending = @ /\ ~native]
<1>1. /\ e \in Own
      /\ UNCHANGED <<arb, queued, ring, called, hw, handle, interfered, stopping>>
      /\ \/ Faulty(e, 2) /\ tx' = [tx EXCEPT !.phase = "fault"] /\ UNCHANGED aborted
         \/ tx' = AbortActive(u) /\ aborted' = AbortedBy(u)
         \/ tx' = t /\ UNCHANGED aborted
  BY DEF RxPacket
<1>2. tx \in Structs /\ stopping \in BOOLEAN /\ queued \in BOOLEAN BY DEF EventInv, EventTyped
<1>3. /\ t \in Structs /\ t.phase = tx.phase /\ t.mode = tx.mode
      /\ t.followActive = tx.followActive /\ t.followPending = tx.followPending
      /\ t.ended = tx.ended /\ t.alarm = tx.alarm
      /\ t.globals = tx.globals /\ t.storage = tx.storage
  BY <1>2, ReceiveEffect
<1>4. u \in Structs /\ u.phase = tx.phase /\ u.mode = tx.mode
      /\ u.followActive = tx.followActive /\ (u.followPending => tx.followPending)
      /\ u.ended = tx.ended /\ u.alarm = tx.alarm
      /\ u.globals = tx.globals /\ u.storage = tx.storage
  <2> HIDE DEF t
  <2> QED BY <1>3 DEF Structs
<1>5. stopping => ~queued /\ ~tx.followPending BY DEF EventInv, StopInv
<1>6. tx.alarm <=> "alarm" \in hw BY DEF EventInv, HwInv
<1>7. e \in Open /\ tx.phase # "idle" /\ ~queued BY <1>1, OnAirOpen, OpenStarted
<1>8. ~interfered => ~Faulty(e, 2) BY <1>1, InOrder
<1> HIDE DEF e, t, u
<1>9. CASE Faulty(e, 2) /\ tx' = [tx EXCEPT !.phase = "fault"] /\ UNCHANGED aborted
  BY <1>1, <1>2, <1>5, <1>7, <1>8, <1>9, FaultStep DEF EventInv, EventTyped
<1>10. CASE tx' = AbortActive(u) /\ aborted' = AbortedBy(u)
  <2>1. stopping' \in BOOLEAN /\ (stopping' => ~queued /\ ~u.followPending)
    BY <1>1, <1>2, <1>4, <1>5
  <2>2. hw' = hw BY <1>1
  <2> QED BY <1>1, <1>4, <1>6, <1>10, <2>1, <2>2, AbortStep
<1>11. CASE tx' = t /\ UNCHANGED aborted
  <2>1. EventTyped' BY <1>1, <1>3, <1>11 DEF EventInv, EventTyped
  <2> QED BY <1>1, <1>3, <1>5, <1>6, <1>11, <2>1, StructStep
<1> QED BY <1>1, <1>9, <1>10, <1>11

LEMMA CancelInv ==
  ASSUME EventInv, Cancel
  PROVE  EventInv'
<1>1. /\ tx.phase # "idle" /\ stopping' = TRUE
      /\ CancelQueued \/ CancelRepeat \/ CancelOther
      /\ UNCHANGED <<arb, ring, called, hw, handle, interfered>>
  BY DEF Cancel
<1>2. tx \in Structs /\ queued \in BOOLEAN BY DEF EventInv, EventTyped
<1>3. tx.alarm <=> "alarm" \in hw BY DEF EventInv, HwInv
<1>4. CASE CancelQueued
  <2>1. PICK p \in {"cancelled", tx.phase}:
          tx' = [tx EXCEPT !.phase = p, !.followPending = FALSE]
    BY <1>4, <1>2 DEF CancelQueued, Structs
  <2>2. tx.phase = "queued" /\ queued' = FALSE /\ aborted' = aborted BY <1>4 DEF CancelQueued
  <2>3. /\ tx' \in Structs /\ tx'.phase \in {tx.phase, "cancelled"} /\ tx'.mode = tx.mode
        /\ tx'.followActive = tx.followActive /\ tx'.followPending = FALSE
        /\ tx'.ended = tx.ended /\ tx'.globals = tx.globals /\ tx'.storage = tx.storage
        /\ tx'.alarm = tx.alarm
    BY <1>2, <2>1, <2>2 DEF Structs, Phases
  <2>4. EventTyped' BY <1>1, <2>2, <2>3 DEF EventInv, EventTyped
  <2> QED BY <1>1, <1>3, <2>2, <2>3, <2>4, StructStep
<1>5. ASSUME tx.followPending, ~queued, Repeat PROVE FALSE
  BY <1>5 DEF Repeat, EventInv, OwnInv
<1>6. CASE CancelRepeat
  <2>1. Repeat /\ Started(tx) /\ UNCHANGED <<queued, aborted>> BY <1>6 DEF CancelRepeat
  <2>2. tx.phase # "queued" /\ ~queued BY <2>1 DEF Started, EventInv, HwInv
  <2>3. ~tx.followPending BY <1>5, <2>1, <2>2
  <2>4. CASE RepeatIntact
    <3>1. tx' = tx BY <1>2, <1>6, <2>4 DEF CancelRepeat, Structs
    <3>2. EventTyped' BY <1>1, <2>1, <3>1 DEF EventInv, EventTyped
    <3> QED BY <1>1, <1>3, <2>1, <2>2, <2>3, <3>1, <3>2, StructStep
  <2>5. CASE ~RepeatIntact
    <3>1. tx' = [tx EXCEPT !.phase = "fault"] BY <1>6, <2>5 DEF CancelRepeat
    <3>2. interfered
      <4> SUFFICES ASSUME ~interfered PROVE FALSE OBVIOUS
      <4>1. /\ arb = "ours" /\ Mine \ called \subseteq Used
            /\ Prequeued => tx.ended = called
        BY <2>1 DEF EventInv, IntactInv
      <4>2. Prequeued BY <2>1 DEF Repeat, Prequeued
      <4> QED BY <2>5, <4>1, <4>2 DEF RepeatIntact, ActiveIsOurs, EntryIsOurs
    <3> QED BY <1>1, <1>2, <2>1, <2>2, <2>3, <3>1, <3>2, FaultStep
  <2> QED BY <2>4, <2>5
<1>7. CASE CancelOther
  <2>1. /\ tx.phase # "queued" /\ tx' = AbortActive(GivenUp) /\ aborted' = AbortedBy(GivenUp)
        /\ queued' = queued
    BY <1>7 DEF CancelOther
  <2>2. ~queued BY <2>1 DEF EventInv, HwInv
  <2>3. /\ GivenUp \in Structs /\ GivenUp.phase = tx.phase /\ GivenUp.mode = tx.mode
        /\ GivenUp.followActive = tx.followActive /\ GivenUp.followPending = FALSE
        /\ GivenUp.ended = tx.ended /\ GivenUp.alarm = tx.alarm
        /\ GivenUp.globals = tx.globals /\ GivenUp.storage = tx.storage
    BY <1>2 DEF GivenUp, Structs
  <2>4. hw' = hw BY <1>1
  <2> QED BY <1>1, <1>3, <2>1, <2>2, <2>3, <2>4, AbortStep
<1> QED BY <1>1, <1>4, <1>6, <1>7

\* The entries can only be over where the event has started.
LEMMA ForeignCollected ==
  ASSUME EventInv, CollectForeign
  PROVE  tx.phase \in {"active", "aborting", "ended"}
<1>1. tx.phase \notin {"idle", "fault"} /\ Prequeued /\ Mine \subseteq tx.ended
  BY DEF CollectForeign, Collectable, AllOver, AllEnded
<1>2. tx.mode \in AllModes /\ (tx.followActive => tx.mode = "follow") /\ tx.phase \in Phases
  BY DEF EventInv, OwnInv, EventTyped, Structs
<1>3. tx.ended # {} BY <1>1, <1>2, MineOwn
<1> QED BY <1>1, <1>2, <1>3 DEF EventInv, OwnInv, Phases

LEMMA CollectForeignInv ==
  ASSUME EventInv, CollectForeign
  PROVE  EventInv'
<1>1. /\ Collectable /\ AllOver /\ arb = "foreign" /\ tx' = [tx EXCEPT !.phase = "fault"]
      /\ UNCHANGED <<rom, hw, handle, interfered, stopping>>
  BY DEF CollectForeign
<1>2. tx.phase \notin {"idle", "fault"} /\ Prequeued /\ Mine \subseteq tx.ended
  BY <1>1 DEF Collectable, AllOver, AllEnded
<1>5. tx.phase \in {"active", "aborting", "ended"} BY ForeignCollected
<1>6. ~queued BY <1>5 DEF EventInv, HwInv
<1>7. interfered
  <2> SUFFICES ASSUME ~interfered PROVE FALSE OBVIOUS
  <2>1. CASE tx.phase = "ended" BY <2>1, <1>1, <1>2 DEF EventInv, IntactInv
  <2>2. CASE tx.phase # "ended"
    <3>1. Started(tx) BY <2>2, <1>5 DEF Started
    <3> QED BY <3>1, <1>1 DEF EventInv, IntactInv
  <2> QED BY <2>1, <2>2
<1>8. UNCHANGED <<arb, queued, ring, called, aborted, hw, handle, interfered, stopping>>
  BY <1>1 DEF rom
<1>9. stopping' \in BOOLEAN /\ (stopping' => ~tx.followPending) /\ queued' \in BOOLEAN
  BY <1>8 DEF EventInv, StopInv, EventTyped
<1> QED BY <1>1, <1>2, <1>6, <1>7, <1>8, <1>9, FaultStep

LEMMA LoseHandleInv ==
  ASSUME EventInv, LoseHandle
  PROVE  EventInv'
<1>1. /\ interfered' = TRUE /\ handle' = FALSE
      /\ UNCHANGED <<tx, arb, queued, ring, called, aborted, hw, stopping>>
  BY DEF LoseHandle, rom
<1>2. EventTyped' BY <1>1 DEF EventInv, EventTyped
<1>3. tx'.alarm <=> "alarm" \in hw' BY <1>1 DEF EventInv, HwInv
<1>4. stopping' => ~queued' /\ ~tx'.followPending BY <1>1 DEF EventInv, StopInv
<1> QED BY <1>1, <1>2, <1>3, <1>4, StructStep

(***************************************************************************)
(* Steps of the ROM and of other events, on the ring and the arbiter.      *)
(***************************************************************************)
LEMMA RingStep ==
  ASSUME EventInv, RingInv', arb' \in {"none", "ours", "foreign"},
         UNCHANGED <<tx, queued, called, aborted, hw, handle, stopping>>,
         interfered' \in BOOLEAN, interfered => interfered',
         Used' \subseteq Used \cup {"foreign"},
         arb' = "ours" => arb = "ours",
         ~interfered' /\ arb = "ours" =>
           arb' = "ours" /\ Used' \subseteq Used /\ Used \ called \subseteq Used'
  PROVE  EventInv'
<1>1. Mine' = Mine /\ Prequeued' = Prequeued BY MineKept
<1>2. "foreign" \notin Own BY DEF Own
<1>3. Entries' \subseteq Entries BY <1>2 DEF Entries
<1>4. Open' \subseteq Open BY <1>3 DEF Open
<1>5. EventTyped' BY DEF EventInv, EventTyped
<1>6. OwnInv'
  <2>1. "first" \in Used' => "first" \in Used OBVIOUS
  <2> QED BY <1>1, <1>3, <1>4, <2>1 DEF EventInv, OwnInv
<1>7. HwInv' BY <1>4 DEF EventInv, HwInv
<1>8. StopInv' BY DEF EventInv, StopInv
<1>9. IntactInv'
  <2> SUFFICES ASSUME ~interfered' PROVE IntactInv' BY DEF IntactInv
  <2>1. ~interfered OBVIOUS
  <2>2. Started(tx)' <=> Started(tx) BY DEF Started
  <2>3. ASSUME Started(tx)
        PROVE  /\ arb' = "ours" /\ Used' \subseteq Mine'
               /\ Mine' \ called' \subseteq Used' /\ Mine' \ called' # {}
               /\ Prequeued' => tx'.ended = called'
    BY <1>1, <2>1, <2>3 DEF EventInv, IntactInv
  <2>4. Open' # {} => Started(tx)' BY <1>4, <2>1, <2>2 DEF EventInv, IntactInv
  <2>5. Prequeued' /\ tx'.phase = "ended" => arb' = "ours"
    BY <1>1, <2>1 DEF EventInv, IntactInv
  <2>6. handle' /\ tx'.phase # "fault" BY <2>1 DEF EventInv, IntactInv
  <2> QED BY <2>2, <2>3, <2>4, <2>5, <2>6 DEF IntactInv
<1> QED BY <1>5, <1>6, <1>7, <1>8, <1>9 DEF EventInv

LEMMA RetireInv ==
  ASSUME EventInv, Retire
  PROVE  EventInv'
<1>1. PICK i \in DOMAIN ring:
        /\ ring[i] \in called \cup {"stale"} /\ ring' = WithoutEntry(i)
        /\ UNCHANGED <<tx, arb, queued, called, aborted, hw, handle, interfered, stopping>>
  BY DEF Retire
<1>2. /\ ring' \in Seq(Own \cup {"foreign", "stale"})
      /\ \A j, k \in 1..Len(ring'): j < k => Rank(ring'[j]) < Rank(ring'[k])
      /\ Used' = Used \ {ring[i]}
  BY <1>1, EntryRemoved DEF EventInv
<1>3. ring[i] # "foreign" BY <1>1 DEF EventInv, EventTyped, Own
<1>4. RingInv' BY <1>1, <1>2, <1>3 DEF EventInv, RingInv
<1>5. arb = "ours" /\ ~interfered => "stale" \notin Used \/ ~Started(tx)
  BY MineOwn DEF EventInv, IntactInv, OwnInv, EventTyped, Structs, Own
<1>6. Mine' = Mine /\ Prequeued' = Prequeued BY <1>1, MineKept
<1>7. arb' \in {"none", "ours", "foreign"} /\ interfered' \in BOOLEAN
  BY <1>1 DEF EventInv, EventTyped
<1>8. ASSUME ring[i] = "stale", ~interfered, arb = "ours" PROVE EventInv'
  <2>1. Entries' = Entries BY <1>2, <1>8 DEF Entries, Own
  <2>2. Open' = Open BY <1>1, <2>1 DEF Open
  <2>3. "stale" \in Used BY <1>8, <1>1, RingShort DEF EventInv
  <2>4. ~Started(tx) BY <1>5, <1>8, <2>3
  <2>5. EventTyped' BY <1>1 DEF EventInv, EventTyped
  <2>6. "first" \in Used' => "first" \in Used BY <1>2
  <2>7. OwnInv' BY <1>1, <1>6, <2>1, <2>2, <2>6 DEF EventInv, OwnInv
  <2>8. HwInv' BY <1>1, <2>2 DEF EventInv, HwInv
  <2>9. StopInv' BY <1>1 DEF EventInv, StopInv
  <2>10. ~Started(tx)' BY <1>1, <2>4 DEF Started
  <2>11. IntactInv' BY <1>1, <1>6, <2>2, <2>4, <2>10 DEF EventInv, IntactInv
  <2> QED BY <1>4, <2>5, <2>7, <2>8, <2>9, <2>11 DEF EventInv
<1>9. CASE ring[i] # "stale"
  <2>1. Used \ called \subseteq Used' /\ Used' \subseteq Used BY <1>1, <1>2, <1>9
  <2> QED BY <1>1, <1>4, <1>7, <2>1, RingStep
<1>10. CASE interfered \/ arb # "ours"
  <2>1. Used' \subseteq Used BY <1>2
  <2> QED BY <1>1, <1>4, <1>7, <1>10, <2>1, RingStep
<1> QED BY <1>8, <1>9, <1>10

LEMMA ForeignStartInv ==
  ASSUME EventInv, ForeignStart
  PROVE  EventInv'
<1>1. /\ arb = "none" /\ "foreign" \notin Used
      /\ arb' = "foreign" /\ ring' = Append(ring, "foreign")
      /\ UNCHANGED <<tx, queued, called, aborted, hw, handle, interfered, stopping>>
  BY DEF ForeignStart
<1>2. /\ ring' \in Seq(Own \cup {"foreign", "stale"})
      /\ \A j, k \in 1..Len(ring'): j < k => Rank(ring'[j]) < Rank(ring'[k])
      /\ Used' = Used \cup {"foreign"}
  BY <1>1, ForeignPushed DEF EventInv
<1>3. RingInv' BY <1>1, <1>2 DEF RingInv
<1>4. interfered' \in BOOLEAN BY <1>1 DEF EventInv, EventTyped
<1> QED BY <1>1, <1>2, <1>3, <1>4, RingStep

LEMMA ForeignEndInv ==
  ASSUME EventInv, ForeignEnd
  PROVE  EventInv'
<1>1. PICK i \in DOMAIN ring: ring[i] = "foreign" /\ ring' = WithoutEntry(i)
  BY DEF ForeignEnd
<1>2. UNCHANGED <<tx, queued, called, aborted, hw, handle, interfered, stopping>>
  BY DEF ForeignEnd
<1>3. /\ ring' \in Seq(Own \cup {"foreign", "stale"})
      /\ \A j, k \in 1..Len(ring'): j < k => Rank(ring'[j]) < Rank(ring'[k])
      /\ Used' = Used \ {"foreign"}
  BY <1>1, EntryRemoved DEF EventInv
<1>4. "foreign" \in Used BY <1>1, RingShort DEF EventInv
<1>5. arb = "foreign" /\ arb' = "none" BY <1>4 DEF ForeignEnd, EventInv, RingInv
<1>6. RingInv' BY <1>3, <1>5 DEF RingInv
<1>7. interfered' \in BOOLEAN BY <1>2 DEF EventInv, EventTyped
<1> QED BY <1>2, <1>3, <1>5, <1>6, <1>7, RingStep

LEMMA PreemptInv ==
  ASSUME EventInv, Preempt
  PROVE  EventInv'
<1>1. /\ interfered' = TRUE /\ arb = "ours" /\ arb' = "foreign"
      /\ ring' = Append(ring, "foreign")
      /\ UNCHANGED <<tx, queued, called, aborted, hw, handle, stopping>>
  BY DEF Preempt
<1>2. "foreign" \notin Used BY <1>1 DEF EventInv, RingInv
<1>3. /\ ring' \in Seq(Own \cup {"foreign", "stale"})
      /\ \A j, k \in 1..Len(ring'): j < k => Rank(ring'[j]) < Rank(ring'[k])
      /\ Used' = Used \cup {"foreign"}
  BY <1>1, <1>2, ForeignPushed DEF EventInv
<1>4. RingInv' BY <1>1, <1>3 DEF RingInv
<1> QED BY <1>1, <1>3, <1>4, RingStep

(***************************************************************************)
(* Submission, start and release.                                          *)
(***************************************************************************)
LEMMA ClearStruct == Clear \in Structs /\ Clear.phase = "idle" /\ ~Clear.followActive
                     /\ ~Clear.followPending /\ ~Clear.globals /\ ~Clear.alarm /\ ~Clear.storage
                     /\ Clear.ended = {} /\ Clear.mode = "single"
BY DEF Clear, Structs, Phases, AllModes

LEMMA SubmitInv ==
  ASSUME EventInv, NEW mode \in Modes, Submit(mode)
  PROVE  EventInv'
<1> DEFINE f == mode = "follow"
<1>1. /\ tx.phase = "idle" /\ queued' = TRUE /\ hw' = hw \cup {"buffer"} /\ stopping' = FALSE
      /\ tx' = [Clear EXCEPT !.phase = "queued", !.mode = mode,
                             !.followPending = f, !.storage = TRUE]
      /\ UNCHANGED <<arb, ring, called, aborted, handle, interfered>>
  BY DEF Submit
<1>2. mode \in AllModes /\ f \in BOOLEAN BY ModesAssumption
<1>3. f => mode = "follow" OBVIOUS
<1> HIDE DEF f
<1>4. /\ tx' \in Structs /\ tx'.phase = "queued" /\ tx'.mode = mode /\ tx'.followPending = f
      /\ ~tx'.followActive /\ tx'.storage /\ ~tx'.globals /\ ~tx'.alarm /\ tx'.ended = {}
  BY <1>1, <1>2, ClearStruct DEF Structs, Phases
<1>5. Entries = {} /\ called = {} BY <1>1 DEF EventInv, OwnInv
<1>6. ~tx.globals /\ ~tx.alarm BY <1>1 DEF EventInv, HwInv
<1>7. "globals" \notin hw /\ "alarm" \notin hw BY <1>6 DEF EventInv, HwInv
<1>8. Used' = Used /\ Entries' = {} /\ Open' = {} BY <1>1, <1>5 DEF Used, Entries, Open
<1>9. EventTyped' BY <1>1, <1>4 DEF EventInv, EventTyped
<1>10. RingInv' BY <1>1, <1>8 DEF EventInv, RingInv
<1>11. OwnInv' BY <1>1, <1>3, <1>4, <1>5, <1>8 DEF OwnInv
<1>12. HwInv' BY <1>1, <1>4, <1>7, <1>8 DEF HwInv
<1>13. StopInv' BY <1>1 DEF StopInv
<1>14. IntactInv' BY <1>1, <1>4, <1>8 DEF EventInv, IntactInv, Started
<1> QED BY <1>9, <1>10, <1>11, <1>12, <1>13, <1>14 DEF EventInv

LEMMA SubmitConflictInv ==
  ASSUME EventInv, SubmitConflict
  PROVE  EventInv'
<1>1. /\ tx.phase = "idle" /\ tx' = Clear /\ hw' = (hw \cup {"buffer"}) \ {"buffer"}
      /\ UNCHANGED <<arb, queued, ring, called, aborted, handle, interfered, stopping>>
  BY DEF SubmitConflict, ReleaseStorage, rom
<1>2. Entries = {} /\ called = {} BY <1>1 DEF EventInv, OwnInv
<1>3. ~tx.globals /\ ~tx.alarm /\ arb # "ours" /\ ~queued BY <1>1 DEF EventInv, HwInv
<1>4. "globals" \notin hw' /\ "alarm" \notin hw' /\ "buffer" \notin hw'
  BY <1>1, <1>3 DEF EventInv, HwInv
<1>5. Used' = Used /\ Entries' = {} /\ Open' = {} BY <1>1, <1>2 DEF Used, Entries, Open
<1>6. EventTyped' BY <1>1, ClearStruct DEF EventInv, EventTyped
<1>7. RingInv' BY <1>1, <1>5 DEF EventInv, RingInv
<1>8. OwnInv' BY <1>1, <1>2, <1>5, ClearStruct DEF OwnInv
<1>9. HwInv' BY <1>1, <1>3, <1>4, <1>5, ClearStruct DEF HwInv
<1>10. StopInv' BY <1>1, ClearStruct DEF EventInv, StopInv
<1>11. IntactInv' BY <1>1, <1>5, ClearStruct DEF EventInv, IntactInv, Started
<1> QED BY <1>6, <1>7, <1>8, <1>9, <1>10, <1>11 DEF EventInv

LEMMA StartProgramsInv ==
  ASSUME EventInv, ArbStart, NEW n \in 0..Len(Programs), StartPrograms(n)
  PROVE  EventInv'
<1> DEFINE all == n = Len(Programs)
           p == IF all THEN "active" ELSE "fault"
<1>1. /\ queued /\ arb = "none" /\ tx.phase = "queued" /\ queued' = FALSE
      /\ UNCHANGED <<called, aborted, handle, stopping>>
  BY DEF ArbStart
<1>2. /\ handle /\ ring = <<>> /\ (all \/ ~interfered)
      /\ tx' = [tx EXCEPT !.phase = p, !.globals = TRUE, !.alarm = all]
      /\ arb' = "ours" /\ ring' = ring \o SubSeq(Programs, 1, n)
      /\ hw' = hw \cup {"globals"} \cup (IF all THEN {"alarm"} ELSE {})
      /\ interfered' = (interfered \/ ~all)
  BY DEF StartPrograms, RingEmpty
<1>3. all \in BOOLEAN /\ p \in {"active", "fault"} /\ (p = "active" <=> all) OBVIOUS
<1>4. tx \in Structs /\ interfered \in BOOLEAN BY DEF EventInv, EventTyped
<1>5. tx.mode \in AllModes /\ (tx.followActive => tx.mode = "follow")
  BY <1>4 DEF EventInv, OwnInv, Structs
<1>6. /\ ring' \in Seq(Own \cup {"foreign", "stale"})
      /\ \A j, k \in 1..Len(ring'): j < k => Rank(ring'[j]) < Rank(ring'[k])
      /\ Used' \subseteq Mine /\ (all => Used' = Mine)
  BY <1>2, ProgramsPushed
<1> HIDE DEF all, p
<1>7. /\ tx' \in Structs /\ tx'.phase = p /\ tx'.mode = tx.mode
      /\ tx'.followPending = tx.followPending /\ tx'.followActive = tx.followActive
      /\ tx'.storage = tx.storage /\ tx'.globals = TRUE /\ tx'.alarm = all
      /\ tx'.ended = tx.ended
  BY <1>2, <1>3, <1>4 DEF Structs, Phases
<1>8. Mine' = Mine /\ Prequeued' = Prequeued BY <1>7, MineKept
<1>9. Mine \subseteq Own /\ Mine # {} BY <1>5, MineOwn
<1>10. Mine \cap called = {} /\ (Prequeued => tx.ended = {}) BY <1>1 DEF EventInv, OwnInv
<1>11. EventTyped'
  <2>1. interfered' \in BOOLEAN BY <1>2, <1>3, <1>4
  <2>2. hw' \subseteq {"alarm", "globals", "buffer"} BY <1>2, <1>3 DEF EventInv, EventTyped
  <2> QED BY <1>1, <1>2, <1>7, <2>1, <2>2 DEF EventInv, EventTyped
<1>12. RingInv'
  <2>1. "foreign" \notin Used' BY <1>6, <1>9 DEF Own
  <2> QED BY <1>2, <1>6, <2>1 DEF RingInv
<1>13. Entries' \subseteq Mine BY <1>6 DEF Entries
<1>14. "first" \in Used' => ~tx.followActive
  <2>1. tx.followActive => Mine = {"follow"} BY <1>5, MineIs
  <2> QED BY <1>6, <2>1
<1>15. OwnInv'
  <2>1. called' \subseteq Mine \cup (IF tx.followActive THEN {"first"} ELSE {})
    BY <1>1 DEF EventInv, OwnInv
  <2>2. tx'.followActive => tx'.mode = "follow" /\ ~tx'.followPending
    BY <1>7 DEF EventInv, OwnInv
  <2>3. tx'.followPending => tx'.mode = "follow" BY <1>7 DEF EventInv, OwnInv
  <2>4. tx'.ended \subseteq called' BY <1>1, <1>7 DEF EventInv, OwnInv
  <2>5. tx'.phase \in {"active", "fault"} BY <1>3, <1>7
  <2> QED BY <1>8, <1>7, <1>13, <1>14, <2>1, <2>2, <2>3, <2>4, <2>5 DEF OwnInv
<1>16. HwInv'
  <2>1. "alarm" \notin hw /\ "buffer" \in hw /\ tx.storage
    BY <1>1 DEF EventInv, HwInv
  <2>2. tx'.alarm <=> "alarm" \in hw' BY <1>2, <1>3, <1>7, <2>1
  <2> QED BY <1>1, <1>2, <1>3, <1>7, <2>1, <2>2 DEF HwInv
<1>17. StopInv' BY <1>1 DEF EventInv, StopInv
<1>18. IntactInv'
  <2> SUFFICES ASSUME ~interfered' PROVE IntactInv' BY DEF IntactInv
  <2>1. all /\ ~interfered BY <1>2
  <2>2. tx'.phase = "active" /\ handle' BY <1>1, <1>2, <1>3, <1>7, <2>1
  <2>3. Used' = Mine' /\ Mine' \ called' = Mine' BY <1>1, <1>6, <1>8, <1>10, <2>1
  <2>4. Prequeued' => tx'.ended = called'
    <3>1. Prequeued => called \subseteq Mine
      <4>1. Prequeued => ~tx.followActive BY <1>5 DEF Prequeued
      <4> QED BY <4>1 DEF EventInv, OwnInv
    <3> QED BY <1>1, <1>7, <1>8, <1>10, <3>1
  <2>5. Mine' # {} BY <1>8, <1>9
  <2> QED BY <1>2, <2>2, <2>3, <2>4, <2>5 DEF IntactInv, Started
<1> QED BY <1>11, <1>12, <1>15, <1>16, <1>17, <1>18 DEF EventInv

LEMMA CollectReleaseInv ==
  ASSUME EventInv, CollectRelease
  PROVE  EventInv'
<1> DEFINE t == IF AllOver THEN RestoreGlobals(tx) ELSE tx
           a == IF AllOver THEN Removed ELSE arb
<1>1. /\ tx.phase \notin {"idle", "fault"}
      /\ AllOver => arb # "foreign"
      /\ t.phase \in {"ended", "cancelled", "refused"}
      /\ ~t.globals /\ ~t.alarm /\ a # "ours" /\ Mine \cap Used = {}
      /\ hw' = IF t.storage THEN ReleaseStorage(Without(t)) ELSE Without(t)
      /\ arb' = a /\ tx' = Clear
      /\ ring' = [i \in DOMAIN ring |-> IF ring[i] \in Own THEN "stale" ELSE ring[i]]
      /\ called' = {} /\ aborted' = {} /\ stopping' = FALSE
      /\ UNCHANGED <<queued, handle, interfered>>
  BY DEF CollectRelease, Collectable, Unused, ProgramIsOurs
<1>2. tx \in Structs BY DEF EventInv, EventTyped
<1>3. /\ t.phase = tx.phase /\ t.storage = tx.storage /\ t.alarm = tx.alarm
      /\ t.globals => tx.globals
  <2>1. CASE AllOver BY <2>1, <1>2 DEF RestoreGlobals, Structs
  <2>2. CASE ~AllOver BY <2>2
  <2> QED BY <2>1, <2>2
<1>4. a \in {"none", "ours", "foreign"} /\ (a = "foreign" <=> arb = "foreign")
  BY DEF EventInv, EventTyped, Removed, ActiveIsOurs
<1> HIDE DEF t, a
<1>5. tx.storage /\ ~queued BY <1>1, <1>3 DEF EventInv, HwInv
<1>6. "buffer" \notin hw' /\ hw' \subseteq hw
  BY <1>1, <1>3, <1>5 DEF ReleaseStorage, Without
<1>7. "alarm" \notin hw' /\ "globals" \notin hw'
  <2>1. "alarm" \notin hw BY <1>1, <1>3 DEF EventInv, HwInv
  <2>2. CASE tx.globals
    <3>1. "globals" \notin Without(t) BY <2>2, <1>1 DEF Without
    <3> QED BY <3>1, <2>1, <1>1, <1>6 DEF ReleaseStorage
  <2>3. CASE ~tx.globals
    <3>1. "globals" \notin hw BY <2>3 DEF EventInv, HwInv
    <3> QED BY <3>1, <2>1, <1>6
  <2> QED BY <2>2, <2>3
<1>8. Entries \subseteq {"first"}
  BY <1>1 DEF Entries, EventInv, OwnInv
<1>9. /\ ring' \in Seq(Own \cup {"foreign", "stale"})
      /\ \A j, k \in 1..Len(ring'): j < k => Rank(ring'[j]) < Rank(ring'[k])
      /\ Entries' = {} /\ ("foreign" \in Used' <=> "foreign" \in Used)
  BY <1>1, <1>8, EntriesForgotten DEF EventInv
<1>10. Open' = {} BY <1>9 DEF Open
<1>11. EventTyped'
  <2>1. hw' \subseteq {"alarm", "globals", "buffer"} BY <1>6 DEF EventInv, EventTyped
  <2> QED BY <1>1, <1>4, <2>1, ClearStruct DEF EventInv, EventTyped
<1>12. RingInv' BY <1>1, <1>4, <1>9 DEF EventInv, RingInv
<1>13. OwnInv' BY <1>1, <1>9, ClearStruct DEF OwnInv
<1>14. HwInv' BY <1>1, <1>5, <1>6, <1>7, <1>10, ClearStruct DEF HwInv
<1>15. StopInv' BY <1>1 DEF StopInv
<1>16. IntactInv' BY <1>1, <1>10, ClearStruct DEF EventInv, IntactInv, Started
<1> QED BY <1>11, <1>12, <1>13, <1>14, <1>15, <1>16 DEF EventInv

(***************************************************************************)
(* The final callback of a program.                                        *)
(***************************************************************************)
\* Whose entries are left when e was called back.
LEMMA CalledBack ==
  ASSUME EventInv, NEW e \in Open, called' = called \cup {e},
         Entries' = Entries
  PROVE  Open' = Open \ {e} /\ called' \subseteq Own
BY DEF Open, Entries, EventInv, EventTyped

\* A callback that finds its entry or its order wrong.
LEMMA FaultyInv ==
  ASSUME EventInv, NEW e \in Open, interfered, called' = called \cup {e},
         tx' = [tx EXCEPT !.phase = "fault"],
         UNCHANGED <<arb, queued, ring, hw, aborted, handle, interfered, stopping>>
  PROVE  EventInv'
<1>1. tx \in Structs BY DEF EventInv, EventTyped
<1>2. /\ tx'.phase = "fault" /\ tx'.mode = tx.mode /\ tx'.followActive = tx.followActive
      /\ tx'.followPending = tx.followPending
      /\ tx'.ended = tx.ended /\ tx'.globals = tx.globals /\ tx'.storage = tx.storage
      /\ tx'.alarm = tx.alarm /\ tx' \in Structs
  BY <1>1 DEF Structs, Phases
<1>3. Used' = Used /\ Entries' = Entries BY DEF Used, Entries
<1>4. Open' = Open \ {e} /\ called' \subseteq Own BY <1>3, CalledBack
<1>5. tx.phase \notin {"idle", "queued"} /\ ~queued BY OpenStarted
<1>6. Mine' = Mine BY <1>2, MineKept
<1>7. e \in Entries BY DEF Open
<1>8. EventTyped' BY <1>2, <1>4 DEF EventInv, EventTyped
<1>9. RingInv' BY <1>3 DEF EventInv, RingInv
<1>10. OwnInv' BY <1>2, <1>3, <1>6, <1>7 DEF EventInv, OwnInv
<1>11. HwInv' BY <1>2, <1>4, <1>5 DEF EventInv, HwInv
<1>12. StopInv' BY <1>2 DEF EventInv, StopInv
<1>13. IntactInv' BY DEF IntactInv
<1> QED BY <1>8, <1>9, <1>10, <1>11, <1>12, <1>13 DEF EventInv

\* One program of several is over.
LEMMA PrequeuedDoneInv ==
  ASSUME EventInv, NEW e \in Open, Prequeued, NEW reason, NEW t \in Structs,
         t.phase = tx.phase, t.mode = tx.mode, t.followActive = tx.followActive,
         t.followPending = tx.followPending, t.ended = tx.ended, t.alarm = tx.alarm,
         t.globals = tx.globals, t.storage = tx.storage,
         e \in Mine, called' = called \cup {e},
         PrequeuedDone(e, reason, t),
         UNCHANGED <<aborted, handle, interfered, stopping>>
  PROVE  EventInv'
<1> DEFINE u == [t EXCEPT !.ended = @ \cup {e}]
           v == IF AllEnded(u.ended) THEN Ended(ClearAlarm(u)) ELSE u
<1>1. tx' = v /\ hw' = Without(v) /\ UNCHANGED <<arb, queued, ring>>
  BY DEF PrequeuedDone
<1>2. tx \in Structs /\ e \in Own BY DEF EventInv, EventTyped, Open, Entries
<1>3. /\ u \in Structs /\ u.phase = tx.phase /\ u.mode = tx.mode
      /\ u.followActive = tx.followActive /\ u.followPending = tx.followPending
      /\ u.ended = tx.ended \cup {e} /\ u.alarm = tx.alarm
      /\ u.globals = tx.globals /\ u.storage = tx.storage
  BY <1>2 DEF Structs
<1> DEFINE over == Mine \subseteq u.ended
<1>4. AllEnded(u.ended) <=> over BY DEF AllEnded
<1>5. tx.phase \in {"active", "aborting", "ended", "fault"} /\ tx.globals /\ ~queued
  BY OpenStarted
<1>6. /\ v \in Structs /\ v.mode = tx.mode
      /\ v.followActive = tx.followActive /\ v.followPending = tx.followPending
      /\ v.ended = tx.ended \cup {e}
      /\ v.globals = tx.globals /\ v.storage = tx.storage
      /\ v.phase = (IF over /\ tx.phase # "fault" THEN "ended" ELSE tx.phase)
      /\ v.alarm = (IF over THEN FALSE ELSE tx.alarm)
  <2> HIDE DEF u
  <2>1. CASE over /\ tx.phase = "fault"
    <3>1. v = [u EXCEPT !.alarm = FALSE]
      BY <2>1, <1>3, <1>4 DEF Ended, ClearAlarm, Structs
    <3> HIDE DEF v
    <3> QED BY <3>1, <2>1, <1>3 DEF Structs
  <2>2. CASE over /\ tx.phase # "fault"
    <3>1. v = [u EXCEPT !.alarm = FALSE, !.phase = "ended"]
      BY <2>2, <1>3, <1>4 DEF Ended, ClearAlarm, Structs
    <3> HIDE DEF v
    <3> QED BY <3>1, <2>2, <1>3 DEF Structs, Phases
  <2>3. CASE ~over
    <3>1. v = u BY <2>3, <1>4
    <3> HIDE DEF v
    <3> QED BY <3>1, <2>3, <1>3
  <2> QED BY <2>1, <2>2, <2>3
<1> HIDE DEF u, v, over
<1>7. over <=> Mine \subseteq tx.ended \cup {e} BY <1>3 DEF over
<1>8. Used' = Used /\ Entries' = Entries BY <1>1 DEF Used, Entries
<1>9. Open' = Open \ {e} /\ called' \subseteq Own BY <1>8, CalledBack
<1>10. Mine' = Mine /\ Prequeued' = Prequeued BY <1>1, <1>6, MineKept
<1>11. hw' = IF over THEN hw \ {"alarm"} ELSE hw
  <2>1. tx.alarm <=> "alarm" \in hw BY DEF EventInv, HwInv
  <2> QED BY <2>1, <1>1, <1>6, <1>2 DEF Without, Structs
<1>12. EventTyped' BY <1>1, <1>6, <1>9, <1>11 DEF EventInv, EventTyped
<1>13. RingInv' BY <1>1, <1>8 DEF EventInv, RingInv
<1>14. OwnInv'
  <2>1. e \in Entries BY DEF Open
  <2>2. tx'.phase \notin {"idle", "queued", "cancelled", "refused"} BY <1>1, <1>5, <1>6
  <2>3. tx'.ended \subseteq called' BY <1>1, <1>6 DEF EventInv, OwnInv
  <2>4. tx'.phase = "ended" => Open' = {}
    <3> SUFFICES ASSUME tx'.phase = "ended" PROVE Open' = {} OBVIOUS
    <3>1. CASE over
      <4>1. Mine \subseteq called' BY <1>1, <1>6, <1>7, <2>3, <3>1
      <4>2. Entries \subseteq Mine BY DEF Prequeued, EventInv, OwnInv
      <4> QED BY <1>8, <4>1, <4>2 DEF Open
    <3>2. CASE ~over
      <4>1. tx.phase = "ended" BY <1>1, <1>6, <3>2
      <4> QED BY <4>1 DEF EventInv, OwnInv
    <3> QED BY <3>1, <3>2
  <2> QED BY <1>1, <1>6, <1>8, <1>10, <2>1, <2>2, <2>3, <2>4 DEF EventInv, OwnInv
<1>15. HwInv'
  <2>1. tx'.phase \notin {"idle", "queued"} BY <1>1, <1>5, <1>6
  <2>2. /\ tx'.globals <=> "globals" \in hw'
        /\ tx'.alarm <=> "alarm" \in hw'
        /\ tx'.storage <=> "buffer" \in hw'
    BY <1>1, <1>6, <1>11 DEF EventInv, HwInv
  <2>3. tx'.storage /\ tx'.globals /\ ~queued' BY <1>1, <1>5, <1>6 DEF EventInv, HwInv
  <2> QED BY <2>1, <2>2, <2>3 DEF HwInv
<1>16. StopInv' BY <1>1, <1>6 DEF EventInv, StopInv
<1>17. IntactInv'
  <2> SUFFICES ASSUME ~interfered' PROVE IntactInv' BY DEF IntactInv
  <2>1. /\ ~interfered /\ handle' /\ Started(tx) /\ Open \subseteq Mine
        /\ tx.phase # "fault"
    BY OpenStarted DEF EventInv, IntactInv
  <2>2. /\ arb' = "ours" /\ Used' \subseteq Mine' /\ Mine \ called \subseteq Used
        /\ tx.ended = called
    BY <1>1, <1>8, <1>10, <2>1 DEF EventInv, IntactInv
  <2>3. tx'.ended = called' BY <1>1, <1>6, <2>2
  <2>4. CASE over
    <3>1. tx'.phase = "ended" BY <1>1, <1>6, <2>1, <2>4
    <3>2. Open' = {} BY <1>7, <1>9, <2>1, <2>2, <2>4 DEF Open
    <3> QED BY <2>1, <2>2, <3>1, <3>2 DEF IntactInv, Started
  <2>5. CASE ~over
    <3>1. tx'.phase = tx.phase BY <1>1, <1>6, <2>5
    <3>2. Mine' \ called' # {} BY <1>7, <1>10, <2>2, <2>5
    <3>3. Mine' \ called' \subseteq Used' BY <1>8, <1>10, <2>2
    <3>4. Started(tx)' /\ tx'.phase # "fault" /\ tx'.phase # "ended"
      BY <2>1, <3>1 DEF Started
    <3> QED BY <2>1, <2>2, <2>3, <3>2, <3>3, <3>4 DEF IntactInv
  <2> QED BY <2>4, <2>5
<1> QED BY <1>12, <1>13, <1>14, <1>15, <1>16, <1>17 DEF EventInv

\* The program of an event of one is over, and no followup is tried.
LEMMA SingleOverInv ==
  ASSUME EventInv, NEW e \in Open, ~Prequeued, NEW p,
         called' = called \cup {e}, Open' = {}, e \in Mine,
         tx' \in Structs, tx'.phase = p, p \in {"ended", "fault"}, ~interfered => p = "ended",
         tx'.mode = tx.mode, tx'.followActive = tx.followActive,
         tx'.followPending => tx.followPending, tx'.ended = tx.ended,
         ~tx'.globals, ~tx'.alarm, tx'.storage,
         hw' = hw \ {"globals", "alarm"},
         arb' \in {"none", "ours", "foreign"}, RingInv',
         Used' = Used \/ Used' = Used \cup {"foreign"},
         queued' = queued, UNCHANGED <<aborted, handle, interfered, stopping>>
  PROVE  EventInv'
<1>1. tx.phase \in {"active", "aborting", "ended", "fault"} /\ tx.globals /\ ~queued
  BY OpenStarted
<1>2. e \in Entries /\ e \in Own /\ "foreign" \notin Own BY DEF Open, Entries, Own
<1>3. Entries' = Entries BY <1>2 DEF Entries
<1>4. Mine' = Mine /\ Prequeued' = Prequeued BY MineKept
<1>5. EventTyped' BY <1>2 DEF EventInv, EventTyped
<1>6. OwnInv'
  <2>1. "first" \in Used' => "first" \in Used OBVIOUS
  <2>2. tx'.followActive => ~tx'.followPending BY DEF EventInv, OwnInv
  <2> QED BY <1>2, <1>3, <1>4, <2>1, <2>2 DEF EventInv, OwnInv
<1>7. HwInv'
  <2>1. tx.phase # "idle" BY <1>1
  <2>2. "buffer" \in hw BY <2>1 DEF EventInv, HwInv
  <2>3. "buffer" \in hw' /\ "globals" \notin hw' /\ "alarm" \notin hw' BY <2>2
  <2> QED BY <1>1, <2>3 DEF HwInv
<1>8. StopInv' BY <1>1 DEF EventInv, StopInv
<1>9. IntactInv'
  <2> SUFFICES ASSUME ~interfered' PROVE IntactInv' BY DEF IntactInv
  <2>1. handle' /\ tx'.phase = "ended" BY DEF EventInv, IntactInv
  <2> QED BY <1>4, <2>1 DEF IntactInv, Started
<1> QED BY <1>5, <1>6, <1>7, <1>8, <1>9 DEF EventInv

\* The followup is listed, or was refused a place in the arbiter's list.
LEMMA FollowTriedInv ==
  ASSUME EventInv, NEW e \in Open, ~Prequeued, tx.followPending, e \in Mine,
         called' = called \cup {e}, Open' = {},
         tx' \in Structs, tx'.phase \in {"ended", "queued"},
         queued' = (tx'.phase = "queued"),
         tx'.mode = tx.mode, tx'.followActive, ~tx'.followPending, tx'.ended = tx.ended,
         ~tx'.globals, ~tx'.alarm, tx'.storage,
         hw' = hw \ {"globals", "alarm"},
         arb' = "none", arb # "foreign",
         UNCHANGED <<ring, aborted, handle, interfered, stopping>>
  PROVE  EventInv'
<1>1. tx.phase \in {"active", "aborting", "ended", "fault"} /\ tx.globals BY OpenStarted
<1>2. e \in Entries /\ e \in Own BY DEF Open, Entries
<1>3. Entries' = Entries /\ Used' = Used BY DEF Entries, Used
<1>4. tx.mode = "follow" /\ ~tx.followActive BY DEF EventInv, OwnInv
<1>5. Mine = {"first"} BY <1>4, MineIs DEF AllModes
<1>6. Mine' = {"follow"} BY <1>4, FollowIsMine
<1>7. ~Prequeued' BY <1>4 DEF Prequeued
<1>8. EventTyped'
  <2>1. queued' \in BOOLEAN OBVIOUS
  <2> QED BY <1>2, <2>1 DEF EventInv, EventTyped
<1>9. RingInv' BY <1>3 DEF EventInv, RingInv
<1>10. Entries \cup called' \subseteq {"first"}
  BY <1>2, <1>4, <1>5 DEF EventInv, OwnInv
<1>11. OwnInv'
  <2>1. "first" \in called' BY <1>5
  <2>2. Mine' \cap (called' \cup Entries') = {} BY <1>3, <1>6, <1>10
  <2>3. tx'.ended \subseteq called' BY DEF EventInv, OwnInv
  <2> QED BY <1>3, <1>4, <1>7, <1>10, <2>1, <2>2, <2>3 DEF OwnInv
<1>12. HwInv'
  <2>1. tx.phase # "idle" BY <1>1
  <2>2. "buffer" \in hw BY <2>1 DEF EventInv, HwInv
  <2>3. "buffer" \in hw' /\ "globals" \notin hw' /\ "alarm" \notin hw' BY <2>2
  <2> QED BY <2>3 DEF HwInv
<1>13. StopInv' BY DEF EventInv, StopInv
<1>14. IntactInv'
  <2> SUFFICES ASSUME ~interfered' PROVE IntactInv' BY DEF IntactInv
  <2>1. handle' BY DEF EventInv, IntactInv
  <2> QED BY <1>7, <2>1 DEF IntactInv, Started
<1> QED BY <1>8, <1>9, <1>11, <1>12, <1>13, <1>14 DEF EventInv

LEMMA SingleDoneInv ==
  ASSUME EventInv, NEW e \in Open, ~Prequeued, NEW reason, NEW t \in Structs,
         t.phase = tx.phase, t.mode = tx.mode, t.followActive = tx.followActive,
         t.followPending = tx.followPending, t.ended = tx.ended, t.alarm = tx.alarm,
         t.globals = tx.globals, t.storage = tx.storage,
         e \in Mine, called' = called \cup {e}, SingleDone(reason, t),
         UNCHANGED <<aborted, handle, interfered, stopping>>
  PROVE  EventInv'
<1> DEFINE u == Ended(RestoreGlobals(ClearAlarm(t)))
           p == IF tx.phase = "fault" THEN "fault" ELSE "ended"
<1>1. /\ hw' = Without(u)
      /\ IF Follows(u, reason) THEN FollowUp(u)
         ELSE tx' = u /\ arb' = Removed /\ UNCHANGED <<queued, ring>>
  BY DEF SingleDone
<1>2. tx \in Structs BY DEF EventInv, EventTyped
<1>3. /\ u \in Structs /\ u.phase = p /\ u.mode = tx.mode
      /\ u.followActive = tx.followActive /\ u.followPending = tx.followPending
      /\ ~u.globals /\ ~u.alarm /\ u.storage = tx.storage /\ u.ended = tx.ended
  <2>1. CASE tx.phase = "fault"
    <3>1. u = [t EXCEPT !.alarm = FALSE, !.globals = FALSE]
      BY <2>1 DEF Ended, RestoreGlobals, ClearAlarm, Structs
    <3> HIDE DEF u
    <3> QED BY <3>1, <2>1 DEF Structs
  <2>2. CASE tx.phase # "fault"
    <3>1. u = [t EXCEPT !.alarm = FALSE, !.globals = FALSE, !.phase = "ended"]
      BY <2>2 DEF Ended, RestoreGlobals, ClearAlarm, Structs
    <3> HIDE DEF u
    <3> QED BY <3>1, <2>2 DEF Structs, Phases
  <2> QED BY <2>1, <2>2
<1>4. p \in {"ended", "fault"} OBVIOUS
<1>5. ~interfered => p = "ended" BY DEF EventInv, IntactInv
<1> HIDE DEF u, p
<1>6. tx.phase \in {"active", "aborting", "ended", "fault"} /\ tx.globals /\ ~queued
  BY OpenStarted
<1>7. tx.storage BY <1>6 DEF EventInv, HwInv
<1>8. hw' = hw \ {"globals", "alarm"}
  <2>1. (tx.alarm <=> "alarm" \in hw) /\ (tx.globals <=> "globals" \in hw)
    BY DEF EventInv, HwInv
  <2>2. hw' = hw \ ((IF tx.alarm THEN {"alarm"} ELSE {}) \cup (IF tx.globals THEN {"globals"} ELSE {}))
    BY <1>1, <1>3 DEF Without
  <2>3. CASE tx.alarm BY <2>1, <2>2, <2>3, <1>6
  <2>4. CASE ~tx.alarm BY <2>1, <2>2, <2>4, <1>6
  <2> QED BY <2>3, <2>4
<1>9. tx.mode \in AllModes /\ (tx.followActive => tx.mode = "follow")
  BY <1>2 DEF EventInv, OwnInv, Structs
<1>10. Mine = {e}
  <2>1. Mine = {"follow"} \/ Mine = {"first"} BY <1>9, MineIs
  <2> QED BY <2>1
<1>11. Entries \subseteq called \cup {e} BY <1>10 DEF Entries, EventInv, OwnInv
<1>12. "foreign" \notin Own BY DEF Own
<1>13. ASSUME Used' = Used \/ Used' = Used \cup {"foreign"} PROVE Open' = {}
  <2>1. Entries' = Entries BY <1>12, <1>13 DEF Entries
  <2> QED BY <1>11, <2>1 DEF Open
<1>14. Removed \in {"none", "foreign"} /\ (Removed = "foreign" <=> arb = "foreign")
  BY DEF Removed, ActiveIsOurs, EventInv, EventTyped
<1>15. ASSUME ring' = ring, arb' = Removed PROVE RingInv' /\ Used' = Used /\ Open' = {}
  <2>1. Used' = Used BY <1>15 DEF Used
  <2> QED BY <1>13, <1>14, <1>15, <2>1 DEF EventInv, RingInv
<1>16. CASE ~Follows(u, reason)
  <2>1. tx' = u /\ arb' = Removed /\ UNCHANGED <<queued, ring>> BY <1>1, <1>16
  <2> QED BY <1>3, <1>4, <1>5, <1>7, <1>8, <1>14, <1>15, <2>1, SingleOverInv
<1>17. CASE Follows(u, reason)
  <2> DEFINE g == [u EXCEPT !.followPending = FALSE]
             f == [g EXCEPT !.phase = "fault"]
             q == [g EXCEPT !.followActive = TRUE]
             r == [q EXCEPT !.phase = "queued"]
  <2>1. u.followPending /\ u.phase = "ended" BY <1>17 DEF Follows
  <2>2. /\ g \in Structs /\ g.phase = "ended" /\ g.mode = tx.mode
        /\ g.followActive = tx.followActive /\ ~g.followPending
        /\ ~g.globals /\ ~g.alarm /\ g.storage /\ g.ended = tx.ended
    BY <1>3, <1>7, <2>1 DEF Structs
  <2>3. /\ f \in Structs /\ f.phase = "fault" /\ f.mode = tx.mode
        /\ f.followActive = tx.followActive /\ ~f.followPending
        /\ ~f.globals /\ ~f.alarm /\ f.storage /\ f.ended = tx.ended
    <3> HIDE DEF g
    <3> QED BY <2>2 DEF Structs, Phases
  <2>4. /\ q \in Structs /\ q.phase = "ended" /\ q.mode = tx.mode
        /\ q.followActive = TRUE /\ ~q.followPending
        /\ ~q.globals /\ ~q.alarm /\ q.storage /\ q.ended = tx.ended
    <3> HIDE DEF g
    <3> QED BY <2>2 DEF Structs
  <2>5. /\ r \in Structs /\ r.phase = "queued" /\ r.mode = tx.mode
        /\ r.followActive = TRUE /\ ~r.followPending
        /\ ~r.globals /\ ~r.alarm /\ r.storage /\ r.ended = tx.ended
    <3> HIDE DEF q
    <3> QED BY <2>4 DEF Structs, Phases
  <2>6. \/ /\ ~handle /\ tx' = f /\ arb' = Removed /\ UNCHANGED <<queued, ring>>
        \/ /\ handle /\ Removed = "none" /\ tx' = g /\ UNCHANGED queued
           /\ arb' = "foreign" /\ ring' = Append(ring, "foreign")
        \/ /\ handle /\ tx' = g /\ UNCHANGED <<queued, ring>> /\ arb' = Removed
        \/ /\ handle /\ Removed = "none" /\ arb' = Removed /\ UNCHANGED ring
           /\ \/ tx' = q /\ UNCHANGED queued
              \/ tx' = r /\ queued' = TRUE
    BY <1>1, <1>17, Zenon DEF FollowUp
  <2> HIDE DEF g, f, q, r
  <2>7. CASE ~handle /\ tx' = f /\ arb' = Removed /\ UNCHANGED <<queued, ring>>
    <3>1. interfered BY <2>7 DEF EventInv, IntactInv
    <3> QED BY <1>8, <1>14, <1>15, <2>3, <2>7, <3>1, SingleOverInv
  <2>8. CASE handle /\ tx' = g /\ UNCHANGED <<queued, ring>> /\ arb' = Removed
    BY <1>8, <1>14, <1>15, <2>2, <2>8, SingleOverInv
  <2>9. CASE /\ handle /\ Removed = "none" /\ tx' = g /\ UNCHANGED queued
             /\ arb' = "foreign" /\ ring' = Append(ring, "foreign")
    <3>1. "foreign" \notin Used BY <1>14, <2>9 DEF EventInv, RingInv
    <3>2. /\ ring' \in Seq(Own \cup {"foreign", "stale"})
          /\ \A j, k \in 1..Len(ring'): j < k => Rank(ring'[j]) < Rank(ring'[k])
          /\ Used' = Used \cup {"foreign"}
      BY <2>9, <3>1, ForeignPushed DEF EventInv
    <3>3. RingInv' BY <2>9, <3>2 DEF RingInv
    <3>4. Open' = {} BY <1>13, <3>2
    <3> QED BY <1>8, <2>2, <2>9, <3>2, <3>3, <3>4, SingleOverInv
  <2>10. CASE /\ handle /\ Removed = "none" /\ arb' = Removed /\ UNCHANGED ring
              /\ \/ tx' = q /\ UNCHANGED queued
                 \/ tx' = r /\ queued' = TRUE
    <3>1. arb' = "none" /\ arb # "foreign" BY <2>10, <1>14
    <3>2. Open' = {} BY <1>15, <2>10
    <3>3. tx.followPending BY <1>3, <2>1
    <3>4. CASE tx' = q /\ UNCHANGED queued
      <4>1. queued' = (tx'.phase = "queued") BY <1>6, <2>4, <3>4 DEF EventInv, EventTyped
      <4> QED BY <1>8, <2>4, <2>10, <3>1, <3>2, <3>3, <3>4, <4>1, FollowTriedInv
    <3>5. CASE tx' = r /\ queued' = TRUE
      <4>1. queued' = (tx'.phase = "queued") BY <2>5, <3>5
      <4> QED BY <1>8, <2>5, <2>10, <3>1, <3>2, <3>3, <3>5, <4>1, FollowTriedInv
    <3> QED BY <2>10, <3>4, <3>5
  <2> QED BY <2>6, <2>7, <2>8, <2>9, <2>10
<1> QED BY <1>16, <1>17

LEMMA DoneInv ==
  ASSUME EventInv, NEW e \in Own, NEW reason, NEW packet,
         e = OnAir \/ (e \in Open /\ reason = 4), Done(e, reason, packet)
  PROVE  EventInv'
<1> DEFINE t == IF reason = 4 THEN tx ELSE Receive(tx, e, packet)
<1>1. /\ called' = called \cup {e}
      /\ IF Faulty(e, reason)
         THEN tx' = [tx EXCEPT !.phase = "fault"] /\ UNCHANGED <<arb, queued, ring, hw>>
         ELSE IF Prequeued THEN PrequeuedDone(e, reason, t) ELSE SingleDone(reason, t)
      /\ UNCHANGED <<aborted, handle, interfered, stopping>>
  BY DEF Done
<1>2. e \in Open BY OnAirOpen
<1>3. tx \in Structs BY DEF EventInv, EventTyped
<1>4. /\ t \in Structs /\ t.phase = tx.phase /\ t.mode = tx.mode
      /\ t.followActive = tx.followActive /\ t.followPending = tx.followPending
      /\ t.ended = tx.ended /\ t.alarm = tx.alarm
      /\ t.globals = tx.globals /\ t.storage = tx.storage
  <2>1. CASE reason = 4 BY <2>1, <1>3
  <2>2. CASE reason # 4 BY <2>2, <1>3, ReceiveEffect
  <2> QED BY <2>1, <2>2
<1> HIDE DEF t
<1>5. CASE Faulty(e, reason)
  <2>1. interfered BY <1>5, InOrder DEF EventInv, EventTyped
  <2> QED BY <1>1, <1>2, <1>5, <2>1, FaultyInv
<1>6. CASE ~Faulty(e, reason)
  <2>1. e \in Mine BY <1>6 DEF Faulty, EntryIsOurs
  <2>2. CASE Prequeued BY <1>1, <1>2, <1>4, <1>6, <2>1, <2>2, PrequeuedDoneInv
  <2>3. CASE ~Prequeued BY <1>1, <1>2, <1>4, <1>6, <2>1, <2>3, SingleDoneInv
  <2> QED BY <2>2, <2>3
<1> QED BY <1>5, <1>6

LEMMA CallbackInv ==
  ASSUME EventInv, Callback
  PROVE  EventInv'
<1>1. ASSUME NEW packet \in Packets, RxPacket(packet) PROVE EventInv'
  BY <1>1, RxPacketInv
<1>2. ASSUME NEW e \in Own, Finish(e) PROVE EventInv'
  <2>1. PICK reason \in {0, 1}, packet \in Packets: Done(e, reason, packet)
    BY <1>2 DEF Finish
  <2>2. e = OnAir BY <1>2 DEF Finish
  <2> QED BY <2>1, <2>2, DoneInv
<1>3. ASSUME NEW e \in Own, Skipped(e) PROVE EventInv'
  <2>1. e \in Open /\ Done(e, 4, "none") BY <1>3 DEF Skipped, Open, Entries
  <2> QED BY <2>1, DoneInv
<1> QED BY <1>1, <1>2, <1>3 DEF Callback

(***************************************************************************)
(* The theorems.                                                           *)
(***************************************************************************)
LEMMA EventInitial == ASSUME EventInit PROVE EventInv
<1>1. /\ tx = Clear /\ arb = "none" /\ queued = FALSE /\ ring = <<>>
      /\ called = {} /\ aborted = {} /\ hw = {}
      /\ handle = TRUE /\ interfered = FALSE /\ stopping = FALSE
  BY DEF EventInit
<1>2. Used = {} BY <1>1 DEF Used, Range
<1>3. Entries = {} /\ Open = {} BY <1>2 DEF Entries, Open
<1>4. EventTyped BY <1>1, ClearStruct DEF EventTyped
<1>5. RingInv
  <2>1. ring \in Seq(Own \cup {"foreign", "stale"}) /\ Len(ring) = 0 BY <1>1
  <2> QED BY <1>1, <1>2, <2>1 DEF RingInv
<1>6. OwnInv BY <1>1, <1>2, <1>3, ClearStruct DEF OwnInv
<1>7. HwInv BY <1>1, <1>3, ClearStruct DEF HwInv
<1>8. StopInv BY <1>1 DEF StopInv
<1>9. IntactInv BY <1>1, <1>3, ClearStruct DEF IntactInv, Started
<1> QED BY <1>4, <1>5, <1>6, <1>7, <1>8, <1>9 DEF EventInv

LEMMA EventStep ==
  ASSUME EventInv, [EventNext]_eventVars
  PROVE  EventInv'
<1>1. CASE UNCHANGED eventVars
  <2>1. UNCHANGED <<tx, arb, queued, ring, called, aborted, hw, handle, interfered, stopping>>
    BY <1>1 DEF eventVars, rom
  <2>2. EventTyped' BY <2>1 DEF EventInv, EventTyped
  <2>3. tx'.alarm <=> "alarm" \in hw' BY <2>1 DEF EventInv, HwInv
  <2>4. stopping' => ~queued' /\ ~tx'.followPending BY <2>1 DEF EventInv, StopInv
  <2> QED BY <2>1, <2>2, <2>3, <2>4, StructStep
<1>2. ASSUME NEW mode \in Modes, Submit(mode) PROVE EventInv' BY <1>2, SubmitInv
<1>3. CASE SubmitConflict BY <1>3, SubmitConflictInv
<1>4. CASE ArbStart
  <2>1. CASE StartRefused \/ StartNoEntry BY <1>4, <2>1, StartRefusedInv
  <2>2. ASSUME NEW n \in 0..Len(Programs), StartPrograms(n) PROVE EventInv'
    BY <1>4, <2>2, StartProgramsInv
  <2> QED BY <1>4, <2>1, <2>2 DEF ArbStart
<1>5. CASE ArbCancel BY <1>5, ArbCancelInv
<1>6. CASE ArbStop BY <1>6, ArbStopInv
<1>7. CASE Alarm BY <1>7, AlarmInv
<1>8. CASE Callback BY <1>8, CallbackInv
<1>9. CASE Cancel BY <1>9, CancelInv
<1>10. CASE CollectAbort BY <1>10, CollectAbortInv
<1>11. CASE CollectForeign BY <1>11, CollectForeignInv
<1>12. CASE CollectRelease BY <1>12, CollectReleaseInv
<1>13. CASE Retire BY <1>13, RetireInv
<1>14. CASE ForeignStart BY <1>14, ForeignStartInv
<1>15. CASE ForeignEnd BY <1>15, ForeignEndInv
<1>16. CASE LoseHandle BY <1>16, LoseHandleInv
<1>17. CASE Preempt BY <1>17, PreemptInv
<1> QED
  BY <1>1, <1>2, <1>3, <1>4, <1>5, <1>6, <1>7, <1>8, <1>9, <1>10, <1>11, <1>12,
     <1>13, <1>14, <1>15, <1>16, <1>17
  DEF EventNext, Resolve, Collect

\* The flags of the struct, the hardware, the ring and the arbiter stay
\* consistent, whatever the events submitted.
THEOREM EventInvariant == EventSpec => []EventInv
<1>1. EventInit => EventInv BY EventInitial
<1>2. EventInv /\ [EventNext]_eventVars => EventInv' BY EventStep
<1> QED BY <1>1, <1>2, PTL DEF EventSpec

\* Types and the length of the ring.
THEOREM EventTyping == EventSpec => []EventTypeOK
<1>1. EventInv => EventTypeOK
  <2> SUFFICES ASSUME EventInv PROVE EventTypeOK OBVIOUS
  <2>1. Len(ring) \in 0..4 BY RingShort DEF EventInv
  <2>a. \A n \in 0..4: n <= 4 OBVIOUS
  <2>2. Len(ring) <= 4 BY <2>a, <2>1, Zenon
  <2>3. ring \in Seq(Own \cup {"foreign", "stale"}) BY DEF EventInv, RingInv
  <2>4. {queued, handle, interfered, stopping} \subseteq BOOLEAN
    BY Zenon DEF EventInv, EventTyped
  <2> QED BY <2>2, <2>3, <2>4 DEF EventInv, EventTyped, Structs, EventTypeOK
<1> QED BY <1>1, EventInvariant, PTL

\* A program of ours that is not over has its payload, control structure and
\* radio settings in place, and an idle struct owns nothing.
THEOREM OnAirAlwaysConfigured == EventSpec => []OnAirConfigured
<1>1. EventInv /\ EventTypeOK => OnAirConfigured
  <2> SUFFICES ASSUME EventInv, EventTypeOK PROVE OnAirConfigured OBVIOUS
  <2>1. OnAir \in Own => {"globals", "buffer"} \subseteq hw
    <3> SUFFICES ASSUME OnAir \in Own PROVE {"globals", "buffer"} \subseteq hw OBVIOUS
    <3>1. OnAir \in Open BY OnAirOpen
    <3>2. tx.globals /\ tx.phase # "idle" BY <3>1, OpenStarted
    <3> QED BY <3>2 DEF EventInv, HwInv
  <2>2. ASSUME tx.phase = "idle" PROVE ~queued /\ arb # "ours" /\ hw = {}
    <3>1. ~queued /\ arb # "ours" /\ ~tx.globals /\ ~tx.alarm /\ ~tx.storage
      BY <2>2 DEF EventInv, HwInv
    <3>2. hw \subseteq {"alarm", "globals", "buffer"} BY DEF EventInv, EventTyped
    <3>3. "alarm" \notin hw /\ "globals" \notin hw /\ "buffer" \notin hw
      BY <3>1 DEF EventInv, HwInv
    <3> QED BY <3>1, <3>2, <3>3
  <2> QED BY <2>1, <2>2 DEF OnAirConfigured
<1> QED BY <1>1, EventInvariant, EventTyping, PTL

\* Without an interference no order of callbacks, alarm, stop, cancel and
\* collect loses the event.
THEOREM FaultAlwaysProvoked == EventSpec => []FaultProvoked
<1>1. EventInv => FaultProvoked BY DEF EventInv, IntactInv, EventTyped, FaultProvoked
<1> QED BY <1>1, EventInvariant, PTL

(***************************************************************************)
(* Where the phase goes in a step.                                         *)
(***************************************************************************)
Onwards == {"queued", "aborting", "ended", "cancelled", "refused", "fault"}

LEMMA AbortPhase ==
  ASSUME EventInv, NEW t \in Structs, t.phase = tx.phase
  PROVE  AbortActive(t).phase \in Onwards \cup {tx.phase}
BY AbortEffect DEF Onwards

LEMMA DonePhase ==
  ASSUME EventInv, NEW e, NEW reason, NEW packet, Done(e, reason, packet)
  PROVE  tx'.phase \in Onwards \cup {tx.phase}
<1> DEFINE t == IF reason = 4 THEN tx ELSE Receive(tx, e, packet)
<1>1. tx \in Structs BY DEF EventInv, EventTyped
<1>2. t \in Structs /\ t.phase = tx.phase
  <2>1. CASE reason = 4 BY <2>1, <1>1
  <2>2. CASE reason # 4 BY <2>2, <1>1, ReceiveEffect
  <2> QED BY <2>1, <2>2
<1>3. \/ tx' = [tx EXCEPT !.phase = "fault"]
      \/ PrequeuedDone(e, reason, t) \/ SingleDone(reason, t)
  BY DEF Done
<1> HIDE DEF t
<1>4. CASE tx' = [tx EXCEPT !.phase = "fault"]
  BY <1>1, <1>4 DEF Structs, Onwards
<1>5. CASE PrequeuedDone(e, reason, t)
  <2> DEFINE u == [t EXCEPT !.ended = @ \cup {e}]
             c == [u EXCEPT !.alarm = FALSE]
  <2>1. tx' \in {u, c, [c EXCEPT !.phase = "ended"]}
    BY <1>5 DEF PrequeuedDone, Ended, ClearAlarm
  <2>3. u.phase = tx.phase BY <1>2 DEF Structs
  <2>4. DOMAIN u = DOMAIN t /\ "phase" \in DOMAIN t BY <1>2 DEF Structs
  <2> HIDE DEF u
  <2>5. c.phase = tx.phase /\ DOMAIN c = DOMAIN u BY <2>3, <2>4
  <2> HIDE DEF c
  <2>6. [c EXCEPT !.phase = "ended"].phase = "ended" BY <2>4, <2>5
  <2> QED BY <2>1, <2>3, <2>5, <2>6 DEF Onwards
<1>6. CASE SingleDone(reason, t)
  <2> DEFINE c == [t EXCEPT !.alarm = FALSE, !.globals = FALSE]
             u == Ended(RestoreGlobals(ClearAlarm(t)))
  <2>1. u \in {c, [c EXCEPT !.phase = "ended"]}
    BY <1>2 DEF Ended, RestoreGlobals, ClearAlarm, Structs
  <2>2. c \in Structs /\ c.phase = tx.phase BY <1>2 DEF Structs
  <2>3. \/ tx' = u \/ FollowUp(u) BY <1>6 DEF SingleDone
  <2> HIDE DEF c, u
  <2>4. u \in Structs /\ u.phase \in Onwards \cup {tx.phase}
    BY <2>1, <2>2 DEF Structs, Onwards, Phases
  <2>5. CASE tx' = u BY <2>4, <2>5
  <2>6. CASE FollowUp(u)
    <3> DEFINE g == [u EXCEPT !.followPending = FALSE]
               q == [g EXCEPT !.followActive = TRUE]
    <3>1. tx' \in {g, q, [g EXCEPT !.phase = "fault"], [q EXCEPT !.phase = "queued"]}
      BY <2>6 DEF FollowUp
    <3>2. g \in Structs /\ g.phase = u.phase BY <2>4 DEF Structs
    <3> HIDE DEF g
    <3>3. q \in Structs /\ q.phase = u.phase BY <3>2 DEF Structs
    <3>4. [g EXCEPT !.phase = "fault"].phase = "fault" BY <3>2 DEF Structs
    <3> HIDE DEF q
    <3>5. [q EXCEPT !.phase = "queued"].phase = "queued" BY <3>3 DEF Structs
    <3> QED BY <2>4, <3>1, <3>2, <3>3, <3>4, <3>5 DEF Onwards
  <2> QED BY <2>3, <2>5, <2>6
<1> QED BY <1>3, <1>4, <1>5, <1>6

LEMMA PhaseStep ==
  ASSUME EventInv, EventNext
  PROVE  \/ tx'.phase \in Onwards \cup {tx.phase}
         \/ CollectRelease
         \/ queued /\ tx.phase = "queued" /\ tx'.phase = "active"
<1>1. tx \in Structs BY DEF EventInv, EventTyped
<1>2. ASSUME NEW mode \in Modes, Submit(mode) PROVE tx'.phase \in Onwards
  <2> DEFINE f == mode = "follow"
  <2>1. tx' = [Clear EXCEPT !.phase = "queued", !.mode = mode,
                             !.followPending = f, !.storage = TRUE]
    BY <1>2 DEF Submit
  <2> QED BY <2>1 DEF Clear, Onwards
<1>3. CASE SubmitConflict BY <1>3, ClearStruct DEF SubmitConflict
<1>4. CASE ArbStart
  <2>1. queued /\ tx.phase = "queued" BY <1>4 DEF ArbStart
  <2>2. CASE StartRefused BY <1>1, <2>2 DEF StartRefused, Structs, Onwards
  <2>3. CASE StartNoEntry BY <1>1, <2>3 DEF StartNoEntry, Structs, Onwards
  <2>4. ASSUME NEW n \in 0..Len(Programs), StartPrograms(n)
        PROVE  tx'.phase \in {"active", "fault"}
    <3> DEFINE all == n = Len(Programs)
               p == IF all THEN "active" ELSE "fault"
    <3>1. tx' = [tx EXCEPT !.phase = p, !.globals = TRUE, !.alarm = all]
      BY <2>4 DEF StartPrograms
    <3>2. p \in {"active", "fault"} OBVIOUS
    <3> HIDE DEF all, p
    <3> QED BY <1>1, <3>1, <3>2 DEF Structs
  <2> QED BY <1>4, <2>1, <2>2, <2>3, <2>4 DEF ArbStart, Onwards
<1>5. CASE ArbCancel
  <2>1. tx.phase = "queued" BY <1>5 DEF ArbCancel, EventInv, HwInv
  <2> QED BY <1>1, <1>5, <2>1 DEF ArbCancel, Structs, Onwards
<1>6. CASE ArbStop BY <1>1, <1>6, AbortPhase DEF ArbStop
<1>7. CASE Alarm
  <2>1. ClearAlarm(tx) \in Structs /\ ClearAlarm(tx).phase = tx.phase
    BY <1>1 DEF ClearAlarm, Structs
  <2> QED BY <1>7, <2>1, AbortPhase DEF Alarm
<1>8. ASSUME NEW packet \in Packets, RxPacket(packet) PROVE tx'.phase \in Onwards \cup {tx.phase}
  <2> DEFINE t == Receive(tx, OnAir, packet)
             u == [t EXCEPT !.followPending = @ /\ ~tx.followPending]
  <2>1. \/ tx' = [tx EXCEPT !.phase = "fault"] \/ tx' = AbortActive(u) \/ tx' = t
    BY <1>8 DEF RxPacket
  <2>2. t \in Structs /\ t.phase = tx.phase BY <1>1, ReceiveEffect
  <2> HIDE DEF t
  <2>3. u \in Structs /\ u.phase = tx.phase BY <2>2 DEF Structs
  <2> HIDE DEF u
  <2>4. [tx EXCEPT !.phase = "fault"].phase \in Onwards BY <1>1 DEF Structs, Onwards
  <2> QED BY <2>1, <2>2, <2>3, <2>4, AbortPhase
<1>9. ASSUME NEW e \in Own, Finish(e) \/ Skipped(e) PROVE tx'.phase \in Onwards \cup {tx.phase}
  BY <1>9, DonePhase DEF Finish, Skipped
<1>10. CASE Cancel
  <2>1. CASE CancelQueued
    <3>1. PICK p \in {"cancelled", tx.phase}: tx' = [tx EXCEPT !.phase = p, !.followPending = FALSE]
      BY <1>1, <2>1 DEF CancelQueued, Structs
    <3> QED BY <1>1, <3>1 DEF Structs, Onwards
  <2>2. CASE CancelRepeat BY <1>1, <2>2 DEF CancelRepeat, Structs, Onwards
  <2>3. CASE CancelOther
    <3>1. GivenUp \in Structs /\ GivenUp.phase = tx.phase BY <1>1 DEF GivenUp, Structs
    <3> QED BY <2>3, <3>1, AbortPhase DEF CancelOther
  <2> QED BY <1>10, <2>1, <2>2, <2>3 DEF Cancel
<1>11. CASE CollectAbort
  <2> DEFINE t == [tx EXCEPT !.stopAbort = TRUE]
  <2>1. t \in Structs /\ t.phase = tx.phase BY <1>1 DEF Structs
  <2>2. tx' = AbortActive(t) BY <1>11 DEF CollectAbort
  <2> HIDE DEF t
  <2> QED BY <2>1, <2>2, AbortPhase
<1>12. CASE CollectForeign BY <1>1, <1>12 DEF CollectForeign, Structs, Onwards
<1>13. CASE Retire \/ ForeignStart \/ ForeignEnd \/ LoseHandle \/ Preempt
  BY <1>13 DEF Retire, ForeignStart, ForeignEnd, LoseHandle, Preempt
<1> QED
  BY <1>2, <1>3, <1>4, <1>5, <1>6, <1>7, <1>8, <1>9, <1>10, <1>11, <1>12, <1>13
  DEF EventNext, Resolve, Callback, Collect

\* Collect lets go of the storage only when the ROM has retired every entry of
\* the event but a followup's predecessor, and a start saves the settings and
\* arms the alarm only while neither is its own.
THEOREM AlwaysRetiredBeforeRelease == EventSpec => RetiredBeforeRelease
<1> DEFINE Kept == /\ tx.phase # "idle" /\ tx'.phase = "idle"
                       => Used \cap (Own \ (IF tx.followActive THEN {"first"} ELSE {})) = {}
                   /\ tx.phase = "queued" /\ tx'.globals
                       => ~tx.globals /\ hw \cap {"globals", "alarm"} = {}
<1>1. EventInv /\ [EventNext]_eventVars => [Kept]_eventVars
  <2> SUFFICES ASSUME EventInv, EventNext PROVE Kept OBVIOUS
  <2>1. ASSUME tx.phase # "idle", tx'.phase = "idle"
        PROVE  Used \cap (Own \ (IF tx.followActive THEN {"first"} ELSE {})) = {}
    <3>1. CollectRelease BY <2>1, PhaseStep DEF Onwards
    <3>2. Mine \cap Used = {} BY <3>1 DEF CollectRelease, Unused, ProgramIsOurs
    <3>3. Entries \subseteq Mine \cup (IF tx.followActive THEN {"first"} ELSE {})
      BY DEF EventInv, OwnInv
    <3> QED BY <3>2, <3>3 DEF Entries
  <2>2. ASSUME tx.phase = "queued"
        PROVE  ~tx.globals /\ hw \cap {"globals", "alarm"} = {}
    <3>1. ~tx.globals /\ ~tx.alarm BY <2>2 DEF EventInv, HwInv
    <3>2. "globals" \notin hw /\ "alarm" \notin hw BY <3>1 DEF EventInv, HwInv
    <3> QED BY <3>1, <3>2
  <2> QED BY <2>1, <2>2
<1> QED BY <1>1, EventInvariant, PTL DEF EventSpec, RetiredBeforeRelease

\* An event that was cancelled is not started any more, nor is its followup.
THEOREM CancelledNeverStarts ==
  EventSpec => [][stopping /\ tx'.phase = "active" => tx.phase = "active"]_eventVars
<1>1. EventInv /\ [EventNext]_eventVars
        => [stopping /\ tx'.phase = "active" => tx.phase = "active"]_eventVars
  <2> SUFFICES ASSUME EventInv, EventNext, stopping, tx'.phase = "active"
               PROVE  tx.phase = "active"
    OBVIOUS
  <2>1. ~CollectRelease BY ClearStruct DEF CollectRelease
  <2>2. ~queued BY DEF EventInv, StopInv
  <2> QED BY <2>1, <2>2, PhaseStep DEF Onwards
<1> QED BY <1>1, EventInvariant, PTL DEF EventSpec

(***************************************************************************)
(* The event as its caller sees it: each step is one of RadioEvent or none.*)
(***************************************************************************)
EventMoves == Event!Next \/ UNCHANGED Event!vars

LEMMA StageIs ==
  ASSUME EventInv
  PROVE  /\ Stage = "running" <=> Started(tx)
         /\ ~Started(tx) => Stage = tx.phase
         /\ tx.phase \notin {"active", "aborting"} => Stage = tx.phase
         /\ tx.followPending \in BOOLEAN /\ stopping \in BOOLEAN
BY DEF Stage, Started, EventInv, EventTyped, Structs, Phases

\* Where the phase stays, or goes on from active to aborting, at most the
\* followup is given up.
LEMMA StageStays ==
  ASSUME EventInv,
         tx'.phase = tx.phase \/ (Started(tx) /\ tx'.phase = "aborting"),
         stopping' = stopping, tx'.followPending \in {tx.followPending, FALSE},
         tx'.followPending = tx.followPending \/ Started(tx) \/ tx.phase = "fault"
  PROVE  EventMoves
<1>1. Stage' = Stage BY DEF Stage, Started
<1>2. CASE tx'.followPending = tx.followPending
  BY <1>1, <1>2 DEF EventMoves, Event!vars
<1>3. CASE tx'.followPending # tx.followPending
  <2>1. tx'.followPending = FALSE /\ tx.followPending
    BY <1>3, StageIs
  <2>2. Stage \in {"running", "fault"} BY <1>3, StageIs DEF Started
  <2> QED BY <1>1, <2>1, <2>2 DEF EventMoves, Event!Next, Event!Forgo
<1> QED BY <1>2, <1>3

LEMMA StageLost ==
  ASSUME EventInv, tx'.phase = "fault", stopping' = stopping,
         Started(tx) \/ tx.phase \in {"queued", "ended"},
         tx'.followPending \in {tx.followPending, FALSE}
  PROVE  EventMoves
<1>1. Stage' = "fault" BY DEF Stage, Started
<1>2. Stage \in {"queued", "running", "ended"} BY StageIs
<1> QED BY <1>1, <1>2 DEF EventMoves, Event!Next, Event!Lose

LEMMA StageStopped ==
  ASSUME EventInv, tx.phase # "idle", stopping' = TRUE,
         tx'.followPending \in {tx.followPending, FALSE},
         \/ tx'.phase = tx.phase
         \/ Started(tx) /\ tx'.phase \in {"aborting", "fault"}
         \/ tx.phase = "queued" /\ tx'.phase = "cancelled"
  PROVE  EventMoves
<1>1. Stage # "idle" BY StageIs DEF Started
<1>2. \/ Stage' = Stage
      \/ Stage = "queued" /\ Stage' = "cancelled"
      \/ Stage = "running" /\ Stage' = "fault"
  BY StageIs DEF Stage, Started
<1> QED BY <1>1, <1>2 DEF EventMoves, Event!Next, Event!Stop

\* An abort command.
LEMMA AbortMoves ==
  ASSUME EventInv, NEW t \in Structs, t.phase = tx.phase, tx' = AbortActive(t),
         stopping' = stopping, t.followPending \in {tx.followPending, FALSE},
         t.followPending = tx.followPending \/ Started(tx) \/ tx.phase = "fault"
  PROVE  EventMoves
<1>1. \/ tx'.phase = tx.phase
      \/ Started(tx) /\ tx'.phase = "aborting"
      \/ Started(tx) /\ tx'.phase = "fault"
  BY AbortEffect
<1>2. tx'.followPending = t.followPending
  <2>1. \E p \in Phases, s \in BOOLEAN:
          AbortActive(t) = [t EXCEPT !.phase = p, !.stopAbort = s]
    BY AbortEffect, Zenon
  <2>2. PICK p \in Phases, s \in BOOLEAN: tx' = [t EXCEPT !.phase = p, !.stopAbort = s]
    BY <2>1, Zenon
  <2> QED BY <2>2 DEF Structs
<1>3. CASE Started(tx) /\ tx'.phase = "fault" BY <1>2, <1>3, StageLost
<1>4. CASE tx'.phase = tx.phase \/ (Started(tx) /\ tx'.phase = "aborting")
  BY <1>2, <1>4, StageStays
<1> QED BY <1>1, <1>3, <1>4

\* A program that is not over belongs to an event that runs or was lost.
LEMMA OpenRuns ==
  ASSUME EventInv, Open # {}
  PROVE  Started(tx) \/ tx.phase = "fault"
<1>1. tx.phase \in {"active", "aborting", "ended", "fault"} BY OpenStarted
<1>2. tx.phase # "ended" BY DEF EventInv, OwnInv
<1> QED BY <1>1, <1>2 DEF Started

LEMMA SubmitMoves ==
  ASSUME EventInv, NEW mode \in Modes, Submit(mode)
  PROVE  EventMoves
<1> DEFINE f == mode = "follow"
<1>1. /\ tx.phase = "idle" /\ stopping' = FALSE
      /\ tx' = [Clear EXCEPT !.phase = "queued", !.mode = mode,
                             !.followPending = f, !.storage = TRUE]
  BY DEF Submit
<1>2. f \in BOOLEAN OBVIOUS
<1> HIDE DEF f
<1>3. tx'.phase = "queued" /\ tx'.followPending = f BY <1>1 DEF Clear
<1>4. Stage = "idle" /\ Stage' = "queued" BY <1>1, <1>3 DEF Stage, Started
<1> QED BY <1>1, <1>2, <1>3, <1>4 DEF EventMoves, Event!Next, Event!Accept

LEMMA StartMoves ==
  ASSUME EventInv, ArbStart
  PROVE  EventMoves
<1>1. tx \in Structs BY DEF EventInv, EventTyped
<1>2. queued /\ tx.phase = "queued" /\ stopping' = stopping BY DEF ArbStart
<1>3. ~stopping BY <1>2 DEF EventInv, StopInv
<1>4. PICK p \in {"refused", "fault", "active"}:
        tx'.phase = p /\ tx'.followPending = tx.followPending
  <2>1. CASE StartRefused BY <1>1, <2>1 DEF StartRefused, Structs
  <2>2. CASE StartNoEntry BY <1>1, <2>2 DEF StartNoEntry, Structs
  <2>3. ASSUME NEW n \in 0..Len(Programs), StartPrograms(n)
        PROVE  tx'.phase \in {"active", "fault"} /\ tx'.followPending = tx.followPending
    <3> DEFINE all == n = Len(Programs)
               p == IF all THEN "active" ELSE "fault"
    <3>1. tx' = [tx EXCEPT !.phase = p, !.globals = TRUE, !.alarm = all]
      BY <2>3 DEF StartPrograms
    <3>2. p \in {"active", "fault"} OBVIOUS
    <3> HIDE DEF all, p
    <3> QED BY <1>1, <3>1, <3>2 DEF Structs
  <2> QED BY <2>1, <2>2, <2>3 DEF ArbStart
<1>5. Stage = "queued" BY <1>2 DEF Stage, Started
<1>6. CASE p = "refused"
  <2>1. Stage' = "refused" BY <1>4, <1>6 DEF Stage, Started
  <2> QED BY <1>2, <1>4, <1>5, <2>1 DEF EventMoves, Event!Next, Event!Decline
<1>7. CASE p = "fault" BY <1>2, <1>4, <1>7, StageLost
<1>8. CASE p = "active"
  <2>1. Stage' = "running" BY <1>4, <1>8 DEF Stage, Started
  <2> QED BY <1>2, <1>3, <1>4, <1>5, <2>1 DEF EventMoves, Event!Next, Event!Start
<1> QED BY <1>6, <1>7, <1>8

LEMMA RxPacketMoves ==
  ASSUME EventInv, NEW packet \in Packets, RxPacket(packet)
  PROVE  EventMoves
<1> DEFINE t == Receive(tx, OnAir, packet)
           u == [t EXCEPT !.followPending = @ /\ ~tx.followPending]
<1>1. tx \in Structs BY DEF EventInv, EventTyped
<1>2. /\ OnAir \in Own /\ stopping' = stopping
      /\ \/ tx' = [tx EXCEPT !.phase = "fault"] \/ tx' = AbortActive(u) \/ tx' = t
  BY DEF RxPacket
<1>3. Started(tx) \/ tx.phase = "fault" BY <1>2, OnAirOpen, OpenRuns
<1>4. t \in Structs /\ t.phase = tx.phase /\ t.followPending = tx.followPending
  BY <1>1, ReceiveEffect
<1> HIDE DEF t
<1>5. u \in Structs /\ u.phase = tx.phase /\ u.followPending = FALSE
  BY <1>4 DEF Structs
<1> HIDE DEF u
<1>6. CASE tx' = [tx EXCEPT !.phase = "fault"]
  <2>1. tx'.phase = "fault" /\ tx'.followPending = tx.followPending
    BY <1>1, <1>6 DEF Structs
  <2> QED BY <1>2, <1>3, <2>1, StageLost, StageStays
<1>7. CASE tx' = AbortActive(u) BY <1>2, <1>3, <1>5, <1>7, AbortMoves
<1>8. CASE tx' = t BY <1>2, <1>4, <1>8, StageStays
<1> QED BY <1>2, <1>6, <1>7, <1>8

LEMMA DoneMoves ==
  ASSUME EventInv, NEW e \in Open, NEW reason, NEW packet, Done(e, reason, packet)
  PROVE  EventMoves
<1> DEFINE t == IF reason = 4 THEN tx ELSE Receive(tx, e, packet)
<1>1. tx \in Structs /\ stopping' = stopping BY DEF EventInv, EventTyped, Done
<1>2. t \in Structs /\ t.phase = tx.phase /\ t.followPending = tx.followPending
  <2>1. CASE reason = 4 BY <2>1, <1>1
  <2>2. CASE reason # 4 BY <2>2, <1>1, ReceiveEffect
  <2> QED BY <2>1, <2>2
<1>3. \/ tx' = [tx EXCEPT !.phase = "fault"]
      \/ PrequeuedDone(e, reason, t) \/ SingleDone(reason, t)
  BY DEF Done
<1>4. Started(tx) \/ tx.phase = "fault" BY OpenRuns
<1> HIDE DEF t
<1> DEFINE over == IF tx.phase = "fault" THEN "fault" ELSE "ended"
<1>5. ASSUME tx'.phase = over, tx'.followPending \in {tx.followPending, FALSE} PROVE EventMoves
  <2>1. CASE tx.phase = "fault" BY <1>1, <1>5, <2>1, StageStays
  <2>2. CASE tx.phase # "fault"
    <3>1. Stage = "running" /\ Stage' = "ended"
      BY <1>4, <1>5, <2>2 DEF Stage, Started
    <3> QED BY <1>1, <1>5, <3>1 DEF EventMoves, Event!Next, Event!End
  <2> QED BY <2>1, <2>2
<1>6. CASE tx' = [tx EXCEPT !.phase = "fault"]
  <2>1. tx'.phase = "fault" /\ tx'.followPending = tx.followPending
    BY <1>1, <1>6 DEF Structs
  <2> QED BY <1>1, <1>4, <2>1, StageLost, StageStays
<1>7. CASE PrequeuedDone(e, reason, t)
  <2> DEFINE u == [t EXCEPT !.ended = @ \cup {e}]
             c == [u EXCEPT !.alarm = FALSE]
             d == [c EXCEPT !.phase = "ended"]
  <2>1. tx' = u \/ tx' = IF c.phase = "fault" THEN c ELSE d
    BY <1>7 DEF PrequeuedDone, Ended, ClearAlarm
  <2>2. e \in Own BY DEF Open, Entries
  <2>3. u \in Structs /\ u.phase = tx.phase /\ u.followPending = tx.followPending
    BY <1>2, <2>2 DEF Structs
  <2> HIDE DEF u
  <2>4. c \in Structs /\ c.phase = tx.phase /\ c.followPending = tx.followPending
    BY <2>3 DEF Structs
  <2> HIDE DEF c
  <2>5. d.phase = "ended" /\ d.followPending = tx.followPending BY <2>4 DEF Structs
  <2> HIDE DEF d
  <2>6. CASE tx' = u BY <1>1, <2>3, <2>6, StageStays
  <2>7. CASE tx' = IF c.phase = "fault" THEN c ELSE d BY <1>5, <2>4, <2>5, <2>7
  <2> QED BY <2>1, <2>6, <2>7
<1>8. CASE SingleDone(reason, t)
  <2> DEFINE c == [t EXCEPT !.alarm = FALSE, !.globals = FALSE]
             d == [c EXCEPT !.phase = "ended"]
             u == Ended(RestoreGlobals(ClearAlarm(t)))
  <2>1. u = IF c.phase = "fault" THEN c ELSE d
    BY <1>2 DEF Ended, RestoreGlobals, ClearAlarm, Structs
  <2>2. c \in Structs /\ c.phase = tx.phase /\ c.followPending = tx.followPending
    BY <1>2 DEF Structs
  <2>3. tx' = u \/ (Follows(u, reason) /\ FollowUp(u)) BY <1>8 DEF SingleDone
  <2> HIDE DEF c, u
  <2>4. d \in Structs /\ d.phase = "ended" /\ d.followPending = tx.followPending
    BY <2>2 DEF Structs, Phases
  <2> HIDE DEF d
  <2>5. u \in Structs /\ u.phase = over /\ u.followPending = tx.followPending
    BY <2>1, <2>2, <2>4
  <2>6. CASE tx' = u BY <1>5, <2>5, <2>6
  <2>7. CASE Follows(u, reason) /\ FollowUp(u)
    <3> DEFINE g == [u EXCEPT !.followPending = FALSE]
               f == [g EXCEPT !.phase = "fault"]
               q == [g EXCEPT !.followActive = TRUE]
               r == [q EXCEPT !.phase = "queued"]
    <3>1. u.phase = "ended" /\ tx.followPending BY <2>5, <2>7 DEF Follows
    <3>2. Started(tx) BY <1>4, <2>5, <3>1
    <3>3. \/ tx' = g \/ tx' = f \/ tx' = q
          \/ tx' = r /\ queued' = TRUE
      BY <2>7, Zenon DEF FollowUp
    <3>4. g \in Structs /\ g.phase = "ended" /\ g.followPending = FALSE
      BY <2>5, <3>1 DEF Structs
    <3> HIDE DEF g
    <3>5. f.phase = "fault" /\ f.followPending = FALSE BY <3>4 DEF Structs
    <3>6. q \in Structs /\ q.phase = "ended" /\ q.followPending = FALSE BY <3>4 DEF Structs
    <3> HIDE DEF q
    <3>7. r.phase = "queued" /\ r.followPending = FALSE BY <3>6 DEF Structs
    <3> HIDE DEF f, r
    <3>8. over = "ended" BY <2>5, <3>1
    <3> HIDE DEF over
    <3>9. CASE tx' = g BY <1>5, <3>4, <3>8, <3>9
    <3>10. CASE tx' = f BY <1>1, <3>2, <3>5, <3>10, StageLost
    <3>11. CASE tx' = q BY <1>5, <3>6, <3>8, <3>11
    <3>12. CASE tx' = r
      <4>1. ~stopping BY <3>1, StageIs DEF EventInv, StopInv
      <4>2. Stage = "running" /\ Stage' = "queued"
        BY <3>2, <3>7, <3>12 DEF Stage, Started
      <4> QED BY <1>1, <3>1, <3>7, <3>12, <4>1, <4>2 DEF EventMoves, Event!Next, Event!Follow
    <3> QED BY <3>3, <3>9, <3>10, <3>11, <3>12
  <2> QED BY <2>3, <2>6, <2>7
<1> QED BY <1>3, <1>6, <1>7, <1>8

LEMMA CancelMoves ==
  ASSUME EventInv, Cancel
  PROVE  EventMoves
<1>1. tx \in Structs BY DEF EventInv, EventTyped
<1>2. /\ tx.phase # "idle" /\ stopping' = TRUE
      /\ CancelQueued \/ CancelRepeat \/ CancelOther
  BY DEF Cancel
<1>3. CASE CancelQueued
  <2>1. PICK p \in {"cancelled", tx.phase}:
          tx' = [tx EXCEPT !.phase = p, !.followPending = FALSE]
    BY <1>3, <1>1 DEF CancelQueued, Structs
  <2>2. tx'.phase \in {"cancelled", tx.phase} /\ tx'.followPending = FALSE
    BY <1>1, <2>1 DEF Structs
  <2>3. tx.phase = "queued" BY <1>3 DEF CancelQueued
  <2> QED BY <1>2, <2>2, <2>3, StageStopped
<1>4. CASE CancelRepeat
  <2>1. Started(tx) BY <1>4 DEF CancelRepeat
  <2>2. tx'.phase \in {tx.phase, "fault"} /\ tx'.followPending = tx.followPending
    BY <1>1, <1>4 DEF CancelRepeat, Structs
  <2> QED BY <1>2, <2>1, <2>2, StageStopped
<1>5. CASE CancelOther
  <2>1. tx' = AbortActive(GivenUp) BY <1>5 DEF CancelOther
  <2>2. /\ GivenUp \in Structs /\ GivenUp.phase = tx.phase /\ GivenUp.followPending = FALSE
    BY <1>1 DEF GivenUp, Structs
  <2>3. \/ tx'.phase = tx.phase
        \/ Started(tx) /\ tx'.phase \in {"aborting", "fault"}
    BY <2>1, <2>2, AbortEffect
  <2>4. tx'.followPending = FALSE
    <3>1. \E p \in Phases, s \in BOOLEAN:
            AbortActive(GivenUp) = [GivenUp EXCEPT !.phase = p, !.stopAbort = s]
      BY <2>2, AbortEffect, Zenon
    <3>2. PICK p \in Phases, s \in BOOLEAN: tx' = [GivenUp EXCEPT !.phase = p, !.stopAbort = s]
      BY <2>1, <3>1, Zenon
    <3> QED BY <2>2, <3>2 DEF Structs
  <2> QED BY <1>2, <2>3, <2>4, StageStopped
<1> QED BY <1>2, <1>3, <1>4, <1>5

LEMMA ReleaseMoves ==
  ASSUME EventInv, CollectRelease
  PROVE  EventMoves
<1>1. tx \in Structs BY DEF EventInv, EventTyped
<1>2. tx' = Clear /\ stopping' = FALSE BY DEF CollectRelease
<1>3. tx.phase \in {"ended", "cancelled", "refused"}
  <2>1. RestoreGlobals(tx).phase = tx.phase BY <1>1 DEF RestoreGlobals, Structs
  <2> QED BY <2>1 DEF CollectRelease
<1>4. Stage \in {"ended", "cancelled", "refused"} BY <1>3 DEF Stage, Started
<1>5. Stage' = "idle" /\ tx'.followPending = FALSE BY <1>2 DEF Stage, Started, Clear
<1> QED BY <1>2, <1>4, <1>5 DEF EventMoves, Event!Next, Event!GiveBack, Event!Outcomes

LEMMA EventAlwaysMoves ==
  ASSUME EventInv, EventNext
  PROVE  EventMoves
<1>1. tx \in Structs BY DEF EventInv, EventTyped
<1>2. CASE SubmitConflict
  <2>1. tx'.phase = tx.phase /\ tx'.followPending = tx.followPending /\ stopping' = stopping
    BY <1>2 DEF SubmitConflict, Clear, EventInv, EventTyped, Structs, OwnInv
  <2> QED BY <2>1, StageStays
<1>3. CASE ArbCancel
  <2>1. queued /\ tx.phase = "queued" BY <1>3 DEF ArbCancel, EventInv, HwInv
  <2>2. tx'.phase = "cancelled" /\ tx'.followPending = tx.followPending /\ stopping' = stopping
    BY <1>1, <1>3, <2>1 DEF ArbCancel, Structs
  <2>3. Stage = "queued" /\ Stage' = "cancelled" BY <2>1, <2>2 DEF Stage, Started
  <2> QED BY <2>2, <2>3 DEF EventMoves, Event!Next, Event!Decline
<1>4. CASE ArbStop BY <1>1, <1>4, AbortMoves, StageIs DEF ArbStop
<1>5. CASE Alarm
  <2>1. /\ ClearAlarm(tx) \in Structs /\ ClearAlarm(tx).phase = tx.phase
        /\ ClearAlarm(tx).followPending = tx.followPending
    BY <1>1 DEF ClearAlarm, Structs
  <2> QED BY <1>5, <2>1, AbortMoves DEF Alarm
<1>6. ASSUME NEW e \in Own, Finish(e) \/ Skipped(e)
      PROVE  EventMoves
  <2>1. e \in Open BY <1>6, OnAirOpen DEF Finish, Skipped, Open, Entries
  <2> QED BY <1>6, <2>1, DoneMoves DEF Finish, Skipped
<1>7. CASE CollectAbort
  <2> DEFINE t == [tx EXCEPT !.stopAbort = TRUE]
  <2>1. t \in Structs /\ t.phase = tx.phase /\ t.followPending = tx.followPending
    BY <1>1 DEF Structs
  <2>2. tx' = AbortActive(t) /\ stopping' = stopping BY <1>7 DEF CollectAbort
  <2> HIDE DEF t
  <2> QED BY <2>1, <2>2, AbortMoves
<1>8. CASE CollectForeign
  <2>1. tx'.phase = "fault" /\ tx'.followPending = tx.followPending /\ stopping' = stopping
    BY <1>1, <1>8 DEF CollectForeign, Structs
  <2>2. Started(tx) \/ tx.phase = "ended" BY <1>8, ForeignCollected DEF Started
  <2> QED BY <2>1, <2>2, StageLost
<1>9. CASE Retire \/ ForeignStart \/ ForeignEnd \/ LoseHandle \/ Preempt
  <2>1. tx' = tx /\ stopping' = stopping
    BY <1>9 DEF Retire, ForeignStart, ForeignEnd, LoseHandle, Preempt
  <2> QED BY <2>1, StageStays
<1> QED
  BY <1>2, <1>3, <1>4, <1>5, <1>6, <1>7, <1>8, <1>9,
     SubmitMoves, StartMoves, RxPacketMoves, CancelMoves, ReleaseMoves
  DEF EventNext, Resolve, Callback, Collect

\* The caller gets each event back once, with one outcome.
THEOREM EventKeepsPromise == EventSpec => KeepsEventPromise
<1>1. EventInit => Event!Init
  BY DEF EventInit, Clear, Event!Init, Stage, Started
<1>2. EventInv /\ [EventNext]_eventVars => [Event!Next]_(Event!vars)
  <2>1. ASSUME EventInv, EventNext PROVE EventMoves BY <2>1, EventAlwaysMoves
  <2>2. ASSUME UNCHANGED eventVars PROVE UNCHANGED Event!vars
    BY <2>2 DEF eventVars, Event!vars, Stage, Started
  <2> QED BY <2>1, <2>2 DEF EventMoves
<1> QED BY <1>1, <1>2, EventInvariant, PTL DEF EventSpec, KeepsEventPromise, Event!Spec
===============================================================================
