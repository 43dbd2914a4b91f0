-------------------------- MODULE AudioSource_proofs --------------------------
(***************************************************************************)
(* Proofs about AudioSource, for every size of the ring, every modulus of  *)
(* the counters that the ring divides, every place where they start and    *)
(* any number of frames and events.                                        *)
(*                                                                         *)
(* The counters of the code wrap.  The proofs count without wrapping:      *)
(* frame n + 1 is the one written when the counter is Counter(n), in slot  *)
(* Cell(n).                                                                *)
(***************************************************************************)
EXTENDS AudioSource, TLAPS

Counter(n) == (Start + n) % Wrap
Cell(n) == (Start + n) % Queue
Frame(n) == [left |-> n, right |-> n]

\* Frames that the consumer has done with, delivered or thrown away.
taken == delivered + discarded

\* Where select works on the frames that it has counted.
Counting == {"left", "right", "store"}

\* c is the consumer's published counter, without wrapping: it is behind what
\* the consumer has taken only while select is under way.  A producer that has
\* found room keeps it.
CountersInv(c) ==
    /\ c <= taken /\ taken <= pushed /\ pushed - c <= Queue
    /\ written = Counter(pushed) /\ read = Counter(c)
    /\ producer.pc # "idle" =>
           producer.w = written /\ pushed - c < Queue /\ pushed < MaxFrames /\ ~paused
    /\ floor <= taken

\* What the consumer knows in select.
ConsumerInv(c) ==
    /\ consumer.pc \notin Counting => c = taken
    /\ consumer.pc = "load" => consumer.read = read
    /\ consumer.pc # "idle" => consumer.event > last
    /\ consumer.pc \in {"left", "right"} =>
           consumer.read = Counter(taken) /\ consumer.available > 0
    /\ consumer.pc = "store" =>
           consumer.read = Counter(IF consumer.available > 0 THEN taken + 1 ELSE taken)
    /\ consumer.pc \in Counting => consumer.available <= pushed - taken

\* Frames that wait are whole, each in its slot; the next one is written from
\* the left channel to the right one.
RingInv ==
    /\ \A i \in taken..(pushed - 1) : ring[Cell(i)] = Frame(i + 1)
    /\ producer.pc \in {"right", "publish"} => ring[Cell(pushed)].left = pushed + 1
    /\ producer.pc = "publish" => ring[Cell(pushed)].right = pushed + 1

\* The two latches are those of the last two events; one of them is refilled.
Holds(i, e) ==
    IF e = -1 THEN ~latch[i].valid
    ELSE latch[i].valid /\ latch[i].event = e /\ latch[i].data = given[e]

LatchInv ==
    /\ recent[1] = last
    /\ recent[2] = -1 \/ recent[2] < last
    /\ Holds(1 - selected, recent[1])
    /\ consumer.pc \notin Counting => Holds(selected, recent[2])
    /\ consumer.pc \in Counting =>
           latch[selected].valid /\ latch[selected].event = consumer.event
    /\ consumer.pc = "right" => latch[selected].data.left = taken + 1
    /\ consumer.pc = "store" =>
           latch[selected].data = IF consumer.available > 0 THEN Frame(taken + 1) ELSE Silence

\* The last event whose frame has been taken or given up.
Reach == IF consumer.pc \in Counting THEN consumer.event - 1 ELSE last

\* What was answered: whole frames of this session, no further behind the
\* consumer than their events; the last one found is exactly as far behind.
GivenInv ==
    /\ \A e \in Events : given[e] # NotAsked => e <= last
    /\ ChannelsTogether
    /\ \A e \in Events : Present(e) =>
           /\ floor < given[e].left /\ given[e].left <= taken
           /\ taken - given[e].left <= Reach - e
    /\ last # -1 /\ Present(last) /\ (consumer.pc \in Counting => consumer.available > 0)
           => taken - given[last].left = Reach - last
    /\ KeepsPace

\* The statistics have read the counter that was c at their first and at
\* their second access.
StatsInv(c) ==
    /\ stats.pc = "written" => \E a \in 0..c : stats.read = Counter(a)
    /\ stats.pc = "again" =>
           \E a \in 0..c : \E b \in a..c :
               stats.read = Counter(a) /\ stats.truth = Used(stats.written, Counter(b))

SourceInv ==
    /\ TypeOK /\ RingInv /\ LatchInv /\ GivenInv /\ SameAgain
    /\ \E c \in 0..MaxFrames : CountersInv(c) /\ ConsumerInv(c) /\ StatsInv(c)

-------------------------------------------------------------------------------
(***************************************************************************)
(* Counting with a modulus.                                                *)
(***************************************************************************)
LEMMA DivisionOf ==
  ASSUME NEW m \in Nat \ {0}, NEW a \in Int
  PROVE  a \div m \in Int /\ a = m * (a \div m) + (a % m) /\ a % m \in 0..(m - 1)
OBVIOUS

\* Quotient and remainder are the only ones.
LEMMA OnlyDivision ==
  ASSUME NEW m \in Nat \ {0}, NEW p \in Int, NEW q \in Int,
         NEW r \in 0..(m - 1), NEW s \in 0..(m - 1), m * p + r = m * q + s
  PROVE  p = q /\ r = s
<1>1. ~(p < q)
  <2> SUFFICES ASSUME p < q PROVE FALSE
    OBVIOUS
  <2>1. m * q >= m * (p + 1)
    OBVIOUS
  <2>2. m * (p + 1) = m * p + m
    OBVIOUS
  <2> QED BY <2>1, <2>2
<1>2. ~(q < p)
  <2> SUFFICES ASSUME q < p PROVE FALSE
    OBVIOUS
  <2>1. m * p >= m * (q + 1)
    OBVIOUS
  <2>2. m * (q + 1) = m * q + m
    OBVIOUS
  <2> QED BY <2>1, <2>2
<1> QED BY <1>1, <1>2

LEMMA RemainderOf ==
  ASSUME NEW m \in Nat \ {0}, NEW q \in Int, NEW r \in 0..(m - 1)
  PROVE  (m * q + r) % m = r
<1>1. m * q + r \in Int
  OBVIOUS
<1> DEFINE a == m * q + r
           p == a \div m
           s == a % m
<1>2. p \in Int /\ a = m * p + s /\ s \in 0..(m - 1)
  BY <1>1, DivisionOf
<1>3. m * p + s = m * q + r
  BY <1>2
<1> HIDE DEF a, p, s
<1>4. s = r
  BY <1>2, <1>3, OnlyDivision
<1> QED BY <1>4 DEF a, s

\* Whole turns do not count.
LEMMA WholeTurns ==
  ASSUME NEW m \in Nat \ {0}, NEW a \in Int, NEW q \in Int
  PROVE  (a + m * q) % m = a % m
<1> DEFINE d == a \div m
           r == a % m
<1>1. d \in Int /\ a = m * d + r /\ r \in 0..(m - 1)
  BY DivisionOf
<1> HIDE DEF d, r
<1>2. a + m * q = m * (d + q) + r
  BY <1>1
<1>3. (m * (d + q) + r) % m = r
  BY <1>1, RemainderOf
<1> QED BY <1>2, <1>3 DEF r

\* Taking the remainder early makes no difference.
LEMMA EarlyRemainder ==
  ASSUME NEW m \in Nat \ {0}, NEW a \in Int, NEW b \in Int
  PROVE  /\ ((a % m) + b) % m = (a + b) % m
         /\ ((a % m) - (b % m)) % m = (a - b) % m
<1> DEFINE c == a \div m
           d == b \div m
           r == a % m
           s == b % m
<1>1. c \in Int /\ a = m * c + r /\ r \in Int /\ d \in Int /\ b = m * d + s /\ s \in Int
  BY DivisionOf
<1> HIDE DEF c, d, r, s
<1> DEFINE x == r + b
           y == r - s
           z == c - d
<1>2. a + b = x + m * c /\ a - b = y + m * z /\ x \in Int /\ y \in Int /\ z \in Int
  BY <1>1
<1> HIDE DEF x, y, z
<1>3. (x + m * c) % m = x % m /\ (y + m * z) % m = y % m
  BY <1>1, <1>2, WholeTurns
<1>4. (a + b) % m = x % m
  BY <1>2, <1>3
<1>5. (a - b) % m = y % m
  BY <1>2, <1>3
<1>6. x = (a % m) + b /\ y = (a % m) - (b % m)
  BY DEF x, y, r, s
<1> QED BY <1>4, <1>5, <1>6

\* Less than a turn apart, numbers are told apart, and their distance is known.
LEMMA WithinATurn ==
  ASSUME NEW m \in Nat \ {0}, NEW a \in Int, NEW b \in a..(a + m - 1)
  PROVE  /\ ((b % m) - (a % m)) % m = b - a
         /\ a % m = b % m => a = b
<1>0. b \in Int
  OBVIOUS
<1>1. ((b % m) - (a % m)) % m = (b - a) % m
  BY <1>0, EarlyRemainder
<1>2. b - a \in 0..(m - 1)
  OBVIOUS
<1>3. (m * 0 + (b - a)) % m = b - a
  BY <1>2, RemainderOf
<1>4. m * 0 + (b - a) = b - a
  OBVIOUS
<1>5. (b - a) % m = b - a
  BY <1>3, <1>4
<1>6. a % m = b % m => (b % m) - (a % m) = m * 0 + 0
  BY DivisionOf
<1>7. (m * 0 + 0) % m = 0
  BY RemainderOf
<1> QED BY <1>1, <1>5, <1>6, <1>7

\* The remainder by a divisor of the modulus survives the modulus.
LEMMA DivisorRemainder ==
  ASSUME NEW m \in Nat \ {0}, NEW k \in Nat \ {0}, m % k = 0, NEW a \in Int
  PROVE  (a % m) % k = a % k
<1> DEFINE d == a \div m
           r == a % m
           t == m \div k
<1>1. d \in Int /\ a = m * d + r /\ r \in Int
  BY DivisionOf
<1>2. t \in Int /\ m = k * t
  BY DivisionOf
<1> HIDE DEF d, r, t
<1>3. a = r + k * (t * d)
  <2>1. m * d = k * (t * d)
    BY <1>1, <1>2
  <2> QED BY <1>1, <2>1
<1>4. t * d \in Int
  BY <1>1, <1>2
<1>5. (r + k * (t * d)) % k = r % k
  BY <1>1, <1>4, WholeTurns
<1> QED BY <1>3, <1>5 DEF r

-------------------------------------------------------------------------------
LEMMA Sizes ==
  /\ Queue \in Nat \ {0} /\ Wrap \in Nat \ {0} /\ Wrap > Queue /\ Wrap % Queue = 0
  /\ Start \in Nat /\ Start < Wrap /\ MaxFrames \in Nat /\ MaxEvent \in Nat /\ Tries \in Nat \ {0}
BY QueueAssumption, WrapAssumption, StartAssumption, BoundAssumption, TriesAssumption

\* Advancing a counter.
LEMMA CounterPlus ==
  ASSUME NEW n \in Nat, NEW k \in Nat
  PROVE  Plus(Counter(n), k) = Counter(n + k)
<1> DEFINE x == Start + n
<1>1. x \in Int /\ Start + (n + k) = x + k
  BY Sizes
<1> HIDE DEF x
<1>2. ((x % Wrap) + k) % Wrap = (x + k) % Wrap
  <2>1. Wrap \in Nat \ {0} /\ x \in Int /\ k \in Int
    BY <1>1, Sizes
  <2> QED BY <2>1, EarlyRemainder
<1>3. Counter(n) = x % Wrap /\ Counter(n + k) = (x + k) % Wrap
  BY <1>1 DEF Counter, x
<1> QED BY <1>2, <1>3 DEF Plus

LEMMA CounterType ==
  ASSUME NEW n \in Nat
  PROVE  Counter(n) \in Counters
BY Sizes, DivisionOf DEF Counter, Counters

\* The occupancy, and that a counter is read again only if it did not move.
LEMMA CounterDistance ==
  ASSUME NEW n \in Nat, NEW k \in Nat, k < Wrap
  PROVE  /\ Used(Counter(n + k), Counter(n)) = k
         /\ Counter(n) = Counter(n + k) => k = 0
<1> DEFINE x == Start + n
           y == Start + (n + k)
<1>1. x \in Int /\ y \in x..(x + Wrap - 1) /\ y - x = k
  BY Sizes
<1>2. Counter(n) = x % Wrap /\ Counter(n + k) = y % Wrap
  BY DEF Counter
<1> HIDE DEF x, y
<1>3. ((y % Wrap) - (x % Wrap)) % Wrap = y - x /\ (x % Wrap = y % Wrap => x = y)
  BY <1>1, Sizes, WithinATurn
<1> QED BY <1>1, <1>2, <1>3 DEF Used

LEMMA SlotOfCounter ==
  ASSUME NEW n \in Nat
  PROVE  Slot(Counter(n)) = Cell(n) /\ Cell(n) \in 0..(Queue - 1)
<1> DEFINE x == Start + n
<1>1. x \in Int /\ Counter(n) = x % Wrap /\ Cell(n) = x % Queue
  BY Sizes DEF Counter, Cell
<1> HIDE DEF x
<1>2. (x % Wrap) % Queue = x % Queue
  BY <1>1, Sizes, DivisorRemainder
<1>3. x % Queue \in 0..(Queue - 1)
  BY <1>1, Sizes, DivisionOf
<1> QED BY <1>1, <1>2, <1>3 DEF Slot

\* Frames that wait together lie in different slots.
LEMMA CellsApart ==
  ASSUME NEW n \in Nat, NEW k \in Nat, n < k, k - n < Queue
  PROVE  Cell(n) # Cell(k)
<1> DEFINE x == Start + n
           y == Start + k
<1>1. x \in Int /\ y \in x..(x + Queue - 1) /\ x # y
  BY Sizes
<1>2. Cell(n) = x % Queue /\ Cell(k) = y % Queue
  BY DEF Cell
<1> HIDE DEF x, y
<1>3. Queue \in Nat \ {0}
  BY Sizes
<1>4. x % Queue # y % Queue
  BY <1>1, <1>3, WithinATurn
<1> QED BY <1>2, <1>4

-------------------------------------------------------------------------------
LEMMA Occupancy ==
  ASSUME TypeOK, NEW c \in 0..MaxFrames, CountersInv(c)
  PROVE  Used(written, read) = pushed - c /\ pushed - c \in 0..Queue
<1>1. /\ pushed \in Nat /\ c \in Nat /\ c <= pushed /\ pushed - c <= Queue
      /\ written = Counter(pushed) /\ read = Counter(c)
  BY Sizes DEF CountersInv, TypeOK, taken
<1> DEFINE k == pushed - c
<1>2. k \in Nat /\ k < Wrap /\ c + k = pushed /\ k \in 0..Queue
  BY <1>1, Sizes
<1> HIDE DEF k
<1>3. Used(Counter(c + k), Counter(c)) = k
  BY <1>1, <1>2, CounterDistance
<1> QED BY <1>1, <1>2, <1>3 DEF k

LEMMA Numbers ==
  ASSUME TypeOK
  PROVE  /\ {pushed, delivered, discarded, floor, taken} \subseteq Nat
         /\ pushed <= MaxFrames /\ MaxFrames \in Nat /\ Queue \in Nat /\ MaxEvent \in Nat
BY Sizes DEF TypeOK, taken

\* A push that has found room.
LEMMA PushUnderWay ==
  ASSUME TypeOK, NEW c \in 0..MaxFrames, CountersInv(c), producer.pc # "idle"
  PROVE  /\ pushed - c < Queue /\ pushed < MaxFrames /\ c <= taken /\ taken <= pushed /\ ~paused
         /\ producer.w = Counter(pushed) /\ Slot(producer.w) = Cell(pushed)
         /\ Cell(pushed) \in 0..(Queue - 1)
         /\ \A i \in taken..(pushed - 1) : Cell(i) \in 0..(Queue - 1) \ {Cell(pushed)}
<1>1. /\ pushed - c < Queue /\ pushed < MaxFrames /\ c <= taken /\ taken <= pushed /\ ~paused
      /\ producer.w = Counter(pushed)
  BY DEF CountersInv
<1>2. pushed \in Nat /\ taken \in Nat /\ c \in Nat /\ Queue \in Nat
  BY Numbers
<1>3. Slot(producer.w) = Cell(pushed) /\ Cell(pushed) \in 0..(Queue - 1)
  BY <1>1, <1>2, SlotOfCounter
<1>4. ASSUME NEW i \in taken..(pushed - 1) PROVE Cell(i) \in 0..(Queue - 1) \ {Cell(pushed)}
  <2>1. i \in Nat /\ i < pushed /\ pushed - i < Queue
    BY <1>1, <1>2
  <2> QED BY <1>2, <2>1, CellsApart, SlotOfCounter
<1> QED BY <1>1, <1>3, <1>4

\* One channel of a slot is written.
LEMMA LeftWritten ==
  ASSUME NEW r \in [0..(Queue - 1) -> Frames], NEW s \in 0..(Queue - 1), NEW v \in 0..MaxFrames
  PROVE  /\ [r EXCEPT ![s].left = v] \in [0..(Queue - 1) -> Frames]
         /\ [r EXCEPT ![s].left = v][s].left = v
         /\ \A i \in 0..(Queue - 1) \ {s} : [r EXCEPT ![s].left = v][i] = r[i]
BY DEF Frames

LEMMA RightWritten ==
  ASSUME NEW r \in [0..(Queue - 1) -> Frames], NEW s \in 0..(Queue - 1), NEW v \in 0..MaxFrames
  PROVE  /\ [r EXCEPT ![s].right = v] \in [0..(Queue - 1) -> Frames]
         /\ [r EXCEPT ![s].right = v][s].right = v
         /\ [r EXCEPT ![s].right = v][s].left = r[s].left
         /\ \A i \in 0..(Queue - 1) \ {s} : [r EXCEPT ![s].right = v][i] = r[i]
BY DEF Frames

\* Nothing of the consumer's side depends on the producer or the statistics.
LEMMA SelectUndisturbed ==
  ASSUME LatchInv, GivenInv, SameAgain, UNCHANGED consumerSide
  PROVE  LatchInv' /\ GivenInv' /\ SameAgain'
BY DEF consumerSide, LatchInv, Holds, GivenInv, ChannelsTogether, Present, Reach, Counting,
       KeepsPace, SameAgain, taken

\* audio_source.c, ull_audio_source_push: the slot that is written is none of
\* those that wait, and the counter is published when both channels are there.
LEMMA PushLoadStep ==
  ASSUME SourceInv, PushLoad
  PROVE  SourceInv'
<1>1. PICK c \in 0..MaxFrames : CountersInv(c) /\ ConsumerInv(c) /\ StatsInv(c)
  BY DEF SourceInv
<1>2. TypeOK /\ UNCHANGED consumerSide /\ UNCHANGED <<written, ring, paused, stats, pushed>>
  BY DEF SourceInv, PushLoad
<1>3. producer' = [pc |-> "left", w |-> written] /\ ~paused /\ pushed < MaxFrames /\ pushed - c < Queue
  BY <1>1, <1>2, Occupancy DEF PushLoad, HasRoom
<1>4. TypeOK'
  BY <1>2, <1>3 DEF TypeOK, consumerSide
<1>5. CountersInv(c)' /\ ConsumerInv(c)' /\ StatsInv(c)'
  BY <1>1, <1>2, <1>3 DEF CountersInv, ConsumerInv, StatsInv, consumerSide, taken
<1>6. RingInv'
  BY <1>2, <1>3 DEF SourceInv, RingInv, consumerSide, taken
<1> QED BY <1>2, <1>4, <1>5, <1>6, SelectUndisturbed DEF SourceInv

LEMMA PushLeftStep ==
  ASSUME SourceInv, PushLeft
  PROVE  SourceInv'
<1>1. PICK c \in 0..MaxFrames : CountersInv(c) /\ ConsumerInv(c) /\ StatsInv(c)
  BY DEF SourceInv
<1>2. TypeOK /\ UNCHANGED consumerSide /\ UNCHANGED <<written, paused, stats, pushed>>
  BY DEF SourceInv, PushLeft
<1>3. producer' = [producer EXCEPT !.pc = "right"] /\ producer.pc = "left"
  BY DEF PushLeft
<1>4. /\ producer'.pc = "right" /\ producer'.w = producer.w
      /\ producer' \in [pc : {"idle", "left", "right", "publish"}, w : Counters]
  BY <1>2, <1>3 DEF TypeOK
<1>5. /\ pushed < MaxFrames /\ Slot(producer.w) = Cell(pushed) /\ Cell(pushed) \in 0..(Queue - 1)
      /\ \A i \in taken..(pushed - 1) : Cell(i) \in 0..(Queue - 1) \ {Cell(pushed)}
  BY <1>1, <1>2, <1>3, PushUnderWay
<1>6. pushed + 1 \in 0..MaxFrames /\ ring \in [0..(Queue - 1) -> Frames]
  <2>1. pushed \in Nat /\ MaxFrames \in Nat
    BY <1>2, Numbers
  <2>2. ring \in [0..(Queue - 1) -> Frames]
    BY <1>2 DEF TypeOK
  <2> QED BY <1>5, <2>1, <2>2
<1>7. ring' = [ring EXCEPT ![Cell(pushed)].left = pushed + 1]
  BY <1>5 DEF PushLeft
<1>8. /\ ring' \in [0..(Queue - 1) -> Frames] /\ ring'[Cell(pushed)].left = pushed + 1
      /\ \A i \in taken..(pushed - 1) : ring'[Cell(i)] = ring[Cell(i)]
  BY <1>5, <1>6, <1>7, LeftWritten
<1>9. TypeOK'
  BY <1>2, <1>4, <1>8 DEF TypeOK, consumerSide
<1>10. CountersInv(c)' /\ ConsumerInv(c)' /\ StatsInv(c)'
  BY <1>1, <1>2, <1>3, <1>4 DEF CountersInv, ConsumerInv, StatsInv, consumerSide, taken
<1>11. RingInv'
  <2>1. taken' = taken /\ pushed' = pushed
    BY <1>2 DEF consumerSide, taken
  <2>2. \A i \in taken..(pushed - 1) : ring'[Cell(i)] = Frame(i + 1)
    BY <1>8 DEF SourceInv, RingInv
  <2> QED BY <1>4, <1>8, <2>1, <2>2 DEF RingInv
<1> QED BY <1>2, <1>9, <1>10, <1>11, SelectUndisturbed DEF SourceInv

LEMMA PushRightStep ==
  ASSUME SourceInv, PushRight
  PROVE  SourceInv'
<1>1. PICK c \in 0..MaxFrames : CountersInv(c) /\ ConsumerInv(c) /\ StatsInv(c)
  BY DEF SourceInv
<1>2. TypeOK /\ UNCHANGED consumerSide /\ UNCHANGED <<written, paused, stats, pushed>>
  BY DEF SourceInv, PushRight
<1>3. producer' = [producer EXCEPT !.pc = "publish"] /\ producer.pc = "right"
  BY DEF PushRight
<1>4. /\ producer'.pc = "publish" /\ producer'.w = producer.w
      /\ producer' \in [pc : {"idle", "left", "right", "publish"}, w : Counters]
  BY <1>2, <1>3 DEF TypeOK
<1>5. /\ pushed < MaxFrames /\ Slot(producer.w) = Cell(pushed) /\ Cell(pushed) \in 0..(Queue - 1)
      /\ \A i \in taken..(pushed - 1) : Cell(i) \in 0..(Queue - 1) \ {Cell(pushed)}
  BY <1>1, <1>2, <1>3, PushUnderWay
<1>6. pushed + 1 \in 0..MaxFrames /\ ring \in [0..(Queue - 1) -> Frames]
  <2>1. pushed \in Nat /\ MaxFrames \in Nat
    BY <1>2, Numbers
  <2>2. ring \in [0..(Queue - 1) -> Frames]
    BY <1>2 DEF TypeOK
  <2> QED BY <1>5, <2>1, <2>2
<1>7. ring' = [ring EXCEPT ![Cell(pushed)].right = pushed + 1]
  BY <1>5 DEF PushRight
<1>8. /\ ring' \in [0..(Queue - 1) -> Frames] /\ ring'[Cell(pushed)].right = pushed + 1
      /\ ring'[Cell(pushed)].left = ring[Cell(pushed)].left
      /\ \A i \in taken..(pushed - 1) : ring'[Cell(i)] = ring[Cell(i)]
  BY ZenonT(40), <1>5, <1>6, <1>7, RightWritten
<1>9. TypeOK'
  BY <1>2, <1>4, <1>8 DEF TypeOK, consumerSide
<1>10. CountersInv(c)' /\ ConsumerInv(c)' /\ StatsInv(c)'
  BY <1>1, <1>2, <1>3, <1>4 DEF CountersInv, ConsumerInv, StatsInv, consumerSide, taken
<1>11. RingInv'
  <2>1. taken' = taken /\ pushed' = pushed
    BY <1>2 DEF consumerSide, taken
  <2>2. \A i \in taken..(pushed - 1) : ring'[Cell(i)] = Frame(i + 1)
    BY <1>8 DEF SourceInv, RingInv
  <2>3. ring'[Cell(pushed)].left = pushed + 1
    BY <1>3, <1>8 DEF SourceInv, RingInv
  <2> QED BY <1>4, <1>8, <2>1, <2>2, <2>3 DEF RingInv
<1> QED BY <1>2, <1>9, <1>10, <1>11, SelectUndisturbed DEF SourceInv

LEMMA PushPublishStep ==
  ASSUME SourceInv, PushPublish
  PROVE  SourceInv'
<1>1. PICK c \in 0..MaxFrames : CountersInv(c) /\ ConsumerInv(c) /\ StatsInv(c)
  BY DEF SourceInv
<1>2. TypeOK /\ UNCHANGED consumerSide /\ UNCHANGED <<ring, paused, stats>>
  BY DEF SourceInv, PushPublish
<1>3. /\ producer' = [pc |-> "idle", w |-> 0] /\ producer.pc = "publish" /\ pushed' = pushed + 1
      /\ written' = Plus(producer.w, 1)
  BY DEF PushPublish
<1>4. /\ pushed - c < Queue /\ pushed < MaxFrames /\ c <= taken /\ taken <= pushed
      /\ producer.w = Counter(pushed) /\ Cell(pushed) \in 0..(Queue - 1)
  BY <1>1, <1>2, <1>3, PushUnderWay
<1>5. pushed \in Nat /\ taken \in Nat /\ MaxFrames \in Nat /\ Queue \in Nat /\ taken' = taken
  BY <1>2, Numbers DEF consumerSide, taken
<1>6. written' = Counter(pushed + 1) /\ written' \in Counters
  BY <1>3, <1>4, <1>5, CounterPlus, CounterType
<1>7. ring[Cell(pushed)] = Frame(pushed + 1)
  <2>1. ring[Cell(pushed)] \in Frames
    BY <1>2, <1>4 DEF TypeOK
  <2>2. ring[Cell(pushed)].left = pushed + 1 /\ ring[Cell(pushed)].right = pushed + 1
    BY <1>3 DEF SourceInv, RingInv
  <2> QED BY <2>1, <2>2 DEF Frames, Frame
<1>8. TypeOK'
  <2>1. producer' \in [pc : {"idle", "left", "right", "publish"}, w : Counters]
    BY <1>3, Sizes DEF Counters
  <2>2. pushed' \in 0..MaxFrames
    BY <1>3, <1>4, <1>5
  <2> QED BY <1>2, <1>6, <2>1, <2>2 DEF TypeOK, consumerSide
<1>9. CountersInv(c)' /\ ConsumerInv(c)' /\ StatsInv(c)'
  <2>1. CountersInv(c)'
    BY <1>1, <1>2, <1>3, <1>4, <1>5, <1>6 DEF CountersInv, consumerSide
  <2>2. ConsumerInv(c)'
    <3>1. consumer.available \in 0..Queue
      BY <1>2 DEF TypeOK
    <3> QED BY <1>1, <1>2, <1>3, <1>4, <1>5, <3>1 DEF ConsumerInv, consumerSide
  <2>3. StatsInv(c)'
    BY <1>1, <1>2 DEF StatsInv
  <2> QED BY <2>1, <2>2, <2>3
<1>10. RingInv'
  <2>1. ASSUME NEW i \in taken..pushed PROVE ring[Cell(i)] = Frame(i + 1)
    <3>1. CASE i = pushed
      BY <3>1, <1>7
    <3>2. CASE i # pushed
      BY <3>2, <1>5 DEF SourceInv, RingInv
    <3> QED BY <3>1, <3>2
  <2>2. pushed' - 1 = pushed /\ ring' = ring
    BY <1>2, <1>3, <1>5
  <2> QED BY <2>1, <2>2, <1>3, <1>5 DEF RingInv
<1> QED BY <1>2, <1>8, <1>9, <1>10, SelectUndisturbed DEF SourceInv

StatsType == [pc : {"idle", "written", "again", "done"}, read : Counters, written : Counters,
              truth : 0..Wrap-1, tries : 0..Tries]

\* Nothing of the producer's side depends on the consumer's or the statistics.
LEMMA StatsUndisturbed ==
  ASSUME SourceInv, UNCHANGED queueSide,
         stats' \in StatsType,
         \A c \in 0..MaxFrames : CountersInv(c) /\ StatsInv(c) => StatsInv(c)'
  PROVE  SourceInv'
<1>1. UNCHANGED consumerSide /\ UNCHANGED <<written, ring, producer, paused, pushed>>
  BY DEF queueSide
<1>2. PICK c \in 0..MaxFrames : CountersInv(c) /\ ConsumerInv(c) /\ StatsInv(c)
  BY DEF SourceInv
<1>3. TypeOK'
  BY <1>1 DEF SourceInv, TypeOK, consumerSide, StatsType
<1>4. CountersInv(c)' /\ ConsumerInv(c)' /\ StatsInv(c)'
  BY <1>1, <1>2 DEF CountersInv, ConsumerInv, consumerSide, taken
<1>5. RingInv'
  BY <1>1 DEF SourceInv, RingInv, consumerSide, taken
<1> QED BY <1>1, <1>3, <1>4, <1>5, SelectUndisturbed DEF SourceInv

\* audio_source.c, ull_audio_source_stats: it disturbs neither end, and what it
\* has read of the consumer's counter stays one of its earlier values.
LEMMA StatsStep ==
  ASSUME SourceInv, StatsRead \/ StatsWritten \/ StatsAgain \/ StatsReturn
  PROVE  SourceInv'
<1>1. UNCHANGED queueSide
  BY DEF StatsRead, StatsWritten, StatsAgain, StatsReturn
<1>2. read' = read /\ written' = written
  BY <1>1 DEF queueSide, consumerSide
<1>3. /\ stats \in StatsType
      /\ read \in Counters /\ written \in Counters
  BY DEF SourceInv, TypeOK, StatsType
<1>4. Wrap \in Nat \ {0} /\ Tries \in Nat \ {0}
  BY Sizes
<1>5. NoStats \in StatsType
  BY <1>4 DEF NoStats, Counters, StatsType
<1>6. CASE StatsRead
  <2>1. /\ stats'.pc = "written" /\ stats'.read = read
        /\ stats' \in StatsType
    <3>1. stats.tries + 1 \in 0..Tries
      BY <1>3, <1>4, <1>6 DEF StatsRead, StatsType
    <3> DEFINE n == stats.tries + 1
    <3> HIDE DEF n
    <3>2. stats' = [stats EXCEPT !.pc = "written", !.read = read, !.tries = n] /\ n \in 0..Tries
      BY <1>6, <3>1 DEF StatsRead, n
    <3> QED BY <1>3, <3>2 DEF StatsType
  <2>2. \A c \in 0..MaxFrames : CountersInv(c) /\ StatsInv(c) => StatsInv(c)'
    BY <1>2, <2>1 DEF CountersInv, StatsInv
  <2> QED BY <1>1, <2>1, <2>2, StatsUndisturbed
<1>7. CASE StatsWritten
  <2>1. /\ stats'.pc = "again" /\ stats'.read = stats.read
        /\ stats'.written = written /\ stats'.truth = Used(written, read)
    BY <1>3, <1>7 DEF StatsWritten, StatsType
  <2>2. Used(written, read) \in 0..Wrap-1
    <3>1. written - read \in Int
      BY <1>3, <1>4 DEF Counters
    <3> QED BY <1>4, <3>1, DivisionOf DEF Used
  <2>3. stats' \in StatsType
    BY <1>3, <1>7, <2>2 DEF StatsWritten, StatsType
  <2>4. ASSUME NEW c \in 0..MaxFrames, CountersInv(c), StatsInv(c) PROVE StatsInv(c)'
    <3>1. PICK a \in 0..c : stats.read = Counter(a)
      BY <1>7, <2>4 DEF StatsWritten, StatsInv
    <3>2. c \in a..c /\ stats'.truth = Used(stats'.written, Counter(c))
      BY <2>1, <2>4 DEF CountersInv
    <3> QED BY <2>1, <3>1, <3>2 DEF StatsInv
  <2> QED BY <1>1, <2>3, <2>4, StatsUndisturbed
<1>8. CASE StatsAgain \/ StatsReturn
  <2>1. /\ stats'.pc \in {"idle", "done"}
        /\ stats' \in StatsType
    <3>1. CASE StatsAgain /\ Stable(stats.read, stats.written, read)
      BY <1>3, <3>1 DEF StatsAgain, StatsType
    <3>2. CASE StatsAgain /\ ~Stable(stats.read, stats.written, read)
      <4>1. stats' = [NoStats EXCEPT !.tries = stats.tries]
        BY <3>2 DEF StatsAgain
      <4> QED BY <1>3, <1>4, <4>1 DEF NoStats, Counters, StatsType
    <3>3. CASE StatsReturn
      BY <1>5, <3>3 DEF StatsReturn, NoStats
    <3> QED BY <1>8, <3>1, <3>2, <3>3
  <2>2. \A c \in 0..MaxFrames : CountersInv(c) /\ StatsInv(c) => StatsInv(c)'
    BY <2>1 DEF StatsInv
  <2> QED BY <1>1, <2>1, <2>2, StatsUndisturbed
<1> QED BY <1>6, <1>7, <1>8

\* reconnect_barrier.h: the producer is parked between two frames.
LEMMA BarrierStep ==
  ASSUME SourceInv, Pause \/ Resume
  PROVE  SourceInv'
<1>1. /\ UNCHANGED consumerSide /\ UNCHANGED <<written, ring, producer, stats, pushed>>
      /\ paused' \in BOOLEAN /\ (producer.pc # "idle" => ~paused')
  BY DEF Pause, Resume
<1>2. PICK c \in 0..MaxFrames : CountersInv(c) /\ ConsumerInv(c) /\ StatsInv(c)
  BY DEF SourceInv
<1>3. TypeOK'
  BY <1>1 DEF SourceInv, TypeOK, consumerSide
<1>4. CountersInv(c)' /\ ConsumerInv(c)' /\ StatsInv(c)'
  BY <1>1, <1>2 DEF CountersInv, ConsumerInv, StatsInv, consumerSide, taken
<1>5. RingInv'
  BY <1>1 DEF SourceInv, RingInv, consumerSide, taken
<1> QED BY <1>1, <1>3, <1>4, <1>5, SelectUndisturbed DEF SourceInv

-------------------------------------------------------------------------------
(***************************************************************************)
(* ull_audio_source_select.                                                *)
(***************************************************************************)
\* A latch that answers an event is that of one of the last two events.
LEMMA Latching ==
  ASSUME TypeOK, LatchInv, consumer.pc = "idle", NEW e \in Events
  PROVE  /\ Latched(e) # {} =>
               /\ FirstLatched(e) \in 0..1
               /\ latch[FirstLatched(e)].valid /\ latch[FirstLatched(e)].data = given[e]
         /\ Latched(e) = {} => e \notin {recent[1], recent[2]}
<1>1. /\ selected \in 0..1 /\ recent[1] \in -1..MaxEvent /\ recent[2] \in -1..MaxEvent
      /\ e \in Nat
  BY Sizes DEF TypeOK, Events
<1>2. Holds(1 - selected, recent[1]) /\ Holds(selected, recent[2])
  BY DEF LatchInv, Counting
<1>3. \A i \in 0..1 : i = selected \/ i = 1 - selected
  BY <1>1
<1>4. ASSUME Latched(e) # {}
      PROVE  /\ FirstLatched(e) \in 0..1
             /\ latch[FirstLatched(e)].valid /\ latch[FirstLatched(e)].data = given[e]
  <2>1. \E i \in Latched(e) : \A j \in Latched(e) : i <= j
    <3>1. CASE 0 \in Latched(e)
      BY <3>1 DEF Latched
    <3>2. CASE 0 \notin Latched(e)
      <4>1. \A j \in Latched(e) : j = 1
        BY <3>2 DEF Latched
      <4> QED BY <1>4, <4>1
    <3> QED BY <3>1, <3>2
  <2>2. FirstLatched(e) \in Latched(e)
    BY <2>1 DEF FirstLatched
  <2> DEFINE i == FirstLatched(e)
  <2> HIDE DEF i
  <2>3. i \in 0..1 /\ latch[i].valid /\ latch[i].event = e
    BY <2>2 DEF Latched, i
  <2>4. latch[i].data = given[e]
    <3>1. CASE i = selected
      BY <1>2, <2>3, <3>1 DEF Holds
    <3>2. CASE i = 1 - selected
      BY <1>2, <2>3, <3>2 DEF Holds
    <3> QED BY <1>3, <2>3, <3>1, <3>2
  <2> QED BY <2>3, <2>4 DEF i
<1>5. ASSUME Latched(e) = {}, e = recent[1] \/ e = recent[2] PROVE FALSE
  <2>1. e # -1 /\ selected \in 0..1 /\ 1 - selected \in 0..1
    BY <1>1
  <2> QED BY <1>2, <1>5, <2>1 DEF Holds, Latched
<1> QED BY <1>4, <1>5

\* Nothing of the producer's side and of the counters depends on the answer.
LEMMA AnswerUndisturbed ==
  ASSUME SourceInv,
         UNCHANGED <<producerSide, read, latch, last, selected, discarded, given, recent,
                     floor, delivered>>,
         consumer' = consumer,
         answer' \in [event : Events, result : -1..1, data : Frames \cup {NotAsked}], SameAgain'
  PROVE  SourceInv'
<1>1. UNCHANGED <<written, ring, producer, paused, stats, pushed>>
  BY DEF producerSide
<1>2. PICK c \in 0..MaxFrames : CountersInv(c) /\ ConsumerInv(c) /\ StatsInv(c)
  BY DEF SourceInv
<1>3. TypeOK'
  BY <1>1 DEF SourceInv, TypeOK
<1>4. CountersInv(c)' /\ ConsumerInv(c)' /\ StatsInv(c)'
  BY <1>1, <1>2 DEF CountersInv, ConsumerInv, StatsInv, taken
<1>5. RingInv' /\ LatchInv'
  BY <1>1 DEF SourceInv, RingInv, LatchInv, Holds, taken
<1>6. GivenInv'
  BY DEF SourceInv, GivenInv, ChannelsTogether, Present, Reach, KeepsPace, taken
<1> QED BY <1>3, <1>4, <1>5, <1>6 DEF SourceInv

LEMMA SelectAgainStep ==
  ASSUME SourceInv, SelectAgain
  PROVE  SourceInv'
<1>1. PICK e \in Events :
        /\ Latched(e) # {}
        /\ answer' = [event |-> e, result |-> IF latch[FirstLatched(e)].present THEN 1 ELSE 0,
                      data |-> latch[FirstLatched(e)].data]
  BY DEF SelectAgain
<1>2. TypeOK /\ LatchInv /\ consumer.pc = "idle" /\ given' = given
  BY DEF SourceInv, SelectAgain
<1>3. FirstLatched(e) \in 0..1 /\ latch[FirstLatched(e)].data = given[e]
  BY <1>1, <1>2, Latching
<1>4. latch[FirstLatched(e)].data \in Frames
  BY <1>2, <1>3 DEF TypeOK
<1>5. answer' \in [event : Events, result : -1..1, data : Frames \cup {NotAsked}] /\ SameAgain'
  BY <1>1, <1>2, <1>3, <1>4 DEF SameAgain
<1> QED BY <1>5, AnswerUndisturbed DEF SelectAgain

LEMMA SelectBackwardsStep ==
  ASSUME SourceInv, SelectBackwards
  PROVE  SourceInv'
<1>1. PICK e \in Events :
        Latched(e) = {} /\ answer' = [event |-> e, result |-> -1, data |-> NotAsked]
  BY DEF SelectBackwards
<1>2. TypeOK /\ LatchInv /\ consumer.pc = "idle" /\ recent' = recent
  BY DEF SourceInv, SelectBackwards
<1>3. e \notin {recent[1], recent[2]}
  BY <1>1, <1>2, Latching
<1>4. answer' \in [event : Events, result : -1..1, data : Frames \cup {NotAsked}] /\ SameAgain'
  BY <1>1, <1>2, <1>3 DEF SameAgain
<1> QED BY <1>4, AnswerUndisturbed DEF SelectBackwards

LEMMA SelectCallStep ==
  ASSUME SourceInv, SelectCall
  PROVE  SourceInv'
<1>1. PICK e \in Events :
        e > last /\ consumer' = [consumer EXCEPT !.pc = "load", !.event = e, !.read = read]
  BY DEF SelectCall
<1>2. /\ UNCHANGED <<written, ring, producer, paused, stats, pushed>>
      /\ UNCHANGED <<read, latch, last, selected, discarded, given, recent, answer, floor, delivered>>
      /\ consumer.pc = "idle" /\ TypeOK
  BY DEF SourceInv, SelectCall, producerSide
<1>3. PICK c \in 0..MaxFrames : CountersInv(c) /\ ConsumerInv(c) /\ StatsInv(c)
  BY DEF SourceInv
<1>4. /\ consumer'.pc = "load" /\ consumer'.event = e /\ consumer'.read = read
      /\ consumer' \in [pc : {"idle", "load", "left", "right", "store"},
                        event : Events, read : Counters, available : 0..Queue]
  BY <1>1, <1>2 DEF TypeOK
<1>5. TypeOK'
  BY <1>2, <1>4 DEF TypeOK
<1>6. CountersInv(c)' /\ ConsumerInv(c)' /\ StatsInv(c)'
  BY <1>1, <1>2, <1>3, <1>4 DEF CountersInv, ConsumerInv, StatsInv, Counting, taken
<1>7. RingInv' /\ LatchInv' /\ SameAgain'
  BY <1>2, <1>4 DEF SourceInv, RingInv, LatchInv, Holds, SameAgain, Counting, taken
<1>8. GivenInv'
  <2>1. Reach' = Reach /\ taken' = taken
    BY <1>2, <1>4 DEF Reach, Counting, taken
  <2> QED BY <1>2, <1>4, <2>1 DEF SourceInv, GivenInv, ChannelsTogether, Present, Counting, KeepsPace
<1> QED BY <1>5, <1>6, <1>7, <1>8 DEF SourceInv

LEMMA AnswersTyped ==
  ASSUME TypeOK, NEW e \in Events, given[e] # NotAsked
  PROVE  given[e] \in Frames /\ given[e].left \in Nat /\ e \in Nat
<1>1. given \in [Events -> Frames \cup {NotAsked}]
  BY DEF TypeOK
<1>2. given[e] \in Frames
  BY <1>1
<1>3. MaxFrames \in Nat /\ MaxEvent \in Nat
  BY Sizes
<1> QED BY <1>2, <1>3 DEF Frames, Events

\* The numbers of a selection that has counted what waits.
LEMMA Selecting ==
  ASSUME SourceInv, NEW c \in 0..MaxFrames, CountersInv(c), ConsumerInv(c), consumer.pc # "idle"
  PROVE  /\ c \in Nat /\ c <= taken /\ taken <= pushed /\ pushed - c <= Queue
         /\ {taken, pushed, delivered, discarded, floor} \subseteq Nat /\ floor <= taken
         /\ taken = delivered + discarded
         /\ pushed <= MaxFrames /\ MaxFrames \in Nat /\ Queue \in Nat /\ Queue < Wrap
         /\ consumer.event \in Nat /\ last \in Int /\ -1 <= last /\ last < consumer.event
         /\ consumer.event \in Events /\ consumer.event <= MaxEvent /\ MaxEvent \in Nat
         /\ selected \in 0..1 /\ consumer.available \in Nat /\ consumer.available <= Queue
<1>1. TypeOK
  BY DEF SourceInv
<1>2. /\ {pushed, delivered, discarded, floor, taken} \subseteq Nat
      /\ pushed <= MaxFrames /\ MaxFrames \in Nat /\ Queue \in Nat /\ MaxEvent \in Nat
  BY <1>1, Numbers
<1>3. c <= taken /\ taken <= pushed /\ pushed - c <= Queue /\ floor <= taken /\ consumer.event > last
  BY DEF CountersInv, ConsumerInv
<1>4. /\ consumer.event \in 0..MaxEvent /\ last \in -1..MaxEvent /\ selected \in 0..1
      /\ consumer.available \in 0..Queue
  BY <1>1 DEF TypeOK, Events
<1> QED BY <1>2, <1>3, <1>4, Sizes DEF taken, Events

\* What waits is counted and the skipped events give up theirs.
LEMMA SelectLoadStep ==
  ASSUME SourceInv, SelectLoad
  PROVE  SourceInv'
<1>1. PICK c \in 0..MaxFrames : CountersInv(c) /\ ConsumerInv(c) /\ StatsInv(c)
  BY DEF SourceInv
<1> DEFINE available == pushed - taken
           skipped == Skipped(consumer.event)
           discard == IF skipped < available THEN skipped ELSE available
           left == available - discard
<1>2. /\ UNCHANGED <<written, ring, producer, paused, stats, pushed>>
      /\ UNCHANGED <<read, last, selected, given, recent, answer, floor, delivered>>
      /\ TypeOK /\ consumer.pc = "load"
  BY DEF SourceInv, SelectLoad, producerSide
<1>3. /\ c \in Nat /\ c <= taken /\ taken <= pushed /\ pushed - c <= Queue
      /\ {taken, pushed, delivered, discarded, floor} \subseteq Nat /\ floor <= taken
      /\ taken = delivered + discarded
      /\ pushed <= MaxFrames /\ MaxFrames \in Nat /\ Queue \in Nat
      /\ consumer.event \in Nat /\ last \in Int /\ -1 <= last /\ last < consumer.event
      /\ consumer.event \in Events /\ selected \in 0..1
  BY <1>1, <1>2, Selecting
<1>4. c = taken /\ consumer.read = Counter(taken) /\ Used(written, consumer.read) = available
  BY <1>1, <1>2, Occupancy DEF ConsumerInv, CountersInv, Counting
<1>5. /\ skipped \in Nat /\ discard \in Nat /\ discard <= available /\ left \in Nat
      /\ left = available - discard /\ available = pushed - taken
      /\ left > 0 => discard = skipped
      /\ left > 0 <=> available > discard
      /\ discard <= skipped
      /\ skipped = IF last = -1 THEN 0 ELSE consumer.event - last - 1
  BY <1>3 DEF Skipped
<1>6. /\ discarded' = discarded + discard
      /\ latch' = [latch EXCEPT ![selected] =
                     [valid |-> TRUE, event |-> consumer.event, present |-> available > discard,
                      data |-> IF available > discard THEN latch[selected].data ELSE Silence]]
      /\ consumer' = [consumer EXCEPT
                        !.pc = IF available > discard THEN "left" ELSE "store",
                        !.read = Plus(consumer.read, discard), !.available = left]
  BY <1>4 DEF SelectLoad, NextLatch
<1> HIDE DEF available, skipped, discard, left
<1>7. taken' = taken + discard /\ taken' \in Nat /\ taken' <= pushed /\ taken <= taken'
  <2>1. taken' = delivered + (discarded + discard)
    BY <1>2, <1>6 DEF taken
  <2> QED BY <1>3, <1>5, <2>1
<1>8. Plus(consumer.read, discard) = Counter(taken') /\ Counter(taken') \in Counters
  BY <1>3, <1>4, <1>5, <1>7, CounterPlus, CounterType
<1>9. /\ consumer'.pc = IF left > 0 THEN "left" ELSE "store"
      /\ consumer'.read = Counter(taken') /\ consumer'.available = left
      /\ consumer'.event = consumer.event
      /\ consumer' \in [pc : {"idle", "load", "left", "right", "store"},
                        event : Events, read : Counters, available : 0..Queue]
  <2>1. left \in 0..Queue
    BY <1>3, <1>5
  <2>2. consumer \in [pc : {"idle", "load", "left", "right", "store"},
                      event : Events, read : Counters, available : 0..Queue]
    BY <1>2 DEF TypeOK
  <2> QED BY <1>5, <1>6, <1>8, <2>1, <2>2
<1>10. /\ latch'[selected].valid /\ latch'[selected].event = consumer.event
       /\ left = 0 => latch'[selected].data = Silence
       /\ \A i \in 0..1 \ {selected} : latch'[i] = latch[i]
       /\ latch' \in [0..1 -> [valid : BOOLEAN, event : Events, present : BOOLEAN, data : Frames]]
  <2>1. latch \in [0..1 -> [valid : BOOLEAN, event : Events, present : BOOLEAN, data : Frames]]
    BY <1>2 DEF TypeOK
  <2>2. Silence \in Frames
    BY <1>3 DEF Silence, Frames
  <2> QED BY <1>3, <1>5, <1>6, <2>1, <2>2
<1>11. TypeOK'
  <2>1. discarded' \in 0..MaxFrames
    BY <1>3, <1>5, <1>6, <1>7
  <2> QED BY <1>2, <1>9, <1>10, <2>1 DEF TypeOK
<1>12. CountersInv(c)' /\ ConsumerInv(c)' /\ StatsInv(c)'
  <2>1. CountersInv(c)'
    BY <1>1, <1>2, <1>3, <1>7 DEF CountersInv
  <2>2. ConsumerInv(c)'
    BY <1>2, <1>3, <1>5, <1>7, <1>9 DEF ConsumerInv, Counting
  <2>3. StatsInv(c)'
    BY <1>1, <1>2 DEF StatsInv
  <2> QED BY <2>1, <2>2, <2>3
<1>13. RingInv'
  <2>1. ASSUME NEW i \in taken'..(pushed - 1) PROVE ring[Cell(i)] = Frame(i + 1)
    <3>1. i \in taken..(pushed - 1)
      BY <1>3, <1>7
    <3> QED BY <3>1 DEF SourceInv, RingInv
  <2> QED BY <1>2, <2>1 DEF SourceInv, RingInv
<1>14. LatchInv'
  <2>1. Holds(1 - selected, recent[1])'
    BY <1>2, <1>3, <1>10 DEF SourceInv, LatchInv, Holds
  <2>2. recent[1] = last /\ (recent[2] = -1 \/ recent[2] < last)
    BY DEF SourceInv, LatchInv
  <2> QED BY <1>2, <1>5, <1>9, <1>10, <2>1, <2>2 DEF LatchInv, Counting
<1>15. GivenInv' /\ SameAgain'
  <2>1. Reach = last /\ Reach' = consumer.event - 1
    BY <1>2, <1>9 DEF Reach, Counting
  <2>2. \A e \in Events : Present(e)' <=> Present(e)
    BY <1>2 DEF Present
  <2>3. ASSUME NEW e \in Events, Present(e)
        PROVE  floor < given[e].left /\ given[e].left <= taken' /\ taken' - given[e].left <= Reach' - e
    <3>1. /\ floor < given[e].left /\ given[e].left <= taken /\ taken - given[e].left <= last - e
          /\ e <= last
      BY <2>1, <2>3 DEF SourceInv, GivenInv, Present
    <3>2. given[e].left \in Nat /\ e \in Nat
      BY <1>2, <2>3, AnswersTyped DEF Present
    <3>3. discard <= consumer.event - last - 1
      <4>1. last # -1
        BY <3>1, <3>2
      <4>2. skipped = consumer.event - last - 1
        BY <1>5, <4>1
      <4> QED BY <1>5, <4>2
    <3>4. taken \in Int /\ discard \in Int /\ last \in Int /\ consumer.event \in Int
      BY <1>3, <1>5
    <3> QED BY <1>7, <2>1, <3>1, <3>2, <3>3, <3>4
  <2>4. ASSUME last # -1, Present(last), left > 0 PROVE taken' - given[last].left = Reach' - last
    <3>1. taken - given[last].left = last - last
      BY <1>2, <2>1, <2>4 DEF SourceInv, GivenInv, Counting
    <3>2. last \in Events
      BY <1>2, <2>4, Sizes DEF TypeOK, Events
    <3>3. given[last].left \in Nat
      BY <1>2, <2>4, <3>2, AnswersTyped DEF Present
    <3> QED BY <1>3, <1>5, <1>7, <2>1, <2>4, <3>1, <3>3
  <2>5. ChannelsTogether' /\ KeepsPace' /\ SameAgain'
    BY <1>2 DEF SourceInv, GivenInv, ChannelsTogether, KeepsPace, Present, SameAgain
  <2>6. \A e \in Events : given[e] # NotAsked => e <= last
    BY DEF SourceInv, GivenInv
  <2> QED BY <1>2, <1>9, <2>2, <2>3, <2>4, <2>5, <2>6 DEF GivenInv, Present, Counting
<1> QED BY <1>11, <1>12, <1>13, <1>14, <1>15 DEF SourceInv

\* A frame is being copied: its slot is one of those that wait, which the
\* producer leaves alone.
LEMMA Copying ==
  ASSUME SourceInv, NEW c \in 0..MaxFrames, CountersInv(c), ConsumerInv(c),
         consumer.pc \in {"left", "right"}
  PROVE  /\ ring[Slot(consumer.read)] = Frame(taken + 1)
         /\ taken \in Nat /\ taken + 1 <= pushed /\ taken + 1 \in 0..MaxFrames
         /\ consumer.read = Counter(taken) /\ selected \in 0..1
<1>1. /\ taken \in Nat /\ pushed \in Nat /\ taken <= pushed /\ pushed <= MaxFrames
      /\ MaxFrames \in Nat /\ selected \in 0..1 /\ consumer.available \in Nat
  BY Selecting
<1>2. /\ consumer.read = Counter(taken) /\ consumer.available > 0
      /\ consumer.available <= pushed - taken
  BY DEF ConsumerInv, Counting
<1>3. taken + 1 <= pushed /\ taken + 1 \in 0..MaxFrames /\ taken \in taken..(pushed - 1)
  BY <1>1, <1>2
<1>4. Slot(consumer.read) = Cell(taken)
  BY <1>1, <1>2, SlotOfCounter
<1>5. ring[Cell(taken)] = Frame(taken + 1)
  BY <1>3 DEF SourceInv, RingInv
<1> QED BY <1>1, <1>2, <1>3, <1>4, <1>5

LEMMA CopyUndisturbed ==
  ASSUME SourceInv, NEW c \in 0..MaxFrames, CountersInv(c), StatsInv(c),
         UNCHANGED <<written, ring, producer, paused, stats, pushed>>,
         UNCHANGED <<read, last, selected, discarded, given, recent, answer, floor, delivered>>,
         consumer.pc \in {"left", "right"}, consumer'.pc \in {"right", "store"},
         consumer'.event = consumer.event, consumer'.available = consumer.available,
         consumer' \in [pc : {"idle", "load", "left", "right", "store"},
                        event : Events, read : Counters, available : 0..Queue],
         ConsumerInv(c)',
         latch' \in [0..1 -> [valid : BOOLEAN, event : Events, present : BOOLEAN, data : Frames]],
         latch'[selected].valid = latch[selected].valid,
         latch'[selected].event = latch[selected].event,
         consumer'.pc = "right" => latch'[selected].data.left = taken + 1,
         consumer'.pc = "store" =>
             latch'[selected].data = IF consumer.available > 0 THEN Frame(taken + 1) ELSE Silence,
         latch'[1 - selected] = latch[1 - selected]
  PROVE  SourceInv'
<1>1. taken' = taken /\ Reach' = Reach
  BY DEF taken, Reach, Counting
<1>2. TypeOK'
  BY DEF SourceInv, TypeOK
<1>3. CountersInv(c)' /\ StatsInv(c)'
  BY <1>1 DEF CountersInv, StatsInv
<1>4. RingInv'
  BY <1>1 DEF SourceInv, RingInv
<1>5. LatchInv'
  <2>1. Holds(1 - selected, recent[1])'
    BY DEF SourceInv, LatchInv, Holds
  <2>2. /\ recent[1] = last /\ (recent[2] = -1 \/ recent[2] < last)
        /\ latch[selected].valid /\ latch[selected].event = consumer.event
    BY DEF SourceInv, LatchInv, Counting
  <2> QED BY <1>1, <2>1, <2>2 DEF LatchInv, Counting
<1>6. GivenInv' /\ SameAgain'
  BY <1>1 DEF SourceInv, GivenInv, ChannelsTogether, Present, KeepsPace, SameAgain, Counting
<1> QED BY <1>2, <1>3, <1>4, <1>5, <1>6 DEF SourceInv

LEMMA SelectLeftStep ==
  ASSUME SourceInv, SelectLeft
  PROVE  SourceInv'
<1>1. PICK c \in 0..MaxFrames : CountersInv(c) /\ ConsumerInv(c) /\ StatsInv(c)
  BY DEF SourceInv
<1>2. /\ UNCHANGED <<written, ring, producer, paused, stats, pushed>>
      /\ UNCHANGED <<read, last, selected, discarded, given, recent, answer, floor, delivered>>
      /\ consumer.pc = "left" /\ consumer' = [consumer EXCEPT !.pc = "right"]
  BY DEF SelectLeft, producerSide
<1>3. /\ ring[Slot(consumer.read)] = Frame(taken + 1) /\ taken + 1 \in 0..MaxFrames
      /\ selected \in 0..1
  BY <1>1, <1>2, Copying
<1>4. latch' = [latch EXCEPT ![selected].data.left = taken + 1]
  BY <1>3 DEF SelectLeft, NextLatch, Frame
<1>5. latch \in [0..1 -> [valid : BOOLEAN, event : Events, present : BOOLEAN, data : Frames]]
  BY DEF SourceInv, TypeOK
<1>6. /\ latch' \in [0..1 -> [valid : BOOLEAN, event : Events, present : BOOLEAN, data : Frames]]
      /\ latch'[selected].valid = latch[selected].valid
      /\ latch'[selected].event = latch[selected].event
      /\ latch'[selected].data.left = taken + 1
      /\ latch'[1 - selected] = latch[1 - selected]
  BY <1>3, <1>4, <1>5 DEF Frames
<1>7. /\ consumer'.pc = "right" /\ consumer'.event = consumer.event
      /\ consumer'.available = consumer.available /\ consumer'.read = consumer.read
      /\ consumer' \in [pc : {"idle", "load", "left", "right", "store"},
                        event : Events, read : Counters, available : 0..Queue]
  BY <1>2 DEF SourceInv, TypeOK
<1>8. ConsumerInv(c)'
  BY <1>1, <1>2, <1>7 DEF ConsumerInv, Counting, taken
<1> QED BY <1>1, <1>2, <1>6, <1>7, <1>8, CopyUndisturbed

LEMMA SelectRightStep ==
  ASSUME SourceInv, SelectRight
  PROVE  SourceInv'
<1>1. PICK c \in 0..MaxFrames : CountersInv(c) /\ ConsumerInv(c) /\ StatsInv(c)
  BY DEF SourceInv
<1>2. /\ UNCHANGED <<written, ring, producer, paused, stats, pushed>>
      /\ UNCHANGED <<read, last, selected, discarded, given, recent, answer, floor, delivered>>
      /\ consumer.pc = "right"
      /\ consumer' = [consumer EXCEPT !.pc = "store", !.read = Plus(consumer.read, 1)]
  BY DEF SelectRight, producerSide
<1>3. /\ ring[Slot(consumer.read)] = Frame(taken + 1) /\ taken + 1 \in 0..MaxFrames
      /\ selected \in 0..1 /\ taken \in Nat /\ consumer.read = Counter(taken)
  BY <1>1, <1>2, Copying
<1>4. latch' = [latch EXCEPT ![selected].data.right = taken + 1]
  BY <1>3 DEF SelectRight, NextLatch, Frame
<1>5. latch \in [0..1 -> [valid : BOOLEAN, event : Events, present : BOOLEAN, data : Frames]]
  BY DEF SourceInv, TypeOK
<1>6. /\ latch' \in [0..1 -> [valid : BOOLEAN, event : Events, present : BOOLEAN, data : Frames]]
      /\ latch'[selected].valid = latch[selected].valid
      /\ latch'[selected].event = latch[selected].event
      /\ latch'[selected].data.left = latch[selected].data.left
      /\ latch'[selected].data.right = taken + 1
      /\ latch'[1 - selected] = latch[1 - selected]
  BY <1>3, <1>4, <1>5 DEF Frames
<1>7. Plus(consumer.read, 1) = Counter(taken + 1) /\ Counter(taken + 1) \in Counters
  BY <1>3, CounterPlus, CounterType
<1>8. /\ consumer'.pc = "store" /\ consumer'.event = consumer.event
      /\ consumer'.available = consumer.available /\ consumer'.read = Counter(taken + 1)
      /\ consumer' \in [pc : {"idle", "load", "left", "right", "store"},
                        event : Events, read : Counters, available : 0..Queue]
  BY <1>2, <1>7 DEF SourceInv, TypeOK
<1>9. consumer.available > 0
  BY <1>1, <1>2 DEF ConsumerInv
<1>10. latch'[selected].data = Frame(taken + 1)
  <2>1. latch'[selected].data \in Frames
    BY <1>3, <1>6
  <2>2. latch[selected].data.left = taken + 1
    BY <1>2 DEF SourceInv, LatchInv
  <2> QED BY <1>6, <2>1, <2>2 DEF Frames, Frame
<1>11. ConsumerInv(c)'
  BY <1>1, <1>2, <1>8, <1>9 DEF ConsumerInv, Counting, taken
<1> QED BY <1>1, <1>2, <1>6, <1>8, <1>9, <1>10, <1>11, CopyUndisturbed

\* The counter is published, and the answer is the latch of this event.
LEMMA SelectStoreStep ==
  ASSUME SourceInv, SelectStore
  PROVE  SourceInv'
<1>1. PICK c \in 0..MaxFrames : CountersInv(c) /\ ConsumerInv(c) /\ StatsInv(c)
  BY DEF SourceInv
\* The values of this call, before and after the step.
<1>a. PICK event, waiting, data, slot, prior, next :
        /\ event = consumer.event /\ waiting = consumer.available /\ slot = selected
        /\ prior = last /\ data = latch[selected].data
        /\ next = IF consumer.available > 0 THEN taken + 1 ELSE taken
  OBVIOUS
<1> DEFINE some == waiting > 0
<1>2. /\ UNCHANGED <<written, ring, producer, paused, stats, pushed>>
      /\ UNCHANGED <<latch, discarded, floor>>
      /\ consumer.pc = "store" /\ read' = consumer.read /\ last' = event /\ last = prior
      /\ selected = slot /\ selected' = 1 - slot /\ recent' = <<event, recent[1]>>
      /\ given' = [given EXCEPT ![event] = data]
      /\ answer' = [event |-> event, result |-> IF some THEN 1 ELSE 0, data |-> data]
      /\ delivered' = IF some THEN delivered + 1 ELSE delivered
      /\ consumer' = [pc |-> "idle", event |-> 0, read |-> 0, available |-> 0]
      /\ TypeOK
  BY <1>a DEF SourceInv, SelectStore, producerSide, NextLatch
<1>3. /\ c \in Nat /\ c <= taken /\ taken <= pushed /\ pushed - c <= Queue
      /\ {taken, pushed, delivered, discarded, floor} \subseteq Nat /\ floor <= taken
      /\ taken = delivered + discarded
      /\ pushed <= MaxFrames /\ MaxFrames \in Nat /\ Queue \in Nat
      /\ event \in Nat /\ prior \in Int /\ -1 <= prior /\ prior < event
      /\ event \in Events /\ event <= MaxEvent /\ MaxEvent \in Nat /\ slot \in 0..1 /\ waiting \in Nat
  BY <1>a, <1>1, <1>2, Selecting
<1>4. /\ consumer.read = Counter(next) /\ waiting <= pushed - taken
      /\ data = IF some THEN Frame(taken + 1) ELSE Silence
      /\ latch[slot].valid /\ latch[slot].event = event /\ latch[slot].data = data
      /\ Holds(1 - slot, prior)
      /\ recent[1] = prior
  BY <1>a, <1>1, <1>2 DEF SourceInv, ConsumerInv, LatchInv, Counting
<1>5. /\ next \in Nat /\ c <= next /\ next <= pushed /\ taken <= next /\ next <= taken + 1
      /\ next = IF some THEN taken + 1 ELSE taken
      /\ next \in 0..MaxFrames
  BY <1>a, <1>3, <1>4
<1>6. data \in Frames
  BY <1>a, <1>2, <1>3 DEF TypeOK
<1> HIDE DEF some
<1>7. taken' = next
  <2>1. CASE some
    <3>1. taken' = delivered + 1 + discarded
      BY <1>2, <2>1 DEF taken
    <3> QED BY <1>3, <1>5, <2>1, <3>1
  <2>2. CASE ~some
    BY <1>2, <1>5, <2>2 DEF taken
  <2> QED BY <2>1, <2>2
<1>8. /\ given'[event] = data
      /\ \A e \in Events \ {event} : given'[e] = given[e]
      /\ given' \in [Events -> Frames \cup {NotAsked}]
  BY <1>2, <1>3, <1>6 DEF TypeOK
<1>9. TypeOK'
  <2>1. consumer' \in [pc : {"idle", "load", "left", "right", "store"},
                       event : Events, read : Counters, available : 0..Queue]
    BY <1>2, Sizes DEF Events, Counters
  <2>2. read' \in Counters /\ last' \in -1..MaxEvent /\ selected' \in 0..1
    BY <1>2, <1>3 DEF TypeOK
  <2>3. recent' \in [1..2 -> -1..MaxEvent]
    <3>1. recent[1] \in -1..MaxEvent /\ event \in -1..MaxEvent
      BY <1>2, <1>3 DEF TypeOK
    <3> QED BY <1>2, <3>1
  <2>4. answer' \in [event : Events, result : -1..1, data : Frames \cup {NotAsked}]
    BY <1>2, <1>3, <1>6
  <2>5. delivered' \in 0..MaxFrames
    <3>1. delivered' \in Nat /\ delivered' <= delivered' + discarded
      BY <1>2, <1>3
    <3>2. delivered' + discarded = next
      BY <1>2, <1>7 DEF taken
    <3> QED BY <1>3, <1>5, <3>1, <3>2
  <2> QED BY <1>2, <1>8, <2>1, <2>2, <2>3, <2>4, <2>5 DEF TypeOK
<1>10. CountersInv(next)' /\ ConsumerInv(next)' /\ StatsInv(next)'
  <2>1. CountersInv(next)'
    <3>1. /\ written = Counter(pushed)
          /\ producer.pc # "idle" =>
                producer.w = written /\ pushed - c < Queue /\ pushed < MaxFrames /\ ~paused
      BY <1>1 DEF CountersInv
    <3>2. pushed - next <= Queue /\ (pushed - c < Queue => pushed - next < Queue) /\ floor <= next
      BY <1>3, <1>5
    <3> QED BY <1>2, <1>4, <1>5, <1>7, <3>1, <3>2 DEF CountersInv
  <2>2. ConsumerInv(next)'
    BY <1>2, <1>7 DEF ConsumerInv, Counting
  <2>3. StatsInv(next)'
    <3>1. \A a \in 0..c : a \in 0..next /\ a..c \subseteq a..next
      BY <1>3, <1>5
    <3> QED BY <1>1, <1>2, <3>1 DEF StatsInv
  <2> QED BY <2>1, <2>2, <2>3
<1>11. RingInv'
  <2>1. \A i \in next..(pushed - 1) : ring[Cell(i)] = Frame(i + 1)
    <3>1. \A i \in next..(pushed - 1) : i \in taken..(pushed - 1)
      BY <1>3, <1>5
    <3> QED BY <3>1 DEF SourceInv, RingInv
  <2> QED BY <1>2, <1>7, <2>1 DEF SourceInv, RingInv
<1>12. LatchInv'
  <2>1. recent'[1] = event /\ recent'[2] = prior
    BY <1>2, <1>4
  <2>2. Holds(slot, event)'
    BY <1>2, <1>3, <1>4, <1>8 DEF Holds
  <2>3. Holds(1 - slot, prior)'
    <3>1. prior # -1 => prior \in Events \ {event}
      BY <1>3 DEF Events
    <3> QED BY <1>2, <1>4, <1>8, <3>1 DEF Holds
  <2>4. 1 - selected' = slot
    BY <1>2, <1>3
  <2> QED BY <1>2, <1>3, <2>1, <2>2, <2>3, <2>4 DEF LatchInv, Counting, Holds
<1>13. GivenInv' /\ SameAgain'
  <2>1. Reach = event - 1 /\ Reach' = event /\ consumer'.pc \notin Counting
    BY <1>a, <1>2 DEF Reach, Counting
  \* What was answered before.
  <2>2. ASSUME NEW e \in Events, given[e] # NotAsked
        PROVE  e \in Nat /\ e <= prior /\ e < event /\ given[e].left = given[e].right
    <3>1. e \in Nat /\ e <= prior /\ given[e].left = given[e].right
      BY <1>2, <2>2, AnswersTyped DEF SourceInv, GivenInv, ChannelsTogether
    <3> QED BY <1>3, <3>1
  <2>3. ASSUME NEW e \in Events, Present(e)
        PROVE  /\ e \in Nat /\ e < event /\ given[e].left \in Nat
               /\ floor < given[e].left /\ given[e].left <= taken
               /\ taken - given[e].left <= event - 1 - e
    <3>1. /\ floor < given[e].left /\ given[e].left <= taken
          /\ taken - given[e].left <= event - 1 - e
      BY <2>1, <2>3 DEF SourceInv, GivenInv
    <3> QED BY <1>2, <2>2, <2>3, <3>1, AnswersTyped DEF Present
  <2>4. /\ \A e \in Events \ {event} : Present(e)' <=> Present(e)
        /\ Present(event)' => some /\ data.left = taken + 1
        /\ data.left = data.right /\ data # NotAsked
    <3>1. \A e \in Events \ {event} : Present(e)' <=> Present(e)
      BY <1>8 DEF Present
    <3>2. Present(event)' => some
      BY <1>4, <1>8 DEF Present
    <3>3. some => data.left = taken + 1
      BY <1>4 DEF Frame
    <3>4. data.left = data.right
      BY <1>4 DEF Frame, Silence
    <3>5. data # NotAsked
      <4>1. -1 \notin 0..MaxFrames
        OBVIOUS
      <4> QED BY <1>6, <4>1 DEF NotAsked, Frames
    <3> QED BY <3>1, <3>2, <3>3, <3>4, <3>5
  <2>5. \A e \in Events : given'[e] # NotAsked => e <= last'
    <3>1. ASSUME NEW e \in Events, given'[e] # NotAsked PROVE e <= event
      <4>1. CASE e = event
        BY <1>3, <4>1
      <4>2. CASE e # event
        <5>1. e \in Nat /\ e < event
          BY <1>8, <2>2, <3>1, <4>2
        <5> QED BY <1>3, <5>1
      <4> QED BY <4>1, <4>2
    <3> QED BY <1>2, <3>1
  <2>6. ChannelsTogether'
    <3>1. ASSUME NEW e \in Events, given'[e] # NotAsked PROVE given'[e].left = given'[e].right
      <4>1. CASE e = event
        BY <1>8, <2>4, <4>1
      <4>2. CASE e # event
        BY <1>8, <2>2, <3>1, <4>2
      <4> QED BY <4>1, <4>2
    <3> QED BY <3>1 DEF ChannelsTogether
  <2>7. ASSUME NEW e \in Events, Present(e)'
        PROVE  floor < given'[e].left /\ given'[e].left <= next /\ next - given'[e].left <= event - e
    <3>1. CASE e = event
      <4>1. given'[e].left = next /\ next = taken + 1
        BY <1>5, <1>8, <2>4, <2>7, <3>1
      <4> QED BY <1>3, <3>1, <4>1
    <3>2. CASE e # event
      <4>1. /\ e \in Nat /\ e < event /\ given[e].left \in Nat
            /\ floor < given[e].left /\ given[e].left <= taken
            /\ taken - given[e].left <= event - 1 - e
        BY <2>3, <2>4, <2>7, <3>2
      <4>2. given'[e].left = given[e].left
        BY <1>8, <3>2
      <4> QED BY <1>3, <1>5, <4>1, <4>2
    <3> QED BY <3>1, <3>2
  <2>8. Present(event)' => next - given'[event].left = 0
    BY <1>3, <1>5, <1>8, <2>4
  <2>9. KeepsPace'
    <3>1. ASSUME NEW e \in Events, NEW f \in Events, e < f, Present(e)', Present(f)'
          PROVE  given'[f].left - given'[e].left \in 1..(f - e)
      <4>1. CASE f = event
        <5>1. e \in Events \ {event}
          BY <1>3, <3>1, <4>1
        <5>2. /\ e \in Nat /\ given[e].left \in Nat /\ given[e].left <= taken
              /\ taken - given[e].left <= event - 1 - e
          BY <2>3, <2>4, <3>1, <5>1
        <5>3. given'[f].left = taken + 1 /\ given'[e].left = given[e].left
          BY <1>8, <2>4, <3>1, <4>1, <5>1
        <5> QED BY <1>3, <4>1, <5>2, <5>3
      <4>2. CASE f # event /\ e = event
        <5>1. f \in Nat /\ f < event
          BY <2>3, <2>4, <3>1, <4>2
        <5> QED BY <1>3, <3>1, <4>2, <5>1
      <4>3. CASE f # event /\ e # event
        BY <1>8, <2>4, <3>1, <4>3 DEF SourceInv, GivenInv, KeepsPace
      <4> QED BY <4>1, <4>2, <4>3
    <3>2. ASSUME prior # -1, Present(event)', Present(prior)'
          PROVE  given'[event].left - given'[prior].left = event - prior
      <4>1. prior \in Events \ {event}
        BY <1>3, <3>2 DEF Events
      <4>2. Present(prior) /\ some
        BY <2>4, <3>2, <4>1
      <4>3. taken - given[prior].left = event - 1 - prior
        BY <1>a, <1>2, <2>1, <3>2, <4>2 DEF SourceInv, GivenInv, some
      <4>4. given[prior].left \in Nat
        BY <2>3, <4>1, <4>2
      <4>5. given'[event].left = taken + 1 /\ given'[prior].left = given[prior].left
        BY <1>8, <2>4, <3>2, <4>1
      <4> QED BY <1>3, <4>3, <4>4, <4>5
    <3>3. recent'[1] = event /\ recent'[2] = prior
      BY <1>2, <1>4
    <3> QED BY <3>1, <3>2, <3>3 DEF KeepsPace, Present
  <2>10. SameAgain'
    BY <1>2, <1>8 DEF SameAgain
  <2> QED BY <1>2, <1>7, <2>1, <2>5, <2>6, <2>7, <2>8, <2>9, <2>10, <1>3 DEF GivenInv, Present
<1> QED BY <1>5, <1>9, <1>10, <1>11, <1>12, <1>13 DEF SourceInv

\* audio_source.c, ull_audio_source_rearm: what waits is thrown away, and
\* nothing answered before it is remembered.
LEMMA RearmStep ==
  ASSUME SourceInv, Rearm
  PROVE  SourceInv'
<1>1. PICK c \in 0..MaxFrames : CountersInv(c) /\ ConsumerInv(c) /\ StatsInv(c)
  BY DEF SourceInv
<1>2. PICK n : n = pushed
  OBVIOUS
<1>3. /\ UNCHANGED <<written, ring, producer, paused, stats, pushed, consumer, selected, delivered>>
      /\ paused /\ consumer.pc = "idle" /\ read' = written
      /\ discarded' = discarded + Used(written, read)
      /\ latch' = [i \in 0..1 |-> NoLatch] /\ last' = -1 /\ floor' = n
      /\ given' = [e \in Events |-> NotAsked] /\ recent' = <<-1, -1>> /\ answer' = NoAnswer
      /\ TypeOK
  BY <1>2 DEF SourceInv, Rearm, producerSide, ReadAfterRearm
<1>4. /\ c = taken /\ taken <= n /\ c \in Nat /\ {taken, n, delivered, discarded} \subseteq Nat
      /\ n <= MaxFrames /\ MaxFrames \in Nat /\ MaxEvent \in Nat /\ Queue \in Nat
      /\ taken = delivered + discarded
      /\ producer.pc = "idle" /\ written = Counter(n) /\ Used(written, read) = n - c
  BY <1>1, <1>2, <1>3, Numbers, Occupancy DEF CountersInv, ConsumerInv, Counting, taken
<1>5. discarded' = discarded + (n - c) /\ taken' = n /\ n \in 0..MaxFrames /\ n \in Nat
  <2>1. discarded' = discarded + (n - c) /\ n \in 0..MaxFrames
    BY <1>3, <1>4
  <2>2. taken' = delivered + (discarded + (n - c))
    BY <1>3, <2>1 DEF taken
  <2> QED BY <1>4, <2>1, <2>2
<1>6. TypeOK'
  <2>1. discarded' \in 0..MaxFrames
    BY <1>4, <1>5
  <2>2. NoLatch \in [valid : BOOLEAN, event : Events, present : BOOLEAN, data : Frames]
    BY <1>4 DEF NoLatch, Silence, Frames, Events
  <2>3. NoAnswer \in [event : Events, result : -1..1, data : Frames \cup {NotAsked}]
    BY <1>4 DEF NoAnswer, Events
  <2>4. <<-1, -1>> \in [1..2 -> -1..MaxEvent] /\ -1 \in -1..MaxEvent
    BY <1>4
  <2> QED BY <1>3, <1>5, <2>1, <2>2, <2>3, <2>4 DEF TypeOK
<1>7. CountersInv(n)' /\ ConsumerInv(n)' /\ StatsInv(n)'
  <2>1. CountersInv(n)'
    BY <1>2, <1>3, <1>4, <1>5 DEF CountersInv
  <2>2. ConsumerInv(n)'
    BY <1>3, <1>5 DEF ConsumerInv, Counting
  <2>3. StatsInv(n)'
    <3>1. \A a \in 0..c : a \in 0..n /\ a..c \subseteq a..n
      BY <1>4
    <3> QED BY <1>1, <1>3, <3>1 DEF StatsInv
  <2> QED BY <2>1, <2>2, <2>3
<1>8. RingInv'
  <2>1. n..(n - 1) = {}
    BY <1>4
  <2> QED BY <1>2, <1>3, <1>4, <1>5, <2>1 DEF RingInv
<1>9. LatchInv'
  <2>1. /\ latch'[selected].valid = FALSE /\ latch'[1 - selected].valid = FALSE
        /\ recent'[1] = -1 /\ recent'[2] = -1
    BY <1>3 DEF TypeOK, NoLatch
  <2> QED BY <1>3, <2>1 DEF LatchInv, Holds, Counting
<1>10. GivenInv' /\ SameAgain'
  <2>1. \A e \in Events : given'[e] = NotAsked
    BY <1>3
  <2>2. 0 \in Events
    BY <1>4 DEF Events
  <2>3. GivenInv'
    BY <1>3, <2>1 DEF GivenInv, ChannelsTogether, Present, KeepsPace
  <2>4. SameAgain'
    BY <1>3, <2>1, <2>2 DEF SameAgain, NoAnswer
  <2> QED BY <2>3, <2>4
<1> QED BY <1>5, <1>6, <1>7, <1>8, <1>9, <1>10 DEF SourceInv

LEMMA InitSource ==
  ASSUME Init
  PROVE  SourceInv
<1>1. /\ Queue \in Nat \ {0} /\ Wrap \in Nat \ {0} /\ Start \in 0..Wrap-1 /\ Start \in Nat
      /\ MaxFrames \in Nat /\ MaxEvent \in Nat /\ Tries \in Nat \ {0}
  BY Sizes
<1>2. Silence \in Frames /\ NoLatch \in [valid : BOOLEAN, event : Events, present : BOOLEAN, data : Frames]
  BY <1>1 DEF Silence, Frames, NoLatch, Events
<1>3. NoAnswer \in [event : Events, result : -1..1, data : Frames \cup {NotAsked}]
  BY <1>1 DEF NoAnswer, Events
<1>4. NoStats \in StatsType /\ NoStats.pc = "idle"
  BY <1>1 DEF NoStats, StatsType, Counters
<1>5. Counter(0) = Start
  <2>1. (Wrap * 0 + Start) % Wrap = Start
    BY <1>1, RemainderOf
  <2>2. Wrap * 0 + Start = Start + 0
    BY <1>1
  <2> QED BY <2>1, <2>2 DEF Counter
<1>6. /\ written = Start /\ read = Start /\ ring = [i \in 0..Queue-1 |-> Silence]
      /\ producer = [pc |-> "idle", w |-> 0]
      /\ consumer = [pc |-> "idle", event |-> 0, read |-> 0, available |-> 0]
      /\ latch = [i \in 0..1 |-> NoLatch] /\ last = -1 /\ selected = 0
      /\ discarded = 0 /\ paused = FALSE /\ stats = NoStats
      /\ pushed = 0 /\ floor = 0 /\ delivered = 0 /\ given = [e \in Events |-> NotAsked]
      /\ recent = <<-1, -1>> /\ answer = NoAnswer
  BY DEF Init
<1>7. taken = 0
  BY <1>6 DEF taken
<1>8. TypeOK
  <2>1. /\ written \in Counters /\ read \in Counters /\ ring \in [0..Queue-1 -> Frames]
        /\ producer \in [pc : {"idle", "left", "right", "publish"}, w : Counters]
    BY <1>1, <1>2, <1>6 DEF Counters
  <2>2. consumer \in [pc : {"idle", "load", "left", "right", "store"},
                      event : Events, read : Counters, available : 0..Queue]
    BY <1>1, <1>6 DEF Counters, Events
  <2>3. /\ last \in -1..MaxEvent /\ selected \in 0..1 /\ discarded \in 0..MaxFrames
        /\ pushed \in 0..MaxFrames /\ floor \in 0..MaxFrames /\ delivered \in 0..MaxFrames
        /\ paused \in BOOLEAN
    <3>1. -1 \in -1..MaxEvent /\ 0 \in 0..MaxFrames /\ 0 \in 0..1 /\ FALSE \in BOOLEAN
      BY <1>1
    <3> QED BY <1>6, <3>1
  <2>4. recent \in [1..2 -> -1..MaxEvent]
    <3>1. -1 \in -1..MaxEvent
      BY <1>1
    <3> QED BY <1>6, <3>1
  <2> QED BY <1>2, <1>3, <1>4, <1>6, <2>1, <2>2, <2>3, <2>4 DEF TypeOK, StatsType
<1>9. CountersInv(0) /\ ConsumerInv(0) /\ StatsInv(0)
  BY <1>1, <1>4, <1>5, <1>6, <1>7 DEF CountersInv, ConsumerInv, StatsInv, Counting
<1>10. RingInv
  BY <1>1, <1>6, <1>7 DEF RingInv
<1>11. LatchInv
  BY <1>6 DEF LatchInv, Holds, Counting, NoLatch
<1>12. GivenInv /\ SameAgain
  <2>1. \A e \in Events : given[e] = NotAsked
    BY <1>6
  <2>2. 0 \in Events
    BY <1>1 DEF Events
  <2>3. GivenInv
    BY <1>6, <2>1 DEF GivenInv, ChannelsTogether, Present, KeepsPace
  <2>4. SameAgain
    BY <1>6, <2>1, <2>2 DEF SameAgain, NoAnswer
  <2> QED BY <2>3, <2>4
<1>13. 0 \in 0..MaxFrames
  BY <1>1
<1> QED BY <1>8, <1>9, <1>10, <1>11, <1>12, <1>13 DEF SourceInv

LEMMA SourceStep ==
  ASSUME SourceInv, [Next]_vars
  PROVE  SourceInv'
<1>1. CASE UNCHANGED vars
  <2>1. UNCHANGED consumerSide /\ UNCHANGED queueSide /\ UNCHANGED stats
    BY <1>1 DEF vars, consumerSide, queueSide
  <2>2. stats \in StatsType
    BY DEF SourceInv, TypeOK, StatsType
  <2>3. \A c \in 0..MaxFrames : StatsInv(c) => StatsInv(c)'
    BY <2>1 DEF StatsInv
  <2> QED BY <2>1, <2>2, <2>3, StatsUndisturbed
<1>2. CASE PushLoad \/ PushLeft \/ PushRight \/ PushPublish
  BY <1>2, PushLoadStep, PushLeftStep, PushRightStep, PushPublishStep
<1>3. CASE SelectAgain \/ SelectBackwards \/ SelectCall \/ SelectLoad
  BY <1>3, SelectAgainStep, SelectBackwardsStep, SelectCallStep, SelectLoadStep
<1>4. CASE SelectLeft \/ SelectRight \/ SelectStore
  BY <1>4, SelectLeftStep, SelectRightStep, SelectStoreStep
<1>5. CASE Pause \/ Resume \/ Rearm
  BY <1>5, BarrierStep, RearmStep
<1>6. CASE StatsRead \/ StatsWritten \/ StatsAgain \/ StatsReturn
  BY <1>6, StatsStep
<1> QED BY <1>1, <1>2, <1>3, <1>4, <1>5, <1>6 DEF Next

\* The invariant of the queue: the frames that wait are whole and in their
\* slots, the latches are those of the last two events, and every answer is as
\* far behind the producer as its event allows.
THEOREM RingKept == Spec => []SourceInv
<1>1. Init => SourceInv
  BY InitSource
<1>2. SourceInv /\ [Next]_vars => SourceInv'
  BY SourceStep
<1> QED BY <1>1, <1>2, PTL DEF Spec

\* audio_source.c, the copies of push and select: no answered frame mixes two
\* frames, whatever the size of the ring and wherever the counters start.
THEOREM ChannelsStayTogether == Spec => []ChannelsTogether
<1>1. SourceInv => ChannelsTogether
  BY DEF SourceInv, GivenInv
<1> QED BY <1>1, RingKept, PTL

\* audio_source.c, the two latches: an event asked for again is answered again
\* with the same audio.
THEOREM AnsweredTheSame == Spec => []SameAgain
<1>1. SourceInv => SameAgain
  BY DEF SourceInv
<1> QED BY <1>1, RingKept, PTL

\* audio_source.c, the audio of skipped events: answers are as far apart as
\* their events.
THEOREM PaceKept == Spec => []KeepsPace
<1>1. SourceInv => KeepsPace
  BY DEF SourceInv, GivenInv
<1> QED BY <1>1, RingKept, PTL

\* What Accounted says of the frames: those that wait are at most as many as the
\* slots, every frame waits, was delivered or is counted as discarded, and no
\* answer is older than the session.
FramesAccounted ==
    /\ TypeOK /\ Used(written, read) <= Queue
    /\ consumer.pc = "idle" => pushed = delivered + discarded + Used(written, read)
    /\ \A e \in Events : Present(e) => given[e].left > floor

LEMMA InvAccounts ==
  ASSUME SourceInv
  PROVE  FramesAccounted
<1>1. PICK c \in 0..MaxFrames : CountersInv(c) /\ ConsumerInv(c)
  BY DEF SourceInv
<1>2. TypeOK /\ {pushed, delivered, discarded, taken, floor} \subseteq Nat /\ Queue \in Nat
  BY Numbers DEF SourceInv
<1>3. Used(written, read) = pushed - c /\ pushed - c \in 0..Queue
  BY <1>1, <1>2, Occupancy
<1>4. consumer.pc = "idle" => c = delivered + discarded
  BY <1>1 DEF ConsumerInv, Counting, taken
<1>5. Used(written, read) <= Queue
  BY <1>2, <1>3
<1>6. consumer.pc = "idle" => pushed = delivered + discarded + Used(written, read)
  BY <1>2, <1>3, <1>4
<1>7. ASSUME NEW e \in Events, Present(e) PROVE given[e].left > floor
  <2>1. floor < given[e].left
    BY <1>7 DEF SourceInv, GivenInv
  <2>2. given[e].left \in Nat
    BY <1>2, <1>7, AnswersTyped DEF Present
  <2> QED BY <1>2, <2>1, <2>2
<1> QED BY <1>2, <1>5, <1>6, <1>7 DEF FramesAccounted

\* audio_source.c, the counters: nothing is lost or counted twice, however
\* often the counters wrap.
THEOREM FramesAreAccounted == Spec => []FramesAccounted
<1>1. SourceInv => FramesAccounted
  BY InvAccounts
<1> QED BY <1>1, RingKept, PTL

\* The reported occupancy is a true one.
Reported == stats.pc = "done" => Used(stats.written, stats.read) = stats.truth

\* The consumer's counter is the same again only if it did not move: less than
\* a turn of the counters is published altogether.
LEMMA ReportStep ==
  ASSUME MaxFrames < Wrap, SourceInv, Reported, [Next]_vars
  PROVE  Reported'
<1>1. CASE UNCHANGED stats
  BY <1>1 DEF Reported
<1>2. CASE StatsAgain
  <2>1. CASE Stable(stats.read, stats.written, read)
    <3>1. PICK c \in 0..MaxFrames : CountersInv(c) /\ StatsInv(c)
      BY DEF SourceInv
    <3>0. PICK a \in 0..c : \E b \in a..c :
            stats.read = Counter(a) /\ stats.truth = Used(stats.written, Counter(b))
      BY <1>2, <3>1 DEF StatsAgain, StatsInv
    <3>2. PICK b \in a..c :
            stats.read = Counter(a) /\ stats.truth = Used(stats.written, Counter(b))
      BY <3>0
    <3>3. stats.read = Counter(c)
      BY <2>1, <3>1 DEF Stable, CountersInv
    <3> DEFINE k == c - a
    <3>4. /\ a \in Nat /\ c \in Nat /\ b \in Nat /\ k \in Nat /\ k < Wrap /\ a + k = c
          /\ a <= b /\ b <= c
      BY Sizes
    <3> HIDE DEF k
    <3>5. k = 0
      BY <3>2, <3>3, <3>4, CounterDistance
    <3>6. b = a
      BY <3>4, <3>5
    <3>7. Used(stats.written, stats.read) = stats.truth
      BY <3>2, <3>6
    <3>8. stats' = [stats EXCEPT !.pc = "done"]
      BY <1>2, <2>1 DEF StatsAgain
    <3>9. stats'.written = stats.written /\ stats'.read = stats.read /\ stats'.truth = stats.truth
      BY <3>8 DEF SourceInv, TypeOK
    <3> QED BY <3>7, <3>9 DEF Reported
  <2>2. CASE ~Stable(stats.read, stats.written, read)
    BY <1>2, <2>2 DEF StatsAgain, NoStats, Reported
  <2> QED BY <2>1, <2>2
<1>3. CASE StatsRead \/ StatsWritten
  <2>1. stats'.pc \in {"written", "again"}
    BY <1>3 DEF StatsRead, StatsWritten, SourceInv, TypeOK
  <2> QED BY <2>1 DEF Reported
<1>4. CASE StatsReturn
  BY <1>4 DEF StatsReturn, NoStats, Reported
<1>5. UNCHANGED stats \/ StatsRead \/ StatsWritten \/ StatsAgain \/ StatsReturn
  BY DEF Next, vars, PushLoad, PushLeft, PushRight, PushPublish, SelectAgain, SelectBackwards,
         SelectCall, SelectLoad, SelectLeft, SelectRight, SelectStore, Pause, Resume, Rearm,
         producerSide
<1> QED BY <1>1, <1>2, <1>3, <1>4, <1>5

\* audio_source.c, ull_audio_source_stats: every frame is accounted for, and the
\* occupancy that is reported was the true one at some moment of the call,
\* provided that the counters do not make a whole turn while it runs.
THEOREM OccupancyIsTrue ==
  ASSUME MaxFrames < Wrap
  PROVE  Spec => []Accounted
<1>1. Init => Reported
  BY DEF Init, NoStats, Reported
<1>2. SourceInv /\ Reported /\ [Next]_vars => Reported'
  BY ReportStep
<1>3. Spec => []Reported
  BY <1>1, <1>2, RingKept, PTL DEF Spec
<1>4. FramesAccounted /\ Reported => Accounted
  BY DEF FramesAccounted, Reported, Accounted
<1> QED BY <1>3, <1>4, FramesAreAccounted, PTL

==============================================================================
