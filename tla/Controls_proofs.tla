--------------------------- MODULE Controls_proofs ---------------------------
(***************************************************************************)
(* Proofs about ControlLog and Controls, for every number of publishers,   *)
(* ring and queue: what is drained is one capture, without gap, and the    *)
(* USB host is told every accepted key once, each with its release.        *)
(***************************************************************************)
EXTENDS Controls, SequenceTheorems, TLAPS

Record == [capture : 1..MaxGen, n : Nat]

\* The first k records of capture c.
Recorded(c, k) == [i \in 1..k |-> [capture |-> c, n |-> i]]

\* Where the console stands among its stores of ull_control_log_enable: only a
\* console at the prompt leaves the log on, and a capture has a generation.
ConsoleInv ==
    /\ enabled => con.at = "idle" /\ capture >= 1
    /\ ~(con.on /\ con.drain)
    /\ con.at = "bump" => generation < MaxGen
    /\ con.at = "set" => capture < generation
    /\ capture \in Nat /\ capture <= generation

\* A record that was built and would pass the second look is one of this capture.
BuiltInv ==
    \A p \in Publishers :
        /\ pub[p].gen <= generation
        /\ pub[p].at = "built" /\ pub[p].gen = generation
              => con.at # "set" /\ pub[p].capture = capture

LogInv ==
    /\ OneCapture /\ ConsoleInv /\ BuiltInv
    /\ total \in Nat /\ printed \in Seq(Record)

-----------------------------------------------------------------------------
\* A record at the end of the ring continues what was drained of it.
LEMMA AppendContinues ==
  ASSUME NEW k \in Nat, NEW c \in 1..MaxGen,
         NEW p \in Seq(Record), NEW r \in Seq(Record),
         p \o r = Recorded(c, k)
  PROVE  p \o Append(r, [capture |-> c, n |-> k + 1]) = Recorded(c, k + 1)
<1> USE DEF Recorded
<1> DEFINE e == [capture |-> c, n |-> k + 1]
           now == p \o Append(r, e)
           all == [i \in 1..(k + 1) |-> [capture |-> c, n |-> i]]
<1>1. e \in Record
  BY DEF Record
<1>2. Append(r, e) \in Seq(Record) /\ Len(Append(r, e)) = Len(r) + 1
  BY <1>1, AppendProperties
<1>3. /\ p \o r \in Seq(Record) /\ Len(p \o r) = Len(p) + Len(r)
      /\ \A i \in 1..(Len(p) + Len(r)) :
            (p \o r)[i] = IF i <= Len(p) THEN p[i] ELSE r[i - Len(p)]
  BY ConcatProperties
<1>4. /\ now \in Seq(Record) /\ Len(now) = Len(p) + Len(r) + 1
      /\ \A i \in 1..(Len(p) + Len(r) + 1) :
            now[i] = IF i <= Len(p) THEN p[i] ELSE Append(r, e)[i - Len(p)]
  BY <1>2, ConcatProperties
<1>5. Len(p) \in Nat /\ Len(r) \in Nat
  BY LenProperties
<1>6. Len(p) + Len(r) = k
  <2>1. DOMAIN (p \o r) = 1..Len(p \o r)
    BY <1>3, LenProperties
  <2>2. DOMAIN (p \o r) = 1..k
    OBVIOUS
  <2> QED BY <2>1, <2>2, <1>3, <1>5
<1>7. \A i \in 1..(k + 1) : now[i] = all[i]
  <2> SUFFICES ASSUME NEW i \in 1..(k + 1) PROVE now[i] = all[i]
    OBVIOUS
  <2>1. CASE i = k + 1
    BY <2>1, <1>4, <1>5, <1>6, <1>1, AppendProperties
  <2>2. CASE i \in 1..k
    <3>1. (p \o r)[i] = [capture |-> c, n |-> i]
      BY <2>2
    <3>2. i > Len(p) => Append(r, e)[i - Len(p)] = r[i - Len(p)]
      BY <2>2, <1>5, <1>6, <1>1, AppendProperties
    <3> QED BY <2>2, <3>1, <3>2, <1>3, <1>4, <1>5, <1>6
  <2> QED BY <2>1, <2>2
<1>8. now \in [1..(k + 1) -> Record]
  BY <1>4, <1>6, LenProperties
<1>9. all \in [1..(k + 1) -> Record]
  BY DEF Record
<1> QED BY <1>7, <1>8, <1>9

\* Moving the head of the ring to what is printed changes nothing in between.
LEMMA DrainContinues ==
  ASSUME NEW S, NEW p \in Seq(S), NEW r \in Seq(S), r # <<>>
  PROVE  Append(p, Head(r)) \o Tail(r) = p \o r
<1>1. Head(r) \in S /\ Tail(r) \in Seq(S)
  BY HeadTailProperties
<1>2. Append(p, Head(r)) = p \o <<Head(r)>>
  BY <1>1, AppendIsConcat
<1>3. <<Head(r)>> \o Tail(r) = r
  <2>1. <<Head(r)>> \in Seq(S)
    BY <1>1
  <2>2. <<Head(r)>> \o Tail(r) \in Seq(S)
    BY <2>1, <1>1, ConcatProperties
  <2>3. /\ Len(Tail(r)) = Len(r) - 1 /\ Len(r) \in Nat \ {0}
        /\ \A i \in 1..Len(Tail(r)) : Tail(r)[i] = r[i + 1]
    BY HeadTailProperties, EmptySeq
  <2>4. Len(<<Head(r)>> \o Tail(r)) = Len(r)
    BY <2>1, <1>1, <2>3, ConcatProperties
  <2>5. ASSUME NEW i \in 1..Len(r) PROVE (<<Head(r)>> \o Tail(r))[i] = r[i]
    <3>1. (<<Head(r)>> \o Tail(r))[i] = IF i <= 1 THEN Head(r) ELSE Tail(r)[i - 1]
      BY <2>1, <1>1, <2>3, ConcatProperties
    <3>2. Head(r) = r[1]
      OBVIOUS
    <3> QED BY <3>1, <3>2, <2>3
  <2> QED BY <2>2, <2>4, <2>5, SeqEqual
<1>4. <<Head(r)>> \in Seq(S)
  BY <1>1
<1> QED BY <1>1, <1>2, <1>3, <1>4, ConcatAssociative

-----------------------------------------------------------------------------
LEMMA Bounds ==
  /\ LogCap \in Nat /\ LogCap > 0 /\ MaxTotal \in Nat /\ MaxTotal > 0
  /\ MaxGen \in Nat /\ MaxGen > 0
  /\ KeyCap \in Nat /\ KeyCap > 0 /\ MaxKeys \in Nat /\ MaxKeys > 0
BY LogAssumption, KeyAssumption

LEMMA LogInvInit ==
  LogInit => LogInv
<1> SUFFICES ASSUME LogInit PROVE LogInv
  OBVIOUS
<1>1. ring = <<>> /\ printed = <<>> /\ printed \o ring = <<>>
  BY DEF LogInit
<1>2. <<>> = [i \in 1..0 |-> [capture |-> capture, n |-> i]]
  OBVIOUS
<1>3. OneCapture
  <2>1. total = 0 /\ printed \o ring = [i \in 1..total |-> [capture |-> capture, n |-> i]]
    BY <1>1, <1>2 DEF LogInit
  <2>2. pub \in [Publishers -> [at : {"idle", "loaded", "built"}, gen : 0..MaxGen, capture : 0..MaxGen]]
    <3>1. 0 \in 0..MaxGen
      BY Bounds
    <3> QED BY <3>1 DEF LogInit, Quiet
  <2>3. con \in [at : {"idle", "bump", "set", "drain"}, on : BOOLEAN, drain : BOOLEAN]
    BY DEF LogInit, AtPrompt
  <2>4. ring \in Seq([capture : 1..MaxGen, n : Nat]) /\ Len(ring) <= LogCap
    BY <1>1, Bounds
  <2>5. enabled \in BOOLEAN /\ generation \in 0..MaxGen
    <3>1. enabled = FALSE /\ generation = 0 /\ 0 \in 0..MaxGen
      BY Bounds DEF LogInit
    <3> QED BY <3>1
  <2> QED BY <2>1, <2>2, <2>3, <2>4, <2>5 DEF OneCapture, LogTypeOK
<1>4. ConsoleInv /\ BuiltInv
  BY DEF LogInit, ConsoleInv, BuiltInv, Quiet, AtPrompt
<1> QED BY <1>1, <1>3, <1>4 DEF LogInv, LogInit

\* control_log.c, publish: the generation is read, then the flag, without the
\* lock; a record is built for the capture that is on at that moment.
LEMMA PublisherLooks ==
  ASSUME LogInv, NEW p \in Publishers, Observe(p) \/ Build(p)
  PROVE  LogInv'
<1>1. /\ UNCHANGED <<flags, ring, total, con, capture, printed>>
      /\ pub' \in [Publishers -> [at : {"idle", "loaded", "built"}, gen : 0..MaxGen, capture : 0..MaxGen]]
  <2>1. generation \in 0..MaxGen /\ 0 \in 0..MaxGen
    BY Bounds DEF LogInv, OneCapture, LogTypeOK
  <2>2. enabled => capture \in 0..MaxGen
    BY <2>1, Bounds DEF LogInv, ConsoleInv
  <2>3. CASE Observe(p)
    BY <2>1, <2>3 DEF LogInv, OneCapture, LogTypeOK, Observe, flags
  <2>4. CASE Build(p)
    BY <2>1, <2>2, <2>4 DEF LogInv, OneCapture, LogTypeOK, Build, Quiet, flags
  <2> QED BY <2>3, <2>4
<1>2. OneCapture'
  BY <1>1 DEF LogInv, OneCapture, LogTypeOK, flags
<1>3. ConsoleInv'
  BY <1>1 DEF LogInv, ConsoleInv, flags
<1>4. BuiltInv'
  <2> SUFFICES ASSUME NEW q \in Publishers
               PROVE  /\ pub'[q].gen <= generation
                      /\ pub'[q].at = "built" /\ pub'[q].gen = generation
                            => con.at # "set" /\ pub'[q].capture = capture
    BY <1>1 DEF BuiltInv, flags
  <2>1. q # p => pub'[q] = pub[q]
    BY DEF Observe, Build, LogInv, OneCapture, LogTypeOK
  <2>2. CASE Observe(p)
    BY <2>1, <2>2, Bounds DEF Observe, LogInv, OneCapture, LogTypeOK, BuiltInv
  <2>3. CASE Build(p) /\ enabled
    <3>1. pub'[p] = [at |-> "built", gen |-> pub[p].gen, capture |-> capture]
      BY <2>3 DEF Build, LogInv, OneCapture, LogTypeOK
    <3>2. con.at = "idle"
      BY <2>3 DEF LogInv, ConsoleInv
    <3> QED BY <2>1, <3>1, <3>2 DEF LogInv, OneCapture, LogTypeOK, BuiltInv
  <2>4. CASE Build(p) /\ ~enabled
    <3>1. pub'[p] = Quiet
      BY <2>4 DEF Build, LogInv, OneCapture, LogTypeOK
    <3> QED BY <2>1, <3>1 DEF Quiet, LogInv, OneCapture, LogTypeOK, BuiltInv
  <2> QED BY <2>2, <2>3, <2>4
<1> QED BY <1>1, <1>2, <1>3, <1>4 DEF LogInv, flags

\* control_log.c, publish under the lock: the second look lets only a record of
\* the capture that is on into the ring.
LEMMA PublisherStores ==
  ASSUME LogInv, NEW p \in Publishers, Publish(p)
  PROVE  LogInv'
<1> DEFINE r == [capture |-> capture, n |-> total + 1]
<1>1. /\ UNCHANGED <<flags, con, capture, printed>>
      /\ pub' = [pub EXCEPT ![p] = Quiet]
      /\ pub' \in [Publishers -> [at : {"idle", "loaded", "built"}, gen : 0..MaxGen, capture : 0..MaxGen]]
  BY Bounds DEF LogInv, OneCapture, LogTypeOK, Publish, Quiet, flags
<1>2. ConsoleInv'
  BY <1>1 DEF LogInv, ConsoleInv, flags
<1>3. BuiltInv'
  BY <1>1 DEF LogInv, BuiltInv, Quiet, flags, OneCapture, LogTypeOK
<1>4. CASE UNCHANGED <<ring, total>>
  <2>1. OneCapture'
    BY <1>1, <1>4 DEF LogInv, OneCapture, LogTypeOK, flags
  <2> QED BY <1>1, <1>2, <1>3, <1>4, <2>1 DEF LogInv
<1>5. CASE SameCapture(p) /\ Len(ring) < LogCap /\ total' = total + 1
           /\ ring' = Append(ring, [capture |-> pub[p].capture, n |-> total + 1])
  <2>1. pub[p].capture = capture
    BY <1>5 DEF Publish, SameCapture, LogInv, BuiltInv
  <2>2. ring' = Append(ring, r)
    BY <1>5, <2>1
  <2>3. capture \in 1..MaxGen /\ ring \in Seq(Record) /\ total \in Nat /\ printed \in Seq(Record)
    <3>1. capture \in 1..MaxGen
      <4>1. enabled /\ capture >= 1 /\ capture \in Nat /\ capture <= generation
        BY <1>5 DEF SameCapture, LogInv, ConsoleInv
      <4>2. generation \in 0..MaxGen
        BY DEF LogInv, OneCapture, LogTypeOK
      <4> QED BY <4>1, <4>2, Bounds
    <3> QED BY <3>1 DEF LogInv, OneCapture, LogTypeOK, Record
  <2>4. printed \o ring = Recorded(capture, total)
    BY DEF LogInv, OneCapture, Recorded
  <2>5. printed \o ring' = Recorded(capture, total + 1)
    BY <2>2, <2>3, <2>4, AppendContinues
  <2>6. r \in Record
    BY <2>3 DEF Record
  <2>7. ring' \in Seq(Record) /\ Len(ring') <= LogCap
    BY <1>5, <2>2, <2>3, <2>6, AppendProperties, LenProperties, Bounds
  <2>8. OneCapture'
    BY <1>1, <1>5, <2>5, <2>7 DEF LogInv, OneCapture, LogTypeOK, flags, Record, Recorded
  <2> QED BY <1>1, <1>2, <1>3, <1>5, <2>3, <2>8 DEF LogInv
<1> QED BY <1>4, <1>5 DEF Publish

\* ull_control_log_enable: the log is off between the stores; a capture begins
\* with an empty ring, and no record built for an earlier one can be stored.
LEMMA ConsoleSteps ==
  ASSUME LogInv, Command \/ Bump \/ SetEnabled
  PROVE  LogInv'
<1> USE Bounds
<1>1. CASE Command
  <2>1. OneCapture'
    BY <1>1 DEF Command, LogInv, OneCapture, LogTypeOK
  <2>2. ConsoleInv' /\ BuiltInv'
    BY <1>1 DEF Command, LogInv, ConsoleInv, BuiltInv
  <2> QED BY <1>1, <2>1, <2>2 DEF LogInv, Command
<1>2. CASE Bump
  <2>1. generation' = generation + 1 /\ generation' \in 0..MaxGen
    BY <1>2 DEF Bump, LogInv, ConsoleInv, OneCapture, LogTypeOK
  <2>2. OneCapture'
    BY <1>2, <2>1 DEF Bump, LogInv, OneCapture, LogTypeOK
  <2>3. ConsoleInv'
    BY SMTT(30), <1>2, <2>1 DEF Bump, LogInv, ConsoleInv, OneCapture, LogTypeOK
  <2>4. BuiltInv'
    BY <1>2, <2>1 DEF Bump, LogInv, BuiltInv, OneCapture, LogTypeOK
  <2> QED BY <1>2, <2>2, <2>3, <2>4 DEF LogInv, Bump
<1>3. CASE SetEnabled
  <2>1. con' \in [at : {"idle", "bump", "set", "drain"}, on : BOOLEAN, drain : BOOLEAN]
    BY <1>3 DEF SetEnabled, AtPrompt, LogInv, OneCapture, LogTypeOK
  <2>2. ConsoleInv'
    BY <1>3 DEF SetEnabled, LogInv, ConsoleInv, OneCapture, LogTypeOK, AtPrompt
  <2>3. BuiltInv'
    <3>1. UNCHANGED <<generation, pub>> /\ con.at = "set"
      BY <1>3 DEF SetEnabled
    <3>2. \A p \in Publishers : pub[p].gen <= generation /\ ~(pub[p].at = "built" /\ pub[p].gen = generation)
      BY <3>1 DEF LogInv, BuiltInv
    <3> QED BY <3>1, <3>2 DEF BuiltInv
  <2>4. CASE con.on
    <3>1. /\ ring' = <<>> /\ printed' = <<>> /\ total' = 0
          /\ capture' = capture + 1 /\ enabled' = TRUE /\ UNCHANGED <<generation, pub>>
      BY <1>3, <2>4 DEF SetEnabled
    <3>2. printed' \o ring' = [i \in 1..total' |-> [capture |-> capture', n |-> i]]
      BY <3>1
    <3>3. OneCapture'
      BY <2>1, <3>1, <3>2 DEF LogInv, OneCapture, LogTypeOK
    <3> QED BY <2>2, <2>3, <3>1, <3>3 DEF LogInv
  <2>5. CASE ~con.on
    <3>1. UNCHANGED <<ring, printed, total, capture, generation, pub>> /\ enabled' \in BOOLEAN
      BY <1>3, <2>5 DEF SetEnabled, LogInv, OneCapture, LogTypeOK
    <3>2. OneCapture'
      BY <2>1, <3>1 DEF LogInv, OneCapture, LogTypeOK
    <3> QED BY <2>2, <2>3, <3>1, <3>2 DEF LogInv
  <2> QED BY <2>4, <2>5
<1> QED BY <1>1, <1>2, <1>3

\* The drain takes one record at a time out of the frozen ring.
LEMMA DrainSteps ==
  ASSUME LogInv, Drain
  PROVE  LogInv'
<1>1. UNCHANGED <<flags, total, pub, capture>> /\ con.at = "drain"
  BY DEF Drain
<1>2. ring \in Seq(Record) /\ printed \in Seq(Record)
  BY DEF LogInv, OneCapture, LogTypeOK, Record
<1>3. CASE ring = <<>>
  <2>1. con' = AtPrompt /\ UNCHANGED <<ring, printed>>
    BY <1>3 DEF Drain
  <2>2. OneCapture'
    BY <1>1, <2>1 DEF LogInv, OneCapture, LogTypeOK, AtPrompt, flags
  <2>3. ConsoleInv' /\ BuiltInv'
    BY <1>1, <2>1 DEF LogInv, ConsoleInv, BuiltInv, AtPrompt, flags
  <2> QED BY <1>1, <2>1, <2>2, <2>3 DEF LogInv
<1>4. CASE ring # <<>>
  <2>1. ring' = Tail(ring) /\ printed' = Append(printed, Head(ring)) /\ UNCHANGED con
    BY <1>4 DEF Drain
  <2>2. printed' \o ring' = printed \o ring
    BY <1>2, <1>4, <2>1, DrainContinues
  <2>3. Head(ring) \in Record /\ ring' \in Seq(Record) /\ Len(ring') = Len(ring) - 1 /\ Len(ring) \in Nat
    BY <1>2, <1>4, <2>1, HeadTailProperties, LenProperties
  <2>4. printed' \in Seq(Record)
    BY <1>2, <2>1, <2>3, AppendProperties
  <2>5. OneCapture'
    BY <1>1, <2>1, <2>2, <2>3, Bounds DEF LogInv, OneCapture, LogTypeOK, flags, Record
  <2>6. ConsoleInv' /\ BuiltInv'
    BY <1>1, <2>1 DEF LogInv, ConsoleInv, BuiltInv, flags
  <2> QED BY <1>1, <2>4, <2>5, <2>6 DEF LogInv
<1> QED BY <1>3, <1>4

LEMMA LogIdle ==
  ASSUME LogInv, UNCHANGED logVars
  PROVE  LogInv'
BY DEF LogInv, OneCapture, LogTypeOK, ConsoleInv, BuiltInv, logVars, flags

\* control_log.c: what is drained, with what is still to be, is what one capture
\* recorded, whatever the publishers saw of the flags and when.
THEOREM OneCaptureDrained == Spec => []OneCapture
<1>1. Init => LogInv
  BY LogInvInit DEF Init
<1>2. LogInv /\ [Next]_vars => LogInv'
  <2> SUFFICES ASSUME LogInv, [Next]_vars PROVE LogInv'
    OBVIOUS
  <2>1. CASE ControlArrives \/ AclArrives
    BY <2>1, PublisherLooks, PublisherAssumption DEF ControlArrives, AclArrives
  <2>2. CASE Publication
    BY <2>2, PublisherLooks, PublisherStores DEF Publication
  <2>3. CASE Prompt
    BY <2>3, ConsoleSteps, DrainSteps DEF Prompt, Console
  <2>4. CASE QueueKey \/ Usb \/ ReleaseDue
    BY <2>4, LogIdle DEF QueueKey, Usb, BusDone, KeepKeys, Service, ReleaseDue
  <2>5. CASE Configure \/ Unmount \/ Suspend \/ WakeUp \/ Fetch
    BY <2>5, LogIdle DEF Configure, Unmount, Suspend, WakeUp, Fetch, KeepKeys
  <2>6. CASE UNCHANGED vars
    BY <2>6, LogIdle DEF vars
  <2> QED BY <2>1, <2>2, <2>3, <2>4, <2>5, <2>6 DEF Next
<1>3. LogInv => OneCapture
  BY DEF LogInv
<1> QED BY <1>1, <1>2, <1>3, PTL DEF Spec

-----------------------------------------------------------------------------
\* A control is taken up only while another key can be counted.
KeyInv ==
    /\ KeysReported
    /\ key => accepted < MaxKeys
    /\ reports \in Seq(0..MaxKeys)

\* How many keys were given to the endpoint.
Told(n) == (n + 1) \div 2

\* Two reports a key: the press and its release.
LEMMA ToldSteps ==
  ASSUME NEW n \in Nat
  PROVE  /\ Told(n) \in Nat
         /\ n % 2 = 1 => (n + 1) % 2 # 1 /\ Told(n + 1) = Told(n)
         /\ n % 2 # 1 => (n + 1) % 2 = 1 /\ Told(n + 1) = Told(n) + 1
BY DEF Told

\* What KeysReported says of the queue and the reports.
Reported(s) == \A i \in DOMAIN s : s[i] = IF i % 2 = 1 THEN Told(i) ELSE 0
Waiting(q, n) == q = [i \in 1..Len(q) |-> n + i]

LEMMA KeyParts ==
  KeysReported <=> /\ TypeOK /\ Reported(reports) /\ release = (Len(reports) % 2 = 1)
                   /\ Waiting(pending, Told(Len(reports)))
                   /\ accepted = Told(Len(reports)) + Len(pending)
BY DEF KeysReported, Reported, Waiting, Told

\* One more report: the press of the next key or the release of the last.
LEMMA ReportAppended ==
  ASSUME NEW s \in Seq(0..MaxKeys), NEW u \in 0..MaxKeys, Reported(s),
         u = IF (Len(s) + 1) % 2 = 1 THEN Told(Len(s) + 1) ELSE 0
  PROVE  /\ Append(s, u) \in Seq(0..MaxKeys) /\ Len(Append(s, u)) = Len(s) + 1
         /\ Reported(Append(s, u))
<1>1. /\ Append(s, u) \in Seq(0..MaxKeys) /\ Len(Append(s, u)) = Len(s) + 1
      /\ \A i \in 1..Len(s) : Append(s, u)[i] = s[i]
      /\ Append(s, u)[Len(s) + 1] = u
  BY AppendProperties
<1>2. Len(s) \in Nat /\ DOMAIN s = 1..Len(s) /\ DOMAIN Append(s, u) = 1..(Len(s) + 1)
  BY <1>1, LenProperties
<1>3. ASSUME NEW i \in 1..(Len(s) + 1)
      PROVE  Append(s, u)[i] = IF i % 2 = 1 THEN Told(i) ELSE 0
  <2>1. CASE i = Len(s) + 1
    BY <2>1, <1>1
  <2>2. CASE i \in 1..Len(s)
    BY <2>2, <1>1, <1>2 DEF Reported
  <2> QED BY <1>2, <2>1, <2>2
<1> QED BY <1>1, <1>2, <1>3 DEF Reported

\* Keys leave the queue at its head and join it at its end, by number.
LEMMA HeadWaits ==
  ASSUME NEW q \in Seq(1..MaxKeys), NEW n \in Nat, Waiting(q, n), q # <<>>
  PROVE  /\ Head(q) = n + 1 /\ Head(q) \in 1..MaxKeys
         /\ Tail(q) \in Seq(1..MaxKeys) /\ Len(Tail(q)) = Len(q) - 1
         /\ Len(q) \in Nat \ {0} /\ Waiting(Tail(q), n + 1)
<1>1. /\ Head(q) \in 1..MaxKeys /\ Tail(q) \in Seq(1..MaxKeys)
      /\ Len(Tail(q)) = Len(q) - 1
      /\ \A i \in 1..Len(Tail(q)) : Tail(q)[i] = q[i + 1]
  BY HeadTailProperties
<1>2. Len(q) \in Nat \ {0}
  BY EmptySeq
<1>3. \A i \in 1..Len(q) : q[i] = n + i
  BY DEF Waiting
<1>4. Head(q) = q[1]
  OBVIOUS
<1>5. Tail(q) \in [1..(Len(q) - 1) -> 1..MaxKeys]
  BY <1>1, LenProperties
<1>6. \A i \in 1..(Len(q) - 1) : Tail(q)[i] = (n + 1) + i
  BY <1>1, <1>2, <1>3
<1>7. Tail(q) = [i \in 1..(Len(q) - 1) |-> (n + 1) + i]
  BY <1>5, <1>6
<1>8. Head(q) = n + 1
  BY <1>2, <1>3, <1>4
<1> QED BY <1>1, <1>2, <1>7, <1>8 DEF Waiting

LEMMA KeyJoins ==
  ASSUME NEW q \in Seq(1..MaxKeys), NEW n \in Nat, Waiting(q, n), n + Len(q) < MaxKeys
  PROVE  /\ Append(q, n + Len(q) + 1) \in Seq(1..MaxKeys)
         /\ Len(Append(q, n + Len(q) + 1)) = Len(q) + 1 /\ Len(q) \in Nat
         /\ Waiting(Append(q, n + Len(q) + 1), n)
<1> DEFINE e == n + Len(q) + 1
<1>1. Len(q) \in Nat /\ e \in 1..MaxKeys
  BY LenProperties, Bounds
<1>2. /\ Append(q, e) \in Seq(1..MaxKeys) /\ Len(Append(q, e)) = Len(q) + 1
      /\ \A i \in 1..Len(q) : Append(q, e)[i] = q[i]
      /\ Append(q, e)[Len(q) + 1] = e
  BY <1>1, AppendProperties
<1>3. \A i \in 1..Len(q) : q[i] = n + i
  BY DEF Waiting
<1>4. Append(q, e) \in [1..(Len(q) + 1) -> 1..MaxKeys]
  BY <1>2, LenProperties
<1>5. \A i \in 1..(Len(q) + 1) : Append(q, e)[i] = n + i
  BY <1>1, <1>2, <1>3
<1>6. Append(q, e) = [i \in 1..(Len(q) + 1) |-> n + i]
  BY <1>4, <1>5
<1> QED BY <1>1, <1>2, <1>6 DEF Waiting

-----------------------------------------------------------------------------
\* What an action that gives the endpoint nothing leaves alone.
KeyRest == UNCHANGED <<pending, accepted, release, reports, refusals>>

LEMMA RestKeepsKeys ==
  ASSUME KeyInv, KeyRest, key' => accepted < MaxKeys,
         key' \in BOOLEAN, due' \in BOOLEAN, configured' \in BOOLEAN, asleep' \in BOOLEAN,
         turn' \in {"bus", "keys"}, report' \in 0..None, pressed' \in 0..MaxKeys
  PROVE  KeyInv'
<1>1. TypeOK /\ TypeOK'
  BY DEF KeyInv, KeysReported, KeyRest, TypeOK
<1> QED BY <1>1 DEF KeyInv, KeysReported, KeyRest

LEMMA KeyInvInit ==
  Init => KeyInv
<1> SUFFICES ASSUME Init PROVE KeyInv
  OBVIOUS
<1>1. pending = <<>> /\ reports = <<>> /\ accepted = 0 /\ release = FALSE /\ key = FALSE
  BY DEF Init
<1>2. TypeOK
  <2>1. 0 \in 0..MaxKeys /\ 0 \in 0..MaxRefusals /\ None \in 0..None /\ 0 <= KeyCap
    BY Bounds, KeyAssumption DEF None
  <2>2. /\ key = FALSE /\ release = FALSE /\ due = FALSE /\ configured = FALSE /\ asleep = FALSE
        /\ turn = "bus" /\ report = None /\ pressed = 0 /\ refusals = 0
    BY DEF Init
  <2>3. pending \in Seq(1..MaxKeys) /\ Len(pending) <= KeyCap
    BY <1>1, <2>1
  <2> QED BY <1>1, <2>1, <2>2, <2>3 DEF TypeOK
<1>3. Reported(reports) /\ Len(reports) = 0 /\ Len(pending) = 0
  BY <1>1 DEF Reported
<1>4. Told(0) = 0 /\ 0 % 2 # 1
  BY DEF Told
<1>5. Waiting(pending, 0)
  BY <1>1 DEF Waiting
<1>6. KeysReported
  <2>1. release = (Len(reports) % 2 = 1)
    BY <1>1, <1>3, <1>4
  <2>2. Waiting(pending, Told(Len(reports))) /\ accepted = Told(Len(reports)) + Len(pending)
    BY <1>1, <1>3, <1>4, <1>5
  <2> QED BY <1>2, <1>3, <2>1, <2>2, KeyParts
<1> QED BY <1>1, <1>6, Bounds DEF KeyInv

\* ull_usb_audio_consumer_key: the next number at the end of the queue, or nothing.
LEMMA QueueKeySteps ==
  ASSUME KeyInv, QueueKey
  PROVE  KeyInv'
<1>1. CASE UNCHANGED keys
  BY <1>1, RestKeepsKeys DEF QueueKey, KeyRest, KeyInv, KeysReported, TypeOK, usb, keys
<1>2. CASE Accepted /\ pending' = Append(pending, accepted + 1) /\ accepted' = accepted + 1
  <2>1. /\ TypeOK /\ Waiting(pending, Told(Len(reports))) /\ accepted = Told(Len(reports)) + Len(pending)
        /\ Reported(reports) /\ release = (Len(reports) % 2 = 1)
        /\ reports \in Seq(0..MaxKeys) /\ accepted < MaxKeys
    BY KeyParts DEF KeyInv, QueueKey
  <2>2. UNCHANGED <<reports, release>> /\ key' = FALSE /\ UNCHANGED usb
    BY DEF QueueKey, usb
  <2>3. Told(Len(reports)) \in Nat /\ pending \in Seq(1..MaxKeys)
    BY <2>1, LenProperties, ToldSteps DEF TypeOK
  <2>4. /\ pending' \in Seq(1..MaxKeys) /\ Len(pending') = Len(pending) + 1 /\ Len(pending) \in Nat
        /\ Waiting(pending', Told(Len(reports)))
    BY <1>2, <2>1, <2>3, KeyJoins
  <2>5. accepted' \in 0..MaxKeys /\ accepted' = Told(Len(reports)) + Len(pending')
    <3>1. accepted \in 0..MaxKeys
      BY <2>1 DEF TypeOK
    <3>2. accepted' = accepted + 1 /\ accepted' \in 0..MaxKeys
      BY <1>2, <2>1, <3>1, Bounds
    <3>3. Len(pending') = Len(pending) + 1 /\ Len(pending) \in Nat
      BY <2>4
    <3>4. accepted = Told(Len(reports)) + Len(pending)
      BY <2>1
    <3> QED BY <2>3, <3>2, <3>3, <3>4
  <2>6. Len(pending') <= KeyCap
    BY <1>2, <2>4, Bounds DEF Accepted
  <2>7. TypeOK'
    BY <2>1, <2>2, <2>4, <2>5, <2>6 DEF TypeOK, usb
  <2>8. KeysReported'
    BY <2>1, <2>2, <2>4, <2>5, <2>7 DEF KeysReported, Reported, Waiting, Told
  <2> QED BY <2>1, <2>2, <2>8 DEF KeyInv
<1> QED BY <1>1, <1>2 DEF QueueKey

\* ull_usb_controls_service: the release of the key before comes first; what the
\* endpoint refuses is tried again.
LEMMA ServiceSteps ==
  ASSUME KeyInv, Service
  PROVE  KeyInv'
<1>1. /\ TypeOK /\ Waiting(pending, Told(Len(reports))) /\ accepted = Told(Len(reports)) + Len(pending)
      /\ Reported(reports) /\ release = (Len(reports) % 2 = 1)
      /\ reports \in Seq(0..MaxKeys) /\ pending \in Seq(1..MaxKeys)
      /\ key => accepted < MaxKeys
  BY KeyParts DEF KeyInv, TypeOK
<1>2. Len(reports) \in Nat /\ Told(Len(reports)) \in Nat
  BY <1>1, LenProperties, ToldSteps
<1>3. turn' = "bus" /\ UNCHANGED <<key, accepted, configured, asleep, pressed>>
  BY DEF Service
<1>4. CASE UNCHANGED <<pending, release, due, report, reports, refusals>>
  BY <1>1, <1>3, <1>4, RestKeepsKeys DEF KeyRest, TypeOK
<1>5. CASE Refuse /\ UNCHANGED <<pending, release, due>>
  <2>1. refusals' \in 0..MaxRefusals /\ UNCHANGED <<report, reports>>
    BY <1>1, <1>5, KeyAssumption DEF Refuse, TypeOK
  <2>2. TypeOK'
    BY <1>1, <1>3, <1>5, <2>1 DEF TypeOK
  <2>3. KeysReported'
    BY <1>3, <1>5, <2>1, <2>2 DEF KeyInv, KeysReported
  <2> QED BY <1>1, <1>3, <2>1, <2>3 DEF KeyInv
<1>6. CASE release /\ Send(0) /\ release' = FALSE /\ UNCHANGED <<pending, due>>
  <2>1. reports' = Append(reports, 0) /\ report' = 0 /\ UNCHANGED refusals
    BY <1>6 DEF Send
  <2>2. Len(reports) % 2 = 1 /\ (Len(reports) + 1) % 2 # 1 /\ Told(Len(reports) + 1) = Told(Len(reports))
    BY <1>1, <1>2, <1>6, ToldSteps
  <2>3. 0 \in 0..MaxKeys /\ 0 \in 0..None
    BY Bounds DEF None
  <2>4. reports' \in Seq(0..MaxKeys) /\ Len(reports') = Len(reports) + 1 /\ Reported(reports')
    BY <1>1, <2>1, <2>2, <2>3, ReportAppended
  <2>5. TypeOK'
    BY <1>1, <1>3, <1>6, <2>1, <2>3 DEF TypeOK
  <2>6. KeysReported'
    BY <1>1, <1>3, <1>6, <2>2, <2>4, <2>5 DEF KeysReported, Reported, Waiting, Told
  <2> QED BY <1>1, <1>3, <2>4, <2>6 DEF KeyInv
<1>7. CASE /\ ~release /\ pending # <<>> /\ Send(Head(pending)) /\ pending' = Tail(pending)
           /\ release' = TRUE /\ due' = FALSE
  <2>1. reports' = Append(reports, Head(pending)) /\ report' = Head(pending) /\ UNCHANGED refusals
    BY <1>7 DEF Send
  <2>2. /\ (Len(reports) + 1) % 2 = 1 /\ Told(Len(reports) + 1) = Told(Len(reports)) + 1
    BY <1>1, <1>2, <1>7, ToldSteps
  <2>3. /\ Head(pending) = Told(Len(reports)) + 1 /\ Head(pending) \in 1..MaxKeys
        /\ pending' \in Seq(1..MaxKeys) /\ Len(pending') = Len(pending) - 1
        /\ Len(pending) \in Nat \ {0} /\ Waiting(pending', Told(Len(reports)) + 1)
    BY <1>1, <1>2, <1>7, HeadWaits
  <2>4. Head(pending) \in 0..MaxKeys /\ Head(pending) \in 0..None
    BY <2>3, Bounds DEF None
  <2>5. reports' \in Seq(0..MaxKeys) /\ Len(reports') = Len(reports) + 1 /\ Reported(reports')
    BY <1>1, <2>1, <2>2, <2>3, <2>4, ReportAppended
  <2>6. Len(pending') <= KeyCap
    BY <1>1, <2>3, Bounds DEF TypeOK
  <2>7. TypeOK'
    BY <1>1, <1>3, <1>7, <2>1, <2>3, <2>4, <2>6 DEF TypeOK
  <2>8. accepted' = Told(Len(reports')) + Len(pending')
    BY <1>1, <1>2, <1>3, <2>2, <2>3, <2>5
  <2>9. KeysReported'
    BY <1>7, <2>2, <2>3, <2>5, <2>7, <2>8 DEF KeysReported, Reported, Waiting, Told
  <2> QED BY <1>1, <1>3, <2>5, <2>9 DEF KeyInv
<1>8. CASE HidReady /\ release /\ due
  BY <1>5, <1>6, <1>8 DEF Service, Release
<1>9. CASE HidReady /\ ~release /\ pending # <<>>
  BY <1>5, <1>7, <1>9 DEF Service, Press
<1> QED BY <1>4, <1>8, <1>9 DEF Service

\* The bus: nothing is taken from the endpoint but what it was given.
LEMMA BusSteps ==
  ASSUME KeyInv, Configure \/ Unmount \/ Suspend \/ WakeUp \/ Fetch \/ BusDone \/ ReleaseDue
  PROVE  KeyInv'
<1>1. KeyRest /\ key' = key /\ (key' => accepted < MaxKeys) /\ key' \in BOOLEAN
  <2>1. KeyRest
    BY DEF Configure, Unmount, Suspend, WakeUp, Fetch, BusDone, ReleaseDue, KeepKeys, keys, KeyRest
  <2>2. key' = key
    BY DEF Configure, Unmount, Suspend, WakeUp, Fetch, BusDone, ReleaseDue, KeepKeys
  <2>3. (key => accepted < MaxKeys) /\ key \in BOOLEAN
    BY DEF KeyInv, KeysReported, TypeOK
  <2> QED BY <2>1, <2>2, <2>3
<1>2. due' \in BOOLEAN /\ configured' \in BOOLEAN /\ asleep' \in BOOLEAN /\ turn' \in {"bus", "keys"}
  BY DEF Configure, Unmount, Suspend, WakeUp, Fetch, BusDone, ReleaseDue, KeepKeys, Bus,
         KeyInv, KeysReported, TypeOK
<1>3. report' \in 0..None /\ pressed' \in 0..MaxKeys
  <2>1. report \in 0..None /\ pressed \in 0..MaxKeys /\ 0 \in 0..MaxKeys /\ None \in 0..None
    BY Bounds DEF KeyInv, KeysReported, TypeOK, None
  <2>2. report # None => report \in 0..MaxKeys
    BY <2>1, Bounds DEF None
  <2> QED BY <2>1, <2>2 DEF Configure, Unmount, Suspend, WakeUp, Fetch, BusDone, ReleaseDue
<1> QED BY <1>1, <1>2, <1>3, RestKeepsKeys

\* usb_controls.c: every accepted key is reported once and in order, with its
\* release before the next, whatever the bus did and the endpoint refused.
THEOREM KeysAreReported == Spec => []KeysReported
<1>1. Init => KeyInv
  BY KeyInvInit
<1>2. KeyInv /\ [Next]_vars => KeyInv'
  <2> SUFFICES ASSUME KeyInv, [Next]_vars PROVE KeyInv'
    OBVIOUS
  <2>1. CASE ControlArrives
    BY <2>1, RestKeepsKeys DEF ControlArrives, keys, usb, KeyRest, KeyInv, KeysReported, TypeOK
  <2>2. CASE AclArrives \/ Publication \/ Prompt \/ UNCHANGED vars
    BY <2>2, RestKeepsKeys
    DEF AclArrives, Publication, Prompt, vars, keys, usb, KeyRest, KeyInv, KeysReported, TypeOK
  <2>3. CASE QueueKey
    BY <2>3, QueueKeySteps
  <2>4. CASE Configure \/ Unmount \/ Suspend \/ WakeUp \/ Fetch \/ BusDone \/ ReleaseDue
    BY <2>4, BusSteps
  <2>5. CASE Service
    BY <2>5, ServiceSteps
  <2> QED BY <2>1, <2>2, <2>3, <2>4, <2>5 DEF Next, Usb
<1>3. KeyInv => KeysReported
  BY DEF KeyInv
<1> QED BY <1>1, <1>2, <1>3, PTL DEF Spec
=============================================================================
