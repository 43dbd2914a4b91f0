-------------------------- MODULE ParentLink_proofs --------------------------
(***************************************************************************)
(* Proofs about ParentLink, for every number of PDUs and either number of  *)
(* reply windows: LinkInv is inductive, so every control is applied at     *)
(* most once, in order and not lost, and every step of the link is a step  *)
(* of ControlDelivery.                                                     *)
(***************************************************************************)
EXTENDS ParentLink, TLAPS

RxType == [ack : Acks, last : 0..MaxMsg, keys : Seq(1..MaxMsg), lead : Int]

-------------------------------------------------------------------------------
\* parent_ack.c: what one call of ull_parent_ack_receive returns.  It consumes
\* nothing without moving the expected bit or seeding the automaton.
LEMMA ReceiveType ==
  ASSUME NEW s \in Acks, NEW r \in Replies, NEW sent \in Headers
  PROVE  /\ Receive(s, r, sent).ack \in Acks
         /\ Receive(s, r, sent).took \in {"none", "control", "empty"}
         /\ s.active => Receive(s, r, sent).ack.active
BY DEF Receive, ReceiveActive, Rejected, Seed, MaySeed, AckedTx, Acknowledges,
       IsDuplicate, IsRefused, IsStale, Acks, Bit, Flip, Replies, Kinds, Headers

\* A header the automaton has moved past is not answered: an active automaton
\* ignores every PDU that arrives with it.
LEMMA StaleIgnored ==
  ASSUME NEW s \in Acks, NEW r \in Replies, NEW sent \in Headers,
         s.active, sent # Header(s)
  PROVE  Receive(s, r, sent) = Rejected(s)
BY DEF Receive, ReceiveActive, Rejected, IsStale

\* An answer that changes anything spends the header it was given for, so a
\* second answer of the same event changes nothing more.
LEMMA ReceiveSpends ==
  ASSUME NEW s \in Acks, NEW r \in Replies, NEW sent \in Headers,
         s.active => sent \in {NoParent, Header(s)},
         ~s.active => sent \in {NoParent, Poll}
  PROVE  \/ /\ Receive(s, r, sent).ack = s
            /\ Receive(s, r, sent).took = "none"
         \/ /\ Receive(s, r, sent).ack.active
            /\ sent # Header(Receive(s, r, sent).ack)
BY DEF Receive, ReceiveActive, Rejected, Seed, MaySeed, AckedTx, Acknowledges,
       IsDuplicate, IsRefused, IsStale, Header, NoParent, Poll,
       Acks, Bit, Flip, Replies, Kinds, Headers
-------------------------------------------------------------------------------
\* Typing of one call: whatever answer is handled (ull_raw_receive_air_control on
\* a detached link), the automaton, the staged header and the history stay typed.
LEMMA HandleType ==
  ASSUME NEW st \in RxType, NEW r \in Replies, NEW sent \in Headers
  PROVE  Handle(st, r, sent) \in RxType
<1> DEFINE out == Receive(st.ack, r, sent)
<1>1. /\ st.ack \in Acks /\ st.last \in 0..MaxMsg
      /\ st.keys \in Seq(1..MaxMsg) /\ st.lead \in Int
  BY DEF RxType
<1>2. r.msg \in 1..MaxMsg
  BY DEF Replies
<1>3. out.ack \in Acks
  BY <1>1, ReceiveType
<1>4. Append(st.keys, r.msg) \in Seq(1..MaxMsg)
  BY <1>1, <1>2
<1> HIDE DEF out
<1>5. (IF out.took # "none" THEN r.msg ELSE st.last) \in 0..MaxMsg
  BY <1>1, <1>2, MaxMsgAssumption
<1>6. (IF ~st.ack.active THEN 0
       ELSE IF out.ack.tx_sn # st.ack.tx_sn THEN st.lead - 1 ELSE st.lead) \in Int
  BY <1>1
<1>7. (IF out.took = "control" THEN Append(st.keys, r.msg) ELSE st.keys)
        \in Seq(1..MaxMsg)
  BY <1>1, <1>4
<1>8. Handle(st, r, sent) =
        [ack  |-> out.ack,
         last |-> IF out.took # "none" THEN r.msg ELSE st.last,
         keys |-> IF out.took = "control" THEN Append(st.keys, r.msg) ELSE st.keys,
         lead |-> IF ~st.ack.active THEN 0
                  ELSE IF out.ack.tx_sn # st.ack.tx_sn THEN st.lead - 1
                  ELSE st.lead]
  BY DEF Handle, out
<1> QED
  BY <1>3, <1>5, <1>6, <1>7, <1>8 DEF RxType

\* When the automaton and its header are unmoved, so is the whole history.
LEMMA HandleUnmoved ==
  ASSUME NEW st \in RxType, NEW r \in Replies, NEW sent \in Headers,
         Receive(st.ack, r, sent).ack = st.ack,
         Receive(st.ack, r, sent).took = "none",
         ~st.ack.active => st.lead = 0
  PROVE  Handle(st, r, sent) = st
BY DEF Handle, RxType

\* Of the answers collected with one frame, at most one has an effect
\* (ull_raw_receive_air_control called in a loop by ull_tone_trial_step).
LEMMA OneEffect ==
  ASSUME NEW st \in RxType, NEW sent \in Headers,
         NEW rs \in Seq(Replies), Len(rs) <= 2,
         st.ack.active => sent \in {NoParent, Header(st.ack)},
         ~st.ack.active => sent \in {NoParent, Poll},
         ~st.ack.active => st.lead = 0
  PROVE  \/ HandleAll(st, rs, sent) = st
         \/ \E i \in DOMAIN rs : HandleAll(st, rs, sent) = Handle(st, rs[i], sent)
<1>1. st.ack \in Acks
  BY DEF RxType
<1>2. CASE Len(rs) = 0
  BY <1>2 DEF HandleAll
<1>3. CASE Len(rs) = 1
  <2>1. HandleAll(st, rs, sent) = Handle(st, rs[1], sent)
    BY <1>3 DEF HandleAll
  <2> QED
    BY <1>3, <2>1
<1>4. CASE Len(rs) = 2
  <2>1. rs[1] \in Replies /\ rs[2] \in Replies /\ 1 \in DOMAIN rs /\ 2 \in DOMAIN rs
    BY <1>4
  <2> DEFINE st1 == Handle(st, rs[1], sent)
  <2>2. HandleAll(st, rs, sent) = Handle(st1, rs[2], sent)
    BY <1>4 DEF HandleAll
  <2>3. st1 \in RxType /\ st1.ack = Receive(st.ack, rs[1], sent).ack
    BY <2>1, HandleType DEF Handle
  <2>4. CASE st1 = st
    BY <2>1, <2>2, <2>4
  <2>5. CASE st1.ack.active /\ sent # Header(st1.ack)
    <3>1. st1.ack \in Acks
      BY <2>3 DEF RxType
    <3>2. Receive(st1.ack, rs[2], sent) = Rejected(st1.ack)
      BY <2>1, <2>5, <3>1, StaleIgnored
    <3>3. Handle(st1, rs[2], sent) = st1
      BY <2>1, <2>3, <2>5, <3>2, HandleUnmoved DEF Rejected
    <3> QED
      BY <2>1, <2>2, <3>3
  <2> HIDE DEF st1
  <2>6. \/ /\ Receive(st.ack, rs[1], sent).ack = st.ack
           /\ Receive(st.ack, rs[1], sent).took = "none"
        \/ /\ Receive(st.ack, rs[1], sent).ack.active
           /\ sent # Header(Receive(st.ack, rs[1], sent).ack)
    BY <1>1, <2>1, ReceiveSpends
  <2> QED
    BY <2>1, <2>3, <2>4, <2>5, <2>6, HandleUnmoved DEF st1
<1>5. Len(rs) = 0 \/ Len(rs) = 1 \/ Len(rs) = 2
  <2>1. Len(rs) \in Nat
    OBVIOUS
  <2>2. \A n \in Nat : n <= 2 => n = 0 \/ n = 1 \/ n = 2
    OBVIOUS
  <2> QED
    BY <2>1, <2>2, Zenon
<1> QED
  BY <1>2, <1>3, <1>4, <1>5
-------------------------------------------------------------------------------
\* Two ends that have just been reset (ull_parent_ack_reset, fresh headset) agree.
LEMMA InitInv == Init => LinkInv
<1> SUFFICES ASSUME Init PROVE LinkInv
  OBVIOUS
<1>1. TypeOK
  <2>1. /\ Reset \in Acks /\ NoParent \in Headers
        /\ <<>> \in Seq(1..MaxMsg) /\ <<>> \in Seq(Replies) /\ Len(<<>>) = 0
    BY DEF Reset, Acks, Bit, NoParent, Headers
  <2>2. rx \in [ack : Acks, last : 0..MaxMsg, keys : Seq(1..MaxMsg), lead : Int]
    BY <2>1, MaxMsgAssumption DEF Init
  <2>3. /\ air \in [busy : BOOLEAN, due : BOOLEAN, header : Headers,
                    copies : 0..2, replies : Seq(Replies)]
        /\ Len(air.replies) <= Windows
    BY <2>1, WindowsAssumption DEF Init, Idle
  <2>4. prepared \in [valid : BOOLEAN, due : BOOLEAN, header : Headers]
    BY <2>1 DEF Init, NothingPrepared
  <2>5. told \in History
    BY MaxMsgAssumption DEF Init, History, Opening
  <2> QED
    BY <2>2, <2>3, <2>4, <2>5 DEF Init, TypeOK
<1>2. RxInv(rx)
  BY DEF Init, RxInv, Reset, Idle, Replies, Opening
<1>3. HeaderInv /\ \A i \in DOMAIN air.replies : ReplyInv(air.replies[i])
  BY DEF Init, HeaderInv, SentHeaderCurrent, Idle, NoParent
<1> QED
  BY <1>1, <1>2, <1>3 DEF LinkInv

\* The heart of the proof: an answer that tells the truth about the headset,
\* handled against the header that was really sent, keeps the two ends agreed.
LEMMA HandleKeepsRxInv ==
  ASSUME LinkInv, eligible, NEW i \in DOMAIN air.replies, air.busy
  PROVE  LET st == Handle(rx, air.replies[i], air.header) IN
         /\ st.ack.active \/ st = rx
         /\ st.last <= headset.msg
         /\ st.ack.active =>
              /\ \/ st.last = headset.msg /\ st.ack.rx_nesn = Flip(headset.sn)
                 \/ st.last = headset.msg - 1 /\ st.ack.rx_nesn = headset.sn
              /\ \/ st.lead = 0 /\ st.ack.tx_sn = headset.nesn
                 \/ st.lead = 1 /\ st.ack.tx_sn = Flip(headset.nesn)
         /\ \/ st.last = rx.last /\ st.keys = rx.keys
            \/ /\ rx.last < st.last
               /\ st.last = headset.msg => air.replies[i].kind = headset.kind
               /\ \/ /\ air.replies[i].kind = "control"
                     /\ st.keys = Append(rx.keys, st.last)
                  \/ air.replies[i].kind = "empty" /\ st.keys = rx.keys
<1> DEFINE r == air.replies[i]
           st == Handle(rx, r, air.header)
           out == Receive(rx.ack, r, air.header)
<1>1. /\ rx.ack \in Acks /\ rx.last \in 0..MaxMsg /\ rx.lead \in Int
      /\ r \in Replies /\ air.header \in Headers /\ headset \in Replies
      /\ rx \in RxType
  BY DEF LinkInv, TypeOK, RxType
<1>2. ReplyInv(r) /\ HeaderInv /\ RxInv(rx)
  BY DEF LinkInv
<1>3. rx.ack.active => rx.last < r.msg \/ IsDuplicate(rx.ack, r) \/ out.took = "none"
  BY <1>1, <1>2 DEF RxInv, ReplyInv, HeaderInv, SentHeaderCurrent, IsDuplicate,
     Header, Flip, Replies, Acks, Bit, Headers
<1> HIDE DEF r, st, out
<1>4. CASE rx.ack.active
  BY SMTT(60), <1>1, <1>2, <1>3, <1>4
     DEF RxInv, ReplyInv, HeaderInv, SentHeaderCurrent, Handle,
         Receive, ReceiveActive, Rejected, AckedTx, Acknowledges,
         IsDuplicate, IsRefused, IsStale, Header, NoParent,
         Acks, Bit, Flip, Replies, Kinds, Headers, RxType, r, st, out
<1>5. CASE ~rx.ack.active
  <2>1. rx.last < r.msg /\ rx.last < headset.msg /\ rx.lead = 0
        /\ rx.last \in Nat /\ r.msg \in Nat /\ headset.msg \in Nat
    BY <1>1, <1>2, <1>5 DEF RxInv, Replies, RxType, r
  <2>2. CASE ~MaySeed(r, air.header)
    <3>1. st = rx
      BY <1>1, <1>5, <2>1, <2>2 DEF Handle, Receive, Rejected, RxType, st
    <3> QED
      BY <1>5, <2>1, <3>1 DEF r, st
  <2>3. CASE MaySeed(r, air.header)
    <3>1. Receive(rx.ack, r, air.header) = [ack |-> Seed(r), ok |-> TRUE, took |-> r.kind]
      BY <1>5, <2>3 DEF Receive, MaySeed
    <3>2. /\ st.ack = Seed(r) /\ st.last = r.msg /\ st.lead = 0
          /\ \/ r.kind = "control" /\ st.keys = Append(rx.keys, r.msg)
             \/ r.kind = "empty" /\ st.keys = rx.keys
      BY <1>5, <2>3, <3>1 DEF Handle, MaySeed, st
    <3>3. air.header.present => air.header = Poll
      BY <1>2, <1>5 DEF HeaderInv, SentHeaderCurrent
    <3>4. r.nesn = headset.nesn
      BY <1>1, <1>2, <2>3, <3>3
         DEF ReplyInv, MaySeed, Poll, NoParent, Bit, Flip, Replies
    <3>5. \/ r.msg = headset.msg /\ r.sn = headset.sn /\ r.kind = headset.kind
          \/ r.msg = headset.msg - 1 /\ Flip(r.sn) = headset.sn
      BY <1>1, <1>2 DEF ReplyInv, Bit, Flip, Replies
    <3>6. /\ st.ack.active /\ st.ack.tx_sn = headset.nesn
          /\ st.ack.rx_nesn = Flip(r.sn)
      BY <3>2, <3>4 DEF Seed
    <3> QED
      BY <2>1, <3>2, <3>5, <3>6 DEF r, st
  <2> QED
    BY <2>2, <2>3
<1> QED
  BY <1>4, <1>5 DEF r, st

\* The collecting step: no effect, or the effect of one answer.
LEMMA CollectEffect ==
  ASSUME LinkInv, Collect
  PROVE  \/ rx' = rx
         \/ /\ eligible
            /\ \E i \in DOMAIN air.replies :
                 rx' = Handle(rx, air.replies[i], air.header)
<1>1. /\ rx \in RxType /\ air.header \in Headers /\ air.replies \in Seq(Replies)
      /\ Len(air.replies) <= 2
  <2>1. Len(air.replies) <= Windows /\ Len(air.replies) \in Nat
    BY DEF LinkInv, TypeOK
  <2>2. \A n \in Nat : n <= Windows => n <= 2
    BY WindowsAssumption
  <2> QED
    BY <2>1, <2>2 DEF LinkInv, TypeOK, RxType
<1>2. /\ rx.ack.active => air.header \in {NoParent, Header(rx.ack)}
      /\ ~rx.ack.active => air.header \in {NoParent, Poll}
      /\ ~rx.ack.active => rx.lead = 0
  BY DEF LinkInv, HeaderInv, SentHeaderCurrent, RxInv, Collect
<1>3. rx' = IF eligible THEN HandleAll(rx, air.replies, air.header) ELSE rx
  BY DEF Collect
<1> QED
  BY <1>1, <1>2, <1>3, OneEffect

\* The elements of a typed sequence, and those of the same sequence with one
\* more, for any set of elements.
LEMMA AppendElements ==
  ASSUME NEW S, NEW q \in Seq(S), NEW m \in S
  PROVE  /\ Len(q) \in Nat
         /\ DOMAIN q = 1..Len(q)
         /\ DOMAIN Append(q, m) = 1..Len(q)+1
         /\ \A k \in 1..Len(q) : Append(q, m)[k] = q[k] /\ q[k] \in S
         /\ Append(q, m)[Len(q)+1] = m
OBVIOUS

\* A consumed control is never newer than the last control the headset created.
LEMMA KeysBounded ==
  ASSUME NEW S, NEW q \in Seq(S)
  PROVE  \A k \in DOMAIN q : q[k] \in S
OBVIOUS

\* Appending a number above all others keeps a sequence increasing and keeps
\* its elements.
LEMMA AppendIncreasing ==
  ASSUME NEW S \in SUBSET Nat, NEW q \in Seq(S), NEW last \in Nat,
         NEW m \in S, last < m,
         \A k \in DOMAIN q : q[k] <= last,
         \A j, k \in DOMAIN q : j < k => q[j] < q[k]
  PROVE  /\ \A k \in DOMAIN Append(q, m) : Append(q, m)[k] <= m
         /\ \A j, k \in DOMAIN Append(q, m) :
              j < k => Append(q, m)[j] < Append(q, m)[k]
         /\ \A x : (\E k \in DOMAIN q : q[k] = x)
                  => \E k \in DOMAIN Append(q, m) : Append(q, m)[k] = x
         /\ \E k \in DOMAIN Append(q, m) : Append(q, m)[k] = m
<1> DEFINE p == Append(q, m)
           n == Len(q)
<1>1. /\ n \in Nat /\ DOMAIN q = 1..n /\ DOMAIN p = 1..n+1
      /\ \A k \in 1..n : p[k] = q[k] /\ q[k] \in S
      /\ p[n+1] = m
  BY AppendElements
<1> HIDE DEF p, n
<1>2. \A k \in 1..n+1 : k = n+1 \/ k \in 1..n
  BY <1>1
<1>3. \A k \in 1..n : p[k] \in Nat /\ p[k] <= last
  BY <1>1
<1>4. \A k \in DOMAIN p : p[k] <= m
  BY <1>1, <1>2, <1>3
<1>5. \A j, k \in DOMAIN p : j < k => p[j] < p[k]
  <2> SUFFICES ASSUME NEW j \in 1..n+1, NEW k \in 1..n+1, j < k PROVE p[j] < p[k]
    BY <1>1
  <2>1. j \in 1..n
    BY <1>1
  <2>2. CASE k \in 1..n
    BY <1>1, <2>1, <2>2
  <2>3. CASE k = n+1
    BY <1>1, <1>3, <2>1, <2>3
  <2> QED
    BY <1>2, <2>2, <2>3
<1>6. \A x : (\E k \in DOMAIN q : q[k] = x) => \E k \in DOMAIN p : p[k] = x
  BY <1>1
<1>7. \E k \in DOMAIN p : p[k] = m
  BY <1>1
<1> QED
  BY <1>4, <1>5, <1>6, <1>7 DEF p

\* Collecting a finished frame (ull_tone_trial_step handing the received PDUs to
\* ull_raw_receive_air_control) keeps the two ends agreed.
LEMMA CollectKeeps == LinkInv /\ Collect => LinkInv'
<1> SUFFICES ASSUME LinkInv, Collect PROVE LinkInv'
  OBVIOUS
<1>1. /\ air' = Idle /\ eligible' = eligible /\ prepared' = prepared
      /\ headset' = headset /\ told' = told
  BY DEF Collect
<1>2. NoParent \in Headers /\ <<>> \in Seq(Replies) /\ Len(<<>>) = 0 /\ DOMAIN <<>> = {}
  BY DEF NoParent, Headers, Bit
<1>3. Idle \in [busy : BOOLEAN, due : BOOLEAN, header : Headers,
                copies : 0..2, replies : Seq(Replies)]
  BY <1>2 DEF Idle
<1>4. rx' \in RxType
  <2>1. rx \in RxType /\ air.header \in Headers
        /\ \A i \in DOMAIN air.replies : air.replies[i] \in Replies
    BY DEF LinkInv, TypeOK, RxType
  <2> QED
    BY <2>1, CollectEffect, HandleType
<1>5. TypeOK'
  BY <1>1, <1>2, <1>3, <1>4, WindowsAssumption DEF LinkInv, TypeOK, RxType, Idle
<1>6. HeaderInv' /\ (\A i \in DOMAIN air.replies : ReplyInv(air.replies[i]))'
  BY <1>1, <1>2 DEF HeaderInv, SentHeaderCurrent, Idle, NoParent
<1>7. RxInv(rx)'
  <2>1. CASE rx' = rx
    BY <1>1, <1>2, <2>1 DEF LinkInv, RxInv, Idle
  <2>2. ASSUME eligible, NEW i \in DOMAIN air.replies,
               rx' = Handle(rx, air.replies[i], air.header)
        PROVE  RxInv(rx)'
    <3>1. air.busy
      BY DEF Collect
    <3>2. CASE rx' = rx
      BY <2>1, <3>2
    <3>3. CASE rx' # rx
      <4>1. /\ rx'.ack.active
            /\ rx'.last <= headset.msg
            /\ \/ rx'.last = headset.msg /\ rx'.ack.rx_nesn = Flip(headset.sn)
               \/ rx'.last = headset.msg - 1 /\ rx'.ack.rx_nesn = headset.sn
            /\ \/ rx'.lead = 0 /\ rx'.ack.tx_sn = headset.nesn
               \/ rx'.lead = 1 /\ rx'.ack.tx_sn = Flip(headset.nesn)
        BY <2>2, <3>1, <3>3, HandleKeepsRxInv
      <4>2. \/ rx'.last = rx.last /\ rx'.keys = rx.keys
            \/ /\ rx.last < rx'.last
               /\ rx'.last = headset.msg => air.replies[i].kind = headset.kind
               /\ \/ /\ air.replies[i].kind = "control"
                     /\ rx'.keys = Append(rx.keys, rx'.last)
                  \/ air.replies[i].kind = "empty" /\ rx'.keys = rx.keys
        BY <2>2, <3>1, <3>3, HandleKeepsRxInv
      <4>3. /\ rx.keys \in Seq(1..MaxMsg) /\ rx.last \in 0..MaxMsg
            /\ rx'.last \in 0..MaxMsg /\ headset.msg \in 1..MaxMsg
        BY <1>4 DEF LinkInv, TypeOK, RxType, Replies
      <4>4. /\ \A k \in DOMAIN rx.keys : rx.keys[k] <= rx.last
            /\ \A j, k \in DOMAIN rx.keys : j < k => rx.keys[j] < rx.keys[k]
            /\ told.swallowed \subseteq told.opening
            /\ \A m \in told.passed \ told.swallowed : \E k \in DOMAIN rx.keys : rx.keys[k] = m
        BY DEF LinkInv, RxInv
      <4>5. /\ \A k \in DOMAIN rx'.keys : rx'.keys[k] <= rx'.last
            /\ \A j, k \in DOMAIN rx'.keys : j < k => rx'.keys[j] < rx'.keys[k]
            /\ \A m \in told.passed \ told.swallowed : \E k \in DOMAIN rx'.keys : rx'.keys[k] = m
            /\ rx'.last = headset.msg /\ headset.kind = "control"
                 => \E k \in DOMAIN rx'.keys : rx'.keys[k] = headset.msg
        <5>1. CASE rx'.last = rx.last /\ rx'.keys = rx.keys
          <6>1. rx.last = headset.msg /\ headset.kind = "control"
                  => \E k \in DOMAIN rx.keys : rx.keys[k] = headset.msg
            BY <4>3 DEF LinkInv, RxInv
          <6> QED
            BY <4>4, <5>1, <6>1
        <5>2. CASE /\ rx.last < rx'.last
                   /\ rx'.last = headset.msg => air.replies[i].kind = headset.kind
                   /\ air.replies[i].kind = "empty" /\ rx'.keys = rx.keys
          <6>1. \A k \in DOMAIN rx.keys : rx.keys[k] \in 1..MaxMsg
            BY <4>3, KeysBounded
          <6> QED
            BY <4>3, <4>4, <5>2, <6>1
        <5>3. CASE rx.last < rx'.last /\ rx'.keys = Append(rx.keys, rx'.last)
          <6>1. rx'.last \in 1..MaxMsg /\ rx.last \in Nat /\ 1..MaxMsg \in SUBSET Nat
            BY <4>3, <5>3
          <6> DEFINE S == 1..MaxMsg
                     q == rx.keys
                     last == rx.last
                     m == rx'.last
          <6>2. /\ S \in SUBSET Nat /\ q \in Seq(S) /\ last \in Nat /\ m \in S /\ last < m
                /\ \A k \in DOMAIN q : q[k] <= last
                /\ \A j, k \in DOMAIN q : j < k => q[j] < q[k]
            BY <4>3, <4>4, <5>3, <6>1
          <6>3. rx'.keys = Append(q, m) /\ rx'.last = m
            BY <5>3
          <6>4. \A x \in told.passed \ told.swallowed : \E k \in DOMAIN q : q[k] = x
            BY <4>4
          <6> HIDE DEF S, q, last, m
          <6>5. /\ \A k \in DOMAIN Append(q, m) : Append(q, m)[k] <= m
                /\ \A j, k \in DOMAIN Append(q, m) :
                     j < k => Append(q, m)[j] < Append(q, m)[k]
                /\ \A x : (\E k \in DOMAIN q : q[k] = x)
                         => \E k \in DOMAIN Append(q, m) : Append(q, m)[k] = x
                /\ \E k \in DOMAIN Append(q, m) : Append(q, m)[k] = m
            BY <6>2, AppendIncreasing
          <6> QED
            BY <6>3, <6>4, <6>5
        <5> QED
          BY <4>2, <5>1, <5>2, <5>3
      <4> QED
        BY <1>1, <2>2, <4>1, <4>4, <4>5 DEF RxInv
    <3> QED
      BY <3>2, <3>3
  <2> QED
    BY <2>1, <2>2, CollectEffect
<1> QED
  BY <1>5, <1>6, <1>7 DEF LinkInv

-------------------------------------------------------------------------------
\* Every header the receiver can put into a frame is the current one.
LEMMA ParentPduCurrent ==
  ASSUME LinkInv, NEW due \in BOOLEAN, NEW probing \in BOOLEAN
  PROVE  LET h == ParentPdu(due, probing) IN
         /\ h \in Headers
         /\ h.present => eligible
                        /\ h = IF rx.ack.active THEN Header(rx.ack) ELSE Poll
         /\ ~h.present => h = NoParent
BY DEF LinkInv, TypeOK, ParentPdu, Header, NoParent, Poll, Headers, Acks, Bit

\* Submitting a frame, fresh or kept from before (prepare_frame under
\* frame_matches), puts the current header on the air.
LEMMA SubmitKeeps == LinkInv /\ Submit => LinkInv'
<1> SUFFICES ASSUME LinkInv, Submit PROVE LinkInv'
  OBVIOUS
<1>1. /\ eligible' = eligible /\ rx' = rx /\ headset' = headset /\ told' = told
  BY DEF Submit
<1>2. PICK same, due, probing, repeat, nextDue \in BOOLEAN :
        /\ same /\ prepared.valid => due = prepared.due
        /\ repeat /\ ParentPdu(due, probing).present
             => FrameMatches(same, ParentPdu(due, probing))
        /\ air' = [busy |-> TRUE, due |-> due,
                   header |-> SentHeader(same, ParentPdu(due, probing)),
                   copies |-> IF repeat THEN 2 ELSE 1, replies |-> <<>>]
        /\ prepared' = [valid |-> TRUE, due |-> nextDue,
                        header |-> ParentPdu(nextDue, probing)]
  BY DEF Submit
<1> DEFINE h == ParentPdu(due, probing)
<1>3. SentHeader(same, h) = h
  BY DEF SentHeader, FrameMatches
<1>4. /\ h \in Headers
      /\ h.present => eligible
                     /\ h = IF rx.ack.active THEN Header(rx.ack) ELSE Poll
      /\ ~h.present => h = NoParent
      /\ ParentPdu(nextDue, probing) \in Headers
  BY ParentPduCurrent
<1> HIDE DEF h
<1>5. air' = [busy |-> TRUE, due |-> due, header |-> h,
              copies |-> IF repeat THEN 2 ELSE 1, replies |-> <<>>]
  BY <1>2, <1>3 DEF h
<1>6. <<>> \in Seq(Replies) /\ Len(<<>>) = 0 /\ DOMAIN <<>> = {}
  OBVIOUS
<1>7. TypeOK'
  BY <1>1, <1>2, <1>4, <1>5, <1>6, WindowsAssumption DEF LinkInv, TypeOK
<1>8. RxInv(rx)'
  BY <1>1, <1>5, <1>6 DEF LinkInv, RxInv
<1>9. HeaderInv' /\ (\A i \in DOMAIN air.replies : ReplyInv(air.replies[i]))'
  BY <1>1, <1>4, <1>5, <1>6 DEF LinkInv, HeaderInv, SentHeaderCurrent, Header
<1> QED
  BY <1>7, <1>8, <1>9 DEF LinkInv

\* A frame the radio cancelled is put aside for a retry; nothing was heard of it.
LEMMA CancelledKeeps == LinkInv /\ Cancelled => LinkInv'
<1> SUFFICES ASSUME LinkInv, Cancelled PROVE LinkInv'
  OBVIOUS
<1>1. /\ eligible' = eligible /\ rx' = rx /\ headset' = headset /\ told' = told
      /\ air' = Idle
  BY DEF Cancelled
<1>2. NoParent \in Headers /\ <<>> \in Seq(Replies) /\ Len(<<>>) = 0 /\ DOMAIN <<>> = {}
  BY DEF NoParent, Headers, Bit
<1>3. prepared' \in [valid : BOOLEAN, due : BOOLEAN, header : Headers]
  <2>1. /\ air.due \in BOOLEAN /\ air.header \in Headers
        /\ prepared \in [valid : BOOLEAN, due : BOOLEAN, header : Headers]
    BY DEF LinkInv, TypeOK
  <2>2. prepared' = prepared
        \/ prepared' = [valid |-> TRUE, due |-> air.due, header |-> air.header]
    BY DEF Cancelled
  <2>3. [valid |-> TRUE, due |-> air.due, header |-> air.header]
          \in [valid : BOOLEAN, due : BOOLEAN, header : Headers]
    BY <2>1
  <2> QED
    BY <2>1, <2>2, <2>3, Zenon
<1>4. TypeOK'
  BY <1>1, <1>2, <1>3, WindowsAssumption DEF LinkInv, TypeOK, Idle
<1>5. RxInv(rx)'
  BY <1>1, <1>2 DEF LinkInv, RxInv, Idle
<1>6. HeaderInv' /\ (\A i \in DOMAIN air.replies : ReplyInv(air.replies[i]))'
  BY <1>1, <1>2 DEF HeaderInv, SentHeaderCurrent, Idle, NoParent
<1> QED
  BY <1>4, <1>5, <1>6 DEF LinkInv

\* Retiring the native parent (parent_retired) touches neither sequence bit.
LEMMA RetireKeeps == LinkInv /\ Retire => LinkInv'
BY DEF LinkInv, Retire, TypeOK, RxInv, HeaderInv, SentHeaderCurrent, ReplyInv

\* An attempt of the event that the headset does not hear changes neither end.
LEMMA LoseCopyKeeps == LinkInv /\ LoseCopy => LinkInv'
<1> SUFFICES ASSUME LinkInv, LoseCopy PROVE LinkInv'
  OBVIOUS
<1>1. /\ eligible' = eligible /\ rx' = rx /\ headset' = headset /\ told' = told
      /\ prepared' = prepared /\ air.copies > 0
      /\ air' = [air EXCEPT !.copies = @ - 1]
  BY DEF LoseCopy
<1>2. /\ air.copies - 1 \in 0..2 /\ air.busy
      /\ air'.busy = air.busy /\ air'.header = air.header /\ air'.replies = air.replies
  BY <1>1 DEF LinkInv, TypeOK, HeaderInv, Idle
<1>3. TypeOK'
  BY <1>1, <1>2 DEF LinkInv, TypeOK
<1>4. RxInv(rx)'
  BY <1>1, <1>2 DEF LinkInv, RxInv
<1>5. HeaderInv' /\ (\A i \in DOMAIN air.replies : ReplyInv(air.replies[i]))'
  BY <1>1, <1>2 DEF LinkInv, HeaderInv, SentHeaderCurrent, ReplyInv
<1> QED
  BY <1>3, <1>4, <1>5 DEF LinkInv

\* An answer the headset gives to the header in flight tells the truth about it.
LEMMA HeadsetReplyKeeps == LinkInv /\ HeadsetReply => LinkInv'
<1> SUFFICES ASSUME LinkInv, HeadsetReply PROVE LinkInv'
  OBVIOUS
<1>1. /\ eligible' = eligible /\ rx' = rx /\ headset' = headset /\ told' = told
      /\ prepared' = prepared /\ air.busy /\ Len(air.replies) < Windows
      /\ air' = [air EXCEPT !.replies = Append(@, headset)]
  BY DEF HeadsetReply
<1>2. /\ air.replies \in Seq(Replies) /\ headset \in Replies
  BY DEF LinkInv, TypeOK
<1> DEFINE n == Len(air.replies)
<1>3. /\ air'.busy = air.busy /\ air'.header = air.header
      /\ air'.replies = Append(air.replies, headset)
  BY <1>1 DEF LinkInv, TypeOK
<1>4. /\ n \in Nat /\ DOMAIN air.replies = 1..n /\ DOMAIN air'.replies = 1..n+1
      /\ \A i \in 1..n : air'.replies[i] = air.replies[i]
      /\ air'.replies[n+1] = headset
  BY <1>2, <1>3, AppendElements
<1>5. Append(air.replies, headset) \in Seq(Replies)
      /\ Len(Append(air.replies, headset)) = n + 1
  BY <1>2
<1> HIDE DEF n
<1>6. n + 1 <= Windows
  BY <1>1, <1>4, WindowsAssumption DEF n
<1>7. TypeOK'
  BY <1>1, <1>3, <1>5, <1>6 DEF LinkInv, TypeOK
<1>8. \A i \in 1..n+1 : i \in 1..n \/ i = n+1
  BY <1>4
<1>9. RxInv(rx)'
  <2>1. ~rx.ack.active => \A i \in DOMAIN air'.replies : rx.last < air'.replies[i].msg
    BY <1>4, <1>8 DEF LinkInv, RxInv
  <2> QED
    BY <1>1, <2>1 DEF LinkInv, RxInv
<1>10. \A i \in DOMAIN air'.replies : ReplyInv(air'.replies[i])
  BY <1>4, <1>8 DEF LinkInv, ReplyInv
<1>11. (\A i \in DOMAIN air.replies : ReplyInv(air.replies[i]))'
  BY <1>1, <1>3, <1>10 DEF ReplyInv
<1>12. HeaderInv'
  BY <1>1, <1>3 DEF LinkInv, HeaderInv, SentHeaderCurrent
<1> QED
  BY <1>7, <1>9, <1>11, <1>12 DEF LinkInv

\* A new connection resets both ends and forgets the staged frame
\* (reset_sequence in raw_llcp.c).
LEMMA ReconnectKeeps == LinkInv /\ Reconnect => LinkInv'
<1> SUFFICES ASSUME LinkInv, Reconnect PROVE LinkInv'
  OBVIOUS
<1>1. /\ eligible' = FALSE /\ prepared' = NothingPrepared /\ air' = air
      /\ told' = [told EXCEPT !.opening = @ \cup Opening(headset')] /\ ~air.busy
      /\ rx' = [rx EXCEPT !.ack = Reset, !.lead = 0]
      /\ headset' \in Replies /\ headset'.msg = headset.msg + 1
  BY DEF Reconnect
<1>2. Reset \in Acks /\ NoParent \in Headers /\ ~Reset.active
  BY DEF Reset, Acks, Bit, NoParent, Headers
<1>3. /\ rx' \in RxType /\ rx'.ack = Reset /\ rx'.lead = 0
      /\ rx'.last = rx.last /\ rx'.keys = rx.keys
      /\ rx.last \in 0..MaxMsg /\ headset.msg \in 1..MaxMsg
  <2>1. rx \in RxType /\ headset \in Replies
    BY DEF LinkInv, TypeOK, RxType
  <2>2. rx' \in RxType /\ rx'.ack = Reset /\ rx'.lead = 0
        /\ rx'.last = rx.last /\ rx'.keys = rx.keys
    <3>1. rx' = [ack |-> Reset, last |-> rx.last, keys |-> rx.keys, lead |-> 0]
      BY <1>1, <2>1 DEF RxType
    <3> QED
      BY <1>2, <2>1, <3>1 DEF RxType
  <2> QED
    BY <2>1, <2>2 DEF RxType, Replies
<1>4. air = Idle /\ DOMAIN air.replies = {}
  BY <1>1 DEF LinkInv, HeaderInv, Idle
<1>5. /\ told' \in History /\ told'.passed = told.passed
      /\ told'.swallowed = told.swallowed
      /\ told'.opening = told.opening \cup Opening(headset')
  BY <1>1 DEF LinkInv, TypeOK, History, Opening, Replies
<1>6. TypeOK'
  BY <1>1, <1>2, <1>3, <1>5 DEF LinkInv, TypeOK, RxType, NothingPrepared
<1>7. RxInv(rx)'
  BY <1>1, <1>2, <1>3, <1>4, <1>5 DEF LinkInv, RxInv, Opening
<1>8. HeaderInv' /\ (\A i \in DOMAIN air.replies : ReplyInv(air.replies[i]))'
  BY <1>1, <1>4 DEF HeaderInv, SentHeaderCurrent, Idle, NoParent
<1> QED
  BY <1>6, <1>7, <1>8 DEF LinkInv

\* The headset moves its bits only on the header in flight, which is the
\* receiver's own, so the two ends stay agreed and older answers stay true.
LEMMA HeadsetHearKeeps == LinkInv /\ HeadsetHear => LinkInv'
<1> SUFFICES ASSUME LinkInv, HeadsetHear PROVE LinkInv'
  OBVIOUS
<1> DEFINE h == air.header
           fresh == h.present /\ h.sn = headset.nesn
           acked == h.present /\ h.nesn # headset.sn
           known == IF acked /\ headset.kind = "control" THEN {headset.msg} ELSE {}
<1>1. /\ eligible' = eligible /\ prepared' = prepared /\ air.copies > 0
      /\ air' = [air EXCEPT !.copies = @ - 1]
      /\ acked => headset.msg < MaxMsg
      /\ rx' = IF fresh /\ rx.ack.active THEN [rx EXCEPT !.lead = @ + 1] ELSE rx
      /\ told' = [told EXCEPT
                    !.passed = @ \cup known,
                    !.swallowed = IF rx.ack.active THEN @ ELSE @ \cup known]
  BY DEF HeadsetHear
<1>2. PICK kind \in Kinds :
       /\ acked \/ kind = headset.kind
       /\ headset' = [sn   |-> IF acked THEN Flip(headset.sn) ELSE headset.sn,
                      nesn |-> IF fresh THEN Flip(headset.nesn) ELSE headset.nesn,
                      kind |-> kind,
                      msg  |-> IF acked THEN headset.msg + 1 ELSE headset.msg]
  BY DEF HeadsetHear
<1>3. /\ rx \in RxType /\ rx.ack \in Acks /\ rx.last \in 0..MaxMsg /\ rx.lead \in Int
      /\ h \in Headers /\ headset \in Replies /\ told \in History
      /\ air.replies \in Seq(Replies)
      /\ \A i \in DOMAIN air.replies : air.replies[i] \in Replies
  BY DEF LinkInv, TypeOK, RxType
<1>4. /\ air.copies - 1 \in 0..2 /\ air.busy
      /\ air'.busy = air.busy /\ air'.header = h /\ air'.replies = air.replies
  BY <1>1 DEF LinkInv, TypeOK, HeaderInv, Idle
<1>5. headset' \in Replies
  <2>1. /\ headset.sn \in Bit /\ headset.nesn \in Bit /\ headset.msg \in 1..MaxMsg
        /\ Flip(headset.sn) \in Bit /\ Flip(headset.nesn) \in Bit
    BY <1>3 DEF Replies, Flip, Bit
  <2>2. acked => headset.msg + 1 \in 1..MaxMsg
    BY <1>1, <2>1, MaxMsgAssumption
  <2> QED
    BY <1>2, <2>1, <2>2 DEF Replies
<1>6. /\ rx' \in RxType /\ rx'.ack = rx.ack /\ rx'.last = rx.last /\ rx'.keys = rx.keys
      /\ rx'.lead = IF fresh /\ rx.ack.active THEN rx.lead + 1 ELSE rx.lead
  BY <1>1, <1>3 DEF RxType
<1>7. RxInv(rx) /\ HeaderInv /\ \A i \in DOMAIN air.replies : ReplyInv(air.replies[i])
  BY DEF LinkInv
<1>8. h.present => h = IF rx.ack.active THEN Header(rx.ack) ELSE Poll
  BY <1>4, <1>7 DEF HeaderInv, SentHeaderCurrent
<1>9. /\ told' \in History /\ told'.opening = told.opening
      /\ told'.passed = told.passed \cup known
      /\ told'.swallowed = IF rx.ack.active THEN told.swallowed
                           ELSE told.swallowed \cup known
  BY <1>1, <1>3 DEF History, Replies
<1>10. TypeOK'
  BY <1>1, <1>3, <1>4, <1>5, <1>6, <1>9 DEF LinkInv, TypeOK, RxType, Replies
<1>11. HeaderInv'
  BY <1>1, <1>4, <1>6, <1>7 DEF HeaderInv, SentHeaderCurrent
<1>12. \A i \in DOMAIN air.replies : ReplyInv(air.replies[i])'
  BY <1>2, <1>3, <1>4, <1>7 DEF ReplyInv, Replies, Flip, Bit, Headers
<1>13. RxInv(rx)'
  <2>1. rx.ack.active =>
          /\ \/ rx.last = headset'.msg /\ rx.ack.rx_nesn = Flip(headset'.sn)
             \/ rx.last = headset'.msg - 1 /\ rx.ack.rx_nesn = headset'.sn
          /\ \/ rx'.lead = 0 /\ rx.ack.tx_sn = headset'.nesn
             \/ rx'.lead = 1 /\ rx.ack.tx_sn = Flip(headset'.nesn)
    BY <1>2, <1>3, <1>6, <1>7, <1>8 DEF RxInv, Header, Replies, Flip, Bit, Headers, Acks
  <2>2. rx.last <= headset'.msg /\ headset.msg <= headset'.msg
    BY <1>2, <1>3, <1>7 DEF RxInv, Replies
  <2>3. ~rx.ack.active => rx.last < headset'.msg
    BY <1>2, <1>3, <1>7 DEF RxInv, Replies
  <2>4. rx.ack.active /\ rx.last = headset'.msg /\ headset'.kind = "control"
          => \E i \in DOMAIN rx.keys : rx.keys[i] = headset'.msg
    BY <1>2, <1>3, <1>7 DEF RxInv, Replies
  <2>5. \A m \in told'.passed \ told'.swallowed : \E i \in DOMAIN rx.keys : rx.keys[i] = m
    <3>1. acked /\ rx.ack.active => rx.last = headset.msg
      BY <1>3, <1>7, <1>8 DEF RxInv, Header, Replies, Flip, Bit, Headers, Acks
    <3> QED
      BY <1>7, <1>9, <3>1 DEF RxInv
  <2>6. ~rx.ack.active => (acked => headset.sn = 1 /\ headset'.sn = 0)
    BY <1>2, <1>3, <1>8 DEF Poll, Replies, Flip, Bit
  <2>7. ~rx.ack.active /\ headset'.sn = 1 => headset'.msg \in told'.opening
    BY <1>2, <1>7, <1>9, <2>6 DEF RxInv
  <2>8. told'.swallowed \subseteq told'.opening
    BY <1>7, <1>9, <2>6 DEF RxInv
  <2> QED
    BY <1>1, <1>4, <1>6, <1>7, <2>1, <2>2, <2>3, <2>4, <2>5, <2>7, <2>8 DEF RxInv
<1> QED
  BY <1>4, <1>10, <1>11, <1>12, <1>13 DEF LinkInv

\* Every step of the link, and every stutter, keeps the inductive invariant.
LEMMA NextKeeps == LinkInv /\ [Next]_vars => LinkInv'
<1> SUFFICES ASSUME LinkInv, [Next]_vars PROVE LinkInv'
  OBVIOUS
<1>1. CASE Submit
  BY <1>1, SubmitKeeps
<1>2. CASE Collect
  BY <1>2, CollectKeeps
<1>3. CASE Cancelled
  BY <1>3, CancelledKeeps
<1>4. CASE Retire
  BY <1>4, RetireKeeps
<1>5. CASE LoseCopy
  BY <1>5, LoseCopyKeeps
<1>6. CASE HeadsetHear
  BY <1>6, HeadsetHearKeeps
<1>7. CASE HeadsetReply
  BY <1>7, HeadsetReplyKeeps
<1>8. CASE Reconnect
  BY <1>8, ReconnectKeeps
<1>9. CASE UNCHANGED vars
  BY <1>9 DEF vars, LinkInv, TypeOK, RxInv, HeaderInv, SentHeaderCurrent, ReplyInv
<1> QED
  BY <1>1, <1>2, <1>3, <1>4, <1>5, <1>6, <1>7, <1>8, <1>9 DEF Next

\* The agreement of the two link layers is inductive: whatever is lost,
\* repeated, cancelled or retried, the sequence bits of parent_ack.c and of the
\* headset name the same next PDU in both directions.
THEOREM LinkInvariant == Spec => []LinkInv
BY InitInv, NextKeeps, PTL DEF Spec

\* No control is applied twice or out of order, for any number of PDUs.
THEOREM Ordered == Spec => []KeysInOrder
<1>1. LinkInv => KeysInOrder
  BY DEF LinkInv, RxInv, KeysInOrder
<1> QED
  BY <1>1, LinkInvariant, PTL

\* A control the headset saw acknowledged was dispatched to USB, save for those
\* the fixed poll acknowledged before the link was seeded; of these there is at
\* most one a connection, the PDU its headset began with, and only when that had
\* SN = 1 (NESN of the poll in ull_raw_detached_parent_air_pdu).
THEOREM NothingLost == Spec => []NoPressLost
<1>1. LinkInv => NoPressLost
  BY DEF LinkInv, RxInv, NoPressLost
<1> QED
  BY <1>1, LinkInvariant, PTL

\* The receiver counts an acknowledgement only for an empty PDU that was heard.
THEOREM AcksAreSound == Spec => []AckSound
<1>1. LinkInv => AckSound
  BY DEF LinkInv, RxInv, AckSound
<1> QED
  BY <1>1, LinkInvariant, PTL

\* No frame goes out with sequence bits the automaton has moved past.
THEOREM HeaderCurrent == Spec => []SentHeaderCurrent
<1>1. LinkInv => SentHeaderCurrent
  BY DEF LinkInv, HeaderInv
<1> QED
  BY <1>1, LinkInvariant, PTL
-------------------------------------------------------------------------------
\* What the headset hears is, for the abstract delivery, the start of its next
\* control, the end of the last one, or nothing.
LEMMA HearDelivers == LinkInv /\ HeadsetHear => [Delivery!Next]_Delivery!vars
<1> SUFFICES ASSUME LinkInv, HeadsetHear PROVE [Delivery!Next]_Delivery!vars
  OBVIOUS
<1> DEFINE h == air.header
           fresh == h.present /\ h.sn = headset.nesn
           acked == h.present /\ h.nesn # headset.sn
<1>1. rx' = IF fresh /\ rx.ack.active THEN [rx EXCEPT !.lead = @ + 1] ELSE rx
  BY DEF HeadsetHear
<1>2. PICK kind \in Kinds :
       /\ acked \/ kind = headset.kind
       /\ headset' = [sn   |-> IF acked THEN Flip(headset.sn) ELSE headset.sn,
                      nesn |-> IF fresh THEN Flip(headset.nesn) ELSE headset.nesn,
                      kind |-> kind,
                      msg  |-> IF acked THEN headset.msg + 1 ELSE headset.msg]
  BY DEF HeadsetHear
<1>3. rx \in RxType /\ rx.ack \in Acks /\ h \in Headers /\ headset \in Replies
  BY DEF LinkInv, TypeOK, RxType
<1>4. rx'.ack = rx.ack /\ rx'.last = rx.last /\ rx'.keys = rx.keys
  BY <1>1, <1>3 DEF RxType
<1>5. CASE acked
  <2>1. rx.ack.active => rx.last = headset.msg
    <3>1. rx.ack.active => h = Header(rx.ack)
      BY <1>5 DEF LinkInv, HeaderInv, SentHeaderCurrent
    <3> QED
      BY <1>3, <1>5, <3>1
         DEF LinkInv, RxInv, Header, Replies, Flip, Bit, Headers, Acks
  <2>2. headset'.msg = headset.msg + 1 /\ headset'.kind \in Kinds
    BY <1>2, <1>5
  <2>3. Delivery!Offer
    BY <1>4, <2>1, <2>2 DEF Delivery!Offer, Kinds
  <2> QED
    BY <2>3 DEF Delivery!Next
<1>6. CASE ~acked
  BY <1>2, <1>4, <1>6 DEF Delivery!vars
<1> QED
  BY <1>5, <1>6

\* What the receiver collects is, for the abstract delivery, the consumption of
\* the one offered control, or nothing: a retry never delivers a second time.
LEMMA CollectDelivers == LinkInv /\ Collect => [Delivery!Next]_Delivery!vars
<1> SUFFICES ASSUME LinkInv, Collect PROVE [Delivery!Next]_Delivery!vars
  OBVIOUS
<1>1. headset' = headset /\ air.busy
  BY DEF Collect
<1>2. CASE rx' = rx
  BY <1>1, <1>2 DEF Delivery!vars
<1>3. ASSUME eligible, rx' # rx, NEW i \in DOMAIN air.replies,
             rx' = Handle(rx, air.replies[i], air.header)
      PROVE  [Delivery!Next]_Delivery!vars
  <2>1. /\ rx'.ack.active
        /\ rx'.last <= headset.msg
        /\ rx'.last = headset.msg \/ rx'.last = headset.msg - 1
        /\ \/ rx'.last = rx.last /\ rx'.keys = rx.keys
           \/ /\ rx.last < rx'.last
              /\ rx'.last = headset.msg => air.replies[i].kind = headset.kind
              /\ \/ /\ air.replies[i].kind = "control"
                    /\ rx'.keys = Append(rx.keys, rx'.last)
                 \/ air.replies[i].kind = "empty" /\ rx'.keys = rx.keys
    BY <1>1, <1>3, HandleKeepsRxInv
  <2>2. /\ rx \in RxType /\ rx.last \in 0..MaxMsg /\ headset \in Replies
        /\ headset.msg \in 1..MaxMsg /\ air.replies[i] \in Replies
        /\ air.header \in Headers
    <3>1. /\ rx \in RxType /\ headset \in Replies /\ air.replies \in Seq(Replies)
          /\ air.header \in Headers
      BY DEF LinkInv, TypeOK, RxType
    <3>2. air.replies[i] \in Replies
      BY <3>1, KeysBounded
    <3> QED
      BY <3>1, <3>2 DEF RxType, Replies
  <2>3. rx' \in RxType /\ rx'.last \in 0..MaxMsg
    <3>1. rx' \in RxType
      BY <1>3, <2>2, HandleType
    <3> QED
      BY <3>1 DEF RxType
  <2>4. CASE rx.ack.active
    <3>1. rx.last = headset.msg \/ rx.last = headset.msg - 1
      BY <2>4 DEF LinkInv, RxInv
    <3>2. CASE rx'.last = rx.last /\ rx'.keys = rx.keys
      BY <1>1, <2>1, <2>4, <3>2 DEF Delivery!vars
    <3>3. CASE rx.last < rx'.last
      <4>1. rx.last = headset.msg - 1 /\ rx'.last = headset.msg
        BY <2>1, <2>2, <2>3, <3>1, <3>3
      <4>2. /\ headset.kind \in {"control", "empty"}
            /\ rx'.keys = IF headset.kind = "control"
                          THEN Append(rx.keys, headset.msg) ELSE rx.keys
        <5>1. \/ headset.kind = "control" /\ rx'.keys = Append(rx.keys, headset.msg)
              \/ headset.kind = "empty" /\ rx'.keys = rx.keys
          <6>1. rx'.last # rx.last
            BY <2>2, <2>3, <3>3
          <6> QED
            BY <2>1, <4>1, <6>1
        <5> QED
          BY <5>1
      <4>3. Delivery!Consume
        BY <1>1, <2>1, <2>4, <4>1, <4>2 DEF Delivery!Consume
      <4> QED
        BY <4>3 DEF Delivery!Next
    <3> QED
      BY <2>1, <3>2, <3>3
  <2>5. CASE ~rx.ack.active
    <3>1. rx.last < air.replies[i].msg
      BY <2>5 DEF LinkInv, RxInv
    <3>2. rx.last < rx'.last
      BY <1>3, <2>1, <2>2, <2>5, <3>1
         DEF Handle, Receive, Rejected, Seed, MaySeed
    <3>3. Delivery!Start
      BY <1>1, <2>1, <2>2, <2>3, <2>5, <3>2 DEF Delivery!Start
    <3> QED
      BY <3>3 DEF Delivery!Next
  <2> QED
    BY <2>4, <2>5
<1> QED
  BY <1>2, <1>3, CollectEffect

\* The detached control link implements the abstract delivery: every step of
\* the retrying, losing and caching link is one step of ControlDelivery or none.
THEOREM LinkDelivers == Spec => DeliversControls
<1>1. Init => Delivery!Init
  BY DEF Init, Delivery!Init, Reset, Replies, Kinds
<1>2. LinkInv /\ [Next]_vars => [Delivery!Next]_Delivery!vars
  <2> SUFFICES ASSUME LinkInv, [Next]_vars PROVE [Delivery!Next]_Delivery!vars
    OBVIOUS
  <2>1. CASE Submit \/ Cancelled \/ Retire \/ LoseCopy \/ HeadsetReply
    BY <2>1 DEF Submit, Cancelled, Retire, LoseCopy, HeadsetReply, Delivery!vars
  <2>2. CASE Collect
    BY <2>2, CollectDelivers
  <2>3. CASE HeadsetHear
    BY <2>3, HearDelivers
  <2>4. CASE Reconnect
    <3>1. rx \in RxType
      BY DEF LinkInv, TypeOK, RxType
    <3>2. /\ rx' = [rx EXCEPT !.ack = Reset, !.lead = 0]
          /\ headset' \in Replies /\ headset'.msg = headset.msg + 1
      BY <2>4 DEF Reconnect
    <3>3. rx'.ack = Reset /\ rx'.last = rx.last /\ rx'.keys = rx.keys
      BY <3>1, <3>2 DEF RxType
    <3>4. Delivery!Drop
      BY <3>2, <3>3 DEF Delivery!Drop, Reset, Replies, Kinds
    <3> QED
      BY <3>4 DEF Delivery!Next
  <2>5. CASE UNCHANGED vars
    BY <2>5 DEF vars, Delivery!vars
  <2> QED
    BY <2>1, <2>2, <2>3, <2>4, <2>5 DEF Next
<1> QED
  BY <1>1, <1>2, LinkInvariant, PTL DEF Spec, DeliversControls, Delivery!Spec
==============================================================================
