---------------------------- MODULE Tunnel_proofs ----------------------------
(***************************************************************************)
(* Proofs about Tunnel, for every size of the pool and of a reservation    *)
(* and any number of proposals and connections: no slot of the buffer pool *)
(* is lost or in it twice, and a trial goes on only after the headset      *)
(* received the E2 it waits for.                                           *)
(***************************************************************************)
EXTENDS Tunnel, WellFoundedInduction, TLAPS

\* The pool: every slot is free, the controller's, or part of the reservation
\* that the controller has been handed.
PoolInv ==
    /\ free \in [Slots -> 0..2] /\ rom \subseteq Slots /\ held \subseteq Slots
    /\ handed \in BOOLEAN /\ released \in BOOLEAN
    /\ rom \cap held = {} /\ \A s \in Slots : free[s] = IF s \in rom \cup held THEN 0 ELSE 1
    /\ handed <=> held # {}
    /\ ~conn.up => ~handed

Nodes == [op : {"none", "ping", "e4", "e0", "e2"}, id : 0..MaxE0]
Connections == [up : BOOLEAN, enc : BOOLEAN, ptr : 0..2, gen : 0..MaxConn]
Trials == [state : {"idle", "first", "streaming", "requested", "joining", "joined"},
           first : 0..MaxE0, second : 0..MaxE0]
E0s == [kind : 0..2, id : 0..MaxE0, ptr : 0..2, gen : 0..MaxConn]

\* The types of the rest.
SessionTypes ==
    /\ acked \in BOOLEAN /\ flags \subseteq Flag
    /\ node \in Nodes /\ conn \in Connections
    /\ sent \in E0s /\ committed \in E0s
    /\ age \in [{"e4", "e0", "e2"} -> 0..2]
    /\ reply \subseteq 1..MaxE0 /\ e0s \in 0..MaxE0
    /\ trial \in Trials
    /\ node.op = "e0" => node.id >= 1

-----------------------------------------------------------------------------
(* What the link, its numbers and the trial know of one another.           *)

Heard(id) == \E g \in 1..MaxConn : <<"e2", id, g>> \in got

\* Every E0 has a number of its own, and belongs to one connection; a number
\* that is in use belongs to the connection of now.
NumbersInv ==
    /\ got \subseteq {"e0", "e2"} \X (1..MaxE0) \X (1..MaxConn)
    /\ sent.id <= e0s /\ node.id <= e0s
    /\ node.op \in {"e0", "e2"} <=> node.id >= 1
    /\ conn.up => conn.gen >= 1
    /\ ~conn.up => reply = {} /\ node = Idle /\ ~acked
    /\ \A i \in 1..MaxE0, g \in 1..MaxConn :
           <<"e0", i, g>> \in got => i <= e0s /\ (i = sent.id => g = sent.gen)
    /\ \A i \in reply : <<"e0", i, conn.gen>> \in got
    /\ node.op = "e0" /\ node.id = sent.id => sent.gen = conn.gen

\* The E2 on the link answers an E0 of this connection, and an acknowledged
\* one was heard; a plan is prepared only from the answer to the E0 that was
\* sent, and then no confirmation is left of an earlier E2, nor to come.
AnswerInv ==
    /\ node.op = "e2" => /\ <<"e0", node.id, conn.gen>> \in got
                         /\ acked => <<"e2", node.id, conn.gen>> \in got
    /\ \A i \in 1..MaxE0, g \in 1..MaxConn : <<"e2", i, g>> \in got => <<"e0", i, g>> \in got
    /\ Has("e1") => <<"e0", sent.id, sent.gen>> \in got /\ ~Has("e1_expected")
    /\ Has("e1") \/ Has("e1_expected") => ~Has("e2") /\ node.op # "e2"

\* The trial waits for the E2 it sent itself.
TrialInv ==
    /\ trial.state = "first" =>
           (node.op = "e2" => node.id = trial.first) /\ (Has("e2") => Heard(trial.first))
    /\ trial.state = "joining" =>
           (node.op = "e2" => node.id = trial.second) /\ (Has("e2") => Heard(trial.second))
    /\ trial.state \in {"streaming", "requested", "joining", "joined"} => Heard(trial.first)
    /\ trial.state = "joined" => Heard(trial.second)

TunnelInv == PoolInv /\ SessionTypes /\ NumbersInv /\ AnswerInv /\ TrialInv

-----------------------------------------------------------------------------
LEMMA Bounds ==
  /\ Pool \in Nat /\ Pool > 0 /\ Width \in Nat /\ Width > 0 /\ Width <= Pool
  /\ MaxE0 \in Nat /\ MaxE0 > 0 /\ MaxConn \in Nat /\ MaxConn > 0
BY TunnelAssumption

\* A run of slots and a reservation have a first slot.
LEMMA FirstOf ==
  ASSUME NEW T \in SUBSET Nat, T # {}
  PROVE  Min(T) \in T
<1> DEFINE Less == OpToRel(<, Nat)
<1>1. PICK x \in T : \A y \in T : ~ (<<y, x>> \in Less)
  <2>1. IsWellFoundedOn(Less, Nat)
    BY NatLessThanWellFounded
  <2> HIDE DEF Less
  <2> QED BY <2>1, WFMin
<1>2. \A y \in T : x <= y
  <2>1. Less = {ss \in Nat \X Nat : ss[1] < ss[2]}
    BY Zenon DEF OpToRel
  <2> HIDE DEF Less
  <2>2. ASSUME NEW y \in T, y < x PROVE <<y, x>> \in Less
    BY <2>1, <2>2
  <2>3. \A y \in T : ~(y < x)
    BY <1>1, <2>2
  <2>4. \A y \in T : y \in Nat /\ x \in Nat
    OBVIOUS
  <2> QED BY <2>3, <2>4
<1> QED BY <1>2 DEF Min

\* ull_pool_reserve keeps a run of slots that were all free.
LEMMA FirstRunFree ==
  ASSUME Runs # {}
  PROVE  /\ FirstRun # {} /\ FirstRun \subseteq Slots
         /\ \A s \in FirstRun : free[s] > 0
<1>1. Runs \in SUBSET Nat
  BY Bounds DEF Runs
<1>2. Min(Runs) \in Runs
  BY <1>1, FirstOf
<1> DEFINE w == Min(Runs)
<1>3. w \in 1..(Pool - Width + 1) /\ \A s \in w..(w + Width - 1) : free[s] > 0
  BY <1>2 DEF Runs
<1>4. FirstRun = w..(w + Width - 1)
  BY DEF FirstRun
<1> HIDE DEF w
<1>5. w \in FirstRun /\ FirstRun \subseteq Slots
  BY <1>3, <1>4, Bounds DEF Slots
<1> QED BY <1>3, <1>4, <1>5

-----------------------------------------------------------------------------
\* raw_send: the run becomes the reservation.
LEMMA HandoverKeepsPool ==
  ASSUME PoolInv, ~handed, conn.up, conn' = conn, Runs # {},
         NEW op, NEW id, Handover(op, id, FirstRun)
  PROVE  PoolInv'
<1>1. free' = [s \in Slots |-> IF s \in FirstRun THEN free[s] - 1 ELSE free[s]]
  BY DEF Handover, Taken
<1>2. held' = FirstRun /\ handed' = TRUE /\ released' = FALSE /\ rom' = rom
  BY DEF Handover
<1>3. held = {}
  BY DEF PoolInv
<1>4. \A s \in FirstRun : free[s] = 1 /\ s \notin rom
  BY FirstRunFree DEF PoolInv
<1>5. free' \in [Slots -> 0..2] /\ \A s \in Slots : free'[s] = IF s \in rom' \cup held' THEN 0 ELSE 1
  BY <1>1, <1>2, <1>3, <1>4, FirstRunFree DEF PoolInv
<1>6. rom' \cap held' = {}
  BY <1>2, <1>4
<1>7. held' # {} /\ held' \subseteq Slots
  BY <1>2, FirstRunFree
<1> QED BY <1>2, <1>5, <1>6, <1>7 DEF PoolInv

\* The free hook, for the first slot of the reservation: all of it goes back.
LEMMA FreeReservation ==
  ASSUME PoolInv, handed, Free(Min(held)), rom' = rom
  PROVE  PoolInv'
<1>1. free' = [s \in Slots |-> IF s \in held THEN free[s] + 1 ELSE free[s]]
      /\ held' = {} /\ handed' = FALSE /\ released' = TRUE
  BY DEF Free, Freed, PoolInv
<1>2. free' \in [Slots -> 0..2] /\ \A s \in Slots : free'[s] = IF s \in rom' \cup held' THEN 0 ELSE 1
  BY <1>1 DEF PoolInv
<1> QED BY <1>1, <1>2 DEF PoolInv

\* The free hook for a slot of the controller's own.
LEMMA FreeOther ==
  ASSUME PoolInv, NEW s \in rom, Free(s), rom' = rom \ {s}, conn' = conn
  PROVE  PoolInv'
<1>1. held # {} => s # Min(held)
  <2> SUFFICES ASSUME held # {} PROVE s # Min(held)
    OBVIOUS
  <2>1. held \in SUBSET Nat
    BY Bounds DEF PoolInv, Slots
  <2> QED BY <2>1, FirstOf DEF PoolInv
<1>2. /\ free' = [t \in Slots |-> IF t \in {s} THEN free[t] + 1 ELSE free[t]]
      /\ UNCHANGED <<held, handed, released>>
  BY <1>1 DEF Free, Freed
<1>3. s \in Slots /\ s \notin held
  BY DEF PoolInv
<1>4. free' \in [Slots -> 0..2] /\ \A t \in Slots : free'[t] = IF t \in rom' \cup held' THEN 0 ELSE 1
  BY <1>2, <1>3 DEF PoolInv
<1> QED BY <1>2, <1>4 DEF PoolInv

LEMMA PoolIdle ==
  ASSUME PoolInv, UNCHANGED pool, conn'.up <=> conn.up
  PROVE  PoolInv'
BY DEF PoolInv, pool

-----------------------------------------------------------------------------
\* One step for the pool.
LEMMA PoolSteps ==
  ASSUME PoolInv, SessionTypes, Next
  PROVE  PoolInv'
<1> USE DEF LinkFree, Secure
<1>1. CASE SendFails
  <2>1. free' = free
    <3>1. \A s \in Slots : free[s] \in Nat
      BY DEF PoolInv
    <3> QED BY <1>1, <3>1, FirstRunFree DEF SendFails, Released, Freed, Taken, PoolInv
  <2> QED BY <1>1, <2>1, PoolIdle DEF SendFails, pool
<1>2. CASE SendPing
  BY <1>2, HandoverKeepsPool DEF SendPing
<1>3. CASE SendE4
  BY <1>3, HandoverKeepsPool DEF SendE4
<1>4. CASE ProposeFirst \/ RequestSecond
  BY <1>4, HandoverKeepsPool DEF ProposeFirst, RequestSecond, Propose
<1>5. CASE Start \/ JoinSecond
  BY <1>5, HandoverKeepsPool DEF Start, JoinSecond, Commit
<1>6. CASE FirstConfirmed \/ SecondConfirmed \/ TrialEnds \/ Callback \/ ReceiveE1 \/ Ages \/ ResetSequence
  BY <1>6, PoolIdle DEF FirstConfirmed, SecondConfirmed, TrialEnds, Callback, ReceiveE1, Ages, ResetSequence
<1>7. CASE Acknowledge
  BY <1>7, FreeReservation DEF Acknowledge, PoolInv
<1>8. CASE RomTakes
  <2>1. PICK s \in Slots : free[s] > 0 /\ free' = Taken(free, {s}) /\ rom' = rom \cup {s}
    BY <1>8 DEF RomTakes
  <2>2. UNCHANGED <<held, handed, released, conn>>
    BY <1>8 DEF RomTakes
  <2>3. s \notin rom \cup held
    BY <2>1 DEF PoolInv
  <2>4. free' \in [Slots -> 0..2] /\ \A t \in Slots : free'[t] = IF t \in rom' \cup held' THEN 0 ELSE 1
    BY <2>1, <2>2, <2>3 DEF PoolInv, Taken
  <2> QED BY <2>1, <2>2, <2>3, <2>4 DEF PoolInv
<1>9. CASE RomFrees
  BY <1>9, FreeOther DEF RomFrees
<1>10. CASE Connect \/ Encrypt
  <2>1. UNCHANGED pool /\ (conn.up => conn'.up)
    BY <1>10 DEF Connect, Encrypt, SessionTypes, Connections
  <2> QED BY <2>1 DEF PoolInv, pool
<1>11. CASE Disconnect
  <2>1. CASE handed
    BY <1>11, <2>1, FreeReservation DEF Disconnect
  <2>2. CASE ~handed
    BY <1>11, <2>2 DEF Disconnect, PoolInv
  <2> QED BY <2>1, <2>2
<1> QED BY <1>1, <1>2, <1>3, <1>4, <1>5, <1>6, <1>7, <1>8, <1>9, <1>10, <1>11 DEF Next

\* What the rest of an action may write.
LEMMA Written ==
  /\ NoE0 \in E0s /\ Idle \in Nodes
  /\ \A o \in {"ping", "e4"} : [op |-> o, id |-> 0] \in Nodes
  /\ \A n \in 0..MaxE0 : [op |-> "e2", id |-> n] \in Nodes
  /\ \A n \in 1..MaxE0 : [op |-> "e0", id |-> n] \in Nodes
  /\ \A n \in Nat : n < MaxE0 => n + 1 \in 1..MaxE0 /\ n + 1 \in 0..MaxE0
BY Bounds DEF NoE0, Idle, E0s, Nodes

\* Types are kept by an action whose parts are typed.
LEMMA TypesFrom ==
  ASSUME acked' \in BOOLEAN, flags' \subseteq Flag, node' \in Nodes,
         conn' \in Connections, sent' \in E0s, committed' \in E0s,
         age' \in [{"e4", "e0", "e2"} -> 0..2], reply' \subseteq 1..MaxE0,
         e0s' \in 0..MaxE0, trial' \in Trials, node'.op = "e0" => node'.id >= 1
  PROVE  SessionTypes'
BY DEF SessionTypes

\* FCF4 and the trial's request: an E0 with the next number.
LEMMA ProposeTypes ==
  ASSUME SessionTypes, NEW kind \in {1, 2}, Propose(kind), trial' \in Trials
  PROVE  SessionTypes'
<1> USE DEF Propose, SessionTypes
<1>1. e0s + 1 \in 1..MaxE0 /\ e0s + 1 \in 0..MaxE0 /\ e0s' = e0s + 1
  BY Bounds, Written
<1>2. node' = [op |-> "e0", id |-> e0s + 1] /\ acked' = FALSE
  BY DEF Handover
<1>3. node' \in Nodes /\ node'.id >= 1
  BY <1>1, <1>2, Written
<1>4. sent' = [kind |-> kind, id |-> e0s + 1, ptr |-> conn.ptr, gen |-> conn.gen]
  OBVIOUS
<1>5. conn.ptr \in 0..2 /\ conn.gen \in 0..MaxConn
  BY DEF Connections
<1>6. sent' \in E0s
  BY <1>1, <1>4, <1>5 DEF E0s
<1>7. flags' \subseteq Flag
  BY DEF Flag
<1>8. age' \in [{"e4", "e0", "e2"} -> 0..2] /\ conn' = conn /\ committed' = committed /\ reply' = reply
  OBVIOUS
<1>9. e0s' \in 0..MaxE0 /\ acked' \in BOOLEAN
  BY <1>1, <1>2
<1> QED BY <1>3, <1>6, <1>7, <1>8, <1>9, TypesFrom

\* ull_raw_commit_session: the E2 has the number of its E0.
LEMMA CommitTypes ==
  ASSUME SessionTypes, Commit, trial' \in Trials
  PROVE  SessionTypes'
<1> USE DEF Commit, SessionTypes
<1>1. sent.id \in 0..MaxE0
  BY DEF E0s
<1>2. node' = [op |-> "e2", id |-> sent.id] /\ acked' = FALSE
  BY DEF Handover
<1>3. node' \in Nodes /\ node'.op # "e0"
  BY <1>1, <1>2, Written
<1>4. sent' \in E0s /\ committed' \in E0s
  BY Written
<1>5. flags' \subseteq Flag
  BY DEF Flag
<1>6. age' \in [{"e4", "e0", "e2"} -> 0..2] /\ conn' = conn /\ reply' = reply /\ e0s' = e0s
  OBVIOUS
<1> QED BY <1>2, <1>3, <1>4, <1>5, <1>6, TypesFrom

\* One step for everything else.
LEMMA SessionSteps ==
  ASSUME PoolInv, SessionTypes, Next
  PROVE  SessionTypes'
<1> USE DEF SessionTypes, session, outside
<1>1. CASE SendFails
  BY <1>1 DEF SendFails
<1>2. CASE SendPing
  BY <1>2, Written DEF SendPing, Handover
<1>3. CASE SendE4
  <2>1. node' = [op |-> "e4", id |-> 0] /\ acked' = FALSE /\ sent' = NoE0 /\ committed' = NoE0
    BY <1>3 DEF SendE4, Handover
  <2>2. node' \in Nodes /\ node'.op # "e0" /\ sent' \in E0s /\ committed' \in E0s
    BY <2>1, Written
  <2>3. flags' \subseteq Flag /\ UNCHANGED <<conn, age, reply, trial, e0s>>
    BY <1>3 DEF SendE4
  <2> QED BY <2>1, <2>2, <2>3, TypesFrom
<1>4. CASE ProposeFirst
  BY <1>4, ProposeTypes DEF ProposeFirst
<1>5. CASE RequestSecond
  <2>1. trial' \in Trials
    BY <1>5 DEF RequestSecond, Trials
  <2> QED BY <1>5, <2>1, ProposeTypes DEF RequestSecond
<1>6. CASE Start
  <2>1. trial' \in Trials
    BY <1>6, Bounds DEF Start, Trials, E0s
  <2> QED BY <1>6, <2>1, CommitTypes DEF Start
<1>7. CASE JoinSecond
  <2>1. trial' \in Trials
    BY <1>7 DEF JoinSecond, Trials, E0s
  <2> QED BY <1>7, <2>1, CommitTypes DEF JoinSecond
<1>8. CASE FirstConfirmed \/ SecondConfirmed \/ TrialEnds
  <2>1. trial' \in Trials
    BY <1>8, Bounds DEF FirstConfirmed, SecondConfirmed, TrialEnds, Trials
  <2> QED BY <1>8, <2>1 DEF FirstConfirmed, SecondConfirmed, TrialEnds
<1>9. CASE Acknowledge
  <2>1. reply' \subseteq 1..MaxE0
    <3>1. node.op = "e0" => node.id \in 1..MaxE0
      BY Bounds DEF Nodes
    <3>2. reply' = IF node.op = "e0" THEN reply \cup {node.id} ELSE reply
      BY <1>9 DEF Acknowledge
    <3> QED BY <3>1, <3>2
  <2>2. acked' = TRUE /\ UNCHANGED <<node, conn, flags, sent, committed, age, trial, e0s>>
    BY <1>9 DEF Acknowledge
  <2> QED BY <2>1, <2>2, TypesFrom
<1>10. CASE Callback
  <2>1. acked' = FALSE /\ node' = Idle /\ UNCHANGED <<conn, sent, committed, reply, trial, e0s>>
    BY <1>10 DEF Callback
  <2>2. node' \in Nodes /\ node'.op # "e0"
    BY <2>1, Written DEF Idle
  <2>3. flags' \subseteq Flag
    BY <1>10 DEF Callback, Flag
  <2>4. age' \in [{"e4", "e0", "e2"} -> 0..2]
    BY <1>10 DEF Callback
  <2> QED BY <2>1, <2>2, <2>3, <2>4, TypesFrom
<1>11. CASE ReceiveE1
  BY <1>11 DEF ReceiveE1, Flag
<1>12. CASE RomTakes \/ RomFrees
  BY <1>12 DEF RomTakes, RomFrees
<1>13. CASE Ages
  BY <1>13 DEF Ages
<1>14. CASE Connect \/ Encrypt
  <2>1. conn' \in Connections
    <3>1. CASE Connect
      <4>1. PICK p \in 1..2 : conn' = [up |-> TRUE, enc |-> FALSE, ptr |-> p, gen |-> conn.gen + 1]
        BY <3>1 DEF Connect
      <4>2. conn.gen + 1 \in 0..MaxConn
        BY <3>1, Bounds DEF Connect, Connections
      <4>3. p \in 0..2
        OBVIOUS
      <4> QED BY <4>1, <4>2, <4>3 DEF Connections
    <3>2. CASE Encrypt
      BY <3>2 DEF Encrypt, Connections
    <3> QED BY <1>14, <3>1, <3>2
  <2> QED BY <1>14, <2>1 DEF Connect, Encrypt
<1>15. CASE Disconnect
  <2>1. conn' \in Connections
    <3>1. ASSUME NEW c \in Connections
          PROVE  /\ [c EXCEPT !.up = FALSE] \in Connections
                 /\ [c EXCEPT !.enc = FALSE] \in Connections
                 /\ [c EXCEPT !.ptr = 0] \in Connections
      <4>1. [c EXCEPT !.up = FALSE] \in Connections
        BY DEF Connections
      <4>2. [c EXCEPT !.enc = FALSE] \in Connections
        BY DEF Connections
      <4>3. [c EXCEPT !.ptr = 0] \in Connections
        BY DEF Connections
      <4> QED BY <4>1, <4>2, <4>3
    <3>2. conn' = [[[conn EXCEPT !.up = FALSE] EXCEPT !.enc = FALSE] EXCEPT !.ptr = 0]
      BY <1>15 DEF Disconnect
    <3>3. [[conn EXCEPT !.up = FALSE] EXCEPT !.enc = FALSE] \in Connections
      BY <3>1
    <3> QED BY <3>1, <3>2, <3>3
  <2>2. node' = Idle /\ acked' = FALSE /\ reply' = {} /\ UNCHANGED <<flags, sent, committed, age, trial, e0s>>
    BY <1>15 DEF Disconnect
  <2>3. node' \in Nodes /\ node'.op # "e0"
    BY <2>2, Written DEF Idle
  <2> QED BY <2>1, <2>2, <2>3, TypesFrom
<1>16. CASE ResetSequence
  BY <1>16, Written DEF ResetSequence
<1> QED BY <1>1, <1>2, <1>3, <1>4, <1>5, <1>6, <1>7, <1>8, <1>9, <1>10, <1>11, <1>12, <1>13,
           <1>14, <1>15, <1>16 DEF Next

-----------------------------------------------------------------------------
(* The confirmation of E2.                                                 *)

LEMMA Numbers ==
  ASSUME SessionTypes
  PROVE  /\ sent.id \in 0..MaxE0 /\ sent.gen \in 0..MaxConn /\ e0s \in 0..MaxE0
         /\ node.id \in 0..MaxE0 /\ node.op \in {"none", "ping", "e4", "e0", "e2"}
         /\ conn.gen \in 0..MaxConn /\ conn.up \in BOOLEAN
         /\ reply \subseteq 1..MaxE0 /\ flags \subseteq Flag
BY DEF SessionTypes, Nodes, E0s, Connections

\* What the headset received has numbers.
LEMMA GotNumbers ==
  ASSUME NumbersInv, NEW p, NEW i, NEW g, <<p, i, g>> \in got
  PROVE  i \in 1..MaxE0 /\ g \in 1..MaxConn /\ p \in {"e0", "e2"}
<1>1. <<p, i, g>> \in {"e0", "e2"} \X (1..MaxE0) \X (1..MaxConn)
  BY DEF NumbersInv
<1> QED BY <1>1

\* A step that sends nothing and brings nothing to the headset: the link may fall
\* idle, answers may be taken, and the E0 that was sent be forgotten.
LEMMA NumbersStay ==
  ASSUME SessionTypes, NumbersInv, got' = got, e0s' = e0s, sent' \in {sent, NoE0},
         reply' \subseteq reply, conn'.up = conn.up, conn'.gen = conn.gen,
         UNCHANGED <<node, acked>> \/ (node' = Idle /\ acked' = FALSE)
  PROVE  NumbersInv'
<1>1. 0 <= e0s /\ NoE0.id = 0 /\ Idle.op = "none" /\ Idle.id = 0
  BY Numbers DEF NoE0, Idle
<1>2. sent'.id <= e0s' /\ node'.id <= e0s'
  BY <1>1 DEF NumbersInv
<1>3. node'.op \in {"e0", "e2"} <=> node'.id >= 1
  BY <1>1 DEF NumbersInv
<1>4. conn'.up => conn'.gen >= 1
  BY DEF NumbersInv
<1>5. ~conn'.up => reply' = {} /\ node' = Idle /\ ~acked'
  BY DEF NumbersInv
<1>6. \A i \in 1..MaxE0, g \in 1..MaxConn :
         <<"e0", i, g>> \in got' => i <= e0s' /\ (i = sent'.id => g = sent'.gen)
  BY <1>1 DEF NumbersInv
<1>7. \A i \in reply' : <<"e0", i, conn'.gen>> \in got'
  BY DEF NumbersInv
<1>8. node'.op = "e0" /\ node'.id = sent'.id => sent'.gen = conn'.gen
  BY <1>1, <1>3 DEF NumbersInv
<1>9. got' \subseteq {"e0", "e2"} \X (1..MaxE0) \X (1..MaxConn)
  BY DEF NumbersInv
<1> QED BY <1>2, <1>3, <1>4, <1>5, <1>6, <1>7, <1>8, <1>9 DEF NumbersInv

\* raw_send of anything but an E0.
LEMMA NumbersSend ==
  ASSUME SessionTypes, NumbersInv, NEW op \in {"ping", "e4", "e2"}, NEW id \in 0..MaxE0,
         op = "e2" <=> id >= 1, id <= e0s,
         node' = [op |-> op, id |-> id], acked' = FALSE, conn.up,
         UNCHANGED <<got, e0s, reply, conn>>, sent' \in {sent, NoE0}
  PROVE  NumbersInv'
<1>1. 0 <= e0s /\ NoE0.id = 0 /\ node'.op = op /\ node'.id = id
  BY Numbers DEF NoE0
<1>2. sent'.id <= e0s' /\ node'.id <= e0s'
  BY <1>1 DEF NumbersInv
<1>3. node'.op \in {"e0", "e2"} <=> node'.id >= 1
  BY <1>1
<1>4. conn'.up => conn'.gen >= 1
  BY DEF NumbersInv
<1>5. conn'.up
  OBVIOUS
<1>6. \A i \in 1..MaxE0, g \in 1..MaxConn :
         <<"e0", i, g>> \in got' => i <= e0s' /\ (i = sent'.id => g = sent'.gen)
  BY <1>1 DEF NumbersInv
<1>7. \A i \in reply' : <<"e0", i, conn'.gen>> \in got'
  BY DEF NumbersInv
<1>8. node'.op # "e0"
  BY <1>1
<1>9. got' \subseteq {"e0", "e2"} \X (1..MaxE0) \X (1..MaxConn)
  BY DEF NumbersInv
<1> QED BY <1>2, <1>3, <1>4, <1>5, <1>6, <1>7, <1>8, <1>9 DEF NumbersInv

\* ull_raw_propose: a number nobody has seen.
LEMMA NumbersPropose ==
  ASSUME SessionTypes, NumbersInv, NEW kind \in {1, 2}, Propose(kind)
  PROVE  NumbersInv'
<1>1. /\ conn.up /\ e0s < MaxE0 /\ e0s' = e0s + 1
      /\ node' = [op |-> "e0", id |-> e0s + 1] /\ acked' = FALSE
      /\ sent' = [kind |-> kind, id |-> e0s + 1, ptr |-> conn.ptr, gen |-> conn.gen]
      /\ UNCHANGED <<conn, reply, got>>
  BY DEF Propose, LinkFree, Secure, Handover
<1>2. node'.op = "e0" /\ node'.id = e0s + 1 /\ sent'.id = e0s + 1 /\ sent'.gen = conn.gen
  BY <1>1
<1>3. e0s \in Nat
  BY Numbers, Bounds
<1>4. \A i \in 1..MaxE0, g \in 1..MaxConn :
         <<"e0", i, g>> \in got' => i <= e0s' /\ (i = sent'.id => g = sent'.gen)
  <2> SUFFICES ASSUME NEW i \in 1..MaxE0, NEW g \in 1..MaxConn, <<"e0", i, g>> \in got
               PROVE  i <= e0s' /\ i # sent'.id
    BY <1>1
  <2>1. i <= e0s
    BY DEF NumbersInv
  <2> QED BY <1>1, <1>2, <1>3, <2>1
<1>5. \A i \in reply' : <<"e0", i, conn'.gen>> \in got'
  BY <1>1 DEF NumbersInv
<1>6. conn'.up /\ conn'.gen >= 1 /\ got' \subseteq {"e0", "e2"} \X (1..MaxE0) \X (1..MaxConn)
  BY <1>1 DEF NumbersInv
<1>7. sent'.id <= e0s' /\ node'.id <= e0s' /\ node'.id >= 1 /\ sent'.gen = conn'.gen
  BY <1>1, <1>2, <1>3
<1> QED BY <1>2, <1>4, <1>5, <1>6, <1>7 DEF NumbersInv

\* The headset receives a PDU, and answers an E0.
LEMMA NumbersAcknowledge ==
  ASSUME SessionTypes, NumbersInv, Acknowledge
  PROVE  NumbersInv'
<1>1. conn.up /\ UNCHANGED <<node, conn, sent, e0s>>
  BY DEF Acknowledge, Secure, outside
<1> DEFINE pdu == <<node.op, node.id, conn.gen>>
<1>2. got' = IF node.id = 0 THEN got ELSE got \cup {pdu}
  BY DEF Acknowledge
<1>3. reply' = IF node.op = "e0" THEN reply \cup {node.id} ELSE reply
  BY DEF Acknowledge
<1>4. node.id # 0 => node.id \in 1..MaxE0 /\ node.op \in {"e0", "e2"} /\ conn.gen \in 1..MaxConn
  BY <1>1, Numbers, Bounds DEF NumbersInv
<1>5. got' \subseteq {"e0", "e2"} \X (1..MaxE0) \X (1..MaxConn)
  BY <1>2, <1>4 DEF NumbersInv
<1>6. \A i \in 1..MaxE0, g \in 1..MaxConn :
         <<"e0", i, g>> \in got' => i <= e0s' /\ (i = sent'.id => g = sent'.gen)
  <2> SUFFICES ASSUME NEW i \in 1..MaxE0, NEW g \in 1..MaxConn, <<"e0", i, g>> \in got'
               PROVE  i <= e0s /\ (i = sent.id => g = sent.gen)
    BY <1>1
  <2>1. CASE <<"e0", i, g>> \in got
    BY <2>1 DEF NumbersInv
  <2>2. CASE <<"e0", i, g>> = pdu
    BY <2>2 DEF NumbersInv
  <2> QED BY <1>2, <2>1, <2>2
<1>7. \A i \in reply' : <<"e0", i, conn'.gen>> \in got'
  <2> SUFFICES ASSUME NEW i \in reply' PROVE <<"e0", i, conn.gen>> \in got'
    BY <1>1
  <2>1. CASE i \in reply
    BY <1>2, <2>1 DEF NumbersInv
  <2>2. CASE node.op = "e0" /\ i = node.id
    <3>1. node.id # 0
      BY <2>2, Numbers DEF NumbersInv
    <3> QED BY <1>2, <2>2, <3>1
  <2> QED BY <1>3, <2>1, <2>2
<1>8. /\ sent'.id <= e0s' /\ node'.id <= e0s' /\ conn'.up /\ conn'.gen >= 1
      /\ node'.op \in {"e0", "e2"} <=> node'.id >= 1
      /\ node'.op = "e0" /\ node'.id = sent'.id => sent'.gen = conn'.gen
  BY <1>1 DEF NumbersInv
<1> QED BY <1>5, <1>6, <1>7, <1>8 DEF NumbersInv

\* The connection comes and goes; its end leaves nothing under way.
LEMMA NumbersConnection ==
  ASSUME SessionTypes, NumbersInv, Connect \/ Disconnect
  PROVE  NumbersInv'
<1>1. UNCHANGED <<got, sent, e0s>> /\ node' = Idle /\ acked' = FALSE /\ reply' = {}
  <2>1. CASE Connect
    BY <2>1 DEF Connect, NumbersInv, session, SessionTypes
  <2>2. CASE Disconnect
    BY <2>2 DEF Disconnect, session
  <2> QED BY <2>1, <2>2
<1>2. conn'.up => conn'.gen >= 1
  <2>1. CASE Connect
    <3>1. PICK p \in 1..2 : conn' = [up |-> TRUE, enc |-> FALSE, ptr |-> p, gen |-> conn.gen + 1]
      BY <2>1 DEF Connect
    <3> QED BY <3>1, Numbers, Bounds
  <2>2. CASE Disconnect
    BY <2>2 DEF Disconnect, SessionTypes, Connections
  <2> QED BY <2>1, <2>2
<1>3. node'.op = "none" /\ node'.id = 0 /\ 0 <= e0s /\ ~(0 >= 1)
  BY <1>1, Numbers DEF Idle
<1>4. \A i \in 1..MaxE0, g \in 1..MaxConn :
         <<"e0", i, g>> \in got' => i <= e0s' /\ (i = sent'.id => g = sent'.gen)
  BY <1>1 DEF NumbersInv
<1>5. got' \subseteq {"e0", "e2"} \X (1..MaxE0) \X (1..MaxConn) /\ sent'.id <= e0s'
  BY <1>1 DEF NumbersInv
<1> QED BY <1>1, <1>2, <1>3, <1>4, <1>5 DEF NumbersInv

\* The plan that ull_raw_commit_session is given was answered, on this connection.
LEMMA Prepared ==
  ASSUME SessionTypes, NumbersInv, AnswerInv, PlanValid
  PROVE  /\ <<"e0", sent.id, conn.gen>> \in got /\ sent.id \in 1..MaxE0 /\ conn.up
         /\ ~Has("e1_expected") /\ ~Has("e2")
<1>1. <<"e0", sent.id, conn.gen>> \in got
  BY DEF PlanValid, SamePlan, AnswerInv
<1> QED BY <1>1, GotNumbers DEF PlanValid, Secure, AnswerInv

LEMMA NumbersSteps ==
  ASSUME SessionTypes, NumbersInv, AnswerInv, Next
  PROVE  NumbersInv'
<1> USE DEF session, outside
<1>1. CASE SendFails \/ FirstConfirmed \/ SecondConfirmed \/ TrialEnds \/ RomTakes \/ RomFrees \/ Ages
  BY <1>1, NumbersStay DEF SendFails, FirstConfirmed, SecondConfirmed, TrialEnds, RomTakes, RomFrees, Ages
<1>2. CASE Callback \/ ReceiveE1 \/ ResetSequence
  BY <1>2, NumbersStay DEF Callback, ReceiveE1, ResetSequence
<1>3. CASE Encrypt
  <2>1. conn'.up = conn.up /\ conn'.gen = conn.gen
    BY <1>3 DEF Encrypt, SessionTypes, Connections
  <2> QED BY <1>3, <2>1, NumbersStay DEF Encrypt
<1>4. CASE SendPing \/ SendE4
  <2>1. PICK op \in {"ping", "e4"} : node' = [op |-> op, id |-> 0]
    BY <1>4 DEF SendPing, SendE4, Handover
  <2>2. acked' = FALSE /\ conn.up /\ UNCHANGED <<got, e0s, reply, conn>> /\ sent' \in {sent, NoE0}
    BY <1>4 DEF SendPing, SendE4, Handover, LinkFree, Secure
  <2>3. 0 <= e0s /\ 0 \in 0..MaxE0 /\ ~(0 >= 1)
    BY Numbers, Bounds
  <2> QED BY <2>1, <2>2, <2>3, NumbersSend
<1>5. CASE Start \/ JoinSecond
  <2>1. Commit
    BY <1>5 DEF Start, JoinSecond
  <2>2. node' = [op |-> "e2", id |-> sent.id] /\ acked' = FALSE
    BY <2>1 DEF Commit, Handover
  <2>3. UNCHANGED <<got, e0s, reply, conn>> /\ sent' = NoE0 /\ PlanValid
    BY <2>1 DEF Commit
  <2>4. sent.id \in 0..MaxE0 /\ sent.id >= 1 /\ sent.id <= e0s /\ conn.up
    BY <2>3, Prepared, Numbers, Bounds DEF NumbersInv
  <2> QED BY <2>2, <2>3, <2>4, NumbersSend
<1>6. CASE ProposeFirst \/ RequestSecond
  BY <1>6, NumbersPropose DEF ProposeFirst, RequestSecond
<1> QED BY <1>1, <1>2, <1>3, <1>4, <1>5, <1>6, NumbersAcknowledge, NumbersConnection DEF Next

\* AnswerInv of a step that sends no E2: the flags of the answer are cleared or
\* kept with the E0 they are about.
LEMMA AnswerStay ==
  ASSUME AnswerInv, got' = got,
         flags' \cap {"e1", "e1_expected"} = {} \/ (flags' = flags /\ sent' = sent),
         (UNCHANGED <<node, acked>> /\ conn'.gen = conn.gen) \/ node'.op \notin {"e0", "e2"}
  PROVE  AnswerInv'
<1>1. node'.op = "e2" => /\ <<"e0", node'.id, conn'.gen>> \in got'
                         /\ acked' => <<"e2", node'.id, conn'.gen>> \in got'
  BY DEF AnswerInv
<1>2. \A i \in 1..MaxE0, g \in 1..MaxConn : <<"e2", i, g>> \in got' => <<"e0", i, g>> \in got'
  BY DEF AnswerInv
<1>3. Has("e1")' => <<"e0", sent'.id, sent'.gen>> \in got' /\ ~Has("e1_expected")'
  BY DEF AnswerInv, Has
<1>4. Has("e1")' \/ Has("e1_expected")' => ~Has("e2")' /\ node'.op # "e2"
  BY DEF AnswerInv, Has
<1> QED BY <1>1, <1>2, <1>3, <1>4 DEF AnswerInv

LEMMA AnswerPropose ==
  ASSUME AnswerInv, NEW kind \in {1, 2}, Propose(kind)
  PROVE  AnswerInv'
<1>1. node'.op = "e0" /\ got' = got
  BY DEF Propose, Handover
<1>2. "e1" \notin flags' /\ "e2" \notin flags'
  BY DEF Propose
<1>3. \A i \in 1..MaxE0, g \in 1..MaxConn : <<"e2", i, g>> \in got' => <<"e0", i, g>> \in got'
  BY <1>1 DEF AnswerInv
<1> QED BY <1>1, <1>2, <1>3 DEF AnswerInv, Has

LEMMA AnswerCommit ==
  ASSUME SessionTypes, NumbersInv, AnswerInv, Commit
  PROVE  AnswerInv' /\ ~Has("e2")'
<1>1. node' = [op |-> "e2", id |-> sent.id] /\ acked' = FALSE /\ got' = got /\ conn' = conn
  BY DEF Commit, Handover
<1>2. <<"e0", sent.id, conn.gen>> \in got /\ ~Has("e1_expected") /\ ~Has("e2")
  BY Prepared DEF Commit
<1>3. "e1" \notin flags' /\ "e1_expected" \notin flags' /\ "e2" \notin flags'
  BY <1>2 DEF Commit, Has
<1>4. \A i \in 1..MaxE0, g \in 1..MaxConn : <<"e2", i, g>> \in got' => <<"e0", i, g>> \in got'
  BY <1>1 DEF AnswerInv
<1>5. <<"e0", node'.id, conn'.gen>> \in got' /\ ~acked'
  BY <1>1, <1>2
<1> QED BY <1>3, <1>4, <1>5 DEF AnswerInv, Has

\* An E2 that the headset receives answers an E0 it received.
LEMMA AnswerAcknowledge ==
  ASSUME SessionTypes, NumbersInv, AnswerInv, Acknowledge
  PROVE  AnswerInv'
<1>1. UNCHANGED <<node, conn, sent, flags>>
  BY DEF Acknowledge, outside
<1> DEFINE pdu == <<node.op, node.id, conn.gen>>
<1>2. got' = IF node.id = 0 THEN got ELSE got \cup {pdu}
  BY DEF Acknowledge
<1>3. got \subseteq got'
  BY <1>2
<1>4. node'.op = "e2" => /\ <<"e0", node'.id, conn'.gen>> \in got'
                         /\ <<"e2", node'.id, conn'.gen>> \in got'
  <2> SUFFICES ASSUME node.op = "e2" PROVE <<"e0", node.id, conn.gen>> \in got' /\ pdu \in got'
    BY <1>1
  <2>1. <<"e0", node.id, conn.gen>> \in got
    BY DEF AnswerInv
  <2>2. node.id # 0
    BY <2>1, GotNumbers, Bounds
  <2> QED BY <1>2, <1>3, <2>1, <2>2
<1>5. \A i \in 1..MaxE0, g \in 1..MaxConn : <<"e2", i, g>> \in got' => <<"e0", i, g>> \in got'
  <2> SUFFICES ASSUME NEW i \in 1..MaxE0, NEW g \in 1..MaxConn, <<"e2", i, g>> \in got'
               PROVE  <<"e0", i, g>> \in got'
    OBVIOUS
  <2>1. CASE <<"e2", i, g>> \in got
    BY <1>3, <2>1 DEF AnswerInv
  <2>2. CASE <<"e2", i, g>> = pdu
    BY <1>1, <1>4, <2>2
  <2> QED BY <1>2, <2>1, <2>2
<1>6. Has("e1")' => <<"e0", sent'.id, sent'.gen>> \in got' /\ ~Has("e1_expected")'
  BY <1>1, <1>3 DEF AnswerInv, Has
<1>7. Has("e1")' \/ Has("e1_expected")' => ~Has("e2")' /\ node'.op # "e2"
  BY <1>1 DEF AnswerInv, Has
<1> QED BY <1>4, <1>5, <1>6, <1>7 DEF AnswerInv

\* ull_raw_receive_e1 takes the answer to the E0 that was sent, on its connection.
LEMMA AnswerReceive ==
  ASSUME SessionTypes, NumbersInv, AnswerInv, ReceiveE1
  PROVE  AnswerInv'
<1>1. PICK id \in reply :
        IF Has("e1_expected") /\ age["e0"] < 2 /\ id = sent.id
        THEN flags' = (flags \ {"e1_expected"}) \cup {"e1"} ELSE UNCHANGED flags
  BY DEF ReceiveE1
<1>2. UNCHANGED <<got, node, acked, conn, sent>>
  BY DEF ReceiveE1
<1>3. CASE UNCHANGED flags
  BY <1>2, <1>3, AnswerStay
<1>4. CASE Has("e1_expected") /\ id = sent.id /\ flags' = (flags \ {"e1_expected"}) \cup {"e1"}
  <2>1. <<"e0", sent.id, conn.gen>> \in got
    BY <1>4 DEF NumbersInv
  <2>2. sent.gen = conn.gen
    BY <2>1, GotNumbers DEF NumbersInv
  <2>3. "e1_expected" \notin flags' /\ "e2" \notin flags' /\ node'.op # "e2"
    BY <1>2, <1>4 DEF AnswerInv, Has
  <2>4. <<"e0", sent'.id, sent'.gen>> \in got'
    BY <1>2, <2>1, <2>2
  <2>5. \A i \in 1..MaxE0, g \in 1..MaxConn : <<"e2", i, g>> \in got' => <<"e0", i, g>> \in got'
    BY <1>2 DEF AnswerInv
  <2> QED BY <2>3, <2>4, <2>5 DEF AnswerInv, Has
<1> QED BY <1>1, <1>3, <1>4

LEMMA AnswerSteps ==
  ASSUME SessionTypes, NumbersInv, AnswerInv, Next
  PROVE  AnswerInv'
<1> USE DEF session, outside
<1>1. CASE SendFails \/ FirstConfirmed \/ SecondConfirmed \/ TrialEnds \/ RomTakes \/ RomFrees \/ Ages
  BY <1>1, AnswerStay DEF SendFails, FirstConfirmed, SecondConfirmed, TrialEnds, RomTakes, RomFrees, Ages
<1>2. CASE ResetSequence
  BY <1>2, AnswerStay DEF ResetSequence
<1>3. CASE Encrypt
  <2>1. conn'.gen = conn.gen
    BY <1>3 DEF Encrypt, SessionTypes, Connections
  <2> QED BY <1>3, <2>1, AnswerStay DEF Encrypt
<1>4. CASE SendPing \/ SendE4
  <2>1. node'.op \notin {"e0", "e2"} /\ got' = got
    BY <1>4 DEF SendPing, SendE4, Handover
  <2>2. flags' \cap {"e1", "e1_expected"} = {} \/ (flags' = flags /\ sent' = sent)
    BY <1>4 DEF SendPing, SendE4
  <2> QED BY <2>1, <2>2, AnswerStay
<1>5. CASE Start \/ JoinSecond
  BY <1>5, AnswerCommit DEF Start, JoinSecond
<1>6. CASE ProposeFirst \/ RequestSecond
  BY <1>6, AnswerPropose DEF ProposeFirst, RequestSecond
<1>7. CASE Callback
  <2>1. node'.op = "none" /\ got' = got /\ sent' = sent
    BY <1>7 DEF Callback, Idle
  <2>2. CASE flags' = flags
    BY <2>1, <2>2, AnswerStay
  <2>3. CASE node.op \in {"e4", "e2"} /\ flags' = flags \cup {node.op}
    <3>1. Has("e1")' => Has("e1") /\ <<"e0", sent'.id, sent'.gen>> \in got' /\ ~Has("e1_expected")'
      BY <2>1, <2>3 DEF AnswerInv, Has
    <3>2. Has("e1")' \/ Has("e1_expected")' => ~Has("e2")'
      BY <2>3 DEF AnswerInv, Has
    <3>3. \A i \in 1..MaxE0, g \in 1..MaxConn : <<"e2", i, g>> \in got' => <<"e0", i, g>> \in got'
      BY <2>1 DEF AnswerInv
    <3> QED BY <2>1, <3>1, <3>2, <3>3 DEF AnswerInv
  <2> QED BY <1>7, <2>2, <2>3 DEF Callback
<1>8. CASE Connect \/ Disconnect
  <2>1. node' = Idle /\ UNCHANGED <<got, flags, sent>>
    BY <1>8 DEF Connect, Disconnect, NumbersInv, SessionTypes
  <2>2. node'.op = "none"
    BY <2>1 DEF Idle
  <2> QED BY <2>1, <2>2, AnswerStay
<1> QED BY <1>1, <1>2, <1>3, <1>4, <1>5, <1>6, <1>7, <1>8, AnswerAcknowledge, AnswerReceive DEF Next

\* TrialInv of a step of somebody else that sends and confirms no E2.
LEMMA TrialStay ==
  ASSUME TrialInv, trial' = trial, got \subseteq got',
         node' = node \/ node'.op # "e2", Has("e2")' => Has("e2")
  PROVE  TrialInv'
BY DEF TrialInv, Heard

\* acknowledged: the E2 that is confirmed is the one on the link.
LEMMA TrialCallback ==
  ASSUME SessionTypes, NumbersInv, AnswerInv, TrialInv, Callback
  PROVE  TrialInv'
<1>1. acked /\ trial' = trial /\ got' = got /\ node'.op # "e2"
  BY DEF Callback, Idle
<1>2. Has("e2")' => Has("e2") \/ node.op = "e2"
  BY DEF Callback, Has
<1>3. node.op = "e2" => Heard(node.id)
  <2> SUFFICES ASSUME node.op = "e2" PROVE Heard(node.id)
    OBVIOUS
  <2>1. <<"e2", node.id, conn.gen>> \in got
    BY <1>1 DEF AnswerInv
  <2> QED BY <2>1, GotNumbers DEF Heard
<1>4. trial.state = "first" => (Has("e2")' => Heard(trial.first)')
  BY <1>1, <1>2, <1>3 DEF TrialInv, Heard
<1>5. trial.state = "joining" => (Has("e2")' => Heard(trial.second)')
  BY <1>1, <1>2, <1>3 DEF TrialInv, Heard
<1>6. /\ trial.state \in {"streaming", "requested", "joining", "joined"} => Heard(trial.first)'
      /\ trial.state = "joined" => Heard(trial.second)'
  BY <1>1 DEF TrialInv, Heard
<1> QED BY <1>1, <1>4, <1>5, <1>6 DEF TrialInv

LEMMA TrialSteps ==
  ASSUME SessionTypes, NumbersInv, AnswerInv, TrialInv, Next
  PROVE  TrialInv'
<1> USE DEF session, outside
<1>1. CASE SendFails \/ RomTakes \/ RomFrees \/ Ages \/ Connect \/ Encrypt
  BY <1>1, TrialStay DEF SendFails, RomTakes, RomFrees, Ages, Connect, Encrypt, Has
<1>2. CASE SendPing \/ SendE4
  <2>1. node'.op # "e2" /\ trial' = trial /\ got' = got
    BY <1>2 DEF SendPing, SendE4, Handover
  <2>2. Has("e2")' => Has("e2")
    BY <1>2 DEF SendPing, SendE4, Has
  <2> QED BY <2>1, <2>2, TrialStay
<1>3. CASE ProposeFirst
  <2>1. node'.op # "e2" /\ trial' = trial /\ got' = got
    BY <1>3 DEF ProposeFirst, Propose, Handover
  <2>2. Has("e2")' => Has("e2")
    BY <1>3 DEF ProposeFirst, Propose, Has
  <2> QED BY <2>1, <2>2, TrialStay
<1>4. CASE Disconnect \/ ResetSequence \/ ReceiveE1
  <2>1. (node' = node \/ node'.op # "e2") /\ trial' = trial /\ got' = got
    BY <1>4 DEF Disconnect, ResetSequence, ReceiveE1, Idle
  <2>2. Has("e2")' => Has("e2")
    BY <1>4 DEF Disconnect, ResetSequence, ReceiveE1, Has
  <2> QED BY <2>1, <2>2, TrialStay
<1>5. CASE Acknowledge
  <2>1. node' = node /\ trial' = trial /\ flags' = flags /\ got \subseteq got'
    BY <1>5 DEF Acknowledge
  <2> QED BY <2>1, TrialStay DEF Has
<1>6. CASE Start
  <2>1. trial' = [state |-> "first", first |-> sent.id, second |-> 0] /\ Commit
    BY <1>6 DEF Start
  <2>2. node'.id = sent.id /\ ~Has("e2")'
    BY <2>1, AnswerCommit DEF Commit, Handover
  <2> QED BY <2>1, <2>2 DEF TrialInv
<1>7. CASE FirstConfirmed \/ RequestSecond
  <2>1. PICK s \in {"streaming", "requested"} : trial' = [trial EXCEPT !.state = s]
    BY <1>7 DEF FirstConfirmed, RequestSecond
  <2>2. trial'.state = s /\ trial'.first = trial.first
    BY <2>1 DEF SessionTypes, Trials
  <2>3. Heard(trial.first) /\ got' = got
    BY <1>7 DEF FirstConfirmed, RequestSecond, Propose, TrialInv
  <2> QED BY <2>2, <2>3 DEF TrialInv, Heard
<1>8. CASE JoinSecond
  <2>1. trial' = [trial EXCEPT !.state = "joining", !.second = sent.id] /\ Commit /\ trial.state = "requested"
    BY <1>8 DEF JoinSecond
  <2>2. trial'.state = "joining" /\ trial'.first = trial.first /\ trial'.second = sent.id
    BY <2>1 DEF SessionTypes, Trials
  <2>3. node'.id = sent.id /\ ~Has("e2")'
    BY <2>1, AnswerCommit DEF Commit, Handover
  <2>4. Heard(trial.first) /\ got' = got
    BY <2>1 DEF Commit, TrialInv
  <2> QED BY <2>2, <2>3, <2>4 DEF TrialInv, Heard
<1>9. CASE SecondConfirmed
  <2>1. trial' = [trial EXCEPT !.state = "joined"] /\ got' = got
    BY <1>9 DEF SecondConfirmed
  <2>2. trial'.state = "joined" /\ trial'.first = trial.first /\ trial'.second = trial.second
    BY <2>1 DEF SessionTypes, Trials
  <2>3. Heard(trial.first) /\ Heard(trial.second)
    BY <1>9 DEF SecondConfirmed, TrialInv
  <2> QED BY <2>1, <2>2, <2>3 DEF TrialInv, Heard
<1>10. CASE TrialEnds
  BY <1>10 DEF TrialEnds, TrialInv
<1> QED BY <1>1, <1>2, <1>3, <1>4, <1>5, <1>6, <1>7, <1>8, <1>9, <1>10, TrialCallback DEF Next

-----------------------------------------------------------------------------
\* The pool is whole and nothing is sent before the first connection.
LEMMA PoolStarts ==
  ASSUME Init
  PROVE  PoolInv /\ SessionTypes
<1>1. PoolInv
  <2>1. rom = {} /\ held = {} /\ handed = FALSE /\ released = FALSE /\ free = [s \in Slots |-> 1]
    BY DEF Init
  <2>2. free \in [Slots -> 0..2] /\ \A s \in Slots : free[s] = 1
    BY <2>1
  <2>3. (handed <=> held # {}) /\ ~handed /\ handed \in BOOLEAN /\ released \in BOOLEAN
    BY <2>1
  <2>4. rom \subseteq Slots /\ held \subseteq Slots /\ rom \cap held = {} /\ rom \cup held = {}
    BY <2>1
  <2> QED BY <2>2, <2>3, <2>4 DEF PoolInv
<1>2. SessionTypes
  <2>1. node \in Nodes /\ node.op # "e0" /\ sent \in E0s /\ committed \in E0s
    BY Written DEF Init, Idle
  <2>2. conn \in Connections /\ trial \in Trials /\ e0s \in 0..MaxE0
    BY Bounds DEF Init, Connections, Trials
  <2>3. acked = FALSE /\ flags = {} /\ reply = {} /\ age = [t \in {"e4", "e0", "e2"} |-> 2]
    BY DEF Init
  <2>4. acked \in BOOLEAN /\ flags \subseteq Flag /\ reply \subseteq 1..MaxE0
    BY <2>3
  <2>5. age \in [{"e4", "e0", "e2"} -> 0..2]
    BY <2>3
  <2> QED BY <2>1, <2>2, <2>4, <2>5 DEF SessionTypes
<1> QED BY <1>1, <1>2

\* The invariant of the tunnel, for any pool and any number of proposals and
\* connections (raw_llcp.c, llcp_pool.c).
THEOREM TunnelKept == Spec => []TunnelInv
<1>1. Init => TunnelInv
  <2> SUFFICES ASSUME Init PROVE TunnelInv
    OBVIOUS
  <2>1. node.op = "none" /\ node.id = 0 /\ acked = FALSE /\ sent.id = 0 /\ e0s = 0
    BY DEF Init, Idle, NoE0
  <2>2. got = {} /\ reply = {} /\ flags = {} /\ conn.up = FALSE /\ trial.state = "idle" /\ node = Idle
    BY DEF Init
  <2>3. NumbersInv
    BY <2>1, <2>2 DEF NumbersInv
  <2>4. AnswerInv /\ TrialInv
    BY <2>1, <2>2 DEF AnswerInv, TrialInv, Has
  <2> QED BY <2>3, <2>4, PoolStarts DEF TunnelInv
<1>2. TunnelInv /\ [Next]_vars => TunnelInv'
  <2> SUFFICES ASSUME TunnelInv, [Next]_vars PROVE TunnelInv'
    OBVIOUS
  <2>1. CASE UNCHANGED vars
    BY <2>1 DEF vars, pool, session, TunnelInv, PoolInv, SessionTypes, NumbersInv, AnswerInv,
                TrialInv, Has, Heard
  <2>2. CASE Next
    BY <2>2, PoolSteps, SessionSteps, NumbersSteps, AnswerSteps, TrialSteps DEF TunnelInv
  <2> QED BY <2>1, <2>2
<1> QED BY <1>1, <1>2, PTL DEF Spec

\* llcp_pool.c: whichever way a PDU ends, its slots go back once, for every size
\* of the pool.
THEOREM PoolConserved == Spec => []SlotsConserved
<1>1. TunnelInv => SlotsConserved
  <2> SUFFICES ASSUME PoolInv, SessionTypes PROVE SlotsConserved
    BY DEF TunnelInv
  <2>1. TypeOK
    BY DEF PoolInv, SessionTypes, TypeOK, E0s, Nodes, Connections, Trials
  <2> QED BY <2>1 DEF PoolInv, SlotsConserved
<1> QED BY <1>1, TunnelKept, PTL

\* tone_trial.c goes on from the first stream to the second, and to playing both,
\* only after the headset received the E2 it sent for each; and ull_raw_commit_session
\* sends E2 only to the connection whose E0 it answers.
THEOREM StagesAreConfirmed == Spec => []Confirmed
<1>1. TunnelInv => Confirmed
  BY DEF TunnelInv, TrialInv, AnswerInv, Heard, Confirmed
<1> QED BY <1>1, TunnelKept, PTL
=============================================================================
