--------------------------- MODULE Keeper_proofs ---------------------------
(***************************************************************************)
(* Proofs about Keeper: a manual session is alone with the board, whoever  *)
(* streams was verified, and the keeper knows of every stream it started,  *)
(* for any number of commands, events and attempts; and, with at most two  *)
(* commands behind and a queue of five events or more, no session works    *)
(* with news of another one or with a hole in its history.                 *)
(***************************************************************************)
EXTENDS Keeper, SequenceTheorems, TLAPS

\* Where the console and the keeper may be in what they do to the flags: a console
\* that saw the keeper idle meets it only outside of its session.
GateInv ==
    /\ pauseRequested <=> con \in {"pausing", "idle_seen", "manual"}
    /\ enabled <=> con \notin {"manual", "resuming"}
    /\ pc \notin {"gate", "claim"} => busy
    /\ con \in {"idle_seen", "manual"} => pc \in Outside

\* Only E4 and E0 are told to try again.
AnswersInv ==
    /\ pc = "again" => op \in {"e4", "e0"}
    /\ \A i \in DOMAIN events : events[i].kind = "done" =>
           events[i].res \in {"ok", "no"} \/ (events[i].res = "again" /\ events[i].op \in {"e4", "e0"})

DueInv == "done" \notin due

\* What the keeper's place says of the startup and of the peer's flags.
StartupInv ==
    /\ Has("holding") => {"verified", "idle"} \subseteq peer
    /\ step >= 1 => Has("holding")
    /\ step >= 2 => Has("room")
    /\ step >= 3 => Has("acked")
    /\ pc \in Waiting =>
          /\ op \in {"verify", "prepare", "length", "e4", "e0", "play"} =>
                 Has(<<"holding", "room", "acked", "air">>[step + 1])
          /\ op \in {"prepare", "length"} => step = 0
          /\ op = "e4" => step = 1
          /\ op = "e0" => step = 2
          /\ op = "verify" => step \in {0, 3}
          /\ op = "play" => step = 3 /\ Has("attempted")
    /\ Has("started") => {"holding", "acked", "air", "attempted"} \subseteq peer

In(c) == \E i \in DOMAIN inbox : inbox[i] = c
Quiet == ~pump /\ trial # "running" /\ ~In("play")
IsDone(e, o) == e.kind = "done" /\ e.op = o

\* One cancel at a time, behind every start; a cancel that is not answered
\* restarts the board.
CancelInv ==
    /\ \A i \in DOMAIN inbox : inbox[i] = "cancel" => i = Len(inbox)
    /\ In("cancel") => (op = "cancel" /\ pc \in {"wait", "no"}) \/ pc = "restart"
    /\ \A i \in DOMAIN events : IsDone(events[i], "cancel") =>
           /\ (op = "cancel" /\ pc \in {"wait", "no"}) \/ pc = "restart"
           /\ ~In("cancel")
           /\ \A j \in DOMAIN events : IsDone(events[j], "cancel") => i = j
    /\ op = "cancel" /\ pc \in {"wait", "ok"} => In("cancel") \/ ~In("play")

\* A stream, or a command that starts one, belongs to a session that knows it has
\* to stop it.
QuietInv ==
    /\ ~Quiet => /\ Has("attempted")
                 /\ op \notin {"reset", "setup", "connect", "rearm"}
                 /\ pc \in (Session \ {"park"}) \cup Waiting \cup {"restart"}
    /\ parked => (op = "rearm" /\ pc \in {"wait", "ok", "no"}) \/ pc = "restart"

KeeperKeeps == TypeOK /\ GateInv /\ DueInv /\ AnswersInv /\ StartupInv /\ CancelInv /\ QuietInv

\* The session that the reset opened.
InSession ==
    \/ pc \in Session \cup {"restart"}
    \/ pc \in Waiting /\ op # "reset"
    \/ pc = "ok" /\ op = "reset"

Opening == {"reset", "setup"}
Silent == ~up /\ due = {} /\ \A i \in DOMAIN inbox : inbox[i] \in Opening

\* Behind a reset only what opens a session is queued.
ResetsFirst ==
    \A i, j \in DOMAIN inbox : i < j /\ inbox[i] = "reset" => inbox[j] \in Opening

\* News of an earlier session end with the completion of a reset, also when the
\* reset of this session is still to come.
ResetsEnd ==
    \A i \in DOMAIN events : IsDone(events[i], "reset") =>
        /\ ResetPending \/ pc = "send" =>
               Silent /\ \A j \in DOMAIN events : i < j => events[j].kind = "done"
        /\ \A j \in DOMAIN events : i < j /\ events[j].old => events[j].kind = "done"

\* A session sees no old news; while its reset is still to come it sees none at all, and
\* gets no further than the setup.
NoOldNews ==
    /\ \A i \in DOMAIN events : events[i].old => events[i].kind = "done"
    /\ ResetPending =>
           /\ Silent /\ pc \in Waiting
           /\ op \in Opening \/ (op = "connect" /\ pc = "no")
           /\ \A i \in DOMAIN events : events[i].kind = "done"
           /\ op = "setup" /\ pc \in {"wait", "ok"} =>
                  Len(inbox) = 2 /\ inbox[1] = "reset" /\ inbox[2] = "setup"

OldInv == ResetsFirst /\ ResetsEnd /\ (InSession => NoOldNews)

\* How many events the keeper may still take in this session once one was lost: where it
\* is, and after which command.
AfterAnswer(o) ==
    CASE o = "encrypt" -> 4
      [] o \in {"reset", "verify"} -> 3
      [] o \in {"setup", "prepare"} -> 2
      [] o = "rearm" -> 0
      [] OTHER -> 1
Stopped == events # <<>> /\ IsDone(events[1], "cancel")
Need(p, o) ==
    CASE p = "wait" -> IF o = "cancel" /\ ~Stopped THEN 1 ELSE AfterAnswer(o) + 1
      [] p \in {"ok", "again"} \/ (p = "no" /\ o # "cancel") -> AfterAnswer(o)
      [] p = "act" -> 5
      [] p \in {"acl_setup", "startup"} -> 4
      [] p \in {"loop", "limit", "stop", "park"} -> 1
      [] OTHER -> 0
ToTake == Need(pc, op)
Good(n) == Len(events) >= n /\ \A i \in 1..n : events[i].gap => events[i].old

\* Enough of what came before the loss is left to take.
GapInv ==
    /\ missed => lost /\ Good(ToTake)
    /\ ~missed => \A i \in DOMAIN events : events[i].gap => events[i].old

-----------------------------------------------------------------------------
(* What the parts of a step do.                                            *)

EventSet == [kind : Kinds, op : Commands, res : Waiting, old : BOOLEAN, gap : BOOLEAN]

LEMMA Typed ==
  ASSUME TypeOK
  PROVE  /\ con \in {"on", "pausing", "idle_seen", "manual", "resuming"}
         /\ enabled \in BOOLEAN /\ busy \in BOOLEAN /\ pauseRequested \in BOOLEAN
         /\ parked \in BOOLEAN /\ lost \in BOOLEAN /\ missed \in BOOLEAN
         /\ up \in BOOLEAN /\ pump \in BOOLEAN
         /\ pc \in Outside \cup Session \cup Waiting \cup {"flush", "send", "leave", "restart"}
         /\ op \in Commands /\ peer \subseteq Flags /\ step \in 0..3 /\ tries \in 0..MaxTries
         /\ events \in Seq(EventSet) /\ inbox \in Seq(Commands)
         /\ Len(inbox) <= MaxInbox /\ Len(events) <= Cap
         /\ Len(inbox) \in Nat /\ Len(events) \in Nat
         /\ DOMAIN inbox = 1..Len(inbox) /\ DOMAIN events = 1..Len(events)
         /\ due \subseteq Kinds /\ trial \in {"idle", "running", "ended", "fault"}
         /\ taken \subseteq {"old", "gap"} /\ odd \in 0..MaxOdd
         /\ Cap \in Nat \ {0} /\ MaxInbox \in Nat \ {0} /\ MaxTries \in Nat \ {0} /\ MaxOdd \in Nat
BY KeeperAssumption DEF TypeOK, EventSet

\* process: only the handle and the encryption are ever taken back, and the headset
\* holds only after the exchange before it.
LEMMA ProcessedFlags ==
  ASSUME NEW p \in SUBSET Flags, NEW kind \in Kinds
  PROVE  /\ Processed(p, kind) \subseteq Flags
         /\ p \ {"handle", "encrypted"} \subseteq Processed(p, kind)
         /\ "started" \in Processed(p, kind) => "started" \in p
         /\ "attempted" \in Processed(p, kind) => "attempted" \in p
         /\ "holding" \in Processed(p, kind) => "holding" \in p \/ {"verified", "idle"} \subseteq p
BY DEF Processed, Flags, Kinds, Acl

LEMMA AnswersKinds ==
  ASSUME NEW p, NEW q
  PROVE  Answers(p, q) \subseteq {"config", "idle", "hold"} /\ (~up => Answers(p, q) = {})
BY DEF Answers

LEMMA KindsAre ==
  /\ Kinds = {"config", "mismatch", "idle", "hold", "done", "conn", "refused", "disc", "enc",
              "encfail", "room", "acked", "nack", "air", "pumpfail"}
BY DEF Kinds, Acl

\* Processing an event: peer, what the headset answers, and what is remembered.
LEMMA ProcessEffect ==
  ASSUME TypeOK, NEW e \in EventSet, Process(e)
  PROVE  /\ peer' \subseteq Flags /\ due' \subseteq Kinds /\ taken' \subseteq {"old", "gap"}
         /\ peer \ {"handle", "encrypted"} \subseteq peer'
         /\ "started" \in peer' => "started" \in peer
         /\ "attempted" \in peer' => "attempted" \in peer
         /\ "holding" \in peer' => "holding" \in peer \/ {"verified", "idle"} \subseteq peer
         /\ e.kind # "done" => taken' = taken \cup {w \in {"old", "gap"} : IF w = "old" THEN e.old ELSE e.gap}
         /\ e.kind = "done" => taken' = taken
         /\ ~up => due' = due
<1>1. e.kind \in Kinds
  BY DEF EventSet
<1>2. peer' = Processed(peer, e.kind) /\ due' = due \cup Answers(peer, peer')
  BY DEF Process
<1>3. due' \subseteq Kinds
  BY <1>2, AnswersKinds, KindsAre, Typed
<1>4. taken' \subseteq {"old", "gap"}
  BY Typed DEF Process
<1>5. peer \in SUBSET Flags
  BY Typed
<1>6. /\ peer' \subseteq Flags /\ peer \ {"handle", "encrypted"} \subseteq peer'
      /\ "started" \in peer' => "started" \in peer
      /\ "attempted" \in peer' => "attempted" \in peer
      /\ "holding" \in peer' => "holding" \in peer \/ {"verified", "idle"} \subseteq peer
  BY <1>1, <1>2, <1>5, ProcessedFlags
<1>7. ~up => due' = due
  BY <1>2, AnswersKinds
<1>8. /\ e.kind # "done" => taken' = taken \cup {w \in {"old", "gap"} : IF w = "old" THEN e.old ELSE e.gap}
      /\ e.kind = "done" => taken' = taken
  BY DEF Process
<1> QED BY <1>3, <1>4, <1>6, <1>7, <1>8

\* send_packet.
LEMMA CallEffect ==
  ASSUME TypeOK, NEW o \in Commands, Call(o)
  PROVE  /\ op' = o /\ pc' \in {"wait", "no"}
         /\ \/ pc' = "wait" /\ enabled /\ Len(inbox) < MaxInbox /\ inbox' = Append(inbox, o)
            \/ pc' = "no" /\ inbox' = inbox /\ ~(enabled /\ Len(inbox) < MaxInbox)
         /\ inbox' \in Seq(Commands) /\ Len(inbox') <= MaxInbox
         /\ missed' \in BOOLEAN /\ (missed' <=> missed /\ o # "reset")
         /\ events' \in Seq(EventSet) /\ Len(events') = Len(events) /\ DOMAIN events' = 1..Len(events)
         /\ \A i \in 1..Len(events) :
               /\ events'[i].kind = events[i].kind /\ events'[i].op = events[i].op
               /\ events'[i].res = events[i].res /\ events'[i].gap = events[i].gap
               /\ o = "reset" => events'[i].old
         /\ o # "reset" => events' = events
<1>1. op' = o /\ pc' \in {"wait", "no"}
  BY DEF Call
<1>2. \/ pc' = "wait" /\ enabled /\ Len(inbox) < MaxInbox /\ inbox' = Append(inbox, o)
      \/ pc' = "no" /\ inbox' = inbox /\ ~(enabled /\ Len(inbox) < MaxInbox)
  BY DEF Call
<1>3. inbox' \in Seq(Commands) /\ Len(inbox') <= MaxInbox
  BY SMTT(30), <1>2, Typed
<1>4. missed' \in BOOLEAN /\ (missed' <=> missed /\ o # "reset")
  BY Typed DEF Call
<1> DEFINE marked(i) == [events[i] EXCEPT !.old = @ \/ o = "reset"]
<1>5. events' = [i \in 1..Len(events) |-> marked(i)]
  BY Typed DEF Call
<1>6. \A i \in 1..Len(events) :
         /\ events[i] \in EventSet /\ marked(i) \in EventSet
         /\ marked(i).kind = events[i].kind /\ marked(i).op = events[i].op
         /\ marked(i).res = events[i].res /\ marked(i).gap = events[i].gap
         /\ (o = "reset" => marked(i).old) /\ (o # "reset" => marked(i) = events[i])
  <2> SUFFICES ASSUME NEW i \in 1..Len(events)
               PROVE  /\ events[i] \in EventSet /\ marked(i) \in EventSet
                      /\ marked(i).kind = events[i].kind /\ marked(i).op = events[i].op
                      /\ marked(i).res = events[i].res /\ marked(i).gap = events[i].gap
                      /\ (o = "reset" => marked(i).old) /\ (o # "reset" => marked(i) = events[i])
    OBVIOUS
  <2>1. events[i] \in EventSet
    BY Typed, ElementOfSeq
  <2>2. PICK e \in EventSet : e = events[i]
    BY <2>1
  <2>3. e.old \in BOOLEAN
    BY DEF EventSet
  <2>4. marked(i) = [e EXCEPT !.old = e.old \/ o = "reset"]
    BY <2>2
  <2>5. CASE o = "reset"
    <3>1. marked(i) = [e EXCEPT !.old = TRUE]
      BY <2>3, <2>4, <2>5
    <3> HIDE DEF marked
    <3> QED BY <2>1, <2>2, <2>5, <3>1 DEF EventSet
  <2>6. CASE o # "reset"
    <3>1. (e.old \/ o = "reset") <=> e.old
      BY <2>6
    <3>2. (e.old \/ o = "reset") = e.old
      BY <2>3, <3>1
    <3>3. marked(i) = [e EXCEPT !.old = e.old]
      BY <2>4, <3>2
    <3>4. [e EXCEPT !.old = e.old] = e
      BY DEF EventSet
    <3> HIDE DEF marked
    <3> QED BY <2>1, <2>2, <2>6, <3>3, <3>4
  <2> QED BY <2>5, <2>6
<1> HIDE DEF marked
<1>7. events' \in [1..Len(events) -> EventSet]
  BY <1>5, <1>6
<1>8. Len(events) \in Nat
  BY Typed
<1>9. events' \in Seq(EventSet) /\ Len(events') = Len(events) /\ DOMAIN events' = 1..Len(events)
  BY <1>7, <1>8
<1>10. o # "reset" => events' = events
  <2> SUFFICES ASSUME o # "reset" PROVE events' = events
    OBVIOUS
  <2>1. \A i \in 1..Len(events) : events'[i] = events[i]
    BY <1>5, <1>6
  <2> QED BY <1>9, <2>1, Typed, SeqEqual
<1> QED BY <1>1, <1>2, <1>3, <1>4, <1>5, <1>6, <1>9, <1>10

\* next_event: the oldest event is taken.
LEMMA TakeEffect ==
  ASSUME TypeOK, events # <<>>, events' = Tail(events)
  PROVE  /\ events' \in Seq(EventSet) /\ Len(events') = Len(events) - 1 /\ Len(events) >= 1
         /\ DOMAIN events' = 1..Len(events')
         /\ \A i \in 1..Len(events') : i + 1 \in 1..Len(events) /\ events'[i] = events[i + 1]
         /\ Head(events) = events[1] /\ events[1] \in EventSet
BY Typed, HeadTailProperties, LenProperties

\* The controller takes a command.
LEMMA ExecuteEffect ==
  ASSUME TypeOK, inbox # <<>>, inbox' = Tail(inbox)
  PROVE  /\ inbox' \in Seq(Commands) /\ Len(inbox') = Len(inbox) - 1 /\ Len(inbox) >= 1
         /\ DOMAIN inbox' = 1..Len(inbox')
         /\ \A i \in 1..Len(inbox') : i + 1 \in 1..Len(inbox) /\ inbox'[i] = inbox[i + 1]
         /\ Head(inbox) = inbox[1] /\ inbox[1] \in Commands
BY Typed, HeadTailProperties, LenProperties

\* ull_auto_receive.
LEMMA ReceiveEffect ==
  ASSUME TypeOK, NEW e \in EventSet, Receive(e)
  PROVE  /\ events' \in Seq(EventSet) /\ Len(events') <= Cap /\ DOMAIN events' = 1..Len(events')
         /\ lost' \in BOOLEAN /\ missed' \in BOOLEAN
         /\ \/ /\ Len(events) < Cap /\ events' = Append(events, e) /\ Len(events') = Len(events) + 1
               /\ lost' = lost /\ missed' = missed
            \/ /\ events' = events /\ (lost => lost')
               /\ missed' = missed \/ (missed' /\ lost' /\ Len(events) = Cap)
         /\ \A i \in 1..Len(events') : \/ i \in 1..Len(events) /\ events'[i] = events[i]
                                       \/ i = Len(events) + 1 /\ events'[i] = e
         /\ \A i \in 1..Len(events) : i \in 1..Len(events') /\ events'[i] = events[i]
<1>1. CASE enabled /\ Len(events) < Cap
  <2>1. events' = Append(events, e) /\ UNCHANGED <<lost, missed>>
    BY <1>1 DEF Receive
  <2>2. events \in Seq(EventSet) /\ Len(events) \in Nat /\ Cap \in Nat
    BY Typed
  <2>3. /\ events' \in Seq(EventSet) /\ Len(events') = Len(events) + 1
        /\ \A i \in 1..Len(events) : events'[i] = events[i]
        /\ events'[Len(events) + 1] = e
    BY <2>1, <2>2, AppendProperties
  <2>4. DOMAIN events' = 1..Len(events')
    BY <2>3, LenProperties
  <2>5. \A i \in 1..Len(events') :
           (i \in 1..Len(events) /\ events'[i] = events[i]) \/ (i = Len(events) + 1 /\ events'[i] = e)
    BY <2>2, <2>3
  <2>6. \A i \in 1..Len(events) : i \in 1..Len(events') /\ events'[i] = events[i]
    <3>1. 1..Len(events) \subseteq 1..Len(events')
      BY <2>2, <2>3
    <3> QED BY <2>3, <3>1
  <2>7. lost' = lost /\ missed' = missed /\ lost' \in BOOLEAN /\ missed' \in BOOLEAN
    BY <2>1, Typed
  <2>8. Len(events') <= Cap
    BY <1>1, <2>2, <2>3
  <2> QED BY <1>1, <2>1, <2>3, <2>4, <2>5, <2>6, <2>7, <2>8
<1>2. CASE ~(enabled /\ Len(events) < Cap)
  <2>1. events' = events /\ lost' = (lost \/ enabled) /\ missed' = (missed \/ (enabled /\ ~e.old))
    BY <1>2 DEF Receive
  <2>2. e.old \in BOOLEAN
    BY DEF EventSet
  <2>3. missed' = missed \/ (missed' /\ lost' /\ Len(events) = Cap)
    BY <1>2, <2>1, <2>2, Typed
  <2> QED BY <2>1, <2>2, <2>3, Typed
<1> QED BY <1>1, <1>2

\* The events the controller emits.
LEMMA EventTyped ==
  ASSUME TypeOK, NEW kind \in Kinds, NEW o \in Commands, NEW res \in Waiting
  PROVE  /\ Event(kind, o, res) \in EventSet
         /\ Event(kind, o, res).kind = kind /\ Event(kind, o, res).op = o
         /\ Event(kind, o, res).res = res /\ Event(kind, o, res).gap = missed
         /\ Event(kind, o, res).old <=> ResetPending
<1>1. ResetPending \in BOOLEAN
  BY DEF ResetPending
<1> QED BY <1>1, Typed DEF Event, EventSet

-----------------------------------------------------------------------------
(* Types.                                                                  *)

Everywhere == Outside \cup Session \cup Waiting \cup {"flush", "send", "leave", "restart"}

QueueTyped ==
    /\ op \in Commands /\ missed \in BOOLEAN
    /\ events \in Seq(EventSet) /\ Len(events) <= Cap
    /\ inbox \in Seq(Commands) /\ Len(inbox) <= MaxInbox

LEMMA CallTyped ==
  ASSUME TypeOK, NEW o \in Commands, Call(o)
  PROVE  QueueTyped' /\ pc' \in {"wait", "no"}
BY CallEffect, Typed DEF QueueTyped

LEMMA GoesTyped ==
  ASSUME TypeOK, NEW l, Goes(l)
  PROVE  QueueTyped' /\ pc' = l
BY Typed DEF QueueTyped, Goes

LEMMA TakeTyped ==
  ASSUME TypeOK, events # <<>>, events' = Tail(events), UNCHANGED <<op, inbox, missed>>
  PROVE  QueueTyped'
<1>1. events' \in Seq(EventSet) /\ Len(events') = Len(events) - 1
  BY TakeEffect
<1>2. Len(events') <= Cap
  BY <1>1, Typed
<1> QED BY <1>1, <1>2, Typed DEF QueueTyped

\* A step of the keeper's task.
LEMMA KeeperTypes ==
  ASSUME TypeOK, UNCHANGED <<console, up, trial, pump, odd>>, QueueTyped',
         busy' \in BOOLEAN, parked' \in BOOLEAN, lost' \in BOOLEAN,
         pc' \in Everywhere, peer' \subseteq Flags, step' \in 0..3, tries' \in 0..MaxTries,
         taken' \subseteq {"old", "gap"}, due' \subseteq Kinds
  PROVE  TypeOK'
BY Typed DEF TypeOK, QueueTyped, EventSet, Everywhere, console

\* A step of the controller or the headset.
LEMMA ControllerTypes ==
  ASSUME TypeOK, UNCHANGED <<console, host>>,
         events' \in Seq(EventSet) /\ Len(events') <= Cap /\ lost' \in BOOLEAN /\ missed' \in BOOLEAN,
         inbox' \in Seq(Commands) /\ Len(inbox') <= MaxInbox, up' \in BOOLEAN, pump' \in BOOLEAN,
         due' \subseteq Kinds, trial' \in {"idle", "running", "ended", "fault"}, odd' \in 0..MaxOdd
  PROVE  TypeOK'
BY Typed DEF TypeOK, EventSet, console, host

LEMMA ReportTyped ==
  ASSUME TypeOK, NEW kind \in Kinds, Report(kind)
  PROVE  /\ events' \in Seq(EventSet) /\ Len(events') <= Cap /\ lost' \in BOOLEAN /\ missed' \in BOOLEAN
<1>1. "reset" \in Commands /\ "no" \in Waiting
  BY DEF Commands, Waiting
<1>2. Event(kind, "reset", "no") \in EventSet
  BY <1>1, EventTyped
<1> QED BY <1>2, ReceiveEffect DEF Report

\* The completion of the next command.
LEMMA DoneTyped ==
  ASSUME TypeOK, inbox # <<>>, NEW res \in Waiting, Done(res)
  PROVE  /\ Event("done", Head(inbox), res) \in EventSet /\ Head(inbox) \in Commands
         /\ events' \in Seq(EventSet) /\ Len(events') <= Cap /\ lost' \in BOOLEAN /\ missed' \in BOOLEAN
<1>1. Head(inbox) \in Commands
  BY Typed, HeadTailProperties
<1>2. "done" \in Kinds
  BY DEF Kinds
<1>3. Event("done", Head(inbox), res) \in EventSet
  BY <1>1, <1>2, EventTyped
<1> QED BY <1>1, <1>3, ReceiveEffect DEF Done

LEMMA AclSentFlags == AclSent \subseteq Flags
BY DEF AclSent, Flags

LEMMA RunTypes ==
  ASSUME TypeOK, StartupInv, Run
  PROVE  TypeOK'
<1> USE Typed, KeeperTypes, CallTyped, GoesTyped DEF Everywhere, Outside, Session, Waiting
<1>1. UNCHANGED <<console, up, trial, pump, odd>>
  BY DEF Run
<1>2. CASE WaitAnswer
  <2>1. QueueTyped' /\ events[1] \in EventSet /\ Head(events) = events[1]
    BY <1>2, TakeTyped, TakeEffect DEF WaitAnswer
  <2>2. UNCHANGED <<busy, step, tries, parked, lost>>
    BY <1>2 DEF WaitAnswer
  <2>3. peer' \subseteq Flags /\ due' \subseteq Kinds /\ taken' \subseteq {"old", "gap"}
    BY <1>2, <2>1, ProcessEffect DEF WaitAnswer
  <2>4. pc' \in Waiting
    BY <1>2, <2>1 DEF WaitAnswer, EventSet
  <2> QED BY <1>1, <2>1, <2>2, <2>3, <2>4
<1>3. CASE WaitTimeout
  BY <1>1, <1>3 DEF WaitTimeout, still
<1>4. CASE Gate
  <2>1. QueueTyped' /\ pc' \in Everywhere
    BY <1>4 DEF Gate
  <2> QED BY <1>1, <1>4, <2>1 DEF Gate
<1>5. CASE StartConnection
  <2>1. UNCHANGED <<busy, parked, taken, due>>
    BY <1>5 DEF StartConnection
  <2>2. CASE pc = "flush" /\ pc' = "send" /\ peer' = {} /\ step' = 0 /\ tries' = 0 /\ events' = <<>>
             /\ UNCHANGED <<op, inbox, lost, missed>>
    <3>1. <<>> \in Seq(EventSet) /\ Len(<<>>) = 0
      OBVIOUS
    <3>2. QueueTyped'
      BY <2>2, <3>1 DEF QueueTyped
    <3> QED BY <1>1, <2>1, <2>2, <3>2
  <2>3. CASE pc = "send" /\ lost' = FALSE /\ Call("reset") /\ UNCHANGED <<peer, step, tries>>
    BY <1>1, <2>1, <2>3 DEF Commands
  <2>4. CASE /\ pc \in Waiting \ {"wait"} /\ op \in {"reset", "setup", "connect"}
             /\ IF pc # "ok" THEN Goes("leave")
                ELSE CASE op = "reset" -> Call("setup")
                       [] op = "setup" -> Call("connect")
                       [] op = "connect" -> Goes("loop")
             /\ UNCHANGED <<peer, step, tries, lost>>
    <3>1. Goes("leave") \/ Call("setup") \/ Call("connect") \/ Goes("loop")
      BY <2>4
    <3>2. QueueTyped' /\ pc' \in Everywhere
      BY <3>1 DEF Commands
    <3> QED BY <1>1, <2>1, <2>4, <3>2
  <2> QED BY <1>5, <2>2, <2>3, <2>4 DEF StartConnection
<1>6. CASE Loop
  <2>1. CASE Goes("stop") /\ tries' = 0 /\ UNCHANGED <<peer, due, taken>>
    BY <1>1, <1>6, <2>1 DEF Loop
  <2>2. CASE Goes("act") /\ UNCHANGED <<peer, due, taken, tries>>
    BY <1>1, <1>6, <2>2 DEF Loop
  <2>3. CASE /\ events # <<>> /\ events' = Tail(events) /\ Process(Head(events))
             /\ pc' = "act" /\ UNCHANGED <<op, inbox, missed, tries>>
    <3>1. QueueTyped' /\ events[1] \in EventSet /\ Head(events) = events[1]
      BY <2>3, TakeTyped, TakeEffect
    <3>2. peer' \subseteq Flags /\ due' \subseteq Kinds /\ taken' \subseteq {"old", "gap"}
      BY <2>3, <3>1, ProcessEffect
    <3> QED BY <1>1, <1>6, <2>3, <3>1, <3>2 DEF Loop
  <2> QED BY <1>6, <2>1, <2>2, <2>3 DEF Loop
<1>7. CASE Act
  <2>1. UNCHANGED <<step, busy, parked, lost, taken>> /\ tries' = IF pc' = "stop" THEN 0 ELSE tries
    BY <1>7 DEF Act
  <2>2. due' \subseteq Kinds
    BY <1>7, AnswersKinds, KindsAre DEF Act
  <2>3. peer' \subseteq Flags
    <3>1. {"failed", "requested", "setup"} \subseteq Flags
      BY DEF Flags
    <3> QED BY <1>7, <3>1, AclSentFlags DEF Act
  <2>4. QueueTyped' /\ pc' \in Everywhere
    <3>1. Goes("loop") \/ Goes("stop") \/ Goes("acl_setup") \/ Goes("startup") \/ Goes("limit") \/ Call("encrypt")
      BY <1>7 DEF Act
    <3> QED BY <3>1 DEF Commands
  <2> QED BY <1>1, <2>1, <2>2, <2>3, <2>4
<1>8. CASE Startup
  <2>1. UNCHANGED <<busy, parked, lost, taken, due>>
    BY <1>8 DEF Startup, still
  <2>2. peer' \subseteq Flags
    <3>1. {"failed", "attempted", "started"} \subseteq Flags
      BY DEF Flags
    <3> QED BY <1>8, <3>1, AclSentFlags DEF Startup
  <2>3. step' \in 0..3
    <3>1. op \in {"length", "e4", "e0"} /\ pc = "ok" => step + 1 \in 0..3
      BY DEF StartupInv
    <3> QED BY <1>8, <3>1 DEF Startup
  <2>4. tries' \in 0..MaxTries
    BY <1>8 DEF Startup
  <2>5. QueueTyped' /\ pc' \in Everywhere
    <3>1. Goes("limit") \/ \E o \in {"verify", "e4", "e0", "prepare", "length", "play"} : Call(o)
      <4>1. <<"verify", "e4", "e0", "verify">>[step + 1] \in {"verify", "e4", "e0"}
        <5>1. step = 0 \/ step = 1 \/ step = 2 \/ step = 3
          OBVIOUS
        <5> QED BY <5>1
      <4> QED BY <1>8, <4>1 DEF Startup
    <3> QED BY <3>1 DEF Commands
  <2> QED BY <1>1, <2>1, <2>2, <2>3, <2>4, <2>5
<1>9. CASE Stop
  <2>1. UNCHANGED <<busy, peer, step, lost, taken, due>>
    BY <1>9 DEF Stop
  <2>2. tries' = tries \/ (tries < MaxTries /\ tries' = tries + 1)
    BY <1>9 DEF Stop
  <2>3. parked' = parked \/ parked' = TRUE \/ parked' = FALSE
    BY <1>9 DEF Stop
  <2>4. tries' \in 0..MaxTries /\ parked' \in BOOLEAN
    <3>1. tries \in 0..MaxTries /\ MaxTries \in Nat /\ parked \in BOOLEAN
      OBVIOUS
    <3>2. tries' \in 0..MaxTries
      BY <2>2, <3>1
    <3>3. parked' \in BOOLEAN
      BY <2>3, <3>1
    <3> QED BY <3>2, <3>3
  <2>5. QueueTyped' /\ pc' \in Everywhere
    <3>1. \/ Goes("leave") \/ Goes("park") \/ Goes("stop") \/ Goes("restart")
          \/ Call("cancel") \/ Call("rearm")
      BY <1>9 DEF Stop
    <3> QED BY <3>1 DEF Commands
  <2> QED BY <1>1, <2>1, <2>4, <2>5
<1>10. CASE Leave
  BY <1>1, <1>10 DEF Leave
<1> QED BY <1>2, <1>3, <1>4, <1>5, <1>6, <1>7, <1>8, <1>9, <1>10 DEF Run

LEMMA ControllerSteps ==
  ASSUME TypeOK, Controller
  PROVE  TypeOK'
<1> USE Typed, ControllerTypes
<1>1. UNCHANGED <<console, host>>
  BY DEF Controller
<1>2. CASE Execute
  <2>1. inbox' \in Seq(Commands) /\ Len(inbox') <= MaxInbox /\ inbox # <<>> /\ Head(inbox) \in Commands
    BY <1>2, ExecuteEffect DEF Execute
  <2>2. odd' = odd /\ {"ok", "no", "again"} \subseteq Waiting
    BY <1>2 DEF Execute, Waiting
  <2>3. CASE /\ Head(inbox) = "reset" /\ up' = FALSE /\ due' = {} /\ UNCHANGED <<trial, pump>>
             /\ Receive([Event("done", Head(inbox), "ok") EXCEPT !.old = FALSE])
    <3>1. Event("done", Head(inbox), "ok") \in EventSet
      BY <2>1, <2>2, EventTyped, KindsAre
    <3>2. [Event("done", Head(inbox), "ok") EXCEPT !.old = FALSE] \in EventSet
      BY <3>1 DEF EventSet
    <3> QED BY <1>1, <2>1, <2>2, <2>3, <3>2, ReceiveEffect
  <2>4. CASE /\ \/ /\ Done("ok") /\ (Head(inbox) \in {"e4", "e0"} => up)
                   /\ due' = due \cup (CASE Head(inbox) = "connect" -> {"conn"}
                                      [] Head(inbox) = "encrypt" /\ up -> {"enc"}
                                      [] Head(inbox) = "length" /\ up -> {"room"}
                                      [] Head(inbox) = "e4" -> {"acked"}
                                      [] Head(inbox) = "e0" -> {"air"}
                                      [] OTHER -> {})
                \/ /\ UNCHANGED due
                   /\ \E r \in {"no"} \cup (IF Head(inbox) \in {"e4", "e0"} THEN {"again"} ELSE {}) : Done(r)
             /\ UNCHANGED <<up, trial, pump>>
    <3>1. due' \subseteq Kinds
      BY <2>4, KindsAre
    <3>2. \E r \in Waiting : Done(r)
      BY <2>2, <2>4
    <3> QED BY <1>1, <2>1, <2>2, <2>4, <3>1, <3>2, DoneTyped
  <2>5. CASE Radio(Head(inbox)) /\ UNCHANGED <<up, due>>
    <3>1. \E r \in Waiting : Done(r)
      BY <2>2, <2>5 DEF Radio
    <3>2. trial' \in {"idle", "running", "ended", "fault"} /\ pump' \in BOOLEAN
      BY <2>5 DEF Radio
    <3> QED BY <1>1, <2>1, <2>2, <2>5, <3>1, <3>2, DoneTyped
  <2> QED BY <1>2, <2>3, <2>4, <2>5 DEF Execute
<1>3. CASE Deliver
  <2>1. PICK e \in due : up' = (up \/ e = "conn") /\ due' = due \ {e} /\ Report(e)
    BY <1>3 DEF Deliver
  <2>2. UNCHANGED <<inbox, trial, pump, odd>>
    BY <1>3 DEF Deliver
  <2>3. up' \in BOOLEAN /\ due' \subseteq Kinds /\ e \in Kinds
    BY <2>1
  <2> QED BY <1>1, <2>1, <2>2, <2>3, ReportTyped
<1>4. CASE Disconnect
  <2>1. Report("disc") /\ up' = FALSE /\ due' = {} /\ UNCHANGED <<inbox, trial, pump, odd>>
    BY <1>4 DEF Disconnect
  <2> QED BY <1>1, <2>1, ReportTyped, KindsAre
<1>5. CASE Odd
  <2>1. odd' \in 0..MaxOdd /\ due' \subseteq Kinds /\ UNCHANGED <<inbox, up, trial, pump>>
    BY <1>5 DEF Odd
  <2>2. \E e \in {"refused", "encfail", "nack"} \cup Acl : Report(e)
    BY <1>5 DEF Odd
  <2>3. \E e \in Kinds : Report(e)
    BY <2>2 DEF Kinds
  <2> QED BY <1>1, <2>1, <2>3, ReportTyped
<1>6. CASE StreamEnds
  <2>1. Report("pumpfail") /\ pump' = FALSE /\ UNCHANGED <<inbox, up, due, odd>>
        /\ trial' \in {"idle", "running", "ended", "fault"}
    BY <1>6 DEF StreamEnds
  <2> QED BY <1>1, <2>1, ReportTyped, KindsAre
<1>7. CASE ManualTrial
  BY <1>1, <1>7 DEF ManualTrial, queue
<1> QED BY <1>2, <1>3, <1>4, <1>5, <1>6, <1>7 DEF Controller

LEMMA RestartTypes ==
  ASSUME TypeOK, Restart
  PROVE  TypeOK'
<1>1. <<>> \in Seq(EventSet) /\ <<>> \in Seq(Commands) /\ Len(<<>>) = 0
  OBVIOUS
<1>2. /\ events' = <<>> /\ inbox' = <<>> /\ op' = "reset" /\ pc' = "gate" /\ con' = "on"
      /\ peer' = {} /\ due' = {} /\ step' = 0 /\ tries' = 0 /\ trial' = "idle"
      /\ enabled' = TRUE /\ pauseRequested' = FALSE /\ busy' = FALSE /\ parked' = FALSE
      /\ lost' = FALSE /\ missed' = FALSE /\ up' = FALSE /\ pump' = FALSE /\ UNCHANGED <<taken, odd>>
  BY DEF Restart
<1>3. /\ events' \in Seq(EventSet) /\ inbox' \in Seq(Commands)
      /\ Len(events') <= Cap /\ Len(inbox') <= MaxInbox /\ tries' \in 0..MaxTries /\ odd' \in 0..MaxOdd
  BY <1>1, <1>2, Typed
<1>4. op' \in Commands /\ pc' \in Outside /\ taken' \subseteq {"old", "gap"}
  BY <1>2, Typed DEF Outside, Commands
<1> HIDE DEF EventSet
<1>5. events' \in Seq([kind : Kinds, op : Commands, res : Waiting, old : BOOLEAN, gap : BOOLEAN])
  BY <1>3 DEF EventSet
<1>6. {enabled', busy', pauseRequested', parked', lost', missed', up', pump'} \subseteq BOOLEAN
  BY <1>2
<1>7. peer' \subseteq Flags /\ step' \in 0..3 /\ due' \subseteq Kinds
      /\ trial' \in {"idle", "running", "ended", "fault"}
      /\ con' \in {"on", "pausing", "idle_seen", "manual", "resuming"}
  BY <1>2
<1> QED BY <1>3, <1>4, <1>5, <1>6, <1>7 DEF TypeOK

LEMMA ConsoleTypes ==
  ASSUME TypeOK, Console
  PROVE  TypeOK'
<1>1. UNCHANGED <<host, queue, radio>>
  BY DEF Console
<1>2. con' \in {"on", "pausing", "idle_seen", "manual", "resuming"} /\ enabled' \in BOOLEAN /\ pauseRequested' \in BOOLEAN
  BY Typed DEF Console, PauseAsked, PauseSeesIdle, PauseDone, Resume, ResumeDone
<1> QED BY <1>1, <1>2, Typed DEF TypeOK, EventSet, host, queue, radio

-----------------------------------------------------------------------------
(* The two flags, and busy.                                                *)

\* All of the keeper but the gate and the end of the session works with busy set.
LEMMA WorksBusy ==
  ASSUME WaitAnswer \/ WaitTimeout \/ StartConnection \/ Loop \/ Act \/ Startup \/ Stop, StartupInv, TypeOK
  PROVE  pc \notin Outside \cup {"leave", "restart"} /\ busy' = busy
<1>1. CASE WaitAnswer \/ WaitTimeout
  BY <1>1 DEF WaitAnswer, WaitTimeout, still, Outside
<1>2. CASE StartConnection
  BY <1>2 DEF StartConnection, Outside, Waiting
<1>3. CASE Loop \/ Act
  BY <1>3 DEF Loop, Act, Outside
<1>4. CASE Startup
  BY <1>4 DEF Startup, still, Outside
<1>5. CASE Stop
  BY <1>5 DEF Stop, Outside
<1> QED BY <1>1, <1>2, <1>3, <1>4, <1>5

LEMMA GateSteps ==
  ASSUME TypeOK, StartupInv, GateInv, Next
  PROVE  GateInv'
<1>1. CASE Console
  <2>1. UNCHANGED <<busy, pc>>
    BY <1>1 DEF Console, host
  <2>2. CASE PauseAsked
    BY <2>1, <2>2 DEF PauseAsked, GateInv
  <2>3. CASE PauseSeesIdle
    <3>1. pc \in {"gate", "claim"}
      BY <2>3 DEF PauseSeesIdle, GateInv
    <3> QED BY <2>1, <2>3, <3>1 DEF PauseSeesIdle, GateInv, Outside
  <2>4. CASE PauseDone
    BY <2>1, <2>4 DEF PauseDone, GateInv
  <2>5. CASE Resume
    BY <2>1, <2>5 DEF Resume, GateInv
  <2>6. CASE ResumeDone
    BY <2>1, <2>6 DEF ResumeDone, GateInv
  <2> QED BY <1>1, <2>2, <2>3, <2>4, <2>5, <2>6 DEF Console
<1>2. CASE Run
  <2>1. UNCHANGED <<con, enabled, pauseRequested>>
    BY <1>2 DEF Run, console
  <2>2. CASE Gate
    <3>1. CASE pc = "gate" /\ enabled /\ ~pauseRequested /\ Goes("claim") /\ UNCHANGED busy
      BY <2>1, <3>1 DEF GateInv, Goes, Outside
    <3>2. CASE pc = "gate" /\ ~(enabled /\ ~pauseRequested) /\ busy' = FALSE /\ Goes("gate")
      BY <2>1, <3>2 DEF GateInv, Goes, Outside
    <3>3. CASE pc = "claim" /\ busy' = TRUE /\ Goes("recheck")
      BY <2>1, <3>3 DEF GateInv, Goes, Outside
    <3>4. CASE pc \in {"recheck", "recheck_pause"} /\ PausedNow /\ busy' = FALSE /\ Goes("gate")
      BY <2>1, <3>4 DEF GateInv, Goes, Outside
    <3>5. CASE /\ pc \in {"recheck", "recheck_pause"} /\ ~PausedNow
               /\ Goes(IF pc = "recheck" THEN "recheck_pause" ELSE "flush") /\ UNCHANGED busy
      BY <2>1, <3>5 DEF GateInv, Goes, Outside, PausedNow
    <3> QED BY <2>2, <3>1, <3>2, <3>3, <3>4, <3>5 DEF Gate
  <2>3. CASE Leave
    BY <2>1, <2>3 DEF Leave, Goes, GateInv, Outside
  <2>4. CASE WaitAnswer \/ WaitTimeout \/ StartConnection \/ Loop \/ Act \/ Startup \/ Stop
    <3>1. pc \notin Outside /\ busy' = busy
      BY <2>4, WorksBusy
    <3> QED BY <2>1, <3>1 DEF GateInv, Outside
  <2> QED BY <1>2, <2>2, <2>3, <2>4 DEF Run
<1>3. CASE Restart
  BY <1>3 DEF Restart, GateInv, Outside
<1>4. CASE Controller
  BY <1>4 DEF Controller, console, host, GateInv
<1> QED BY <1>1, <1>2, <1>3, <1>4 DEF Next

-----------------------------------------------------------------------------
(* What a completion says.                                                 *)

LEMMA AnswersKept ==
  ASSUME TypeOK, AnswersInv, DOMAIN events' = 1..Len(events'),
         pc' = "again" => op' \in {"e4", "e0"},
         \A i \in 1..Len(events') :
            \/ \E j \in 1..Len(events) : /\ events'[i].kind = events[j].kind
                                         /\ events'[i].op = events[j].op /\ events'[i].res = events[j].res
            \/ events'[i].kind # "done" \/ events'[i].res \in {"ok", "no"}
            \/ events'[i].res = "again" /\ events'[i].op \in {"e4", "e0"}
  PROVE  AnswersInv'
BY Typed DEF AnswersInv

\* A step of the keeper that takes no answer.
LEMMA AnswersMoves ==
  ASSUME TypeOK, AnswersInv,
         (\E o \in Commands : Call(o)) \/ (\E l \in Everywhere \ {"again"} : Goes(l))
  PROVE  AnswersInv'
<1>1. CASE \E o \in Commands : Call(o)
  BY <1>1, CallEffect, AnswersKept
<1>2. CASE \E l \in Everywhere \ {"again"} : Goes(l)
  <2>1. pc' # "again" /\ events' = events
    BY <1>2 DEF Goes
  <2> QED BY <2>1 DEF AnswersInv
<1> QED BY <1>1, <1>2

LEMMA AnswersReport ==
  ASSUME TypeOK, AnswersInv, UNCHANGED <<pc, op>>, NEW e \in EventSet, Receive(e),
         e.kind = "done" => e.res \in {"ok", "no"} \/ (e.res = "again" /\ e.op \in {"e4", "e0"})
  PROVE  AnswersInv'
<1>1. DOMAIN events' = 1..Len(events')
  BY ReceiveEffect
<1>2. \A i \in 1..Len(events') : (i \in 1..Len(events) /\ events'[i] = events[i]) \/ events'[i] = e
  BY ReceiveEffect
<1> QED BY <1>1, <1>2, AnswersKept DEF AnswersInv

LEMMA AnswersRun ==
  ASSUME TypeOK, StartupInv, AnswersInv, Run
  PROVE  AnswersInv'
<1> USE DEF Everywhere, Outside, Session, Waiting, Commands
<1>1. CASE WaitAnswer
  <2>1. events # <<>> /\ events' = Tail(events) /\ op' = op
    BY <1>1 DEF WaitAnswer
  <2>2. \A i \in 1..Len(events') : i + 1 \in 1..Len(events) /\ events'[i] = events[i + 1]
    BY <2>1, TakeEffect
  <2>3. pc' = "again" => op' \in {"e4", "e0"}
    <3>1. Head(events) = events[1] /\ 1 \in 1..Len(events)
      BY <2>1, TakeEffect
    <3>2. pc' = "again" => events[1].kind = "done" /\ events[1].op = op /\ events[1].res = "again"
      BY <1>1, <3>1 DEF WaitAnswer
    <3> QED BY <2>1, <3>1, <3>2, Typed DEF AnswersInv
  <2>4. DOMAIN events' = 1..Len(events')
    BY <2>1, TakeEffect
  <2> QED BY <2>2, <2>3, <2>4, AnswersKept
<1>2. CASE WaitTimeout \/ Gate \/ Leave
  BY <1>2, AnswersMoves DEF WaitTimeout, Gate, Leave
<1>3. CASE StartConnection
  <2>1. CASE pc = "flush" /\ pc' = "send" /\ peer' = {} /\ step' = 0 /\ tries' = 0 /\ events' = <<>>
             /\ UNCHANGED <<op, inbox, lost, missed>>
    BY <2>1 DEF AnswersInv
  <2>2. CASE ~(pc = "flush" /\ pc' = "send" /\ peer' = {} /\ step' = 0 /\ tries' = 0 /\ events' = <<>>
             /\ UNCHANGED <<op, inbox, lost, missed>>)
    <3>1. Goes("leave") \/ Call("setup") \/ Call("connect") \/ Goes("loop") \/ Call("reset")
      BY <1>3, <2>2 DEF StartConnection
    <3> QED BY <3>1, AnswersMoves
  <2> QED BY <2>1, <2>2
<1>4. CASE Loop
  <2>1. CASE Goes("stop") \/ Goes("act")
    BY <2>1, AnswersMoves
  <2>2. CASE events # <<>> /\ events' = Tail(events) /\ pc' = "act"
    <3>1. /\ \A i \in 1..Len(events') : i + 1 \in 1..Len(events) /\ events'[i] = events[i + 1]
          /\ DOMAIN events' = 1..Len(events')
      BY <2>2, TakeEffect
    <3> QED BY <2>2, <3>1, AnswersKept
  <2> QED BY <1>4, <2>1, <2>2 DEF Loop
<1>5. CASE Act
  <2>1. Goes("loop") \/ Goes("stop") \/ Goes("acl_setup") \/ Goes("startup") \/ Goes("limit") \/ Call("encrypt")
    BY <1>5 DEF Act
  <2> QED BY <2>1, AnswersMoves
<1>6. CASE Startup
  <2>1. Goes("limit") \/ \E o \in {"verify", "e4", "e0", "prepare", "length", "play"} : Call(o)
    <3>1. <<"verify", "e4", "e0", "verify">>[step + 1] \in {"verify", "e4", "e0"}
      <4>1. step = 0 \/ step = 1 \/ step = 2 \/ step = 3
        BY Typed
      <4> QED BY <4>1
    <3> QED BY <1>6, <3>1 DEF Startup
  <2> QED BY <2>1, AnswersMoves
<1>7. CASE Stop
  <2>1. \/ Goes("leave") \/ Goes("park") \/ Goes("stop") \/ Goes("restart")
        \/ Call("cancel") \/ Call("rearm")
    BY <1>7 DEF Stop
  <2> QED BY <2>1, AnswersMoves
<1> QED BY <1>1, <1>2, <1>3, <1>4, <1>5, <1>6, <1>7 DEF Run

\* The events that the controller may have emitted in a step: a completion of the
\* command it took, or a report.
Emitted(e) ==
    \/ \E kind \in Kinds \ {"done"} : e = Event(kind, "reset", "no")
    \/ inbox # <<>> /\ \E r \in {"ok", "no", "again"} :
          /\ r = "again" => Head(inbox) \in {"e4", "e0"}
          /\ \/ e = Event("done", Head(inbox), r)
             \/ Head(inbox) = "reset" /\ e = [Event("done", Head(inbox), r) EXCEPT !.old = FALSE]

LEMMA EmittedTyped ==
  ASSUME TypeOK, NEW e, Emitted(e)
  PROVE  /\ e \in EventSet
         /\ e.kind = "done" => e.res \in {"ok", "no"} \/ (e.res = "again" /\ e.op \in {"e4", "e0"})
         /\ e.kind = "done" => inbox # <<>> /\ e.op = Head(inbox)
         /\ e.gap = missed
         /\ e.kind # "done" \/ e.op # "reset" => (e.old <=> ResetPending)
         /\ e.old => ResetPending
<1>1. CASE \E kind \in Kinds \ {"done"} : e = Event(kind, "reset", "no")
  <2>1. "reset" \in Commands /\ "no" \in Waiting
    BY DEF Commands, Waiting
  <2> QED BY <1>1, <2>1, EventTyped
<1>2. CASE inbox # <<>> /\ \E r \in {"ok", "no", "again"} :
              /\ r = "again" => Head(inbox) \in {"e4", "e0"}
              /\ \/ e = Event("done", Head(inbox), r)
                 \/ Head(inbox) = "reset" /\ e = [Event("done", Head(inbox), r) EXCEPT !.old = FALSE]
  <2>1. PICK r \in {"ok", "no", "again"} :
              /\ r = "again" => Head(inbox) \in {"e4", "e0"}
              /\ \/ e = Event("done", Head(inbox), r)
                 \/ Head(inbox) = "reset" /\ e = [Event("done", Head(inbox), r) EXCEPT !.old = FALSE]
    BY <1>2
  <2>2. Head(inbox) \in Commands /\ r \in Waiting /\ "done" \in Kinds
    BY <1>2, Typed, HeadTailProperties DEF Waiting, Kinds
  <2>3. PICK f : f = Event("done", Head(inbox), r)
    OBVIOUS
  <2>4. /\ f \in EventSet /\ f.kind = "done" /\ f.op = Head(inbox)
        /\ f.res = r /\ f.gap = missed /\ (f.old <=> ResetPending)
    BY <2>2, <2>3, EventTyped
  <2>5. CASE e = f
    BY <1>2, <2>1, <2>4, <2>5
  <2>6. CASE Head(inbox) = "reset" /\ e = [f EXCEPT !.old = FALSE]
    <3>1. e \in EventSet /\ e.kind = "done" /\ e.op = "reset" /\ e.res = r /\ e.gap = missed /\ e.old = FALSE
      BY <2>4, <2>6 DEF EventSet
    <3> QED BY <1>2, <2>1, <2>6, <3>1
  <2> QED BY <2>1, <2>3, <2>5, <2>6
<1> QED BY <1>1, <1>2 DEF Emitted

\* A command is completed, whatever it did; and the headset reports one thing at a time.
LEMMA ExecuteEmits ==
  ASSUME Execute
  PROVE  \E e : Emitted(e) /\ Receive(e)
<1>1. inbox # <<>>
  BY DEF Execute
<1>2. CASE \E r \in {"ok", "no", "again"} : Done(r) /\ (r = "again" => Head(inbox) \in {"e4", "e0"})
  BY <1>1, <1>2 DEF Done, Emitted
<1>3. CASE Head(inbox) = "reset" /\ Receive([Event("done", Head(inbox), "ok") EXCEPT !.old = FALSE])
  BY <1>1, <1>3 DEF Emitted
<1> QED BY <1>2, <1>3 DEF Execute, Radio

LEMMA HeadsetReports ==
  ASSUME TypeOK, DueInv, Deliver \/ Disconnect \/ Odd \/ StreamEnds
  PROVE  /\ inbox' = inbox
         /\ \E e \in EventSet : Emitted(e) /\ Receive(e) /\ e.kind # "done"
<1>1. inbox' = inbox /\ \E kind \in Kinds \ {"done"} : Report(kind)
  <2>1. CASE Deliver
    BY <2>1, Typed DEF Deliver, DueInv
  <2>2. CASE Disconnect \/ Odd \/ StreamEnds
    BY <2>2, KindsAre DEF Disconnect, Odd, StreamEnds, Acl
  <2> QED BY <2>1, <2>2
<1>2. PICK kind \in Kinds \ {"done"} : Report(kind)
  BY <1>1
<1>3. PICK e : e = Event(kind, "reset", "no")
  OBVIOUS
<1>4. e \in EventSet /\ e.kind = kind /\ Receive(e) /\ Emitted(e)
  BY <1>2, <1>3, EventTyped DEF Report, Commands, Waiting, Emitted
<1> QED BY <1>1, <1>4

\* What is due comes from the headset.
LEMMA DueSteps ==
  ASSUME TypeOK, DueInv, Next
  PROVE  DueInv'
<1>1. \A p, q : "done" \notin Answers(p, q)
  BY AnswersKinds
<1>2. CASE Console
  BY <1>2 DEF Console, radio, DueInv
<1>3. CASE Run
  <2>1. CASE WaitAnswer \/ Loop
    <3>1. UNCHANGED due \/ \E e : Process(e)
      BY <2>1 DEF WaitAnswer, Loop
    <3> QED BY <1>1, <3>1 DEF Process, DueInv
  <2>2. CASE Act
    BY <1>1, <2>2 DEF Act, DueInv
  <2>3. CASE WaitTimeout \/ Gate \/ StartConnection \/ Startup \/ Stop \/ Leave
    BY <2>3 DEF WaitTimeout, Gate, StartConnection, Startup, Stop, Leave, still, DueInv
  <2> QED BY <1>3, <2>1, <2>2, <2>3 DEF Run
<1>4. CASE Restart
  BY <1>4 DEF Restart, DueInv
<1>5. CASE Controller
  BY <1>5 DEF Controller, Execute, Deliver, Disconnect, Odd, StreamEnds, ManualTrial, DueInv
<1> QED BY <1>2, <1>3, <1>4, <1>5 DEF Next

LEMMA AnswersSteps ==
  ASSUME TypeOK, StartupInv, DueInv, AnswersInv, Next
  PROVE  AnswersInv'
<1>1. CASE Console
  BY <1>1 DEF Console, host, queue, AnswersInv
<1>2. CASE Restart
  BY <1>2 DEF Restart, AnswersInv
<1>3. CASE Controller
  <2>1. UNCHANGED <<pc, op>>
    BY <1>3 DEF Controller, host
  <2>2. CASE ManualTrial
    BY <2>1, <2>2 DEF ManualTrial, queue, AnswersInv
  <2>3. CASE Execute
    BY <2>1, <2>3, ExecuteEmits, EmittedTyped, AnswersReport
  <2>4. CASE Deliver \/ Disconnect \/ Odd \/ StreamEnds
    BY <2>1, <2>4, HeadsetReports, EmittedTyped, AnswersReport
  <2> QED BY <1>3, <2>2, <2>3, <2>4 DEF Controller
<1> QED BY <1>1, <1>2, <1>3, AnswersRun DEF Next

-----------------------------------------------------------------------------
(* The startup.                                                            *)

StartupCommands == {"verify", "prepare", "length", "e4", "e0", "play"}
Condition(s) == <<"holding", "room", "acked", "air">>[s + 1]

LEMMA ConditionIs ==
  Condition(0) = "holding" /\ Condition(1) = "room" /\ Condition(2) = "acked" /\ Condition(3) = "air"
BY DEF Condition

\* The two halves of the invariant.
FlagsInv ==
    /\ Has("holding") => {"verified", "idle"} \subseteq peer
    /\ step >= 1 => Has("holding")
    /\ step >= 2 => Has("room")
    /\ step >= 3 => Has("acked")
    /\ Has("started") => {"holding", "acked", "air", "attempted"} \subseteq peer
PlaceInv ==
    /\ op \in StartupCommands => Has(Condition(step))
    /\ op \in {"prepare", "length"} => step = 0
    /\ op = "e4" => step = 1
    /\ op = "e0" => step = 2
    /\ op = "verify" => step \in {0, 3}
    /\ op = "play" => step = 3 /\ Has("attempted")

LEMMA StartupParts == StartupInv <=> FlagsInv /\ (pc \in Waiting => PlaceInv)
BY DEF StartupInv, FlagsInv, PlaceInv, StartupCommands, Condition

LEMMA StartupPartsNext == StartupInv' <=> FlagsInv' /\ (pc' \in Waiting => PlaceInv')
BY DEF StartupInv, FlagsInv, PlaceInv, StartupCommands, Condition

Grows ==
    /\ peer \ {"handle", "encrypted"} \subseteq peer'
    /\ "started" \in peer' => "started" \in peer
    /\ "holding" \in peer' => "holding" \in peer \/ {"verified", "idle"} \subseteq peer

LEMMA StartupStays ==
  ASSUME TypeOK, StartupInv, step' = step, Grows,
         pc' \in Waiting => (pc \in Waiting /\ op' = op) \/ op' \notin StartupCommands
  PROVE  StartupInv'
<1>1. FlagsInv'
  BY StartupParts DEF FlagsInv, Has, Grows
<1>2. ASSUME pc' \in Waiting PROVE PlaceInv'
  <2>1. CASE op' \notin StartupCommands
    BY <2>1 DEF PlaceInv, StartupCommands
  <2>2. CASE pc \in Waiting /\ op' = op
    <3>1. PlaceInv
      BY <2>2, StartupParts
    <3>2. Condition(step) \notin {"handle", "encrypted"}
      <4>1. step = 0 \/ step = 1 \/ step = 2 \/ step = 3
        BY Typed
      <4> QED BY <4>1, ConditionIs
    <3> QED BY <2>2, <3>1, <3>2 DEF PlaceInv, StartupCommands, Has, Grows
  <2> QED BY <1>2, <2>1, <2>2
<1> QED BY <1>1, <1>2, StartupPartsNext

\* The step of the startup that is not the last sends its command.
LEMMA StartupCalls ==
  ASSUME TypeOK, StartupInv, NEW o \in StartupCommands, step' = step, Grows, op' = o,
         Has(Condition(step)),
         o \in {"prepare", "length"} => step = 0,
         o = "e4" => step = 1, o = "e0" => step = 2, o = "verify" => step \in {0, 3},
         o = "play" => step = 3 /\ "attempted" \in peer'
  PROVE  StartupInv'
<1>1. FlagsInv'
  BY StartupParts DEF FlagsInv, Has, Grows
<1>2. Condition(step) \notin {"handle", "encrypted"}
  <2>1. step = 0 \/ step = 1 \/ step = 2 \/ step = 3
    BY Typed
  <2> QED BY <2>1, ConditionIs
<1>3. PlaceInv'
  BY <1>2 DEF PlaceInv, StartupCommands, Has, Grows
<1> QED BY <1>1, <1>3, StartupPartsNext

LEMMA StartupRun ==
  ASSUME TypeOK, StartupInv, Run
  PROVE  StartupInv'
<1> USE DEF Waiting
<1>1. CASE WaitAnswer
  <2>1. step' = step /\ op' = op /\ pc = "wait" /\ events # <<>> /\ events' = Tail(events)
    BY <1>1 DEF WaitAnswer
  <2>2. UNCHANGED peer \/ \E e \in EventSet : Process(e)
    BY <1>1, <2>1, TakeEffect DEF WaitAnswer
  <2>3. Grows
    BY <2>2, ProcessEffect DEF Grows
  <2> QED BY <2>1, <2>3, StartupStays
<1>2. CASE WaitTimeout
  BY <1>2, StartupStays DEF WaitTimeout, Goes, Grows
<1>3. CASE Gate
  BY <1>3, StartupStays DEF Gate, Goes, Grows
<1>4. CASE StartConnection
  <2>1. CASE pc = "flush" /\ pc' = "send" /\ peer' = {} /\ step' = 0
    BY <2>1, StartupPartsNext DEF FlagsInv, Has
  <2>2. CASE UNCHANGED <<peer, step>> /\ (Goes("leave") \/ Goes("loop"))
    BY <2>2, StartupStays DEF Goes, Grows
  <2>3. CASE UNCHANGED <<peer, step>> /\ (Call("setup") \/ Call("connect") \/ Call("reset"))
    <3>1. op' \in {"setup", "connect", "reset"}
      BY <2>3 DEF Call
    <3> QED BY <2>3, <3>1, StartupStays DEF Grows, StartupCommands
  <2> QED BY <1>4, <2>1, <2>2, <2>3 DEF StartConnection
<1>5. CASE Loop
  <2>1. step' = step
    BY <1>5 DEF Loop
  <2>2. pc' \in {"stop", "act"}
    BY <1>5 DEF Loop, Goes
  <2>3. UNCHANGED peer \/ \E e \in EventSet : Process(e)
    <3>1. CASE events # <<>> /\ events' = Tail(events) /\ Process(Head(events))
      BY <3>1, TakeEffect
    <3> QED BY <1>5, <3>1 DEF Loop
  <2>4. Grows
    BY <2>3, ProcessEffect DEF Grows
  <2> QED BY <2>1, <2>2, <2>4, StartupStays
<1>6. CASE Act
  <2>1. step' = step /\ Grows
    BY <1>6 DEF Act, Grows, AclSent
  <2>2. Goes("loop") \/ Goes("stop") \/ Goes("acl_setup") \/ Goes("startup") \/ Goes("limit") \/ Call("encrypt")
    BY <1>6 DEF Act
  <2>3. pc' \notin Waiting \/ op' = "encrypt"
    BY <2>2 DEF Goes, Call
  <2> QED BY <2>1, <2>3, StartupStays DEF StartupCommands
<1>7. CASE Startup
  <2>1. FlagsInv /\ (pc \in Waiting => PlaceInv) /\ (step = 0 \/ step = 1 \/ step = 2 \/ step = 3)
    BY Typed, StartupParts
  <2>2. CASE /\ pc = "startup" /\ UNCHANGED <<peer, step, tries>>
             /\ Has(<<"holding", "room", "acked", "air">>[step + 1])
             /\ Call(<<"verify", "e4", "e0", "verify">>[step + 1])
    <3>1. PICK o : o = <<"verify", "e4", "e0", "verify">>[step + 1]
      OBVIOUS
    <3>2. /\ o \in {"verify", "e4", "e0"} /\ (o = "e4" => step = 1) /\ (o = "e0" => step = 2)
          /\ o = "verify" => step \in {0, 3}
      BY <2>1, <3>1
    <3>3. op' = o
      BY <2>2, <3>1 DEF Call
    <3>4. Has(Condition(step))
      BY <2>2 DEF Condition
    <3> QED BY <2>2, <3>2, <3>3, <3>4, StartupCalls DEF StartupCommands, Grows
  <2>3. CASE pc = "ok" /\ op = "verify" /\ step = 0 /\ Call("prepare") /\ UNCHANGED <<peer, step, tries>>
    <3>1. op' = "prepare" /\ Has(Condition(step))
      BY <2>1, <2>3 DEF Call, PlaceInv, StartupCommands
    <3> QED BY <2>3, <3>1, StartupCalls DEF StartupCommands, Grows
  <2>4. CASE pc = "ok" /\ op = "prepare" /\ peer' = peer \cup AclSent /\ UNCHANGED <<step, tries>> /\ Call("length")
    <3>1. op' = "length" /\ Has(Condition(step)) /\ step = 0
      BY <2>1, <2>4 DEF Call, PlaceInv, StartupCommands
    <3> QED BY <2>4, <3>1, StartupCalls DEF StartupCommands, Grows, AclSent
  <2>5. CASE pc = "ok" /\ op \in {"length", "e4", "e0"} /\ Goes("limit") /\ step' = step + 1 /\ UNCHANGED peer
    <3>1. PlaceInv
      BY <2>1, <2>5
    <3>2. FlagsInv'
      BY <2>1, <2>5, <3>1, ConditionIs DEF FlagsInv, PlaceInv, Has, StartupCommands
    <3>3. pc' = "limit"
      BY <2>5 DEF Goes
    <3> QED BY <3>2, <3>3, StartupPartsNext
  <2>6. CASE /\ pc = "ok" /\ op = "verify" /\ step = 3 /\ peer' = peer \cup {"attempted"} /\ Call("play")
             /\ UNCHANGED <<step, tries>>
    <3>1. op' = "play" /\ Has(Condition(step))
      BY <2>1, <2>6 DEF Call, PlaceInv, StartupCommands
    <3> QED BY <2>6, <3>1, StartupCalls DEF StartupCommands, Grows
  <2>7. CASE pc = "ok" /\ op = "play" /\ Goes("limit") /\ peer' = peer \cup {"started"} \cup AclSent /\ UNCHANGED <<step, tries>>
    <3>1. PlaceInv
      BY <2>1, <2>7
    <3>2. FlagsInv'
      BY <2>1, <2>7, <3>1, ConditionIs DEF FlagsInv, PlaceInv, Has, StartupCommands, AclSent
    <3>3. pc' = "limit"
      BY <2>7 DEF Goes
    <3> QED BY <3>2, <3>3, StartupPartsNext
  <2>8. CASE Goes("limit") /\ step' = step /\ (peer' = peer \/ peer' = peer \cup {"failed"} \/ peer' = peer \cup AclSent)
    <3>1. pc' = "limit" /\ Grows
      BY <2>8 DEF Goes, Grows, AclSent
    <3> QED BY <2>8, <3>1, StartupStays
  <2> QED BY <1>7, <2>2, <2>3, <2>4, <2>5, <2>6, <2>7, <2>8 DEF Startup
<1>8. CASE Stop
  <2>1. UNCHANGED <<peer, step>>
    BY <1>8 DEF Stop
  <2>2. \/ Goes("leave") \/ Goes("park") \/ Goes("stop") \/ Goes("restart")
        \/ Call("cancel") \/ Call("rearm")
    BY <1>8 DEF Stop
  <2>3. pc' \notin Waiting \/ op' \in {"cancel", "rearm"}
    BY <2>2 DEF Goes, Call
  <2> QED BY <2>1, <2>3, StartupStays DEF StartupCommands, Grows
<1>9. CASE Leave
  BY <1>9, StartupStays DEF Leave, Goes, Grows
<1> QED BY <1>1, <1>2, <1>3, <1>4, <1>5, <1>6, <1>7, <1>8, <1>9 DEF Run

LEMMA StartupSteps ==
  ASSUME TypeOK, StartupInv, Next
  PROVE  StartupInv'
<1>1. CASE Console \/ Controller
  BY <1>1, StartupStays DEF Console, Controller, host, Grows
<1>2. CASE Restart
  BY <1>2, StartupPartsNext DEF Restart, FlagsInv, Has, Waiting
<1> QED BY <1>1, <1>2, StartupRun DEF Next

-----------------------------------------------------------------------------
(* One cancel at a time, and no stream out of a session.                   *)

\* What the invariant says where no cancel can be outstanding.
Unstopped == pc # "restart" /\ ~(op = "cancel" /\ pc \in {"wait", "no"})
NoCancel == ~In("cancel") /\ \A i \in DOMAIN events : ~IsDone(events[i], "cancel")

LEMMA NoneThere ==
  ASSUME CancelInv, Unstopped
  PROVE  NoCancel
BY DEF CancelInv, Unstopped, NoCancel

LEMMA CancelGoes ==
  ASSUME CancelInv, NEW l, Goes(l), l \notin {"wait", "ok"},
         Unstopped \/ l \in {"no", "restart"}, pc # "restart"
  PROVE  CancelInv'
<1>1. pc' = l /\ UNCHANGED <<op, inbox, events>>
  BY DEF Goes
<1>2. CASE Unstopped
  <2>1. NoCancel
    BY <1>2, NoneThere
  <2> QED BY <1>1, <2>1 DEF CancelInv, NoCancel, In, IsDone
<1>3. CASE l \in {"no", "restart"}
  BY <1>1, <1>3 DEF CancelInv, In, IsDone
<1> QED BY <1>2, <1>3

LEMMA CallPuts ==
  ASSUME TypeOK, NEW o \in Commands, Call(o)
  PROVE  /\ \A i \in DOMAIN inbox' : \/ inbox'[i] = o /\ i = Len(inbox') /\ pc' = "wait"
                                     \/ i \in DOMAIN inbox /\ inbox'[i] = inbox[i]
         /\ pc' = "wait" => \E i \in DOMAIN inbox' : inbox'[i] = o
         /\ \A i \in DOMAIN events' : i \in DOMAIN events /\ events'[i].kind = events[i].kind
                                      /\ events'[i].op = events[i].op
<1>1. DOMAIN inbox = 1..Len(inbox) /\ Len(inbox) \in Nat /\ inbox \in Seq(Commands) /\ DOMAIN events = 1..Len(events)
  BY Typed
<1>2. \A i \in DOMAIN events' : i \in DOMAIN events /\ events'[i].kind = events[i].kind
                                      /\ events'[i].op = events[i].op
  BY <1>1, CallEffect
<1>3. CASE pc' = "wait" /\ inbox' = Append(inbox, o)
  <2>1. /\ DOMAIN inbox' = 1..Len(inbox) + 1 /\ Len(inbox') = Len(inbox) + 1
        /\ \A i \in 1..Len(inbox) : inbox'[i] = inbox[i]
        /\ inbox'[Len(inbox) + 1] = o
    BY <1>1, <1>3
  <2>2. \A i \in 1..Len(inbox) + 1 : i \in 1..Len(inbox) \/ i = Len(inbox) + 1
    BY <1>1
  <2>3. Len(inbox) + 1 \in 1..Len(inbox) + 1
    BY <1>1
  <2>4. \E i \in DOMAIN inbox' : inbox'[i] = o
    BY <2>1, <2>3
  <2>5. \A i \in DOMAIN inbox' : \/ inbox'[i] = o /\ i = Len(inbox') /\ pc' = "wait"
                                 \/ i \in DOMAIN inbox /\ inbox'[i] = inbox[i]
    <3> TAKE i \in DOMAIN inbox'
    <3>1. i \in 1..Len(inbox) \/ i = Len(inbox) + 1
      BY <2>1, <2>2
    <3>2. CASE i \in 1..Len(inbox)
      BY <1>1, <2>1, <3>2
    <3>3. CASE i = Len(inbox) + 1
      BY <1>3, <2>1, <3>3
    <3> QED BY <3>1, <3>2, <3>3
  <2> QED BY <1>2, <2>4, <2>5
<1>4. CASE pc' = "no" /\ inbox' = inbox
  BY <1>2, <1>4
<1> QED BY <1>3, <1>4, CallEffect

LEMMA CancelCall ==
  ASSUME TypeOK, CancelInv, Unstopped, NEW o \in Commands, Call(o)
  PROVE  CancelInv'
<1>1. NoCancel
  BY NoneThere
<1>2. op' = o /\ pc' \in {"wait", "no"}
  BY CallEffect
<1>3. \A i \in DOMAIN events' : ~IsDone(events'[i], "cancel")
  BY <1>1, CallPuts DEF NoCancel, IsDone
<1>4. \A i \in DOMAIN inbox' : inbox'[i] = "cancel" => i = Len(inbox') /\ o = "cancel" /\ pc' = "wait"
  BY <1>1, CallPuts DEF NoCancel, In
<1>5. op' = "cancel" /\ pc' \in {"wait", "ok"} => \E i \in DOMAIN inbox' : inbox'[i] = "cancel"
  BY <1>2, CallPuts
<1> QED BY <1>2, <1>3, <1>4, <1>5 DEF CancelInv, In

LEMMA CancelTake ==
  ASSUME TypeOK, CancelInv, events # <<>>, events' = Tail(events), UNCHANGED <<op, inbox>>,
         pc # "restart",
         Unstopped \/ IF IsDone(events[1], "cancel") THEN TRUE ELSE pc' \in {"wait", "no"},
         op = "cancel" /\ pc' \in {"wait", "ok"} => pc = "wait"
  PROVE  CancelInv'
<1>1. /\ \A i \in DOMAIN events' : i + 1 \in DOMAIN events /\ events'[i] = events[i + 1] /\ i + 1 # 1
      /\ \A i, j \in DOMAIN events' : i + 1 = j + 1 => i = j
      /\ 1 \in DOMAIN events
  BY SMTT(30), TakeEffect, Typed
<1>2. CASE Unstopped
  <2>1. NoCancel
    BY <1>2, NoneThere
  <2>2. \A i \in DOMAIN events' : ~IsDone(events'[i], "cancel")
    BY <1>1, <2>1 DEF NoCancel
  <2>3. op = "cancel" /\ pc' \in {"wait", "ok"} => In("cancel") \/ ~In("play")
    BY DEF CancelInv
  <2> QED BY <2>1, <2>2, <2>3 DEF CancelInv, NoCancel, In
<1>3. CASE ~Unstopped
  <2>1. op = "cancel" /\ pc \in {"wait", "no"}
    BY <1>3 DEF Unstopped
  <2>2. op = "cancel" /\ pc' \in {"wait", "ok"} => In("cancel") \/ ~In("play")
    BY DEF CancelInv
  <2>3. CASE IsDone(events[1], "cancel")
    <3>1. ~In("cancel") /\ \A j \in DOMAIN events : IsDone(events[j], "cancel") => j = 1
      BY <1>1, <2>3 DEF CancelInv
    <3>2. \A i \in DOMAIN events' : ~IsDone(events'[i], "cancel")
      BY <1>1, <3>1
    <3> QED BY <2>2, <3>1, <3>2 DEF CancelInv, In
  <2>4. CASE ~IsDone(events[1], "cancel")
    <3>1. pc' \in {"wait", "no"}
      BY <1>3, <2>4
    <3>2. \A i \in DOMAIN events' : IsDone(events'[i], "cancel") =>
             ~In("cancel") /\ \A j \in DOMAIN events' : IsDone(events'[j], "cancel") => i = j
      BY <1>1 DEF CancelInv
    <3>3. \A i \in DOMAIN inbox : inbox[i] = "cancel" => i = Len(inbox)
      BY DEF CancelInv
    <3> QED BY <2>1, <2>2, <3>1, <3>2, <3>3 DEF CancelInv, In
  <2> QED BY <2>3, <2>4
<1> QED BY <1>2, <1>3

LEMMA CancelRun ==
  ASSUME TypeOK, CancelInv, Run
  PROVE  CancelInv'
<1> USE DEF Waiting
<1>1. CASE WaitAnswer
  <2>1. events # <<>> /\ events' = Tail(events) /\ UNCHANGED <<op, inbox>> /\ pc = "wait"
    BY <1>1 DEF WaitAnswer
  <2>2. Head(events) = events[1]
    BY <2>1, TakeEffect
  <2>3. op = "cancel" /\ ~IsDone(events[1], "cancel") => pc' \in {"wait", "no"}
    BY <1>1, <2>2 DEF WaitAnswer, IsDone
  <2> QED BY <2>1, <2>3, CancelTake DEF Unstopped
<1>2. CASE WaitTimeout
  BY <1>2, CancelGoes DEF WaitTimeout
<1>3. CASE Gate \/ Leave
  <2>1. pc \in Outside \cup {"leave"}
    BY <1>3 DEF Gate, Leave, Outside
  <2>2. Unstopped
    BY <2>1 DEF Unstopped, Outside
  <2>3. Goes("gate") \/ Goes("claim") \/ Goes("recheck") \/ Goes("recheck_pause") \/ Goes("flush")
    BY <1>3 DEF Gate, Leave
  <2> QED BY <2>1, <2>2, <2>3, CancelGoes DEF Unstopped
<1>4. CASE StartConnection
  <2>1. CASE pc = "flush" /\ pc' = "send" /\ events' = <<>> /\ UNCHANGED <<op, inbox>>
    <3>1. NoCancel
      BY <2>1, NoneThere DEF Unstopped
    <3> QED BY <2>1, <3>1 DEF NoCancel, CancelInv, In
  <2>2. CASE pc = "send" \/ (pc \in Waiting \ {"wait"} /\ op \in {"reset", "setup", "connect"})
    <3>1. Unstopped
      BY <2>2 DEF Unstopped
    <3>2. Call("reset") \/ Call("setup") \/ Call("connect") \/ Goes("leave") \/ Goes("loop")
      BY <1>4, <2>2 DEF StartConnection
    <3> QED BY <3>1, <3>2, CancelCall, CancelGoes DEF Unstopped, Commands
  <2> QED BY <1>4, <2>1, <2>2 DEF StartConnection
<1>5. CASE Loop
  <2>1. pc = "loop" /\ Unstopped
    BY <1>5 DEF Loop, Unstopped
  <2>2. CASE Goes("stop") \/ Goes("act")
    BY <2>1, <2>2, CancelGoes DEF Unstopped
  <2>3. CASE events # <<>> /\ events' = Tail(events) /\ pc' = "act" /\ UNCHANGED <<op, inbox>>
    BY <2>1, <2>3, CancelTake
  <2> QED BY <1>5, <2>2, <2>3 DEF Loop
<1>6. CASE Act
  <2>1. pc \in {"act", "acl_setup", "limit"} \/ (op = "encrypt" /\ pc \in {"ok", "no"})
    BY <1>6 DEF Act
  <2>2. Unstopped
    BY <2>1 DEF Unstopped
  <2>3. Goes("loop") \/ Goes("stop") \/ Goes("acl_setup") \/ Goes("startup") \/ Goes("limit") \/ Call("encrypt")
    BY <1>6 DEF Act
  <2> QED BY <2>2, <2>3, CancelCall, CancelGoes DEF Unstopped, Commands
<1>7. CASE Startup
  <2>1. Unstopped
    <3>1. \/ pc \in {"startup", "ok", "again"}
          \/ pc = "no" /\ op \in {"verify", "prepare", "length", "e4", "e0", "play"}
      BY <1>7 DEF Startup
    <3> QED BY <3>1 DEF Unstopped
  <2>2. Goes("limit") \/ \E o \in {"verify", "e4", "e0", "prepare", "length", "play"} : Call(o)
    <3>1. <<"verify", "e4", "e0", "verify">>[step + 1] \in {"verify", "e4", "e0"}
      <4>1. step = 0 \/ step = 1 \/ step = 2 \/ step = 3
        BY Typed
      <4> QED BY <4>1
    <3> QED BY <1>7, <3>1 DEF Startup
  <2>3. {"verify", "e4", "e0", "prepare", "length", "play"} \subseteq Commands
    BY DEF Commands
  <2> QED BY <2>1, <2>2, <2>3, CancelCall, CancelGoes DEF Unstopped
<1>8. CASE Stop
  <2>1. CASE pc \in {"stop", "ok", "park"}
    <3>1. Unstopped
      BY <2>1 DEF Unstopped
    <3>2. \/ Goes("leave") \/ Goes("park") \/ Goes("stop") \/ Goes("restart")
          \/ Call("cancel") \/ Call("rearm")
      BY <1>8, <2>1 DEF Stop
    <3> QED BY <2>1, <3>1, <3>2, CancelCall, CancelGoes DEF Commands
  <2>2. CASE pc = "no" /\ Goes("restart")
    BY <2>2, CancelGoes
  <2> QED BY <1>8, <2>1, <2>2 DEF Stop
<1> QED BY <1>1, <1>2, <1>3, <1>4, <1>5, <1>6, <1>7, <1>8 DEF Run

\* Nothing is put on the command queue by the controller.
LEMMA ExecuteTakes ==
  ASSUME TypeOK, inbox # <<>>, inbox' = Tail(inbox)
  PROVE  /\ \A i \in DOMAIN inbox' : i + 1 \in DOMAIN inbox /\ inbox'[i] = inbox[i + 1]
         /\ \A i \in DOMAIN inbox : i # 1 => \E k \in DOMAIN inbox' : inbox'[k] = inbox[i] /\ i = k + 1
         /\ 1 \in DOMAIN inbox /\ Head(inbox) = inbox[1] /\ Len(inbox') = Len(inbox) - 1 /\ Len(inbox) \in Nat
         /\ DOMAIN inbox' = 1..Len(inbox') /\ DOMAIN inbox = 1..Len(inbox)
<1>1. /\ Len(inbox') = Len(inbox) - 1 /\ Len(inbox) >= 1 /\ Head(inbox) = inbox[1]
      /\ DOMAIN inbox' = 1..Len(inbox') /\ DOMAIN inbox = 1..Len(inbox) /\ Len(inbox) \in Nat
      /\ \A i \in 1..Len(inbox') : i + 1 \in 1..Len(inbox) /\ inbox'[i] = inbox[i + 1]
  BY ExecuteEffect, Typed
<1>2. \A i \in DOMAIN inbox : i # 1 => i - 1 \in DOMAIN inbox' /\ inbox'[i - 1] = inbox[i] /\ i = (i - 1) + 1
  <2> TAKE i \in DOMAIN inbox
  <2> HAVE i # 1
  <2>1. i - 1 \in 1..Len(inbox') /\ (i - 1) + 1 = i
    BY <1>1
  <2> QED BY <1>1, <2>1
<1>3. 1 \in DOMAIN inbox
  BY <1>1
<1> QED BY <1>1, <1>2, <1>3

LEMMA CancelReport ==
  ASSUME TypeOK, CancelInv, UNCHANGED <<pc, op, inbox>>, NEW e \in EventSet, Receive(e), e.kind # "done"
  PROVE  CancelInv'
<1>1. DOMAIN events' = 1..Len(events') /\ DOMAIN events = 1..Len(events)
  BY ReceiveEffect, Typed
<1>2. \A i \in DOMAIN events' : IsDone(events'[i], "cancel") => i \in DOMAIN events /\ events'[i] = events[i]
  BY <1>1, ReceiveEffect DEF IsDone
<1> QED BY <1>2 DEF CancelInv, In

LEMMA CancelExecute ==
  ASSUME TypeOK, CancelInv, Execute, UNCHANGED <<pc, op>>, NEW e, Emitted(e), Receive(e)
  PROVE  CancelInv'
<1>1. inbox # <<>> /\ inbox' = Tail(inbox)
  BY DEF Execute
<1>2. e \in EventSet /\ (e.kind = "done" => e.op = inbox[1])
  BY <1>1, EmittedTyped, ExecuteTakes
<1>3. DOMAIN events' = 1..Len(events') /\ DOMAIN events = 1..Len(events)
  BY <1>2, ReceiveEffect, Typed
<1>4. \A i \in DOMAIN inbox' : inbox'[i] = "cancel" => i = Len(inbox')
  BY <1>1, ExecuteTakes DEF CancelInv
<1>5. In("cancel")' => In("cancel") /\ inbox[1] # "cancel"
  <2> SUFFICES ASSUME NEW i \in DOMAIN inbox', inbox'[i] = "cancel"
               PROVE  In("cancel") /\ inbox[1] # "cancel"
    BY DEF In
  <2>1. i + 1 \in DOMAIN inbox /\ inbox[i + 1] = "cancel"
    BY <1>1, ExecuteTakes
  <2>2. i + 1 = Len(inbox) /\ i + 1 # 1
    BY <1>1, <2>1, ExecuteTakes DEF CancelInv
  <2>3. inbox[1] = "cancel" => 1 = Len(inbox)
    BY <1>1, ExecuteTakes DEF CancelInv
  <2> QED BY <2>1, <2>2, <2>3 DEF In
<1>6. In("play")' => In("play") /\ inbox[1] # "cancel"
  <2> SUFFICES ASSUME NEW i \in DOMAIN inbox', inbox'[i] = "play"
               PROVE  In("play") /\ inbox[1] # "cancel"
    BY DEF In
  <2>1. i + 1 \in DOMAIN inbox /\ inbox[i + 1] = "play" /\ i + 1 # 1 /\ i \in 1..Len(inbox) - 1
    BY <1>1, ExecuteTakes
  <2>2. inbox[1] = "cancel" => 1 = Len(inbox)
    BY <1>1, ExecuteTakes DEF CancelInv
  <2>3. Len(inbox) # 1
    BY <1>1, <2>1, ExecuteTakes
  <2> QED BY <2>1, <2>2, <2>3 DEF In
<1>7. In("cancel") /\ inbox[1] # "cancel" => In("cancel")'
  BY <1>1, ExecuteTakes DEF In
<1>8. CASE inbox[1] = "cancel"
  <2>1. In("cancel") /\ \A j \in DOMAIN events : ~IsDone(events[j], "cancel")
    BY <1>1, <1>8, ExecuteTakes DEF In, CancelInv
  <2>2. \A i \in DOMAIN events' : IsDone(events'[i], "cancel") => i = Len(events) + 1
    BY <1>2, <1>3, <2>1, ReceiveEffect
  <2>3. ~In("cancel")' /\ ~In("play")'
    BY <1>5, <1>6, <1>8
  <2>4. (op = "cancel" /\ pc \in {"wait", "no"}) \/ pc = "restart"
    BY <2>1 DEF CancelInv
  <2> QED BY <1>4, <2>2, <2>3, <2>4 DEF CancelInv
<1>9. CASE inbox[1] # "cancel"
  <2>1. \A i \in DOMAIN events' : IsDone(events'[i], "cancel") => i \in DOMAIN events /\ events'[i] = events[i]
    BY ZenonT(40), <1>2, <1>3, <1>9, ReceiveEffect DEF IsDone
  <2>2. In("cancel")' <=> In("cancel")
    BY <1>5, <1>7, <1>9
  <2> QED BY <1>4, <1>6, <2>1, <2>2 DEF CancelInv
<1> QED BY <1>8, <1>9

LEMMA CancelSteps ==
  ASSUME TypeOK, DueInv, CancelInv, Next
  PROVE  CancelInv'
<1>1. CASE Console
  BY <1>1 DEF Console, host, queue, radio, CancelInv, In, IsDone
<1>2. CASE Restart
  BY <1>2 DEF Restart, CancelInv, In, IsDone
<1>3. CASE Controller
  <2>1. UNCHANGED <<pc, op>>
    BY <1>3 DEF Controller, host
  <2>2. CASE Execute
    BY <2>1, <2>2, ExecuteEmits, CancelExecute
  <2>3. CASE Deliver \/ Disconnect \/ Odd \/ StreamEnds
    BY <2>1, <2>3, HeadsetReports, CancelReport
  <2>4. CASE ManualTrial
    BY <2>1, <2>4 DEF ManualTrial, queue, CancelInv, In
  <2> QED BY <1>3, <2>2, <2>3, <2>4 DEF Controller
<1> QED BY <1>1, <1>2, <1>3, CancelRun DEF Next

\* A step of the keeper leaves the stream alone.
Place == (Session \ {"park"}) \cup Waiting \cup {"restart"}

LEMMA QuietGoes ==
  ASSUME QuietInv, NEW l, Goes(l), UNCHANGED <<pump, trial>>, Has("attempted") => "attempted" \in peer',
         Quiet \/ l \in Place, ~parked'
  PROVE  QuietInv'
<1>1. pc' = l /\ UNCHANGED <<op, inbox>>
  BY DEF Goes
<1>2. Quiet' <=> Quiet
  BY <1>1 DEF Quiet, In
<1>3. ~Quiet' => /\ Has("attempted")' /\ op' \notin {"reset", "setup", "connect", "rearm"} /\ pc' \in Place
  BY <1>1, <1>2 DEF QuietInv, Has
<1> QED BY <1>3 DEF QuietInv, Place

\* The board is restarted, or a wait is given up.
LEMMA QuietGivesUp ==
  ASSUME QuietInv, NEW l \in {"no", "restart"}, Goes(l), UNCHANGED <<pump, trial, peer, parked>>,
         pc = "wait" \/ l = "restart"
  PROVE  QuietInv'
<1>1. pc' = l /\ UNCHANGED <<op, inbox>>
  BY DEF Goes
<1>2. Quiet' <=> Quiet
  BY <1>1 DEF Quiet, In
<1>3. ~Quiet' => /\ Has("attempted")' /\ op' \notin {"reset", "setup", "connect", "rearm"} /\ pc' \in Place
  BY <1>1, <1>2 DEF QuietInv, Has, Place, Waiting
<1>4. CASE l = "restart"
  BY <1>1, <1>3, <1>4 DEF QuietInv, Place
<1>5. CASE pc = "wait" /\ l = "no"
  <2>1. parked => op = "rearm"
    BY <1>5 DEF QuietInv
  <2> QED BY <1>1, <1>3, <1>5, <2>1 DEF QuietInv, Place
<1> QED BY <1>4, <1>5

LEMMA QuietCall ==
  ASSUME TypeOK, QuietInv, NEW o \in Commands, Call(o), UNCHANGED <<pump, trial>>,
         Has("attempted") => "attempted" \in peer',
         o \in {"reset", "setup", "connect", "rearm"} => Quiet,
         o = "play" => "attempted" \in peer', ~parked' \/ o = "rearm"
  PROVE  QuietInv'
<1>1. op' = o /\ pc' \in {"wait", "no"}
  BY CallEffect
<1>2. In("play")' => In("play") \/ o = "play"
  BY CallPuts DEF In
<1>3. ~Quiet' => ~Quiet \/ o = "play"
  BY <1>2 DEF Quiet
<1>4. ~Quiet' => "attempted" \in peer' /\ o \notin {"reset", "setup", "connect", "rearm"}
  BY <1>3 DEF QuietInv
<1> QED BY <1>1, <1>4 DEF QuietInv, Has, Waiting

\* While the keeper waits for a cancel that was answered, nothing is left that starts a
\* stream.
LEMMA CancelLast ==
  ASSUME CancelInv, op = "cancel", pc = "ok", ~pump, trial = "ended"
  PROVE  Quiet
BY DEF CancelInv, Quiet

LEMMA QuietRun ==
  ASSUME TypeOK, StartupInv, AnswersInv, CancelInv, QuietInv, Run
  PROVE  QuietInv'
<1> USE DEF Place, Session, Waiting
<1>1. UNCHANGED <<pump, trial>>
  BY DEF Run
<1>2. CASE WaitAnswer
  <2>1. /\ events # <<>> /\ events' = Tail(events) /\ pc = "wait" /\ UNCHANGED <<op, inbox, parked>>
        /\ UNCHANGED peer \/ Process(Head(events))
    BY <1>2 DEF WaitAnswer
  <2>2. Head(events) = events[1] /\ events[1] \in EventSet /\ 1 \in DOMAIN events
    BY <2>1, TakeEffect, Typed
  <2>3. Has("attempted") => "attempted" \in peer'
    BY <2>1, <2>2, ProcessEffect DEF Has
  <2>4. pc' \in Waiting
    BY <1>2, <2>2 DEF WaitAnswer, EventSet
  <2>5. op = "rearm" => pc' \in {"wait", "ok", "no"}
    BY <1>2, <2>2 DEF WaitAnswer, AnswersInv
  <2>6. Quiet' <=> Quiet
    BY <1>1, <2>1 DEF Quiet, In
  <2> QED BY <2>1, <2>3, <2>4, <2>5, <2>6 DEF QuietInv, Has
<1>3. CASE WaitTimeout
  BY <1>1, <1>3, QuietGivesUp DEF WaitTimeout, still
<1>4. CASE Gate \/ Leave
  <2>1. pc \in Outside \cup {"leave"} /\ UNCHANGED <<peer, parked>>
    BY <1>4 DEF Gate, Leave, Outside
  <2>2. Quiet /\ ~parked
    BY <2>1 DEF QuietInv, Outside
  <2>4. ~parked'
    BY <2>1, <2>2
  <2>3. \E l : Goes(l)
    BY <1>4 DEF Gate, Leave
  <2> QED BY <1>1, <2>1, <2>2, <2>3, <2>4, QuietGoes DEF Has
<1>5. CASE StartConnection
  <2>1. parked' = parked
    BY <1>5 DEF StartConnection
  <2>2. CASE pc = "flush" /\ pc' = "send" /\ UNCHANGED <<op, inbox>>
    <3>1. Quiet /\ ~parked
      BY <2>2 DEF QuietInv
    <3>2. Quiet'
      BY <1>1, <2>2, <3>1 DEF Quiet, In
    <3> QED BY <2>1, <3>1, <3>2 DEF QuietInv
  <2>3. CASE pc = "send" \/ (pc \in Waiting \ {"wait"} /\ op \in {"reset", "setup", "connect"})
    <3>1. Quiet /\ ~parked /\ ~parked'
      BY <2>1, <2>3 DEF QuietInv
    <3>2. /\ peer' = peer
          /\ Call("reset") \/ Call("setup") \/ Call("connect") \/ Goes("leave") \/ Goes("loop")
      BY <1>5, <2>3 DEF StartConnection
    <3> QED BY <1>1, <2>1, <3>1, <3>2, QuietCall, QuietGoes DEF Commands, Has
  <2> QED BY <1>5, <2>2, <2>3 DEF StartConnection
<1>6. CASE Loop
  <2>1. pc = "loop" /\ parked' = parked
    BY <1>6 DEF Loop
  <2>2. ~parked /\ ~parked'
    BY <2>1 DEF QuietInv
  <2>3. CASE (Goes("stop") \/ Goes("act")) /\ UNCHANGED peer
    BY <1>1, <2>1, <2>2, <2>3, QuietGoes DEF Has
  <2>4. CASE events # <<>> /\ events' = Tail(events) /\ Process(Head(events)) /\ pc' = "act" /\ UNCHANGED <<op, inbox>>
    <3>1. Has("attempted") => "attempted" \in peer'
      BY <2>4, TakeEffect, ProcessEffect DEF Has
    <3>2. Quiet' <=> Quiet
      BY <1>1, <2>4 DEF Quiet, In
    <3> QED BY <2>1, <2>2, <2>4, <3>1, <3>2 DEF QuietInv, Has
  <2> QED BY <1>6, <2>3, <2>4 DEF Loop
<1>7. CASE Act
  <2>1. pc \in {"act", "acl_setup", "limit"} \/ (op = "encrypt" /\ pc \in {"ok", "no"})
    BY <1>7 DEF Act
  <2>2. ~parked /\ ~parked'
    BY <1>7, <2>1 DEF QuietInv, Act
  <2>3. Goes("loop") \/ Goes("stop") \/ Goes("acl_setup") \/ Goes("startup") \/ Goes("limit") \/ Call("encrypt")
    BY <1>7 DEF Act
  <2>4. Has("attempted") => "attempted" \in peer'
    BY <1>7 DEF Act, Has
  <2> QED BY <1>1, <2>2, <2>3, <2>4, QuietCall, QuietGoes DEF Commands, Has
<1>8. CASE Startup
  <2>1. ~parked /\ ~parked'
    <3>1. \/ pc \in {"startup", "again"}
          \/ pc \in {"ok", "no"} /\ op \in {"verify", "prepare", "length", "e4", "e0", "play"}
      BY <1>8 DEF Startup
    <3> QED BY <1>8, <3>1 DEF QuietInv, Startup, still
  <2>2. /\ Has("attempted") => "attempted" \in peer'
        /\ Goes("limit") \/ (\E o \in {"verify", "e4", "e0", "prepare", "length"} : Call(o))
           \/ (Call("play") /\ "attempted" \in peer')
    <3>1. <<"verify", "e4", "e0", "verify">>[step + 1] \in {"verify", "e4", "e0"}
      <4>1. step = 0 \/ step = 1 \/ step = 2 \/ step = 3
        BY Typed
      <4> QED BY <4>1
    <3> QED BY <1>8, <3>1 DEF Startup, Has
  <2>3. {"verify", "e4", "e0", "prepare", "length", "play"} \subseteq Commands
    BY DEF Commands
  <2> QED BY <1>1, <2>1, <2>2, <2>3, QuietCall, QuietGoes DEF Has
<1>9. CASE Stop
  <2>1. peer' = peer
    BY <1>9 DEF Stop
  <2>2. CASE pc = "stop" /\ (IF ToStop THEN Call("cancel") ELSE Goes("leave")) /\ UNCHANGED <<tries, parked>>
    <3>1. ~parked /\ ~parked' /\ (~Has("attempted") => Quiet)
      BY <2>2 DEF QuietInv
    <3> QED BY <1>1, <2>1, <2>2, <3>1, QuietCall, QuietGoes DEF Commands, ToStop, Has
  <2>3. CASE pc = "ok" /\ op = "cancel" /\ ~pump /\ trial = "ended" /\ Goes("park") /\ UNCHANGED <<tries, parked>>
    <3>1. ~parked /\ ~parked'
      BY <2>3 DEF QuietInv
    <3> QED BY <1>1, <2>1, <2>3, <3>1, CancelLast, QuietGoes DEF Has
  <2>4. CASE pc = "ok" /\ op = "cancel" /\ (Goes("stop") \/ Goes("restart")) /\ UNCHANGED parked
    <3>1. ~parked /\ ~parked'
      BY <2>4 DEF QuietInv
    <3> QED BY <1>1, <2>1, <2>4, <3>1, QuietGoes DEF Has
  <2>5. CASE pc = "park" /\ Call("rearm") /\ parked' = TRUE /\ UNCHANGED tries
    <3>1. Quiet
      BY <2>5 DEF QuietInv
    <3> QED BY <1>1, <2>1, <2>5, <3>1, QuietCall DEF Commands, Has
  <2>6. CASE Goes("restart") /\ UNCHANGED <<tries, parked>>
    BY <1>1, <2>1, <2>6, QuietGivesUp
  <2>7. CASE pc = "ok" /\ op = "rearm" /\ Goes("leave") /\ parked' = FALSE /\ UNCHANGED tries
    <3>1. Quiet
      BY <2>7 DEF QuietInv
    <3> QED BY <1>1, <2>1, <2>7, <3>1, QuietGoes DEF Has
  <2> QED BY <1>9, <2>2, <2>3, <2>4, <2>5, <2>6, <2>7 DEF Stop
<1> QED BY <1>2, <1>3, <1>4, <1>5, <1>6, <1>7, <1>8, <1>9 DEF Run

LEMMA QuietSteps ==
  ASSUME TypeOK, StartupInv, AnswersInv, CancelInv, QuietInv, Next
  PROVE  QuietInv'
<1>1. CASE Console
  BY <1>1 DEF Console, host, radio, QuietInv, Quiet, In, Has
<1>2. CASE Restart
  BY <1>2 DEF Restart, QuietInv, Quiet, In
<1>3. CASE Controller
  <2>1. UNCHANGED <<pc, op, peer, parked>>
    BY <1>3 DEF Controller, host
  <2>2. Quiet => Quiet'
    <3>1. CASE Execute
      <4>1. inbox # <<>> /\ inbox' = Tail(inbox)
        BY <3>1 DEF Execute
      <4>2. In("play")' => In("play")
        BY <4>1, ExecuteTakes DEF In
      <4>3. Head(inbox) = "play" => In("play")
        BY <4>1, ExecuteTakes DEF In
      <4> QED BY <3>1, <4>2, <4>3 DEF Execute, Radio, Quiet
    <3>2. CASE Deliver \/ Disconnect \/ Odd \/ StreamEnds \/ ManualTrial
      BY <3>2 DEF Deliver, Disconnect, Odd, StreamEnds, ManualTrial, Quiet, In
    <3> QED BY <1>3, <3>1, <3>2 DEF Controller
  <2> QED BY <2>1, <2>2 DEF QuietInv, Has
<1> QED BY <1>1, <1>2, <1>3, QuietRun DEF Next

-----------------------------------------------------------------------------
(* A manual session is alone; whoever streams was verified.                *)

LEMMA TypeSteps ==
  ASSUME TypeOK, StartupInv, Next
  PROVE  TypeOK'
BY RunTypes, ControllerSteps, RestartTypes, ConsoleTypes DEF Next

LEMMA KeeperStarts ==
  ASSUME Init
  PROVE  KeeperKeeps
<1>1. <<>> \in Seq(EventSet) /\ <<>> \in Seq(Commands) /\ Len(<<>>) = 0 /\ Cap \in Nat /\ MaxInbox \in Nat
      /\ MaxTries \in Nat /\ MaxOdd \in Nat
  BY KeeperAssumption
<1>2. op \in Commands /\ pc \in Outside /\ tries \in 0..MaxTries /\ odd \in 0..MaxOdd
  BY <1>1 DEF Init, Commands, Outside
<1>3. /\ events \in Seq(EventSet) /\ inbox \in Seq(Commands) /\ Len(inbox) <= MaxInbox /\ Len(events) <= Cap
  BY <1>1 DEF Init
<1>4. TypeOK
  <2>1. {enabled, busy, pauseRequested, parked, lost, missed, up, pump} \subseteq BOOLEAN
    BY DEF Init
  <2>2. /\ con \in {"on", "pausing", "idle_seen", "manual", "resuming"} /\ peer \subseteq Flags /\ step \in 0..3
        /\ due \subseteq Kinds /\ trial \in {"idle", "running", "ended", "fault"} /\ taken \subseteq {"old", "gap"}
    BY DEF Init
  <2> QED BY <1>2, <1>3, <2>1, <2>2 DEF TypeOK, EventSet
<1>5. GateInv /\ DueInv
  BY DEF Init, GateInv, DueInv, Outside
<1>6. AnswersInv /\ CancelInv /\ QuietInv
  BY DEF Init, AnswersInv, CancelInv, QuietInv, Quiet, In
<1>7. StartupInv
  BY DEF Init, StartupInv, Has, Waiting
<1> QED BY <1>4, <1>5, <1>6, <1>7 DEF KeeperKeeps

LEMMA KeeperStays ==
  ASSUME KeeperKeeps, [Next]_vars
  PROVE  KeeperKeeps'
<1>1. TypeOK /\ GateInv /\ DueInv /\ AnswersInv /\ StartupInv /\ CancelInv /\ QuietInv
  BY DEF KeeperKeeps
<1>2. CASE Next
  BY <1>1, <1>2, TypeSteps, GateSteps, DueSteps, AnswersSteps, StartupSteps, CancelSteps, QuietSteps DEF KeeperKeeps
<1>3. CASE UNCHANGED vars
  <2>1. UNCHANGED <<con, enabled, pauseRequested, busy, pc, op, peer, step, tries, parked, taken>>
    BY <1>3 DEF vars, console, host
  <2>2. UNCHANGED <<events, lost, missed, inbox, up, due, trial, pump, odd>>
    BY <1>3 DEF vars, queue, radio
  <2>3. TypeOK'
    BY <1>1, <2>1, <2>2 DEF TypeOK
  <2>4. GateInv' /\ DueInv'
    BY <1>1, <2>1, <2>2 DEF GateInv, DueInv
  <2>5. AnswersInv'
    BY <1>1, <2>1, <2>2 DEF AnswersInv
  <2>6. StartupInv'
    BY <1>1, <2>1, <2>2 DEF StartupInv, Has
  <2>7. CancelInv'
    BY <1>1, <2>1, <2>2 DEF CancelInv, In
  <2>8. QuietInv'
    BY <1>1, <2>1, <2>2 DEF QuietInv, Quiet, In, Has
  <2> QED BY <2>3, <2>4, <2>5, <2>6, <2>7, <2>8 DEF KeeperKeeps
<1> QED BY <1>2, <1>3

\* The invariant of the keeper, the console and the controller holds in every reachable
\* state, whatever the sizes of the queues and the number of attempts (run, stop_audio,
\* audio_startup, ull_auto_enable).
THEOREM KeeperKept == Spec => []KeeperKeeps
BY KeeperStarts, KeeperStays, PTL DEF Spec

\* Whoever streams was verified over an encrypted connection, both answers of the tunnel
\* came, and stop_audio knows that there is something to stop (process, audio_startup).
THEOREM StreamersAreKnown == Spec => []KeeperInv
<1>1. ASSUME KeeperKeeps PROVE KeeperInv
  <2>1. TypeOK /\ StartupInv /\ QuietInv
    BY <1>1 DEF KeeperKeeps
  <2>2. Has("started") => {"verified", "idle", "holding", "acked", "air", "attempted"} \subseteq peer
    BY <2>1 DEF StartupInv, Has
  <2>3. (pump \/ trial = "running") => Has("attempted")
    BY <2>1 DEF QuietInv, Quiet
  <2> QED BY <2>1, <2>2, <2>3 DEF KeeperInv
<1> QED BY <1>1, KeeperKept, PTL

\* A manual session has the board for itself: the keeper is out of its session, waits for
\* no command and left no stream and no paused worker behind (ull_auto_enable, run).
THEOREM ManualIsAlone == Spec => []ManualAlone
<1>1. ASSUME KeeperKeeps PROVE ManualAlone
  <2>1. GateInv /\ QuietInv
    BY <1>1 DEF KeeperKeeps
  <2>2. con = "manual" => pc \in Outside
    BY <2>1 DEF GateInv
  <2>3. pc \in Outside => Quiet
    BY <2>1 DEF QuietInv, Outside, Session, Waiting
  <2>4. pc \in Outside => pc \notin {"wait", "ok", "no", "restart"}
    BY DEF Outside
  <2>5. pc \in Outside => ~parked
    BY <2>1, <2>4 DEF QuietInv
  <2> QED BY <2>2, <2>3, <2>5 DEF ManualAlone, Quiet
<1> QED BY <1>1, KeeperKept, PTL

-----------------------------------------------------------------------------
(* Old news: the reset that opens a session.                               *)

\* A reset that is still to come meets no stream.
LEMMA ResetMeetsQuiet ==
  ASSUME QuietInv, OldInv
  PROVE  ResetPending \/ pc = "send" => Quiet
<1>1. ~Quiet => InSession /\ pc # "send" /\ op \notin {"reset", "setup", "connect"}
  BY DEF QuietInv, InSession, Session, Waiting
<1>2. InSession /\ ResetPending => op \in {"reset", "setup", "connect"}
  BY DEF OldInv, NoOldNews, Opening
<1> QED BY <1>1, <1>2

\* The keeper leaves the session or is out of it.
LEMMA OldOut ==
  ASSUME OldInv, UNCHANGED <<events, inbox, up, due>>, ~InSession', pc' # "send"
  PROVE  OldInv'
BY DEF OldInv, ResetsFirst, ResetsEnd, ResetPending, Silent

\* In a session whose reset is over.
LEMMA OldGoes ==
  ASSUME TypeOK, OldInv, InSession, ~ResetPending, NEW l, Goes(l), l # "send"
  PROVE  OldInv'
<1>1. UNCHANGED <<events, inbox>> /\ pc' = l
  BY DEF Goes
<1>2. ~ResetPending' /\ NoOldNews
  BY <1>1 DEF ResetPending, OldInv
<1> QED BY <1>1, <1>2 DEF OldInv, ResetsFirst, ResetsEnd, NoOldNews

LEMMA CallKeeps ==
  ASSUME TypeOK, NEW o \in Commands, o # "reset", Call(o)
  PROVE  events' = events /\ (ResetPending' <=> ResetPending) /\ pc' # "send"
<1>1. events' = events /\ pc' \in {"wait", "no"}
  BY CallEffect
<1>2. ResetPending' => ResetPending
  BY CallPuts DEF ResetPending
<1>3. ResetPending => ResetPending'
  <2>1. DOMAIN inbox = 1..Len(inbox) /\ Len(inbox) \in Nat
    BY Typed
  <2>2. \A i \in 1..Len(inbox) : i \in DOMAIN inbox' /\ inbox'[i] = inbox[i]
    <3>1. CASE inbox' = inbox
      BY <2>1, <3>1
    <3>2. CASE inbox' = Append(inbox, o)
      BY <2>1, <3>2, Typed
    <3> QED BY <3>1, <3>2, CallEffect
  <2> QED BY <2>1, <2>2 DEF ResetPending
<1> QED BY <1>1, <1>2, <1>3

LEMMA OldCall ==
  ASSUME TypeOK, OldInv, InSession, ~ResetPending, NEW o \in Commands, o # "reset", Call(o)
  PROVE  OldInv'
<1>1. events' = events /\ ~ResetPending' /\ pc' # "send"
  BY CallKeeps
<1>2. ResetsFirst'
  BY <1>1 DEF ResetsFirst, ResetPending
<1>3. NoOldNews'
  BY <1>1 DEF OldInv, NoOldNews
<1>4. ResetsEnd'
  BY <1>1 DEF OldInv, ResetsEnd
<1> QED BY <1>2, <1>3, <1>4 DEF OldInv

\* An event is taken by a session whose reset is over.
LEMMA OldTake ==
  ASSUME TypeOK, OldInv, InSession, ~ResetPending, events # <<>>, events' = Tail(events), inbox' = inbox,
         pc' # "send"
  PROVE  OldInv'
<1>1. /\ \A i \in DOMAIN events' : i + 1 \in DOMAIN events /\ events'[i] = events[i + 1]
      /\ \A i, j \in DOMAIN events' : i < j => i + 1 < j + 1
  BY TakeEffect, Typed
<1>2. ~ResetPending' /\ ResetsFirst'
  BY DEF ResetPending, OldInv, ResetsFirst
<1>3. NoOldNews'
  BY <1>1, <1>2 DEF OldInv, NoOldNews
<1>4. ResetsEnd'
  BY <1>1, <1>2 DEF OldInv, ResetsEnd
<1> QED BY <1>2, <1>3, <1>4 DEF OldInv

\* The reset is sent: everything that waits is old.
LEMMA OldReset ==
  ASSUME TypeOK, OldInv, pc = "send", Call("reset"), UNCHANGED <<up, due>>
  PROVE  OldInv'
<1>1. "reset" \in Commands /\ "reset" \in Opening
  BY DEF Commands, Opening
<1>2. ~InSession' /\ pc' # "send"
  BY <1>1, CallEffect DEF InSession, Session, Waiting
<1>3. ResetsFirst'
  <2> SUFFICES ASSUME NEW i \in DOMAIN inbox', NEW j \in DOMAIN inbox', i < j, inbox'[i] = "reset"
               PROVE  inbox'[j] \in Opening
    BY DEF ResetsFirst
  <2>1. CASE inbox'[j] = "reset"
    BY <1>1, <2>1
  <2>2. CASE inbox'[j] # "reset"
    <3>1. j \in DOMAIN inbox /\ inbox'[j] = inbox[j]
      BY <1>1, <2>2, CallPuts
    <3>2. DOMAIN inbox = 1..Len(inbox) /\ Len(inbox) \in Nat
      BY Typed
    <3>3. Len(inbox') >= Len(inbox) /\ DOMAIN inbox' = 1..Len(inbox') /\ Len(inbox') \in Nat
      <4>1. CASE inbox' = inbox
        BY <3>2, <4>1
      <4>2. CASE inbox' = Append(inbox, "reset")
        BY <4>2, Typed
      <4> QED BY <1>1, <4>1, <4>2, CallEffect
    <3>4. i # Len(inbox') /\ i \in Nat
      BY <3>1, <3>2, <3>3
    <3>5. CASE i \in DOMAIN inbox /\ inbox'[i] = inbox[i]
      BY <3>1, <3>5 DEF OldInv, ResetsFirst
    <3> QED BY <1>1, <3>4, <3>5, CallPuts
  <2> QED BY <2>1, <2>2
<1>4. ResetsEnd'
  <2> SUFFICES ASSUME NEW i \in DOMAIN events', IsDone(events'[i], "reset")
               PROVE  Silent' /\ \A j \in DOMAIN events' : i < j => events'[j].kind = "done"
    BY DEF ResetsEnd
  <2>1. /\ \A j \in DOMAIN events' : j \in DOMAIN events /\ events'[j].kind = events[j].kind
        /\ events'[i].op = events[i].op
    BY <1>1, CallPuts
  <2>2. Silent /\ \A j \in DOMAIN events : i < j => events[j].kind = "done"
    BY <2>1 DEF OldInv, ResetsEnd, IsDone
  <2>3. Silent'
    BY <1>1, <2>2, CallPuts DEF Silent
  <2> QED BY <2>1, <2>2, <2>3
<1> QED BY <1>2, <1>3, <1>4 DEF OldInv

\* The next event ends or does not end a wait.
LEMMA OldWait ==
  ASSUME TypeOK, OldInv, WaitAnswer, up' = up
  PROVE  OldInv'
<1>1. /\ pc = "wait" /\ events # <<>> /\ events' = Tail(events) /\ UNCHANGED <<op, inbox>>
      /\ UNCHANGED due \/ Process(Head(events))
  BY DEF WaitAnswer
<1>2. /\ \A i \in DOMAIN events' : i + 1 \in DOMAIN events /\ events'[i] = events[i + 1] /\ 1 < i + 1
      /\ \A i, j \in DOMAIN events' : i < j => i + 1 < j + 1
      /\ Head(events) = events[1] /\ events[1] \in EventSet /\ 1 \in DOMAIN events
  BY <1>1, TakeEffect, Typed
<1>3. ~up => due' = due
  BY <1>1, <1>2, ProcessEffect
<1>4. pc' \in Waiting
  BY <1>2 DEF WaitAnswer, EventSet, Waiting
<1>5. (ResetPending' <=> ResetPending) /\ (Silent => Silent') /\ ResetsFirst'
  BY <1>1, <1>3 DEF ResetPending, Silent, OldInv, ResetsFirst
<1>6. pc' # "send"
  BY <1>4 DEF Waiting
<1>7. ResetsEnd'
  <2> SUFFICES ASSUME NEW i \in DOMAIN events', IsDone(events'[i], "reset")
               PROVE  /\ ResetPending' => Silent' /\ \A j \in DOMAIN events' : i < j => events'[j].kind = "done"
                      /\ \A j \in DOMAIN events' : i < j /\ events'[j].old => events'[j].kind = "done"
    BY <1>6 DEF ResetsEnd
  <2>1. /\ ResetPending => Silent /\ \A j \in DOMAIN events : i + 1 < j => events[j].kind = "done"
        /\ \A j \in DOMAIN events : i + 1 < j /\ events[j].old => events[j].kind = "done"
    BY <1>2 DEF OldInv, ResetsEnd
  <2> QED BY <1>2, <1>5, <2>1
<1>8. InSession' => NoOldNews'
  <2>1. CASE op # "reset"
    <3>1. NoOldNews
      BY <1>1, <2>1 DEF OldInv, InSession, Waiting
    <3>2. ResetPending => op = "setup" /\ Len(inbox) = 2 /\ inbox[1] = "reset" /\ inbox[2] = "setup"
      BY <1>1, <2>1, <3>1 DEF NoOldNews, Opening
    <3>3. /\ \A i \in DOMAIN events' : events'[i].old => events'[i].kind = "done"
          /\ ResetPending => \A i \in DOMAIN events' : events'[i].kind = "done"
      BY <1>2, <3>1 DEF NoOldNews
    <3>4. ResetPending => Silent
      BY <3>1 DEF NoOldNews
    <3> QED BY <1>1, <1>4, <1>5, <3>2, <3>3, <3>4 DEF NoOldNews, Opening
  <2>2. CASE op = "reset" /\ pc' = "ok"
    <3>1. IsDone(events[1], "reset")
      BY <1>2, <2>2 DEF WaitAnswer, IsDone
    <3>2. /\ ResetPending => Silent /\ \A j \in DOMAIN events : 1 < j => events[j].kind = "done"
          /\ \A j \in DOMAIN events : 1 < j /\ events[j].old => events[j].kind = "done"
      BY <1>2, <3>1 DEF OldInv, ResetsEnd
    <3>3. /\ \A i \in DOMAIN events' : events'[i].old => events'[i].kind = "done"
          /\ ResetPending => \A i \in DOMAIN events' : events'[i].kind = "done"
      BY <1>2, <3>2
    <3> QED BY <1>1, <1>4, <1>5, <2>2, <3>2, <3>3 DEF NoOldNews, Opening
  <2>3. CASE op = "reset" /\ pc' # "ok"
    BY <1>1, <1>4, <2>3 DEF InSession, Session, Waiting
  <2> QED BY <2>1, <2>2, <2>3
<1> QED BY <1>5, <1>7, <1>8 DEF OldInv

\* The setup is sent although the reset was only answered by the completion of another: it
\* is the second command behind, and the connect command finds no room.
LEMMA OldSetup ==
  ASSUME TypeOK, OldInv, MaxInbox <= 2, pc = "ok", op = "reset", ResetPending, Call("setup"), UNCHANGED <<up, due>>
  PROVE  OldInv'
<1>1. "setup" \in Commands /\ "setup" \in Opening
  BY DEF Commands, Opening
<1>2. events' = events /\ ResetPending' /\ pc' \in {"wait", "no"} /\ op' = "setup"
  BY <1>1, CallKeeps, CallEffect
<1>3. NoOldNews
  BY DEF OldInv, InSession, Waiting
<1>4. Silent'
  BY <1>1, <1>3, CallPuts DEF NoOldNews, Silent
<1>5. DOMAIN inbox = 1..Len(inbox) /\ Len(inbox) \in Nat /\ MaxInbox \in Nat
  BY Typed
<1>6. Len(inbox) >= 1
  BY <1>5 DEF ResetPending
<1>7. CASE pc' = "no" /\ inbox' = inbox
  <2>1. ResetsFirst' /\ ResetsEnd'
    BY <1>2, <1>4, <1>7 DEF OldInv, ResetsFirst, ResetsEnd
  <2>2. NoOldNews'
    BY <1>2, <1>3, <1>4, <1>7 DEF NoOldNews, Waiting, Opening
  <2> QED BY <2>1, <2>2 DEF OldInv
<1>8. CASE pc' = "wait" /\ inbox' = Append(inbox, "setup") /\ Len(inbox) < MaxInbox
  <2>1. Len(inbox) = 1
    BY <1>5, <1>6, <1>8
  <2>2. inbox[1] = "reset"
    <3>1. PICK i \in DOMAIN inbox : inbox[i] = "reset"
      BY DEF ResetPending
    <3>2. i = 1
      BY <1>5, <2>1
    <3> QED BY <3>1, <3>2
  <2>3. Len(inbox') = 2 /\ inbox'[1] = "reset" /\ inbox'[2] = "setup" /\ DOMAIN inbox' = 1..2
    <3>1. inbox \in Seq(Commands)
      BY Typed
    <3>2. /\ Len(inbox') = Len(inbox) + 1 /\ inbox' \in Seq(Commands)
          /\ \A i \in 1..Len(inbox) : inbox'[i] = inbox[i]
          /\ inbox'[Len(inbox) + 1] = "setup"
      BY <1>1, <1>8, <3>1, AppendProperties
    <3>3. Len(inbox') = 2 /\ inbox'[2] = "setup"
      BY <2>1, <3>2
    <3>4. inbox'[1] = "reset"
      BY <2>1, <2>2, <3>2
    <3> QED BY <3>2, <3>3, <3>4, LenProperties
  <2>4. ResetsFirst'
    BY <2>3 DEF ResetsFirst, Opening
  <2>5. ResetsEnd'
    BY <1>2, <1>3, <1>4 DEF OldInv, ResetsEnd, NoOldNews
  <2>6. NoOldNews'
    BY <1>2, <1>3, <1>4, <2>3 DEF NoOldNews, Waiting, Opening
  <2> QED BY <2>4, <2>5, <2>6 DEF OldInv
<1> QED BY <1>1, <1>7, <1>8, CallEffect

LEMMA OldConnect ==
  ASSUME TypeOK, OldInv, MaxInbox <= 2, pc = "ok", op = "setup", ResetPending, Call("connect"), UNCHANGED <<up, due>>
  PROVE  OldInv'
<1>1. "connect" \in Commands
  BY DEF Commands
<1>2. NoOldNews
  BY DEF OldInv, InSession, Waiting
<1>3. Len(inbox) = 2 /\ MaxInbox \in Nat
  BY <1>2, Typed DEF NoOldNews
<1>4. pc' = "no" /\ inbox' = inbox /\ op' = "connect"
  BY <1>1, <1>3, CallEffect
<1>5. events' = events /\ ResetPending' /\ Silent'
  BY <1>1, <1>2, <1>4, CallKeeps DEF NoOldNews, Silent
<1>6. ResetsFirst' /\ ResetsEnd'
  BY <1>4, <1>5 DEF OldInv, ResetsFirst, ResetsEnd
<1>7. NoOldNews'
  BY <1>2, <1>4, <1>5 DEF NoOldNews, Waiting, Opening
<1> QED BY <1>6, <1>7 DEF OldInv

LEMMA OldRun ==
  ASSUME TypeOK, AnswersInv, OldInv, MaxInbox <= 2, Run
  PROVE  OldInv'
<1> USE DEF Waiting, Session
<1>1. up' = up
  BY DEF Run
<1>2. CASE WaitAnswer
  BY <1>1, <1>2, OldWait
<1>3. CASE WaitTimeout
  <2>1. pc = "wait" /\ Goes("no") /\ due' = due
    BY <1>3 DEF WaitTimeout, still
  <2>2. pc' = "no" /\ UNCHANGED <<op, events, inbox>>
    BY <2>1 DEF Goes
  <2>3. ResetsFirst' /\ ResetsEnd'
    BY <1>1, <2>1, <2>2 DEF OldInv, ResetsFirst, ResetsEnd, ResetPending, Silent
  <2>4. InSession' => InSession
    BY <2>1, <2>2 DEF InSession
  <2>5. NoOldNews => NoOldNews'
    BY <1>1, <2>1, <2>2 DEF NoOldNews, ResetPending, Silent, Opening
  <2> QED BY <2>3, <2>4, <2>5 DEF OldInv
<1>4. CASE Gate \/ Leave
  <2>1. pc' \in {"gate", "claim", "recheck", "recheck_pause", "flush"} /\ UNCHANGED <<events, inbox, due>>
    BY <1>4 DEF Gate, Leave, Goes
  <2>2. ~InSession' /\ pc' # "send"
    BY <2>1 DEF InSession
  <2> QED BY <1>1, <2>1, <2>2, OldOut
<1>5. CASE StartConnection
  <2>1. due' = due
    BY <1>5 DEF StartConnection
  <2>2. CASE pc = "flush" /\ pc' = "send" /\ events' = <<>> /\ UNCHANGED <<op, inbox>>
    BY <2>2 DEF OldInv, ResetsFirst, ResetsEnd, InSession
  <2>3. CASE pc = "send" /\ Call("reset")
    BY <1>1, <2>1, <2>3, OldReset
  <2>4. CASE pc \in Waiting \ {"wait", "ok"} /\ op \in {"reset", "setup", "connect"} /\ Goes("leave")
    <3>1. pc' = "leave" /\ UNCHANGED <<events, inbox>>
      BY <2>4 DEF Goes
    <3> QED BY <1>1, <2>1, <3>1, OldOut DEF InSession
  <2>5. CASE pc = "ok" /\ op = "reset" /\ Call("setup")
    <3>1. InSession
      BY <2>5 DEF InSession
    <3> QED BY <1>1, <2>1, <2>5, <3>1, OldSetup, OldCall DEF Commands
  <2>6. CASE pc = "ok" /\ op = "setup" /\ Call("connect")
    <3>1. InSession
      BY <2>6 DEF InSession
    <3> QED BY <1>1, <2>1, <2>6, <3>1, OldConnect, OldCall DEF Commands
  <2>7. CASE pc = "ok" /\ op = "connect" /\ Goes("loop")
    <3>1. InSession
      BY <2>7 DEF InSession
    <3>2. ~ResetPending
      BY <2>7, <3>1 DEF OldInv, NoOldNews, Opening
    <3> QED BY <2>7, <3>1, <3>2, OldGoes
  <2> QED BY <1>5, <2>2, <2>3, <2>4, <2>5, <2>6, <2>7 DEF StartConnection
<1>6. CASE Loop \/ Act \/ Startup \/ Stop
  <2>1. \/ pc \in Session
        \/ pc \in {"ok", "no", "again"} /\ op \in Commands \ {"reset", "setup", "connect"}
    <3>1. CASE Loop \/ Act
      BY <1>6, <3>1 DEF Loop, Act, Commands
    <3>2. CASE Startup
      <4>1. \/ pc = "startup" \/ (pc = "ok" /\ op \in {"verify", "prepare", "length", "e4", "e0", "play"})
            \/ pc = "again" \/ (pc = "no" /\ op = "play")
            \/ pc \in {"again", "no"} /\ op \in {"verify", "prepare", "length", "e4", "e0", "play"}
        BY <3>2 DEF Startup
      <4>2. pc = "again" => op \in {"e4", "e0"}
        BY DEF AnswersInv
      <4> QED BY <4>1, <4>2 DEF Commands
    <3>3. CASE Stop
      BY <3>3 DEF Stop, Commands
    <3> QED BY <1>6, <3>1, <3>2, <3>3
  <2>2. InSession
    BY <2>1 DEF InSession
  <2>3. ~ResetPending
    BY <2>1, <2>2 DEF OldInv, NoOldNews, Opening
  <2>4. \/ \E l \in {"stop", "act", "loop", "acl_setup", "startup", "limit", "leave", "park", "restart"} : Goes(l)
        \/ \E o \in Commands \ {"reset"} : Call(o)
        \/ events # <<>> /\ events' = Tail(events) /\ inbox' = inbox /\ pc' = "act"
    <3>1. CASE Loop
      BY <3>1 DEF Loop
    <3>2. CASE Act
      BY <3>2 DEF Act, Commands
    <3>3. CASE Startup
      <4>1. <<"verify", "e4", "e0", "verify">>[step + 1] \in {"verify", "e4", "e0"}
        <5>1. step = 0 \/ step = 1 \/ step = 2 \/ step = 3
          BY Typed
        <5> QED BY <5>1
      <4>2. Goes("limit") \/ \E o \in {"verify", "e4", "e0", "prepare", "length", "play"} : Call(o)
        BY <3>3, <4>1 DEF Startup
      <4>3. {"verify", "e4", "e0", "prepare", "length", "play"} \subseteq Commands \ {"reset"}
        BY DEF Commands
      <4> QED BY <4>2, <4>3
    <3>4. CASE Stop
      <4>1. \/ Goes("leave") \/ Goes("park") \/ Goes("stop") \/ Goes("restart")
            \/ Call("cancel") \/ Call("rearm")
        BY <3>4 DEF Stop
      <4> QED BY <4>1 DEF Commands
    <3> QED BY <1>6, <3>1, <3>2, <3>3, <3>4
  <2> QED BY <2>2, <2>3, <2>4, OldGoes, OldCall, OldTake
<1> QED BY <1>2, <1>3, <1>4, <1>5, <1>6 DEF Run

\* News of the connection come only while no reset is to come in the session.
LEMMA OldReport ==
  ASSUME TypeOK, OldInv, UNCHANGED <<pc, op, inbox>>, NEW e \in EventSet, Receive(e),
         e.kind # "done", e.old <=> ResetPending,
         InSession => ~ResetPending,
         \A i \in DOMAIN events : IsDone(events[i], "reset") => ~ResetPending /\ pc # "send"
  PROVE  OldInv'
<1>1. DOMAIN events' = 1..Len(events') /\ DOMAIN events = 1..Len(events) /\ Len(events) \in Nat
  BY ReceiveEffect, Typed
<1>2. /\ \A i \in DOMAIN events' : \/ i \in DOMAIN events /\ events'[i] = events[i]
                                   \/ events'[i] = e
      /\ \A i \in DOMAIN events : i \in DOMAIN events' /\ events'[i] = events[i]
  BY <1>1, ReceiveEffect
<1>3. (ResetPending' <=> ResetPending) /\ (InSession' <=> InSession) /\ ResetsFirst'
  BY DEF ResetPending, InSession, OldInv, ResetsFirst
<1>4. ResetsEnd'
  <2> SUFFICES ASSUME NEW i \in DOMAIN events', IsDone(events'[i], "reset")
               PROVE  /\ ~ResetPending /\ pc # "send"
                      /\ \A j \in DOMAIN events' : i < j /\ events'[j].old => events'[j].kind = "done"
    BY <1>3 DEF ResetsEnd
  <2>1. i \in DOMAIN events /\ events'[i] = events[i]
    BY <1>2 DEF IsDone
  <2>2. ~ResetPending /\ pc # "send" /\ ~e.old
    BY <2>1
  <2>3. \A j \in DOMAIN events : i < j /\ events[j].old => events[j].kind = "done"
    BY <2>1 DEF OldInv, ResetsEnd
  <2> QED BY <1>2, <2>2, <2>3
<1>5. ASSUME InSession PROVE NoOldNews'
  <2>1. ~ResetPending /\ ~e.old
    BY <1>5
  <2>2. \A i \in DOMAIN events : events[i].old => events[i].kind = "done"
    BY <1>5 DEF OldInv, NoOldNews
  <2>3. \A i \in DOMAIN events' : events'[i].old => events'[i].kind = "done"
    BY <1>2, <2>1, <2>2
  <2> QED BY <1>3, <2>1, <2>3 DEF NoOldNews
<1> QED BY <1>3, <1>4, <1>5 DEF OldInv

\* A completion comes, of a reset or not.
LEMMA OldDone ==
  ASSUME TypeOK, OldInv, UNCHANGED <<pc, op>>, inbox # <<>>, inbox' = Tail(inbox),
         NEW e \in EventSet, Receive(e), e.kind = "done", e.op = Head(inbox),
         Silent \/ Head(inbox) = "reset" => ~up' /\ due' = {}
  PROVE  OldInv'
<1>1. DOMAIN events' = 1..Len(events') /\ DOMAIN events = 1..Len(events) /\ Len(events) \in Nat
  BY ReceiveEffect, Typed
<1>2. /\ \A i \in DOMAIN events' : \/ i \in DOMAIN events /\ events'[i] = events[i]
                                   \/ events'[i] = e /\ i = Len(events) + 1
      /\ \A i \in DOMAIN events : i \in DOMAIN events' /\ events'[i] = events[i]
  BY <1>1, ReceiveEffect
<1>3. /\ \A i \in DOMAIN inbox' : i + 1 \in DOMAIN inbox /\ inbox'[i] = inbox[i + 1] /\ 1 < i + 1
      /\ \A i, j \in DOMAIN inbox' : i < j => i + 1 < j + 1
      /\ 1 \in DOMAIN inbox /\ Head(inbox) = inbox[1]
  BY ExecuteTakes
<1>4. (ResetPending' => ResetPending) /\ (inbox[1] = "reset" => ResetPending) /\ (InSession' <=> InSession)
  BY <1>3 DEF ResetPending, InSession
<1>5. ResetsFirst'
  BY <1>3 DEF OldInv, ResetsFirst
<1>6. Silent \/ Head(inbox) = "reset" => Silent'
  <2>1. Silent => \A i \in DOMAIN inbox' : inbox'[i] \in Opening
    BY <1>3 DEF Silent
  <2>2. Head(inbox) = "reset" => \A i \in DOMAIN inbox' : inbox'[i] \in Opening
    BY <1>3 DEF OldInv, ResetsFirst
  <2> QED BY <2>1, <2>2 DEF Silent
<1>7. ResetsEnd'
  <2> SUFFICES ASSUME NEW i \in DOMAIN events', IsDone(events'[i], "reset")
               PROVE  /\ ResetPending' \/ pc = "send" =>
                             Silent' /\ \A j \in DOMAIN events' : i < j => events'[j].kind = "done"
                      /\ \A j \in DOMAIN events' : i < j /\ events'[j].old => events'[j].kind = "done"
    BY DEF ResetsEnd
  <2>1. CASE i \in DOMAIN events /\ events'[i] = events[i]
    <3>1. /\ ResetPending \/ pc = "send" =>
                 Silent /\ \A j \in DOMAIN events : i < j => events[j].kind = "done"
          /\ \A j \in DOMAIN events : i < j /\ events[j].old => events[j].kind = "done"
      BY <2>1 DEF OldInv, ResetsEnd
    <3> QED BY <1>2, <1>4, <1>6, <3>1
  <2>2. CASE events'[i] = e /\ i = Len(events) + 1
    <3>1. Silent'
      BY <1>6, <2>2 DEF IsDone
    <3>2. \A j \in DOMAIN events' : ~(i < j)
      BY <1>1, <1>2, <2>2
    <3> QED BY <3>1, <3>2
  <2> QED BY <1>2, <2>1, <2>2
<1>8. ASSUME InSession PROVE NoOldNews'
  <2>1. NoOldNews
    BY <1>8 DEF OldInv
  <2>2. \A i \in DOMAIN events' : events'[i].old => events'[i].kind = "done"
    BY <1>2, <2>1 DEF NoOldNews
  <2>3. ResetPending => \A i \in DOMAIN events' : events'[i].kind = "done"
    BY <1>2, <2>1 DEF NoOldNews
  <2>4. ResetPending => Silent' /\ pc \in Waiting /\ (op \in Opening \/ (op = "connect" /\ pc = "no"))
    BY <1>6, <2>1 DEF NoOldNews
  <2>5. ResetPending' => ~(op = "setup" /\ pc \in {"wait", "ok"})
    <3> SUFFICES ASSUME ResetPending', op = "setup", pc \in {"wait", "ok"} PROVE FALSE
      OBVIOUS
    <3>1. Len(inbox) = 2 /\ inbox[2] = "setup"
      BY <1>4, <2>1 DEF NoOldNews
    <3>2. PICK i \in DOMAIN inbox' : inbox'[i] = "reset"
      BY DEF ResetPending
    <3>3. i + 1 \in 1..2 /\ 1 < i + 1 /\ inbox[i + 1] = "reset"
      BY <1>3, <3>1, <3>2, Typed
    <3>4. i + 1 = 2
      BY <3>3
    <3> QED BY <3>1, <3>3, <3>4
  <2> QED BY <1>4, <2>2, <2>3, <2>4, <2>5 DEF NoOldNews
<1> QED BY <1>4, <1>5, <1>7, <1>8 DEF OldInv

LEMMA OldSteps ==
  ASSUME TypeOK, AnswersInv, DueInv, QuietInv, OldInv, MaxInbox <= 2, Next
  PROVE  OldInv'
<1>1. CASE Console
  BY <1>1 DEF Console, host, queue, radio, OldInv, ResetsFirst, ResetsEnd, NoOldNews, InSession, ResetPending, Silent
<1>2. CASE Restart
  BY <1>2 DEF Restart, OldInv, ResetsFirst, ResetsEnd, InSession, Session, Waiting
<1>3. CASE Controller
  <2>1. UNCHANGED <<pc, op>>
    BY <1>3 DEF Controller, host
  <2>2. CASE Execute
    <3>1. inbox # <<>> /\ inbox' = Tail(inbox) /\ Head(inbox) = inbox[1] /\ 1 \in DOMAIN inbox
      BY <2>2, ExecuteTakes DEF Execute
    <3>2. Silent \/ Head(inbox) = "reset" => ~up' /\ due' = {}
      <4>1. CASE Head(inbox) = "reset"
        BY <2>2, <4>1 DEF Execute, Radio
      <4>2. CASE Silent /\ Head(inbox) = "setup"
        BY <2>2, <4>2 DEF Execute, Radio, Silent
      <4>3. Silent => Head(inbox) \in {"reset", "setup"}
        BY <3>1 DEF Silent, Opening
      <4> QED BY <4>1, <4>2, <4>3
    <3>3. PICK d \in EventSet : Receive(d) /\ d.kind = "done" /\ d.op = Head(inbox)
      <4>1. \E r \in {"ok", "no", "again"} : Done(r) \/ Receive([Event("done", Head(inbox), r) EXCEPT !.old = FALSE])
        BY <2>2 DEF Execute, Radio
      <4>2. PICK r \in {"ok", "no", "again"} : Done(r) \/ Receive([Event("done", Head(inbox), r) EXCEPT !.old = FALSE])
        BY <4>1
      <4>3. PICK f : f = Event("done", Head(inbox), r)
        OBVIOUS
      <4>4. f \in EventSet /\ f.kind = "done" /\ f.op = Head(inbox)
        <5>1. Head(inbox) \in Commands /\ r \in Waiting /\ "done" \in Kinds
          BY <3>1, ExecuteEffect DEF Waiting, Kinds
        <5> QED BY <4>3, <5>1, EventTyped
      <4>5. CASE Receive(f)
        BY <4>4, <4>5
      <4>6. CASE Receive([f EXCEPT !.old = FALSE])
        <5>1. PICK g : g = [f EXCEPT !.old = FALSE]
          OBVIOUS
        <5>2. g \in EventSet /\ g.kind = "done" /\ g.op = Head(inbox)
          BY <4>4, <5>1 DEF EventSet
        <5> QED BY <4>6, <5>1, <5>2
      <4> QED BY <4>2, <4>3, <4>5, <4>6 DEF Done
    <3> QED BY <2>1, <3>1, <3>2, <3>3, OldDone
  <2>3. CASE Deliver \/ Disconnect \/ Odd \/ StreamEnds
    <3>1. inbox' = inbox /\ \E e \in EventSet : Emitted(e) /\ Receive(e) /\ e.kind # "done"
      BY <2>3, HeadsetReports
    <3>2. PICK e \in EventSet : Emitted(e) /\ Receive(e) /\ e.kind # "done"
      BY <3>1
    <3>3. e.old <=> ResetPending
      BY <3>2, EmittedTyped
    <3>4. up \/ due # {} \/ pump
      BY <2>3 DEF Deliver, Disconnect, Odd, StreamEnds
    <3>5. InSession => ~ResetPending
      <4> SUFFICES ASSUME InSession, ResetPending PROVE FALSE
        OBVIOUS
      <4>1. Silent
        BY DEF OldInv, NoOldNews
      <4>2. ~pump
        BY ResetMeetsQuiet DEF Quiet
      <4> QED BY <3>4, <4>1, <4>2 DEF Silent
    <3>6. \A i \in DOMAIN events : IsDone(events[i], "reset") => ~ResetPending /\ pc # "send"
      <4> SUFFICES ASSUME NEW i \in DOMAIN events, IsDone(events[i], "reset"), ResetPending \/ pc = "send"
                   PROVE  FALSE
        OBVIOUS
      <4>1. Silent
        BY DEF OldInv, ResetsEnd
      <4>2. ~pump
        BY ResetMeetsQuiet DEF Quiet
      <4> QED BY <3>4, <4>1, <4>2 DEF Silent
    <3> QED BY <2>1, <3>1, <3>2, <3>3, <3>5, <3>6, OldReport
  <2>4. CASE ManualTrial
    BY <2>1, <2>4 DEF ManualTrial, queue, OldInv, ResetsFirst, ResetsEnd, NoOldNews, InSession, ResetPending, Silent
  <2> QED BY <1>3, <2>2, <2>3, <2>4 DEF Controller
<1> QED BY <1>1, <1>2, <1>3, OldRun DEF Next

LEMMA OldStarts ==
  ASSUME Init
  PROVE  OldInv
BY DEF Init, OldInv, ResetsFirst, ResetsEnd, InSession, Session, Waiting

LEMMA OldStutters ==
  ASSUME OldInv, UNCHANGED vars
  PROVE  OldInv'
BY DEF vars, host, queue, radio, OldInv, ResetsFirst, ResetsEnd, NoOldNews, InSession, ResetPending, Silent

\* With at most two commands accepted and not yet executed, the reset of start_connection
\* never meets a running stream or a command that starts one, whatever timed out before it.
THEOREM ResetsMeetQuiet ==
  ASSUME MaxInbox <= 2
  PROVE  Spec => []ResetQuiet
<1>1. ASSUME Init PROVE KeeperKeeps /\ OldInv
  BY <1>1, KeeperStarts, OldStarts
<1>2. ASSUME KeeperKeeps, OldInv, [Next]_vars PROVE (KeeperKeeps /\ OldInv)'
  <2>1. KeeperKeeps'
    BY <1>2, KeeperStays
  <2>2. OldInv'
    BY <1>2, OldSteps, OldStutters DEF KeeperKeeps
  <2> QED BY <2>1, <2>2
<1>3. ASSUME KeeperKeeps, OldInv PROVE ResetQuiet
  <2>1. ResetPending => Quiet
    BY <1>3, ResetMeetsQuiet DEF KeeperKeeps
  <2> QED BY <2>1 DEF ResetQuiet, Quiet, In
<1> QED BY <1>1, <1>2, <1>3, PTL DEF Spec

-----------------------------------------------------------------------------
(* Holes: what is left to take when an event did not fit.                  *)

LEMMA NeedIs ==
  /\ \A o : AfterAnswer(o) \in 0..4
  /\ \A o : Need("wait", o) = IF o = "cancel" /\ ~Stopped THEN 1 ELSE AfterAnswer(o) + 1
  /\ \A o : Need("no", o) = IF o = "cancel" THEN 0 ELSE AfterAnswer(o)
  /\ \A o : Need("ok", o) = AfterAnswer(o) /\ Need("again", o) = AfterAnswer(o)
  /\ \A o : Need("act", o) = 5 /\ Need("acl_setup", o) = 4 /\ Need("startup", o) = 4
  /\ \A o : Need("loop", o) = 1 /\ Need("limit", o) = 1 /\ Need("stop", o) = 1 /\ Need("park", o) = 1
  /\ \A o : \A p \in Outside \cup {"flush", "send", "leave", "restart"} : Need(p, o) = 0
  /\ \A o, p : Need(p, o) \in 0..5
<1>1. \A o : AfterAnswer(o) \in 0..4
  BY DEF AfterAnswer
<1>2. \A o : Need("wait", o) = IF o = "cancel" /\ ~Stopped THEN 1 ELSE AfterAnswer(o) + 1
  BY DEF Need
<1>3. \A o : Need("no", o) = IF o = "cancel" THEN 0 ELSE AfterAnswer(o)
  <2> TAKE o
  <2>1. CASE o = "cancel"
    BY <2>1 DEF Need
  <2>2. CASE o # "cancel"
    <3>1. Need("no", o) = AfterAnswer(o)
      BY <2>2 DEF Need
    <3> QED BY <2>2, <3>1
  <2> QED BY <2>1, <2>2
<1>4. \A o : Need("ok", o) = AfterAnswer(o) /\ Need("again", o) = AfterAnswer(o)
  BY DEF Need
<1>5. \A o : Need("act", o) = 5 /\ Need("acl_setup", o) = 4 /\ Need("startup", o) = 4
  BY DEF Need
<1>6. \A o : Need("loop", o) = 1 /\ Need("limit", o) = 1 /\ Need("stop", o) = 1 /\ Need("park", o) = 1
  BY DEF Need
<1>7. \A o : \A p \in Outside \cup {"flush", "send", "leave", "restart"} : Need(p, o) = 0
  BY DEF Need, Outside
<1>8. \A o, p : Need(p, o) \in 0..5
  <2> SUFFICES ASSUME NEW o, NEW p PROVE Need(p, o) \in 0..5
    OBVIOUS
  <2>1. AfterAnswer(o) \in 0..4
    BY <1>1
  <2>2. PICK a \in 0..4 : a = AfterAnswer(o)
    BY <2>1
  <2> QED BY <2>2 DEF Need
<1> QED BY <1>1, <1>2, <1>3, <1>4, <1>5, <1>6, <1>7, <1>8

LEMMA AfterIs ==
  /\ AfterAnswer("encrypt") = 4 /\ AfterAnswer("reset") = 3 /\ AfterAnswer("verify") = 3
  /\ AfterAnswer("setup") = 2 /\ AfterAnswer("prepare") = 2 /\ AfterAnswer("rearm") = 0
  /\ AfterAnswer("connect") = 1 /\ AfterAnswer("length") = 1 /\ AfterAnswer("e4") = 1
  /\ AfterAnswer("e0") = 1 /\ AfterAnswer("play") = 1 /\ AfterAnswer("cancel") = 1
BY DEF AfterAnswer

\* The same queue, and not more to take.
LEMMA GapMoves ==
  ASSUME TypeOK, GapInv, UNCHANGED <<events, lost, missed>>, NEW n \in Nat, n = ToTake', n <= ToTake
  PROVE  GapInv'
<1>1. ToTake \in Nat
  BY NeedIs DEF ToTake
<1>2. ASSUME missed' PROVE lost' /\ Good(n)'
  <2>1. lost /\ Good(ToTake)
    BY <1>2 DEF GapInv
  <2>2. 1..n \subseteq 1..ToTake
    BY <1>1
  <2>3. Len(events) >= n
    BY <1>1, <2>1, Typed DEF Good
  <2> QED BY <2>1, <2>2, <2>3 DEF Good
<1>3. ASSUME ~missed' PROVE \A i \in DOMAIN events' : events'[i].gap => events'[i].old
  BY <1>3 DEF GapInv
<1> QED BY <1>2, <1>3 DEF GapInv

LEMMA GapGoes ==
  ASSUME TypeOK, GapInv, NEW l, Goes(l), lost' = lost, l # "wait", Need(l, op) <= ToTake
  PROVE  GapInv'
<1>1. UNCHANGED <<events, lost, missed, op>> /\ pc' = l
  BY DEF Goes
<1>2. ToTake' = Need(l, op)
  BY <1>1 DEF ToTake, Need, Stopped
<1> QED BY <1>1, <1>2, GapMoves, NeedIs

LEMMA GapCall ==
  ASSUME TypeOK, GapInv, NEW o \in Commands, o # "reset", Call(o), lost' = lost,
         AfterAnswer(o) + 1 <= ToTake \/ (o = "cancel" /\ ~Stopped /\ 1 <= ToTake)
  PROVE  GapInv'
<1>1. UNCHANGED <<events, lost>> /\ op' = o /\ pc' \in {"wait", "no"}
  BY CallEffect
<1>2. missed' = missed
  <2>1. missed' <=> missed
    BY CallEffect
  <2>2. missed \in BOOLEAN /\ missed' \in BOOLEAN
    BY CallEffect, Typed
  <2> QED BY <2>1, <2>2
<1>3. ToTake' = Need(pc', o)
  BY <1>1 DEF ToTake, Need, Stopped
<1>4. Need(pc', o) \in Nat /\ Need(pc', o) <= ToTake
  <2>1. AfterAnswer(o) \in 0..4 /\ ToTake \in 0..5
    BY NeedIs DEF ToTake
  <2>2. Need("wait", o) <= ToTake /\ Need("no", o) <= ToTake
    BY <2>1, NeedIs, AfterIs
  <2> QED BY <1>1, <2>2, NeedIs
<1> QED BY <1>1, <1>2, <1>3, <1>4, GapMoves

\* The next event ends or does not end a wait.
LEMMA GapWait ==
  ASSUME TypeOK, AnswersInv, GapInv, WaitAnswer
  PROVE  GapInv'
<1>1. pc = "wait" /\ events # <<>> /\ events' = Tail(events) /\ UNCHANGED <<op, lost, missed>>
  BY DEF WaitAnswer
<1>2. /\ \A i \in 1..Len(events') : i + 1 \in 1..Len(events) /\ events'[i] = events[i + 1]
      /\ Len(events') = Len(events) - 1 /\ DOMAIN events' = 1..Len(events') /\ DOMAIN events = 1..Len(events)
      /\ Head(events) = events[1] /\ 1 \in DOMAIN events /\ Len(events) \in Nat
  BY <1>1, TakeEffect, Typed
<1>3. ASSUME ~missed' PROVE \A i \in DOMAIN events' : events'[i].gap => events'[i].old
  BY <1>1, <1>2, <1>3 DEF GapInv
<1>4. ASSUME missed' PROVE lost' /\ Good(ToTake)'
  <2>1. lost /\ Good(ToTake)
    BY <1>1, <1>4 DEF GapInv
  <2>2. pc' \in {"ok", "again", "no"} /\ (pc' = "no" \/ IsDone(events[1], op))
    BY <1>2, <2>1 DEF WaitAnswer, AnswersInv, IsDone
  <2>3. PICK n \in Nat : n = ToTake'
    <3>1. Need(pc', op) \in Nat /\ ToTake' = Need(pc', op)
      BY <1>1, <2>2, NeedIs DEF ToTake, Need
    <3> QED BY <3>1
  <2>4. n + 1 <= ToTake
    <3>1. ToTake' = Need(pc', op) /\ AfterAnswer(op) \in 0..4
      BY <1>1, <2>2, NeedIs DEF ToTake, Need
    <3>2. CASE op = "cancel"
      <4>1. pc' = "no" \/ Stopped
        BY <1>1, <2>2, <3>2 DEF Stopped
      <4> QED BY <1>1, <2>2, <2>3, <3>1, <3>2, <4>1, NeedIs, AfterIs DEF ToTake
    <3>3. CASE op # "cancel"
      BY <1>1, <2>2, <2>3, <3>1, <3>3, NeedIs DEF ToTake
    <3> QED BY <3>2, <3>3
  <2>5. ToTake \in Nat
    BY NeedIs DEF ToTake
  <2>6. Len(events) >= ToTake /\ \A i \in 1..ToTake : events[i].gap => events[i].old
    BY <2>1 DEF Good
  <2>7. Len(events') >= n
    BY <1>2, <2>4, <2>5, <2>6
  <2>8. \A i \in 1..n : i \in 1..Len(events') /\ i + 1 \in 1..ToTake
    BY <1>2, <2>4, <2>5, <2>7
  <2>9. \A i \in 1..n : events'[i].gap => events'[i].old
    BY <1>2, <2>6, <2>8
  <2> QED BY <1>1, <2>1, <2>3, <2>7, <2>9 DEF Good
<1> QED BY <1>3, <1>4 DEF GapInv

LEMMA GapRun ==
  ASSUME TypeOK, StartupInv, AnswersInv, CancelInv, GapInv, Run
  PROVE  GapInv'
<1> USE DEF Waiting
<1>1. CASE WaitAnswer
  BY <1>1, GapWait
<1>2. CASE WaitTimeout
  <2>1. pc = "wait" /\ Goes("no") /\ lost' = lost
    BY <1>2 DEF WaitTimeout, still
  <2>2. Need("no", op) <= ToTake
    BY <2>1, NeedIs DEF ToTake
  <2> QED BY <2>1, <2>2, GapGoes
<1>3. CASE Gate \/ Leave
  <2>1. lost' = lost /\ \E l \in Outside \cup {"flush", "send", "leave", "restart"} : Goes(l)
    BY <1>3 DEF Gate, Leave, Outside
  <2>2. PICK l \in Outside \cup {"flush", "send", "leave", "restart"} : Goes(l)
    BY <2>1
  <2>3. Need(l, op) = 0 /\ ToTake \in 0..5 /\ l # "wait"
    BY <2>2, NeedIs DEF ToTake, Outside
  <2>4. Need(l, op) <= ToTake
    BY <2>3
  <2> QED BY <2>1, <2>2, <2>3, <2>4, GapGoes
<1>4. CASE StartConnection
  <2>1. CASE pc = "flush" /\ pc' = "send" /\ events' = <<>> /\ UNCHANGED <<op, lost, missed>>
    <3>1. ToTake' = 0
      <4>1. Need("send", op)' = 0
        BY DEF Need
      <4> QED BY <2>1, <4>1 DEF ToTake
    <3>2. Good(0)'
      BY <2>1 DEF Good
    <3>3. missed' => lost'
      BY <2>1 DEF GapInv
    <3> QED BY <2>1, <3>1, <3>2, <3>3 DEF GapInv
  <2>2. CASE pc = "send" /\ Call("reset")
    <3>1. ~missed' /\ DOMAIN events' = 1..Len(events) /\ \A i \in 1..Len(events) : events'[i].old
      BY <2>2, CallEffect DEF Commands
    <3> QED BY <3>1 DEF GapInv
  <2>3. CASE pc \in Waiting \ {"wait", "ok"} /\ op \in {"reset", "setup", "connect"} /\ Goes("leave") /\ lost' = lost
    <3>1. Need("leave", op) = 0 /\ ToTake \in 0..5
      BY NeedIs DEF ToTake
    <3> QED BY <2>3, <3>1, GapGoes
  <2>4. CASE pc = "ok" /\ op = "reset" /\ Call("setup") /\ lost' = lost
    <3>1. AfterAnswer("setup") + 1 <= ToTake
      BY <2>4, NeedIs, AfterIs DEF ToTake
    <3> QED BY <2>4, <3>1, GapCall DEF Commands
  <2>5. CASE pc = "ok" /\ op = "setup" /\ Call("connect") /\ lost' = lost
    <3>1. AfterAnswer("connect") + 1 <= ToTake
      BY <2>5, NeedIs, AfterIs DEF ToTake
    <3> QED BY <2>5, <3>1, GapCall DEF Commands
  <2>6. CASE pc = "ok" /\ op = "connect" /\ Goes("loop") /\ lost' = lost
    <3>1. Need("loop", op) <= ToTake
      BY <2>6, NeedIs, AfterIs DEF ToTake
    <3> QED BY <2>6, <3>1, GapGoes
  <2> QED BY <1>4, <2>1, <2>2, <2>3, <2>4, <2>5, <2>6 DEF StartConnection
<1>5. CASE Loop
  <2>1. pc = "loop" /\ lost' = lost /\ ToTake = 1
    BY <1>5, NeedIs DEF Loop, ToTake
  <2>2. CASE Leaving /\ Goes("stop")
    BY <2>1, <2>2, NeedIs, GapGoes
  <2>3. CASE ~Leaving /\ events = <<>> /\ Goes("act")
    <3>1. ~missed /\ ~missed'
      BY <2>3 DEF Leaving, GapInv, Goes
    <3>2. events' = events
      BY <2>3 DEF Goes
    <3> QED BY <3>1, <3>2 DEF GapInv
  <2>4. CASE ~Leaving /\ events # <<>> /\ events' = Tail(events) /\ UNCHANGED missed
    <3>1. ~missed /\ ~missed'
      BY <2>4 DEF Leaving, GapInv
    <3>2. \A i \in DOMAIN events' : i + 1 \in DOMAIN events /\ events'[i] = events[i + 1]
      BY <2>4, TakeEffect, Typed
    <3> QED BY <3>1, <3>2 DEF GapInv
  <2> QED BY <1>5, <2>2, <2>3, <2>4 DEF Loop
<1>6. CASE Act
  <2>1. lost' = lost
    BY <1>6 DEF Act
  <2>2. CASE pc = "act"
    <3>1. ToTake = 5
      BY <2>2, NeedIs DEF ToTake
    <3>2. Goes("loop") \/ Goes("stop") \/ Goes("acl_setup") \/ Call("encrypt")
      BY <1>6, <2>2 DEF Act
    <3>3. AfterAnswer("encrypt") + 1 <= ToTake /\ \A l \in {"loop", "stop", "acl_setup"} : Need(l, op) <= ToTake
      BY <3>1, NeedIs, AfterIs
    <3> QED BY <2>1, <3>2, <3>3, GapGoes, GapCall DEF Commands
  <2>3. CASE op = "encrypt" /\ pc \in {"ok", "no"} /\ Goes("acl_setup")
    <3>1. Need("acl_setup", op) <= ToTake
      BY <2>3, NeedIs, AfterIs DEF ToTake
    <3> QED BY <2>1, <2>3, <3>1, GapGoes
  <2>4. CASE pc = "acl_setup" /\ (Goes("startup") \/ Goes("limit"))
    <3>1. Need("startup", op) <= ToTake /\ Need("limit", op) <= ToTake
      BY <2>4, NeedIs DEF ToTake
    <3> QED BY <2>1, <2>4, <3>1, GapGoes
  <2>5. CASE pc = "limit" /\ Goes("loop")
    <3>1. Need("loop", op) <= ToTake
      BY <2>5, NeedIs DEF ToTake
    <3> QED BY <2>1, <2>5, <3>1, GapGoes
  <2> QED BY <1>6, <2>2, <2>3, <2>4, <2>5 DEF Act
<1>7. CASE Startup
  <2>1. lost' = lost
    BY <1>7 DEF Startup, still
  <2>2. CASE pc = "startup"
    <3>1. ToTake = 4
      BY <2>2, NeedIs DEF ToTake
    <3>2. <<"verify", "e4", "e0", "verify">>[step + 1] \in {"verify", "e4", "e0"}
      <4>1. step = 0 \/ step = 1 \/ step = 2 \/ step = 3
        BY Typed
      <4> QED BY <4>1
    <3>3. Goes("limit") \/ \E o \in {"verify", "e4", "e0"} : Call(o)
      BY <1>7, <2>2, <3>2 DEF Startup
    <3>4. /\ \A o \in {"verify", "e4", "e0"} : AfterAnswer(o) + 1 <= ToTake /\ o \in Commands /\ o # "reset"
          /\ Need("limit", op) <= ToTake
      BY <3>1, NeedIs, AfterIs DEF Commands
    <3> QED BY <2>1, <3>3, <3>4, GapGoes, GapCall
  <2>3. CASE pc = "ok" /\ op = "verify" /\ (Call("prepare") \/ Call("play") \/ Goes("limit"))
    <3>1. ToTake = 3
      BY <2>3, NeedIs, AfterIs DEF ToTake
    <3>2. /\ AfterAnswer("prepare") + 1 <= ToTake /\ AfterAnswer("play") + 1 <= ToTake
          /\ Need("limit", op) <= ToTake
      BY <3>1, NeedIs, AfterIs
    <3> QED BY <2>1, <2>3, <3>2, GapGoes, GapCall DEF Commands
  <2>4. CASE pc = "ok" /\ op = "prepare" /\ (Call("length") \/ Goes("limit"))
    <3>1. ToTake = 2
      BY <2>4, NeedIs, AfterIs DEF ToTake
    <3>2. AfterAnswer("length") + 1 <= ToTake /\ Need("limit", op) <= ToTake
      BY <3>1, NeedIs, AfterIs
    <3> QED BY <2>1, <2>4, <3>2, GapGoes, GapCall DEF Commands
  <2>5. CASE /\ pc \in {"ok", "again", "no"} /\ op \in {"verify", "prepare", "length", "e4", "e0", "play"}
             /\ Goes("limit")
    <3>1. ToTake = AfterAnswer(op) /\ AfterAnswer(op) >= 1
      BY <2>5, NeedIs, AfterIs DEF ToTake
    <3>2. Need("limit", op) <= ToTake
      BY <3>1, NeedIs
    <3> QED BY <2>1, <2>5, <3>2, GapGoes
  <2>6. pc = "again" => op \in {"e4", "e0"}
    BY DEF AnswersInv
  <2> QED BY <1>7, <2>2, <2>3, <2>4, <2>5, <2>6 DEF Startup
<1>8. CASE Stop
  <2>1. lost' = lost
    BY <1>8 DEF Stop
  <2>2. CASE pc = "stop" /\ (Call("cancel") \/ Goes("leave"))
    <3>1. ToTake = 1 /\ Need("leave", op) <= ToTake
      BY <2>2, NeedIs DEF ToTake
    <3>2. ~Stopped
      <4>1. NoCancel
        BY <2>2, NoneThere DEF Unstopped
      <4>2. events # <<>> => 1 \in DOMAIN events
        BY Typed
      <4> QED BY <4>1, <4>2 DEF NoCancel, Stopped
    <3> QED BY <2>1, <2>2, <3>1, <3>2, GapGoes, GapCall DEF Commands
  <2>3. CASE pc = "ok" /\ op = "cancel" /\ (Goes("park") \/ Goes("stop") \/ Goes("restart"))
    <3>1. ToTake = 1
      BY <2>3, NeedIs, AfterIs DEF ToTake
    <3>2. \A l \in {"park", "stop", "restart"} : Need(l, op) <= ToTake
      BY <3>1, NeedIs
    <3> QED BY <2>1, <2>3, <3>2, GapGoes
  <2>4. CASE pc = "park" /\ Call("rearm")
    <3>1. AfterAnswer("rearm") + 1 <= ToTake
      BY <2>4, NeedIs, AfterIs DEF ToTake
    <3> QED BY <2>1, <2>4, <3>1, GapCall DEF Commands
  <2>5. CASE Goes("restart") \/ Goes("leave")
    <3>1. Need("restart", op) = 0 /\ Need("leave", op) = 0 /\ ToTake \in 0..5
      BY NeedIs DEF ToTake
    <3> QED BY <2>1, <2>5, <3>1, GapGoes
  <2> QED BY <1>8, <2>2, <2>3, <2>4, <2>5 DEF Stop
<1> QED BY <1>1, <1>2, <1>3, <1>4, <1>5, <1>6, <1>7, <1>8 DEF Run

\* An event is emitted.  When it is the first that does not fit, the queue holds more than
\* the keeper may still take.
LEMMA GapReceive ==
  ASSUME TypeOK, GapInv, Cap >= 5, UNCHANGED <<pc, op>>, NEW e \in EventSet, Receive(e), e.gap = missed
  PROVE  GapInv'
<1>1. /\ DOMAIN events' = 1..Len(events') /\ DOMAIN events = 1..Len(events) /\ Len(events) \in Nat /\ Len(events') \in Nat
      /\ \A i \in 1..Len(events) : i \in 1..Len(events') /\ events'[i] = events[i]
      /\ \A i \in 1..Len(events') : (i \in 1..Len(events) /\ events'[i] = events[i]) \/ events'[i] = e
      /\ Len(events') >= Len(events)
  <2>1. events' = events \/ Len(events') = Len(events) + 1
    BY ReceiveEffect
  <2> QED BY <2>1, ReceiveEffect, Typed
<1>2. missed \in BOOLEAN /\ missed' \in BOOLEAN /\ (lost => lost')
      /\ (missed' => missed \/ (lost' /\ Len(events) = Cap /\ events' = events))
      /\ (missed => missed')
  BY ReceiveEffect, Typed
<1>3. ASSUME ~missed' PROVE \A i \in DOMAIN events' : events'[i].gap => events'[i].old
  <2>1. ~missed /\ ~e.gap
    BY <1>2, <1>3
  <2>2. \A i \in DOMAIN events : events[i].gap => events[i].old
    BY <2>1 DEF GapInv
  <2> QED BY <1>1, <2>1, <2>2
<1>4. ASSUME missed' PROVE lost' /\ Good(ToTake)'
  <2>1. ToTake \in 0..5 /\ ToTake' \in 0..5
    <3>1. Need(pc, op) \in 0..5 /\ Need(pc, op)' \in 0..5
      BY NeedIs DEF Need, AfterAnswer
    <3> QED BY <3>1 DEF ToTake
  <2>2. CASE missed
    <3>1. lost /\ Len(events) >= ToTake /\ \A i \in 1..ToTake : events[i].gap => events[i].old
      BY <2>2 DEF GapInv, Good
    <3>2. ToTake' = ToTake
      <4>1. CASE pc = "wait"
        <5>1. ToTake >= 1
          <6>1. AfterAnswer(op) \in 0..4
            BY NeedIs
          <6> QED BY <4>1, <6>1, NeedIs DEF ToTake
        <5>2. 1 \in 1..Len(events) /\ 1 \in 1..Len(events')
          BY <1>1, <2>1, <3>1, <5>1
        <5>3. events # <<>> /\ events' # <<>> /\ events'[1] = events[1]
          BY <1>1, <5>2
        <5>4. Stopped' <=> Stopped
          BY <5>3 DEF Stopped
        <5> QED BY <5>4 DEF ToTake, Need
      <4>2. CASE pc # "wait"
        BY <4>2 DEF ToTake, Need
      <4> QED BY <4>1, <4>2
    <3>3. \A i \in 1..ToTake : i \in 1..Len(events)
      BY <1>1, <2>1, <3>1
    <3>4. \A i \in 1..ToTake : events'[i].gap => events'[i].old
      BY <1>1, <3>1, <3>3
    <3>5. Len(events') >= ToTake
      BY <1>1, <2>1, <3>1
    <3> QED BY <1>2, <3>1, <3>2, <3>4, <3>5 DEF Good
  <2>3. CASE ~missed
    <3>1. lost' /\ Len(events) = Cap /\ events' = events
      BY <1>2, <1>4, <2>3
    <3>2. \A i \in DOMAIN events : events[i].gap => events[i].old
      BY <2>3 DEF GapInv
    <3>3. Len(events) >= 5 /\ Len(events) \in Nat
      BY <3>1, Typed
    <3>4. PICK n \in 0..5 : n = ToTake'
      BY <2>1
    <3>5. \A i \in 1..n : i \in DOMAIN events
      BY <1>1, <3>3
    <3>6. Len(events) >= n
      BY <3>3
    <3> QED BY <3>1, <3>2, <3>4, <3>5, <3>6 DEF Good
  <2> QED BY <2>2, <2>3
<1> QED BY <1>3, <1>4 DEF GapInv

LEMMA GapSteps ==
  ASSUME TypeOK, StartupInv, DueInv, AnswersInv, CancelInv, GapInv, Cap >= 5, Next
  PROVE  GapInv'
<1>1. CASE Console
  BY <1>1 DEF Console, host, queue, GapInv, Good, ToTake, Need, Stopped
<1>2. CASE Restart
  BY <1>2 DEF Restart, GapInv
<1>3. CASE Controller
  <2>1. UNCHANGED <<pc, op>>
    BY <1>3 DEF Controller, host
  <2>2. CASE Execute \/ Deliver \/ Disconnect \/ Odd \/ StreamEnds
    <3>1. \E e : Emitted(e) /\ Receive(e)
      BY <2>2, ExecuteEmits, HeadsetReports
    <3> QED BY <2>1, <3>1, EmittedTyped, GapReceive
  <2>3. CASE ManualTrial
    BY <2>1, <2>3 DEF ManualTrial, queue, GapInv, Good, ToTake, Need, Stopped
  <2> QED BY <1>3, <2>2, <2>3 DEF Controller
<1> QED BY <1>1, <1>2, <1>3, GapRun DEF Next

\* What is taken is of the session, and nothing is missing before it.
LEMMA TakenInOrder ==
  ASSUME TypeOK, OldInv, GapInv, InOrder, Run
  PROVE  InOrder'
<1>1. ASSUME events # <<>>, Process(Head(events)), pc = "loop" \/ (pc = "wait" /\ op # "reset"),
             pc = "loop" => ~lost
      PROVE  InOrder'
  <2>1. PICK e \in EventSet : e = events[1] /\ e = Head(events) /\ 1 \in DOMAIN events
    BY <1>1, Typed, HeadTailProperties
  <2>2. InSession
    BY <1>1 DEF InSession, Session, Waiting
  <2>3. e.old => e.kind = "done"
    BY <2>1, <2>2 DEF OldInv, NoOldNews
  <2>4. e.gap => e.old
    <3>1. CASE missed
      <4>1. Good(ToTake) /\ pc = "wait"
        BY <1>1, <3>1 DEF GapInv
      <4>2. ToTake >= 1 /\ ToTake \in 0..5
        <5>1. AfterAnswer(op) \in 0..4
          BY NeedIs
        <5> QED BY <4>1, <5>1, NeedIs DEF ToTake
      <4>3. 1 \in 1..ToTake
        BY <4>2
      <4> QED BY <2>1, <4>1, <4>3 DEF Good
    <3>2. CASE ~missed
      BY <2>1, <3>2 DEF GapInv
    <3> QED BY <3>1, <3>2
  <2>5. CASE e.kind = "done"
    BY <1>1, <2>1, <2>5 DEF Process, InOrder
  <2>6. CASE e.kind # "done"
    <3>1. ~e.old /\ ~e.gap
      BY <2>3, <2>4, <2>6
    <3>2. taken' = taken \cup {w \in {"old", "gap"} : IF w = "old" THEN e.old ELSE e.gap}
      BY <1>1, <2>1, <2>6 DEF Process
    <3> QED BY <3>1, <3>2 DEF InOrder
  <2> QED BY <2>5, <2>6
<1>2. CASE WaitAnswer
  <2>1. CASE taken' = taken
    BY <2>1 DEF InOrder
  <2>2. CASE taken' # taken
    BY <1>1, <1>2, <2>2 DEF WaitAnswer
  <2> QED BY <2>1, <2>2
<1>3. CASE Loop
  <2>1. CASE taken' = taken
    BY <2>1 DEF InOrder
  <2>2. CASE taken' # taken
    BY <1>1, <1>3, <2>2 DEF Loop, Leaving
  <2> QED BY <2>1, <2>2
<1>4. CASE WaitTimeout \/ Gate \/ StartConnection \/ Act \/ Startup \/ Stop \/ Leave
  BY <1>4 DEF WaitTimeout, Gate, StartConnection, Act, Startup, Stop, Leave, still, InOrder
<1> QED BY <1>2, <1>3, <1>4 DEF Run

\* With at most two commands accepted and not yet executed, and a queue of five events or
\* more, no session works with news of another one or with a hole in its history
\* (ull_auto_receive, next_event, command, start_connection).
THEOREM NewsInOrder ==
  ASSUME MaxInbox <= 2, Cap >= 5
  PROVE  Spec => []InOrder
<1> DEFINE All == KeeperKeeps /\ OldInv /\ GapInv /\ InOrder
<1>1. ASSUME Init PROVE All
  <2>1. GapInv
    BY <1>1 DEF Init, GapInv
  <2>2. InOrder
    BY <1>1 DEF Init, InOrder
  <2> QED BY <1>1, <2>1, <2>2, KeeperStarts, OldStarts
<1>2. ASSUME All, [Next]_vars PROVE All'
  <2>1. KeeperKeeps'
    BY <1>2, KeeperStays
  <2>2. OldInv'
    BY <1>2, OldSteps, OldStutters DEF KeeperKeeps
  <2>3. GapInv'
    <3>1. CASE UNCHANGED vars
      BY <1>2, <3>1 DEF vars, host, queue, GapInv, Good, ToTake, Need, Stopped
    <3>2. CASE Next
      BY <1>2, <3>2, GapSteps DEF KeeperKeeps
    <3> QED BY <1>2, <3>1, <3>2
  <2>4. InOrder'
    <3>1. CASE Run
      BY <1>2, <3>1, TakenInOrder DEF KeeperKeeps
    <3>2. CASE Console \/ Restart \/ Controller \/ UNCHANGED vars
      BY <1>2, <3>2 DEF Console, Restart, Controller, vars, host, InOrder
    <3> QED BY <1>2, <3>1, <3>2 DEF Next
  <2> QED BY <2>1, <2>2, <2>3, <2>4
<1>3. Init /\ [][Next]_vars => []All
  BY <1>1, <1>2, PTL
<1> QED BY <1>3, PTL DEF Spec
=============================================================================
