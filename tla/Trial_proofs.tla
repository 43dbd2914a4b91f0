----------------------------- MODULE Trial_proofs -----------------------------
(***************************************************************************)
(* Proofs about what drives the frame trial and what may repeat its        *)
(* frames: TrialPump, for every number of runs, and RetryOwner, for every  *)
(* budget and number of sessions.                                          *)
(*                                                                         *)
(* The pump: the atomics and the order in which ull_trial_pump_busy reads  *)
(* them are enough, without a lock, to keep the steps and the timer of one *)
(* run out of the next.                                                    *)
(*                                                                         *)
(* The retries: what the console reserves and what the controller task     *)
(* uses stay together, without a lock, and nothing outlives its session.   *)
(***************************************************************************)
EXTENDS TrialPump, RetryOwner, TLAPS

\* Where the callback can neither publish a command nor finish a run.
Harmless == {"away", "called", "check", "leave"}

\* The callback owns the pump from its first instruction to its last.
TickInv ==
    /\ tick_running = IF tick \in {"away", "called"} THEN 0 ELSE 1
    /\ tick \in {"stop", "freeze"} => ~active
    /\ active \/ tick \notin Harmless => run >= 1

\* A command is announced before it is sent and until it is answered; it is
\* one of this run.
QueueInv ==
    /\ pending <=> queue # <<>> \/ tick = "send"
    /\ tick \in {"publish", "send"} => queue = <<>>
    /\ queue # <<>> => Len(queue) = 1 /\ Head(queue) = run
    /\ ctl.at \in {"claim", "step", "reply"} \/ ctl.next = "reply" => queue # <<>>

\* Where the controller task stands.
CtlInv ==
    /\ ctl.next \in {"idle", "reply"}
    /\ ctl.next = "reply" => ctl.at \in {"finish", "stop", "freeze"}
    /\ ctl.at \in {"stop", "freeze"} => ~active
    /\ ctl.at = "go" => ctl.for = "start" /\ recording
    /\ ctl.at = "rearm" => ctl.for = "rearm"
    /\ ctl.at = "open" => ctl.for \in {"start", "locked"}
    /\ ctl.at = "busy" => ctl.for # "none"
    /\ ctl.at \in {"busy", "open", "go"} /\ ctl.for = "start" => run < MaxRuns

\* What a query knows after each load.
SawInactive == ~active
SawAway == ~active /\ tick \in Harmless
SawQuiet == SawAway /\ ~pending

QueryInv ==
    /\ ctl.at = "busy" /\ ctl.saw >= 1 => SawInactive
    /\ ctl.at = "busy" /\ ctl.saw = 2 => SawAway
    /\ ctl.at \in {"open", "rearm", "go"} => SawQuiet
    /\ asks = "sawInactive" => SawInactive
    /\ asks = "sawAway" => SawAway
    /\ asks = "idle" => SawQuiet

RecordInv ==
    /\ active /\ ctl.at # "finish" => recording
    /\ active /\ ctl.at \notin {"timer", "finish"} => timerOn

PumpInv == TypeOK /\ TickInv /\ QueueInv /\ CtlInv /\ QueryInv /\ RecordInv

------------------------------------------------------------------------------
\* One field of the controller task's place changes, the others stay.
LEMMA Moves ==
  ASSUME NEW c \in CtlStates, NEW a \in CtlPlaces, NEW f \in Purposes, NEW n \in 0..2
  PROVE  /\ [c EXCEPT !.at = a] \in CtlStates /\ [c EXCEPT !.at = a].at = a
         /\ [c EXCEPT !.at = a].for = c.for /\ [c EXCEPT !.at = a].next = c.next
         /\ [c EXCEPT !.for = f] \in CtlStates /\ [c EXCEPT !.for = f].for = f
         /\ [c EXCEPT !.for = f].at = c.at /\ [c EXCEPT !.for = f].next = c.next
         /\ [c EXCEPT !.saw = n] \in CtlStates /\ [c EXCEPT !.saw = n].saw = n
         /\ [c EXCEPT !.saw = n].at = c.at /\ [c EXCEPT !.saw = n].for = c.for
         /\ [c EXCEPT !.saw = n].next = c.next
BY DEF CtlStates

\* Where a query goes that found the pump idle (ull_trial_pump_rearm asks twice).
LEMMA AfterQueryGoes ==
  ASSUME NEW c \in CtlStates, c.at = "busy"
  PROVE  /\ AfterQuery(c) \in CtlStates /\ AfterQuery(c).saw = 0 /\ AfterQuery(c).next = c.next
         /\ \/ c.for = "rearm" /\ AfterQuery(c).at = "rearm" /\ AfterQuery(c).for = "rearm"
            \/ c.for = "trace" /\ AfterQuery(c).at = "busy" /\ AfterQuery(c).for = "locked"
            \/ c.for \notin {"rearm", "trace"} /\ AfterQuery(c).at = "open" /\ AfterQuery(c).for = c.for
<1>0. /\ {"rearm", "open"} \subseteq CtlPlaces /\ "locked" \in Purposes /\ 0 \in 0..2
  BY DEF CtlPlaces, Purposes
<1>1. CASE c.for = "rearm"
  <2> DEFINE d == [c EXCEPT !.at = "rearm"]
  <2>1. AfterQuery(c) = [d EXCEPT !.saw = 0]
    BY <1>1, Zenon DEF AfterQuery
  <2>2. d \in CtlStates /\ d.at = "rearm" /\ d.for = c.for /\ d.next = c.next
    BY <1>0, Moves
  <2> HIDE DEF d
  <2>3. /\ [d EXCEPT !.saw = 0] \in CtlStates /\ [d EXCEPT !.saw = 0].saw = 0
        /\ [d EXCEPT !.saw = 0].at = d.at /\ [d EXCEPT !.saw = 0].for = d.for
        /\ [d EXCEPT !.saw = 0].next = d.next
    BY <1>0, <2>2 DEF CtlStates
  <2> QED BY <1>1, <2>1, <2>2, <2>3
<1>2. CASE c.for = "trace"
  <2> DEFINE d == [c EXCEPT !.for = "locked"]
  <2>1. AfterQuery(c) = [d EXCEPT !.saw = 0]
    BY <1>2, Zenon DEF AfterQuery
  <2>2. d \in CtlStates /\ d.at = c.at /\ d.for = "locked" /\ d.next = c.next
    <3>1. \A f \in Purposes : /\ [c EXCEPT !.for = f] \in CtlStates /\ [c EXCEPT !.for = f].for = f
                              /\ [c EXCEPT !.for = f].at = c.at /\ [c EXCEPT !.for = f].next = c.next
      BY DEF CtlStates
    <3> QED BY <1>0, <3>1, Zenon
  <2> HIDE DEF d
  <2>3. /\ [d EXCEPT !.saw = 0] \in CtlStates /\ [d EXCEPT !.saw = 0].saw = 0
        /\ [d EXCEPT !.saw = 0].at = d.at /\ [d EXCEPT !.saw = 0].for = d.for
        /\ [d EXCEPT !.saw = 0].next = d.next
    BY <1>0, <2>2 DEF CtlStates
  <2> QED BY <1>2, <2>1, <2>2, <2>3
<1>3. CASE c.for \notin {"rearm", "trace"}
  <2> DEFINE d == [c EXCEPT !.at = "open"]
  <2>1. AfterQuery(c) = [d EXCEPT !.saw = 0]
    BY <1>3, SMT DEF AfterQuery
  <2>2. d \in CtlStates /\ d.at = "open" /\ d.for = c.for /\ d.next = c.next
    BY <1>0, Moves
  <2> HIDE DEF d
  <2>3. /\ [d EXCEPT !.saw = 0] \in CtlStates /\ [d EXCEPT !.saw = 0].saw = 0
        /\ [d EXCEPT !.saw = 0].at = d.at /\ [d EXCEPT !.saw = 0].for = d.for
        /\ [d EXCEPT !.saw = 0].next = d.next
    BY <1>0, <2>2 DEF CtlStates
  <2> QED BY <1>3, <2>1, <2>2, <2>3
<1> QED BY <1>1, <1>2, <1>3

\* The controller task back at rest, or sent on from there.
LEMMA RestMoves ==
  ASSUME NEW a \in CtlPlaces, NEW f \in Purposes
  PROVE  /\ Rest \in CtlStates /\ [Rest EXCEPT !.at = a] \in CtlStates
         /\ [Rest EXCEPT !.at = a, !.for = f] \in CtlStates
<1>1. Rest \in CtlStates
  BY DEF Rest, CtlStates, CtlPlaces, Purposes
<1>2. [Rest EXCEPT !.at = a] \in CtlStates
  BY <1>1 DEF CtlStates
<1>3. ASSUME NEW c \in CtlStates PROVE [c EXCEPT !.for = f] \in CtlStates
  BY DEF CtlStates
<1>4. [[Rest EXCEPT !.at = a] EXCEPT !.for = f] \in CtlStates
  BY <1>2, <1>3
<1> QED BY <1>1, <1>2, <1>4

\* tick and its finish: the callback publishes only what it found no command
\* pending for, and finishes only the run it found active.
LEMMA TimerSteps ==
  ASSUME PumpInv, TimerStep
  PROVE  PumpInv'
<1> USE MaxRunsAssumption DEF PumpInv, TypeOK, TickInv, QueueInv, CtlInv, QueryInv, RecordInv,
        SawInactive, SawAway, SawQuiet, Harmless, timerRest
<1>1. CASE TickCalled
  <2>1. TypeOK'
    BY <1>1 DEF TickCalled, TickPlaces
  <2>2. TickInv' /\ QueueInv'
    BY <1>1 DEF TickCalled
  <2>3. CtlInv' /\ QueryInv' /\ RecordInv'
    BY <1>1 DEF TickCalled
  <2> QED BY <2>1, <2>2, <2>3
<1>2. CASE TickEnter
  <2>1. TypeOK'
    BY <1>2 DEF TickEnter, TickPlaces
  <2>2. TickInv' /\ QueueInv'
    BY <1>2 DEF TickEnter
  <2>3. CtlInv' /\ QueryInv' /\ RecordInv'
    BY <1>2 DEF TickEnter
  <2> QED BY <2>1, <2>2, <2>3
<1>3. CASE TickCheck
  <2>1. TypeOK'
    BY <1>3 DEF TickCheck, TickPlaces
  <2>2. TickInv' /\ QueueInv'
    BY <1>3 DEF TickCheck
  <2>3. CtlInv' /\ QueryInv' /\ RecordInv'
    BY <1>3 DEF TickCheck
  <2> QED BY <2>1, <2>2, <2>3
<1>4. CASE TickLook
  <2>1. TypeOK'
    BY <1>4 DEF TickLook, Waits, TickPlaces
  <2>2. TickInv' /\ QueueInv'
    BY <1>4 DEF TickLook, Waits
  <2>3. CtlInv' /\ QueryInv' /\ RecordInv'
    BY <1>4 DEF TickLook, Waits
  <2> QED BY <2>1, <2>2, <2>3
<1>5. CASE TickPublish
  <2>1. TypeOK'
    BY <1>5 DEF TickPublish, TickPlaces
  <2>2. TickInv' /\ QueueInv'
    BY <1>5 DEF TickPublish
  <2>3. CtlInv' /\ QueryInv' /\ RecordInv'
    BY <1>5 DEF TickPublish
  <2> QED BY <2>1, <2>2, <2>3
<1>6. CASE TickSend
  <2>1. TypeOK'
    BY <1>6 DEF TickSend, TickPlaces
  <2>2. TickInv' /\ QueueInv'
    BY <1>6 DEF TickSend
  <2>3. CtlInv' /\ QueryInv' /\ RecordInv'
    BY <1>6 DEF TickSend
  <2> QED BY <2>1, <2>2, <2>3
<1>7. CASE TickSendRefused
  <2>1. pending' \in BOOLEAN
    BY <1>7 DEF TickSendRefused, AfterRefusal
  <2>2. TypeOK'
    BY <1>7, <2>1 DEF TickSendRefused, AfterRefusal, TickPlaces
  <2>3. TickInv' /\ QueueInv'
    BY <1>7 DEF TickSendRefused, AfterRefusal
  <2>4. CtlInv' /\ QueryInv' /\ RecordInv'
    BY <1>7 DEF TickSendRefused, AfterRefusal
  <2> QED BY <2>2, <2>3, <2>4
<1>8. CASE TickFinish
  <2>1. active' \in BOOLEAN
    BY <1>8 DEF TickFinish
  <2>2. TypeOK'
    BY <1>8, <2>1 DEF TickFinish, TickPlaces
  <2>3. TickInv' /\ QueueInv'
    BY <1>8 DEF TickFinish
  <2>4. CtlInv' /\ QueryInv' /\ RecordInv'
    BY <1>8 DEF TickFinish
  <2> QED BY <2>2, <2>3, <2>4
<1>9. CASE TickStop
  <2>1. timerOn' \in BOOLEAN
    BY <1>9 DEF TickStop
  <2>2. TypeOK'
    BY <1>9, <2>1 DEF TickStop, TickPlaces
  <2>3. TickInv' /\ QueueInv'
    BY <1>9 DEF TickStop
  <2>4. CtlInv' /\ QueryInv' /\ RecordInv'
    BY <1>9 DEF TickStop
  <2> QED BY <2>2, <2>3, <2>4
<1>10. CASE TickFreeze
  <2>1. TypeOK'
    BY <1>10 DEF TickFreeze, TickPlaces
  <2>2. TickInv' /\ QueueInv'
    BY <1>10 DEF TickFreeze
  <2>3. CtlInv' /\ QueryInv' /\ RecordInv'
    BY <1>10 DEF TickFreeze
  <2> QED BY <2>1, <2>2, <2>3
<1>11. CASE TickLeave
  <2>1. TypeOK'
    BY <1>11 DEF TickLeave, TickPlaces
  <2>2. TickInv' /\ QueueInv'
    BY <1>11 DEF TickLeave
  <2>3. CtlInv' /\ QueryInv' /\ RecordInv'
    BY <1>11 DEF TickLeave
  <2> QED BY <2>1, <2>2, <2>3
<1> QED BY <1>1, <1>2, <1>3, <1>4, <1>5, <1>6, <1>7, <1>8, <1>9, <1>10, <1>11 DEF TimerStep

\* finish, called by the controller task: only who turned active off goes on.
LEMMA FinishSteps ==
  ASSUME PumpInv, CtlFinish \/ CtlStop \/ CtlFreeze
  PROVE  PumpInv'
<1> USE MaxRunsAssumption DEF PumpInv, TypeOK, TickInv, QueueInv, CtlInv, QueryInv, RecordInv,
        SawInactive, SawAway, SawQuiet, Harmless, controlRest
<1>1. CASE CtlFinish
  <2>1. TypeOK'
    BY <1>1 DEF CtlFinish, CtlStates, CtlPlaces, Purposes
  <2>2. TickInv' /\ QueueInv'
    BY <1>1 DEF CtlFinish, CtlStates
  <2>3. CtlInv' /\ QueryInv' /\ RecordInv'
    BY <1>1 DEF CtlFinish, CtlStates
  <2> QED BY <2>1, <2>2, <2>3
<1>2. CASE CtlStop
  <2>1. TypeOK'
    BY <1>2 DEF CtlStop, CtlStates, CtlPlaces, Purposes
  <2>2. TickInv' /\ QueueInv'
    BY <1>2 DEF CtlStop, CtlStates
  <2>3. CtlInv' /\ QueryInv' /\ RecordInv'
    BY <1>2 DEF CtlStop, CtlStates
  <2> QED BY <2>1, <2>2, <2>3
<1>3. CASE CtlFreeze
  <2>1. TypeOK'
    BY <1>3 DEF CtlFreeze, CtlStates, CtlPlaces, Purposes
  <2>2. TickInv' /\ QueueInv'
    BY <1>3 DEF CtlFreeze, CtlStates
  <2>3. CtlInv' /\ QueryInv' /\ RecordInv'
    BY <1>3 DEF CtlFreeze, CtlStates
  <2> QED BY <2>1, <2>2, <2>3
<1> QED BY <1>1, <1>2, <1>3

\* The step command: claimed only while it is announced, and for its own run;
\* and the cancel.
LEMMA CommandSteps ==
  ASSUME PumpInv, StepArrives \/ StepClaim \/ StepTrial \/ StepReply \/ Cancel
  PROVE  PumpInv'
<1> USE MaxRunsAssumption DEF PumpInv, TypeOK, TickInv, QueueInv, CtlInv, QueryInv, RecordInv,
        SawInactive, SawAway, SawQuiet, Harmless, controlRest
<1>1. CASE StepArrives
  <2>1. TypeOK'
    BY <1>1 DEF StepArrives, CtlStates, CtlPlaces, Purposes
  <2>2. TickInv' /\ QueueInv'
    BY <1>1 DEF StepArrives, CtlStates
  <2>3. CtlInv' /\ QueryInv' /\ RecordInv'
    BY <1>1 DEF StepArrives, CtlStates
  <2> QED BY <2>1, <2>2, <2>3
<1>2. CASE StepClaim
  <2>1. TypeOK'
    BY <1>2 DEF StepClaim, CtlStates, CtlPlaces, Purposes
  <2>2. TickInv' /\ QueueInv'
    BY <1>2 DEF StepClaim, CtlStates
  <2>3. CtlInv' /\ QueryInv' /\ RecordInv'
    BY <1>2 DEF StepClaim, CtlStates
  <2> QED BY <2>1, <2>2, <2>3
<1>3. CASE StepTrial
  <2>1. trial' \in {"idle", "active", "ended"}
    BY <1>3 DEF StepTrial
  <2>2. ctl' \in CtlStates
    BY ZenonT(40), <1>3 DEF StepTrial, CtlStates, CtlPlaces, Purposes
  <2>3. TypeOK'
    BY <1>3, <2>1, <2>2 DEF StepTrial
  <2>4. TickInv' /\ QueueInv'
    BY <1>3 DEF StepTrial, CtlStates
  <2>5. CtlInv' /\ QueryInv' /\ RecordInv'
    BY ZenonT(40), <1>3 DEF StepTrial, CtlStates
  <2> QED BY <2>3, <2>4, <2>5
<1>4. CASE StepReply
  <2>1. pending' \in BOOLEAN
    BY <1>4 DEF StepReply
  <2>2. ctl' \in CtlStates
    <3>1. Rest \in CtlStates /\ [Rest EXCEPT !.at = "finish"] \in CtlStates
      BY RestMoves DEF CtlPlaces, Purposes
    <3> QED BY <1>4, <3>1 DEF StepReply
  <2>3. TypeOK'
    BY <1>4, <2>1, <2>2 DEF StepReply
  <2>4. TickInv' /\ QueueInv'
    BY <1>4 DEF StepReply, Rest, CtlStates
  <2>5. CtlInv' /\ QueryInv' /\ RecordInv'
    BY <1>4 DEF StepReply, Rest, CtlStates
  <2> QED BY <2>3, <2>4, <2>5
<1>5. CASE Cancel
  <2>1. TypeOK'
    BY <1>5 DEF Cancel, CtlStates, CtlPlaces, Purposes
  <2>2. TickInv' /\ QueueInv'
    BY <1>5 DEF Cancel, CtlStates
  <2>3. CtlInv' /\ QueryInv' /\ RecordInv'
    BY <1>5 DEF Cancel, CtlStates
  <2> QED BY <2>1, <2>2, <2>3
<1> QED BY <1>1, <1>2, <1>3, <1>4, <1>5

\* Start and rearm, as far as they are not loads of the query.
LEMMA StartSteps ==
  ASSUME PumpInv, Start \/ Rearm \/ RearmTrial \/ RearmTrace \/ StartOpen \/ StartActive \/ StartTimer \/ StartTimerFails
  PROVE  PumpInv'
<1> USE MaxRunsAssumption DEF PumpInv, TypeOK, TickInv, QueueInv, CtlInv, QueryInv, RecordInv,
        SawInactive, SawAway, SawQuiet, Harmless, controlRest
<1>1. CASE Start
  <2>1. trial' \in {"idle", "active", "ended"}
    BY <1>1 DEF Start
  <2>2. ctl' \in CtlStates
    <3>1. Rest \in CtlStates /\ [Rest EXCEPT !.at = "busy", !.for = "start"] \in CtlStates
      BY RestMoves DEF CtlPlaces, Purposes
    <3> QED BY <1>1, <3>1 DEF Start
  <2>3. TypeOK'
    BY <1>1, <2>1, <2>2 DEF Start
  <2>4. TickInv' /\ QueueInv'
    BY <1>1 DEF Start, Rest, CtlStates
  <2>5. CtlInv' /\ QueryInv' /\ RecordInv'
    BY <1>1 DEF Start, Rest, CtlStates
  <2> QED BY <2>3, <2>4, <2>5
<1>2. CASE Rearm
  <2>1. ctl' \in CtlStates
    <3>1. Rest \in CtlStates /\ [Rest EXCEPT !.at = "busy", !.for = "rearm"] \in CtlStates
      BY RestMoves DEF CtlPlaces, Purposes
    <3> QED BY <1>2, <3>1 DEF Rearm
  <2>2. TypeOK'
    BY <1>2, <2>1 DEF Rearm
  <2>3. TickInv' /\ QueueInv'
    BY <1>2 DEF Rearm, Rest, CtlStates
  <2>4. CtlInv' /\ QueryInv' /\ RecordInv'
    BY <1>2 DEF Rearm, Rest, CtlStates
  <2> QED BY <2>2, <2>3, <2>4
<1>3. CASE RearmTrial
  <2>1. TypeOK'
    BY <1>3 DEF RearmTrial, CtlStates, CtlPlaces, Purposes
  <2>2. TickInv' /\ QueueInv'
    BY <1>3 DEF RearmTrial, CtlStates
  <2>3. CtlInv' /\ QueryInv' /\ RecordInv'
    BY <1>3 DEF RearmTrial, CtlStates
  <2> QED BY <2>1, <2>2, <2>3
<1>4. CASE RearmTrace
  <2>1. frozen' \in BOOLEAN
    BY <1>4 DEF RearmTrace
  <2>2. ctl' \in CtlStates
    BY <1>4, RestMoves DEF RearmTrace, CtlStates, CtlPlaces, Purposes
  <2>3. TypeOK'
    BY <1>4, <2>1, <2>2 DEF RearmTrace
  <2>4. TickInv' /\ QueueInv'
    BY <1>4 DEF RearmTrace, Rest, CtlStates
  <2>5. CtlInv' /\ QueryInv' /\ RecordInv'
    BY <1>4 DEF RearmTrace, Rest, CtlStates
  <2> QED BY <2>3, <2>4, <2>5
<1>5. CASE StartOpen
  <2>1. recording' \in BOOLEAN
    BY <1>5 DEF StartOpen
  <2>2. trial' \in {"idle", "active", "ended"}
    BY <1>5 DEF StartOpen
  <2>3. ctl' \in CtlStates
    <3>1. Rest \in CtlStates
      BY RestMoves DEF CtlPlaces, Purposes
    <3>2. [ctl EXCEPT !.at = "go"] \in CtlStates
      BY DEF CtlStates, CtlPlaces
    <3> QED BY <1>5, <3>1, <3>2 DEF StartOpen
  <2>4. TypeOK'
    BY <1>5, <2>1, <2>2, <2>3 DEF StartOpen
  <2>5. TickInv' /\ QueueInv'
    BY <1>5 DEF StartOpen, Rest, CtlStates
  <2>6. CtlInv' /\ QueryInv' /\ RecordInv'
    BY <1>5 DEF StartOpen, Rest, CtlStates
  <2> QED BY <2>4, <2>5, <2>6
<1>6. CASE StartActive
  <2>1. TypeOK'
    BY <1>6 DEF StartActive, CtlStates, CtlPlaces, Purposes
  <2>2. TickInv' /\ QueueInv'
    BY <1>6 DEF StartActive, CtlStates
  <2>3. CtlInv' /\ QueryInv' /\ RecordInv'
    BY <1>6 DEF StartActive, CtlStates
  <2> QED BY <2>1, <2>2, <2>3
<1>7. CASE StartTimer
  <2>1. TypeOK'
    BY <1>7 DEF StartTimer, Rest, CtlStates, CtlPlaces, Purposes
  <2>2. TickInv' /\ QueueInv'
    BY <1>7 DEF StartTimer, Rest, CtlStates
  <2>3. CtlInv' /\ QueryInv' /\ RecordInv'
    BY <1>7 DEF StartTimer, Rest, CtlStates
  <2> QED BY <2>1, <2>2, <2>3
<1>8. CASE StartTimerFails
  <2>1. trial' \in {"idle", "active", "ended"}
    BY <1>8 DEF StartTimerFails, GivesUp
  <2>2. ctl' \in CtlStates
    <3>1. Rest \in CtlStates /\ GivesUp \in CtlStates
      BY RestMoves DEF CtlPlaces, Purposes, GivesUp
    <3> QED BY <1>8, <3>1 DEF StartTimerFails
  <2>3. TypeOK'
    BY <1>8, <2>1, <2>2 DEF StartTimerFails, GivesUp
  <2>4. TickInv' /\ QueueInv'
    BY <1>8 DEF StartTimerFails, GivesUp, Rest, CtlStates
  <2>5. CtlInv' /\ QueryInv' /\ RecordInv'
    BY <1>8 DEF StartTimerFails, GivesUp, Rest, CtlStates
  <2> QED BY <2>3, <2>4, <2>5
<1> QED BY <1>1, <1>2, <1>3, <1>4, <1>5, <1>6, <1>7, <1>8

\* The printer and the keeper.
LEMMA OtherSteps ==
  ASSUME PumpInv, Drain \/ KeeperAsks
  PROVE  PumpInv'
<1> USE MaxRunsAssumption DEF PumpInv, TypeOK, TickInv, QueueInv, CtlInv, QueryInv, RecordInv,
        SawInactive, SawAway, SawQuiet, Harmless
<1>1. CASE Drain
  <2>1. frozen' \in BOOLEAN
    BY <1>1 DEF Drain
  <2>2. TypeOK'
    BY <1>1, <2>1 DEF Drain
  <2>3. TickInv' /\ QueueInv'
    BY <1>1 DEF Drain, CtlStates
  <2>4. CtlInv' /\ QueryInv' /\ RecordInv'
    BY <1>1 DEF Drain, CtlStates
  <2> QED BY <2>2, <2>3, <2>4
<1>2. CASE KeeperAsks
  <2>1. TypeOK'
    BY <1>2 DEF KeeperAsks, BusyLoad
  <2>2. TickInv' /\ QueueInv'
    BY <1>2 DEF KeeperAsks, BusyLoad, CtlStates
  <2>3. CtlInv' /\ QueryInv' /\ RecordInv'
    BY <1>2 DEF KeeperAsks, BusyLoad, CtlStates
  <2> QED BY <2>1, <2>2, <2>3
<1> QED BY <1>1, <1>2

\* What each load reads.
LEMMA Loads ==
  /\ BusyLoad(0) <=> active
  /\ BusyLoad(1) <=> tick_running > 0
  /\ BusyLoad(2) <=> pending
BY DEF BusyLoad

\* One load of ull_trial_pump_busy: inactive first, then no callback, and only
\* then the command, for nobody is left to publish one.
LEMMA QuerySteps ==
  ASSUME PumpInv, BusyQuery
  PROVE  PumpInv'
<1> USE DEF PumpInv, TypeOK, TickInv, QueueInv, CtlInv, QueryInv, RecordInv,
            SawInactive, SawAway, SawQuiet, Harmless, controlRest
<1>1. /\ ctl.at = "busy" /\ ctl.saw \in 0..2 /\ ctl \in CtlStates
      /\ UNCHANGED <<active, pending, timerOn, recording, frozen, queue, controlRest>>
  BY DEF BusyQuery, CtlStates
<1>2. CASE ctl' = Rest /\ trial' = IF ctl.for = "start" THEN "ended" ELSE trial
  <2>1. ctl' \in CtlStates
    BY <1>2, RestMoves DEF CtlPlaces, Purposes
  <2>2. trial' \in {"idle", "active", "ended"}
    BY <1>2
  <2>3. TypeOK'
    BY <1>1, <2>1, <2>2
  <2> QED BY <1>1, <1>2, <2>3 DEF Rest
<1>3. CASE ~BusyLoad(ctl.saw) /\ ctl.saw < 2 /\ ctl' = [ctl EXCEPT !.saw = ctl.saw + 1] /\ trial' = trial
  <2>1. ctl' \in CtlStates
    BY <1>1, <1>3 DEF CtlStates
  <2>2. TypeOK'
    BY <1>1, <1>3, <2>1
  <2>3. ctl.saw = 0 => ~active
    BY <1>3, Loads
  <2>4. ctl.saw = 1 => ~active /\ tick \in Harmless
    BY <1>1, <1>3, Loads
  <2> QED BY <1>1, <1>3, <2>2, <2>3, <2>4 DEF CtlStates
<1>4. CASE ~BusyLoad(ctl.saw) /\ ctl.saw = 2 /\ ctl' = AfterQuery(ctl) /\ trial' = trial
  <2>1. SawQuiet
    BY <1>1, <1>4, Loads
  <2>2. TypeOK'
    BY <1>1, <1>4, AfterQueryGoes
  <2> QED BY <1>1, <1>4, <2>1, <2>2, AfterQueryGoes DEF Purposes, CtlStates
<1> QED BY <1>1, <1>2, <1>3, <1>4 DEF BusyQuery

\* The invariant, for every number of runs.
THEOREM PumpInvariant == Spec => []PumpInv
<1>1. Init => PumpInv
  <2> SUFFICES ASSUME Init PROVE PumpInv
    OBVIOUS
  <2>1. ctl \in CtlStates /\ ctl.at = "idle" /\ ctl.next = "idle"
    BY RestMoves DEF Init, Rest, CtlPlaces, Purposes
  <2>2. /\ active = FALSE /\ pending = FALSE /\ timerOn = FALSE
        /\ recording = FALSE /\ frozen = FALSE /\ tick_running = 0
        /\ trial = "idle" /\ tick = "away" /\ asks = "no" /\ run = 0
    BY DEF Init
  <2>3. queue = <<>> /\ queue \in Seq(1..MaxRuns) /\ Len(queue) <= 1 /\ run \in 0..MaxRuns
    BY MaxRunsAssumption DEF Init
  <2>4. TypeOK
    <3>1. /\ active \in BOOLEAN /\ pending \in BOOLEAN /\ timerOn \in BOOLEAN
          /\ recording \in BOOLEAN /\ frozen \in BOOLEAN
      BY <2>2
    <3>2. /\ tick_running \in 0..1 /\ trial \in {"idle", "active", "ended"} /\ tick \in TickPlaces
          /\ asks \in {"no", "sawInactive", "sawAway", "idle"}
      BY <2>2 DEF TickPlaces
    <3> QED BY <2>1, <2>3, <3>1, <3>2 DEF TypeOK
  <2>5. TickInv /\ QueueInv /\ RecordInv
    BY <2>1, <2>2, <2>3 DEF TickInv, QueueInv, RecordInv, Harmless
  <2>6. CtlInv /\ QueryInv
    BY <2>1, <2>2 DEF CtlInv, QueryInv, SawInactive, SawAway, SawQuiet
  <2> QED BY <2>4, <2>5, <2>6 DEF PumpInv
<1>2. PumpInv /\ [Next]_vars => PumpInv'
  <2> SUFFICES ASSUME PumpInv, [Next]_vars PROVE PumpInv'
    OBVIOUS
  <2>1. CASE UNCHANGED vars
    BY <2>1 DEF vars, PumpInv, TypeOK, TickInv, QueueInv, CtlInv, QueryInv, RecordInv,
                SawInactive, SawAway, SawQuiet
  <2>2. CASE Next
    BY <2>2, TimerSteps, FinishSteps, CommandSteps, StartSteps, OtherSteps, QuerySteps
    DEF Next, CtlStep
  <2> QED BY <2>1, <2>2
<1> QED BY <1>1, <1>2, PTL DEF Spec

\* trial_pump.c, ull_trial_pump_busy: an answer of "not busy", to the controller
\* task or to the keeper, means that nothing of an earlier run can still happen.
THEOREM IdleIsQuiet == Spec => []IdleMeansQuiet
<1>1. PumpInv => IdleMeansQuiet
  BY DEF PumpInv, QueueInv, QueryInv, SawAway, SawQuiet, Harmless, IdleMeansQuiet, Quiet
<1> QED BY <1>1, PumpInvariant, PTL

\* trial_pump.c, ull_trial_pump_claim: the trial is only stepped for the run
\* that published the command.
THEOREM StepsAreCurrent == Spec => []NoStaleStep
<1>1. PumpInv => NoStaleStep
  BY DEF PumpInv, QueueInv, NoStaleStep
<1> QED BY <1>1, PumpInvariant, PTL

\* At most one command is on its way, announced until it is answered, and an
\* active run has its timer and its trace, whatever finish came late.
THEOREM OneCommand == Spec => []OneOutstanding
<1>1. PumpInv => OneOutstanding
  BY DEF PumpInv, QueueInv, RecordInv, OneOutstanding
<1> QED BY <1>1, PumpInvariant, PTL

-------------------------------------------------------------------------------
-------------------------------------------------------------------------------
(***************************************************************************)
(* RetryOwner.  The list of places is a stack: places that are called are  *)
(* put in front of the rest, so it grows only by what a place may become,  *)
(* and what finish does stays in its order.                                *)
(***************************************************************************)
Pending(s) == {s[i] : i \in 1..Len(s)}
Now == Pending(todo)

\* Nothing is ever below these.
Lowest == {"collect", "after", "choose", "submit", "over", "faulted"}

\* How many places one place may become, with those it calls.
Deep == {"burstDone", "probeDone", "finishBurst", "finishProbe", "submittedEnd",
         "tickTime", "takeBurst", "skip"}
Height(p) == IF p \in Lowest THEN 11 ELSE IF p \in Deep THEN 2 ELSE 1

\* What is still to come when a place is.
Owes(p) ==
    CASE p = "close" -> {"finishProbe", "finishBurst", "end", "endOwner", "finishAuto", "free"}
      [] p = "finishProbe" -> {"finishBurst", "end", "endOwner", "finishAuto", "free"}
      [] p = "finishBurst" -> {"end", "endOwner", "finishAuto", "free"}
      [] p = "end" -> {"endOwner"}
      [] p = "finishAuto" -> {"free"}
      [] p = "submitted" -> {"submittedEnd"}
      [] OTHER -> {}

\* The places of finish and of what it calls.
Closing == {"close", "finishProbe", "finishBurst", "end", "endOwner", "finishAuto", "free",
            "burstDone", "probeDone", "probeEnd", "release", "releaseOwner", "over", "faulted"}
Ends(S) == S \cap {"over", "faulted"} # {}

Shape(s) ==
    /\ s \in Seq(Places)
    /\ \A i \in 1..Len(s) : Height(s[i]) + Len(s) - i <= 11
    /\ \A i \in 1..Len(s) : s[i] \in Lowest => i = Len(s)
    /\ \A i \in 2..Len(s) : s[i] # "startBurst"
    /\ \A i \in 1..Len(s) : Owes(s[i]) \subseteq {s[j] : j \in (i + 1)..Len(s)}
    /\ Ends(Pending(s)) => Pending(s) \subseteq Closing

(***************************************************************************)
(* The invariant.                                                          *)
(***************************************************************************)
\* The manual tests' counts.
Counted ==
    /\ probe \in {0, 1} => probes = 0
    /\ probes <= 1 /\ attempts <= Budget
    /\ "startBurst" \in Now => attempts < Budget

\* Whoever owns has a reason to, or is about to give up.
BurstOwns ==
    owner = 2 =>
        /\ burst = 0 => console = "burstState"
        /\ \/ burst \in {1, 2} \/ burst_active \/ burst_watch
           \/ console \in {"burstState", "burstGiveUp"}
           \/ Now \cap {"endOwner", "free", "submittedEnd"} # {}

ProbeOwns ==
    owner = 1 =>
        \/ probe \in {1, 2} /\ "probeEnd" \notin Now
        \/ probe_next
        \/ console \in {"probeState", "probeGiveUp"}
        \/ "free" \in Now

AutoOwns == owner = 3 => autoActive \/ Now \cap {"useAuto", "releaseOwner", "free"} # {}

\* A probe that was taken is in flight until its end has been noted.
InFlight ==
    /\ probe = 2 => probe_active \/ "probeEnd" \in Now
    /\ probe_active \/ "probeEnd" \in Now => probe \notin {0, 1}

\* Armed only because the console has not looked again yet.
BurstRevoked == burst \in {1, 2} => console \in {"burstCheck", "burstClose"}
ProbeRevoked == probe = 1 => console \in {"probeCheck", "probeClose"}

\* What finish has done by the time that each of its places is behind it.
Finishing ==
    Ends(Now) =>
        /\ "close" \notin Now => published = "over"
        /\ "finishProbe" \notin Now =>
               outcome = "none" /\ ProbeRevoked /\ (probe_active => "probeDone" \in Now)
        /\ "finishBurst" \notin Now =>
               ~probe_next /\ ~burst_watch /\ (burst_active => "burstDone" \in Now)
        /\ "end" \notin Now => BurstRevoked
        /\ "finishAuto" \notin Now => ~autoActive

\* What is left of a session that is over.
QuietPlaces == {"tickOwner", "tickTime", "release", "releaseOwner", "free", "end",
                "endOwner", "cancelling", "collect"}
Finished ==
    /\ ~Live => Now \subseteq QuietPlaces
    /\ phase \in {"over", "idle"} =>
           /\ published # "transmitting"
           /\ ~probe_active /\ ~probe_next /\ ~burst_active /\ ~burst_watch /\ ~autoActive
           /\ BurstRevoked /\ ProbeRevoked

\* The variables' types; the list's are in its shape.
Typed ==
    /\ owner \in 0..3 /\ burst \in 0..3 /\ probe \in 0..4 /\ coolProbe \in 0..2
    /\ attempts \in 0..Budget+1 /\ probes \in 0..2
    /\ autoOn \in BOOLEAN /\ autoActive \in BOOLEAN /\ blocked \in BOOLEAN /\ cancel \in BOOLEAN
    /\ burst_active \in BOOLEAN /\ burst_watch \in BOOLEAN
    /\ probe_active \in BOOLEAN /\ probe_next \in BOOLEAN
    /\ published \in Phases /\ phase \in Phases
    /\ outcome \in Outcomes /\ frame \in {"plain", "eligible", "automatic"}
    /\ console \in ConsolePlaces /\ sessions \in 0..MaxSessions

Claims == Counted /\ InFlight /\ BurstOwns /\ ProbeOwns /\ AutoOwns /\ Finishing /\ Finished

RetryInv == Typed /\ Shape(todo) /\ Claims

------------------------------------------------------------------------------
(***************************************************************************)
(* The list of places when one of them has done its work.                  *)
(***************************************************************************)
\* What may be put in the place of p.
Fits(s, p) ==
    /\ s \in Seq(Places)
    /\ \A i \in 1..Len(s) : Height(s[i]) + Len(s) - i <= Height(p)
    /\ \A i \in 1..Len(s) : s[i] \in Lowest => i = Len(s) /\ p \in Lowest
    /\ \A i \in 2..Len(s) : s[i] # "startBurst"
    /\ \A i \in 1..Len(s) : Owes(s[i]) \subseteq {s[j] : j \in (i + 1)..Len(s)}
    /\ p \in Closing \/ Ends(Pending(s)) => Pending(s) \subseteq Closing

\* The elements of a list in front of another.
LEMMA Concatenated ==
  ASSUME NEW S, NEW s \in Seq(S), NEW t \in Seq(S)
  PROVE  /\ s \o t \in Seq(S) /\ Len(s \o t) = Len(s) + Len(t)
         /\ \A i \in 1..Len(s) : (s \o t)[i] = s[i]
         /\ \A i \in (Len(s) + 1)..(Len(s) + Len(t)) : (s \o t)[i] = t[i - Len(s)]
OBVIOUS

LEMMA Tailed ==
  ASSUME NEW S, NEW t \in Seq(S), t # <<>>
  PROVE  /\ Tail(t) \in Seq(S) /\ Len(Tail(t)) = Len(t) - 1 /\ Len(t) \in Nat \ {0}
         /\ Head(t) = t[1] /\ Head(t) \in S
         /\ \A i \in 1..(Len(t) - 1) : Tail(t)[i] = t[i + 1]
OBVIOUS

LEMMA HeightBounds == ASSUME NEW p PROVE Height(p) \in {1, 2, 11}
BY DEF Height

\* The places in the shape of a stack, and the rest of it.
LEMMA Parts ==
  ASSUME Shape(todo), todo # <<>>
  PROVE  /\ Now = {Head(todo)} \cup Pending(Tail(todo))
         /\ Head(todo) \in Lowest => Tail(todo) = <<>>
         /\ Owes(Head(todo)) \subseteq Pending(Tail(todo))
         /\ "startBurst" \notin Pending(Tail(todo))
         /\ Ends(Now) => Now \subseteq Closing
<1> DEFINE t == Tail(todo)
<1>1. todo \in Seq(Places)
  BY DEF Shape
<1>2. /\ t \in Seq(Places) /\ Len(t) = Len(todo) - 1 /\ Len(todo) \in Nat \ {0} /\ Head(todo) = todo[1]
      /\ \A i \in 1..(Len(todo) - 1) : t[i] = todo[i + 1]
  BY <1>1, Tailed
<1> HIDE DEF t
<1>3. Pending(t) = {todo[j] : j \in 2..Len(todo)}
  <2>1. ASSUME NEW i \in 1..Len(t) PROVE t[i] \in {todo[j] : j \in 2..Len(todo)}
    <3>1. i + 1 \in 2..Len(todo) /\ t[i] = todo[i + 1]
      BY <1>2
    <3> QED BY <3>1
  <2>2. ASSUME NEW j \in 2..Len(todo) PROVE todo[j] \in Pending(t)
    <3>1. j - 1 \in 1..Len(t) /\ t[j - 1] = todo[j]
      BY <1>2
    <3> QED BY <3>1 DEF Pending
  <2> QED BY <2>1, <2>2 DEF Pending
<1>4. Now = {Head(todo)} \cup Pending(t)
  <2>1. ASSUME NEW x \in Now PROVE x = Head(todo) \/ x \in Pending(t)
    <3>1. PICK i \in 1..Len(todo) : x = todo[i]
      BY DEF Now, Pending
    <3>2. CASE i = 1
      BY <1>2, <3>1, <3>2
    <3>3. CASE i # 1
      <4>1. i \in 2..Len(todo)
        BY <1>2, <3>3
      <4> QED BY <1>3, <3>1, <4>1
    <3> QED BY <3>2, <3>3
  <2>2. Head(todo) \in Now
    <3>1. 1 \in 1..Len(todo)
      BY <1>2
    <3> QED BY <1>2, <3>1 DEF Now, Pending
  <2>3. Pending(t) \subseteq Now
    <3>1. 2..Len(todo) \subseteq 1..Len(todo)
      BY <1>2
    <3> QED BY <1>3, <3>1 DEF Now, Pending
  <2> QED BY <2>1, <2>2, <2>3
<1>5. 1 \in 1..Len(todo)
  BY <1>2
<1>6. Head(todo) \in Lowest => t = <<>>
  <2> SUFFICES ASSUME Head(todo) \in Lowest PROVE t = <<>>
    OBVIOUS
  <2>1. Len(todo) = 1
    BY <1>2, <1>5 DEF Shape
  <2>2. Len(t) = 0 /\ t \in Seq(Places)
    BY <1>2, <2>1
  <2> QED BY <2>2
<1>7. Owes(Head(todo)) \subseteq Pending(t)
  <2>1. Owes(todo[1]) \subseteq {todo[j] : j \in (1 + 1)..Len(todo)}
    BY <1>5 DEF Shape
  <2>2. (1 + 1)..Len(todo) = 2..Len(todo)
    OBVIOUS
  <2> QED BY <1>2, <1>3, <2>1, <2>2
<1>8. "startBurst" \notin Pending(t)
  BY <1>3 DEF Shape
<1>9. Ends(Now) => Now \subseteq Closing
  BY DEF Shape, Now
<1> QED BY <1>4, <1>6, <1>7, <1>8, <1>9 DEF t

LEMMA Pushed ==
  ASSUME Shape(todo), todo # <<>>, NEW s, Fits(s, Head(todo)), todo' = s \o Tail(todo)
  PROVE  Shape(todo)' /\ Now' = Pending(s) \cup Pending(Tail(todo))
<1> DEFINE t == Tail(todo)
           u == s \o t
           n == Len(s)
           m == Len(t)
<1>1. todo \in Seq(Places) /\ s \in Seq(Places)
  BY DEF Shape, Fits
<1>2. /\ t \in Seq(Places) /\ m = Len(todo) - 1 /\ Len(todo) \in Nat \ {0} /\ Head(todo) = todo[1]
      /\ \A i \in 1..(Len(todo) - 1) : t[i] = todo[i + 1]
  BY <1>1, Tailed
<1>3. n \in Nat /\ m \in Nat
  BY <1>1, <1>2
<1>4. /\ u \in Seq(Places) /\ Len(u) = n + m
      /\ \A i \in 1..n : u[i] = s[i]
      /\ \A i \in (n + 1)..(n + m) : u[i] = t[i - n]
  BY <1>1, <1>2, Concatenated
<1>5. \A i \in (n + 1)..(n + m) : u[i] = todo[i - n + 1] /\ i - n + 1 \in 2..Len(todo) /\ i - n \in 1..m
  BY <1>2, <1>3, <1>4
<1> HIDE DEF t, n, m, u
<1>6. 1..Len(u) = (1..n) \cup ((n + 1)..(n + m))
  BY <1>3, <1>4
<1>7. Pending(u) = Pending(s) \cup Pending(t)
  <2>1. ASSUME NEW x \in Pending(u) PROVE x \in Pending(s) \cup Pending(t)
    <3>1. PICK i \in 1..Len(u) : x = u[i]
      BY DEF Pending
    <3>2. CASE i \in 1..n
      BY <1>4, <3>1, <3>2 DEF Pending, n
    <3>3. CASE i \in (n + 1)..(n + m)
      BY <1>4, <1>5, <3>1, <3>3 DEF Pending, m
    <3> QED BY <1>6, <3>1, <3>2, <3>3
  <2>2. ASSUME NEW x \in Pending(s) PROVE x \in Pending(u)
    <3>1. PICK i \in 1..n : x = s[i]
      BY DEF Pending, n
    <3>2. i \in 1..Len(u) /\ u[i] = x
      BY <1>4, <1>6, <3>1
    <3> QED BY <3>2 DEF Pending
  <2>3. ASSUME NEW x \in Pending(t) PROVE x \in Pending(u)
    <3>1. PICK i \in 1..m : x = t[i]
      BY DEF Pending, m
    <3>2. i + n \in (n + 1)..(n + m) /\ (i + n) - n = i
      BY <1>3
    <3>3. i + n \in 1..Len(u) /\ u[i + n] = x
      BY <1>4, <1>6, <3>1, <3>2
    <3> QED BY <3>3 DEF Pending
  <2> QED BY <2>1, <2>2, <2>3
<1>8. 1 \in 1..Len(todo) /\ 2..Len(todo) \subseteq 1..Len(todo)
  BY <1>2
<1>9. ASSUME NEW i \in 1..Len(u) PROVE Height(u[i]) + Len(u) - i <= 11
  <2>1. CASE i \in 1..n
    <3>1. Height(s[i]) + n - i <= Height(todo[1])
      BY <1>2, <2>1 DEF Fits, n
    <3>2. Height(todo[1]) + Len(todo) - 1 <= 11
      BY <1>8 DEF Shape
    <3>3. Height(s[i]) \in Int /\ Height(todo[1]) \in Int
      BY HeightBounds
    <3>4. Height(u[i]) = Height(s[i])
      BY <1>4, <2>1
    <3> QED BY <1>2, <1>3, <1>4, <3>1, <3>2, <3>3, <3>4, SMTT(40)
  <2>2. CASE i \in (n + 1)..(n + m)
    <3> DEFINE j == i - n + 1
    <3>1. u[i] = todo[j] /\ j \in 2..Len(todo)
      BY <1>5, <2>2
    <3>2. Height(todo[j]) + Len(todo) - j <= 11
      BY <1>8, <3>1 DEF Shape
    <3>3. Height(todo[j]) \in Int
      BY HeightBounds
    <3>4. Len(todo) - j = Len(u) - i
      BY <1>2, <1>3, <1>4
    <3>5. Height(todo[j]) + (Len(todo) - j) <= 11
      BY <1>2, <1>3, <3>2, <3>3
    <3>6. Height(u[i]) + (Len(u) - i) <= 11
      BY <3>1, <3>4, <3>5
    <3>7. Height(u[i]) \in Int
      BY HeightBounds
    <3> QED BY <1>3, <1>4, <3>6, <3>7
  <2> QED BY <1>6, <2>1, <2>2
<1>10. ASSUME NEW i \in 1..Len(u), u[i] \in Lowest PROVE i = Len(u)
  <2>1. CASE i \in 1..n
    <3>1. u[i] = s[i] /\ i = n /\ todo[1] \in Lowest
      BY <1>2, <1>4, <1>10, <2>1 DEF Fits, n
    <3>2. 1 = Len(todo)
      BY <1>8, <3>1 DEF Shape
    <3>3. m = Len(todo) - 1 /\ i = n
      BY <1>2, <3>1
    <3>4. m = 0
      BY <3>2, <3>3
    <3>5. Len(u) = n + m
      BY <1>4
    <3>6. n + m = n
      BY <1>3, <3>4
    <3> QED BY <3>3, <3>5, <3>6
  <2>2. CASE i \in (n + 1)..(n + m)
    <3>1. u[i] = todo[i - n + 1] /\ i - n + 1 \in 1..Len(todo)
      BY <1>5, <1>8, <2>2
    <3>2. i - n + 1 = Len(todo)
      BY <1>10, <3>1 DEF Shape
    <3> QED BY <1>2, <1>3, <1>4, <3>2
  <2> QED BY <1>6, <2>1, <2>2
<1>11. ASSUME NEW i \in 2..Len(u) PROVE u[i] # "startBurst"
  <2>1. i \in 1..Len(u)
    BY <1>3, <1>4
  <2>2. CASE i \in 1..n
    <3>1. i \in 2..n
      BY <1>3, <2>2
    <3> QED BY <1>4, <2>2, <3>1 DEF Fits, n
  <2>3. CASE i \in (n + 1)..(n + m)
    BY <1>5, <2>3 DEF Shape
  <2> QED BY <1>6, <2>1, <2>2, <2>3
<1>12. ASSUME NEW i \in 1..Len(u), NEW q \in Owes(u[i]) PROVE q \in {u[j] : j \in (i + 1)..Len(u)}
  <2>1. CASE i \in 1..n
    <3>1. u[i] = s[i] /\ q \in Owes(s[i])
      BY <1>4, <1>12, <2>1
    <3>2. Owes(s[i]) \subseteq {s[j] : j \in (i + 1)..n}
      BY <2>1 DEF Fits, n
    <3>3. PICK j \in (i + 1)..n : q = s[j]
      BY <3>1, <3>2
    <3>4. j \in 1..n /\ j \in (i + 1)..Len(u)
      BY <1>3, <1>4, <2>1
    <3> QED BY <1>4, <3>3, <3>4
  <2>2. CASE i \in (n + 1)..(n + m)
    <3> DEFINE k == i - n + 1
    <3>1. u[i] = todo[k] /\ k \in 1..Len(todo) /\ k \in Nat
      BY <1>5, <1>8, <2>2
    <3>2. Owes(todo[k]) \subseteq {todo[j] : j \in (k + 1)..Len(todo)}
      BY <3>1 DEF Shape
    <3>3. PICK j \in (k + 1)..Len(todo) : q = todo[j]
      BY <1>12, <3>1, <3>2
    <3>4. /\ j + n - 1 \in (n + 1)..(n + m) /\ (j + n - 1) - n + 1 = j
          /\ j + n - 1 \in (i + 1)..Len(u)
      BY <1>2, <1>3, <1>4, <2>2
    <3>5. u[j + n - 1] = todo[j]
      BY <1>5, <3>4
    <3> QED BY <3>3, <3>4, <3>5
  <2> QED BY <1>6, <2>1, <2>2
<1>13. ASSUME Ends(Pending(u)) PROVE Pending(u) \subseteq Closing
  <2>1. Now = {Head(todo)} \cup Pending(t) /\ (Head(todo) \in Lowest => t = <<>>)
    BY Parts DEF t
  <2>2. CASE Ends(Pending(s))
    <3>1. PICK x \in Pending(s) : x \in {"over", "faulted"}
      BY <2>2 DEF Ends
    <3>2. PICK i \in 1..n : s[i] = x
      BY <3>1 DEF Pending, n
    <3>3. Head(todo) \in Lowest
      BY <3>1, <3>2 DEF Fits, Lowest, n
    <3>4. Pending(t) = {}
      BY <2>1, <3>3 DEF Pending
    <3> QED BY <1>7, <2>2, <3>4 DEF Fits
  <2>3. CASE ~Ends(Pending(s))
    <3>1. Ends(Pending(t))
      BY <1>7, <1>13, <2>3 DEF Ends
    <3>2. Now \subseteq Closing
      BY <2>1, <3>1 DEF Shape, Now, Ends
    <3> QED BY <1>7, <2>1, <3>2 DEF Fits
  <2> QED BY <2>2, <2>3
<1>14. Shape(u)
  BY <1>4, <1>9, <1>10, <1>11, <1>12, <1>13 DEF Shape
<1>15. todo' = u
  BY DEF u, t
<1>16. Pending(todo') = Pending(s) \cup Pending(t) /\ Shape(todo')
  BY <1>7, <1>14, <1>15
<1> QED BY <1>16 DEF Now, Shape, t

\* The lists that the places put in their place: none, one or two places, ...
LEMMA NoneFits == ASSUME NEW p PROVE Fits(<<>>, p) /\ Pending(<<>>) = {}
<1>1. <<>> \in Seq(Places) /\ Len(<<>>) = 0 /\ 1..0 = {} /\ 2..0 = {}
  OBVIOUS
<1>2. Pending(<<>>) = {}
  BY <1>1 DEF Pending
<1> QED BY <1>1, <1>2 DEF Fits, Ends

LEMMA OneFits ==
  ASSUME NEW a \in Places \ (Lowest \cup {"startBurst"}), NEW p, Height(a) <= Height(p), Owes(a) = {},
         p \in Closing => a \in Closing
  PROVE  Fits(<<a>>, p) /\ Pending(<<a>>) = {a}
<1>1. <<a>> \in Seq(Places) /\ Len(<<a>>) = 1 /\ <<a>>[1] = a /\ 1..1 = {1} /\ 2..1 = {}
  OBVIOUS
<1>2. Pending(<<a>>) = {a}
  BY <1>1 DEF Pending
<1>3. Height(a) + 1 - 1 <= Height(p)
  BY HeightBounds
<1>4. ~Ends({a})
  BY DEF Ends, Lowest
<1> QED BY <1>1, <1>2, <1>3, <1>4 DEF Fits

LEMMA TwoFit ==
  ASSUME NEW a \in Places \ Lowest, NEW b \in Places \ (Lowest \cup {"startBurst"}), NEW p,
         Height(a) = 1, Height(b) = 1, Height(p) >= 2,
         Owes(a) \subseteq {b}, Owes(b) = {},
         p \in Closing => {a, b} \subseteq Closing
  PROVE  Fits(<<a, b>>, p) /\ Pending(<<a, b>>) = {a, b}
<1>1. /\ <<a, b>> \in Seq(Places) /\ Len(<<a, b>>) = 2 /\ <<a, b>>[1] = a /\ <<a, b>>[2] = b
      /\ 1..2 = {1, 2} /\ 2..2 = {2} /\ (1 + 1)..2 = {2}
  OBVIOUS
<1>2. Pending(<<a, b>>) = {a, b}
  BY <1>1 DEF Pending
<1>3. ~Ends({a, b})
  BY DEF Ends, Lowest
<1>4. Height(p) \in Int
  BY HeightBounds
<1>5. {<<a, b>>[j] : j \in (1 + 1)..2} = {b}
  BY <1>1
<1>6. ASSUME NEW i \in 1..2 PROVE Owes(<<a, b>>[i]) \subseteq {<<a, b>>[j] : j \in (i + 1)..2}
  BY <1>1, <1>5
<1>7. \A i \in 1..2 : Height(<<a, b>>[i]) + 2 - i <= Height(p)
  BY <1>1, <1>4
<1> QED BY <1>1, <1>2, <1>3, <1>6, <1>7 DEF Fits

LEMMA OneStart ==
  /\ Fits(<<"startBurst">>, "takeBurst") /\ Pending(<<"startBurst">>) = {"startBurst"}
<1>1. <<"startBurst">> \in Seq(Places) /\ Len(<<"startBurst">>) = 1 /\ 1..1 = {1} /\ 2..1 = {}
  BY DEF Places
<1>2. Pending(<<"startBurst">>) = {"startBurst"}
  BY <1>1 DEF Pending
<1> QED BY <1>1, <1>2 DEF Fits, Height, Deep, Lowest, Owes, Ends, Closing

\* ... or those of the places that stand alone.
Alone == {"collect", "after", "choose", "submit"}

Stands(s) ==
    /\ s \in Seq(Places) /\ Len(s) <= 10
    /\ \A i \in 1..Len(s) : s[i] \in Lowest => i = Len(s)
    /\ \A i \in 2..Len(s) : s[i] # "startBurst"
    /\ \A i \in 1..Len(s) : Owes(s[i]) \subseteq {s[j] : j \in (i + 1)..Len(s)}
    /\ Ends(Pending(s)) => Pending(s) \subseteq Closing

LEMMA AloneFits ==
  ASSUME NEW p \in Alone, NEW s, Stands(s)
  PROVE  Fits(s, p)
<1>0. s \in Seq(Places) /\ Len(s) <= 10
  BY DEF Stands
<1>1. p \in Lowest /\ p \notin Closing /\ Height(p) = 11
  BY DEF Alone, Lowest, Closing, Height
<1>2. ASSUME NEW i \in 1..Len(s) PROVE Height(s[i]) + Len(s) - i <= 11
  <2>1. CASE s[i] \in Lowest
    <3>1. Height(s[i]) = 11 /\ i = Len(s)
      BY <2>1 DEF Height, Stands
    <3> QED BY <1>0, <3>1
  <2>2. CASE s[i] \notin Lowest
    <3>1. Height(s[i]) \in {1, 2}
      BY <2>2 DEF Height
    <3> QED BY <1>0, <3>1
  <2> QED BY <2>1, <2>2
<1> QED BY <1>1, <1>2 DEF Fits, Stands

\* What the lists of the model are, written out.
LEMMA Joined ==
  ASSUME NEW S, NEW s \in Seq(S), NEW t \in Seq(S), NEW u \in Seq(S), Len(u) = Len(s) + Len(t),
         \A i \in 1..Len(s) : u[i] = s[i], \A i \in 1..Len(t) : u[Len(s) + i] = t[i]
  PROVE  s \o t = u
<1>1. s \o t \in Seq(S) /\ Len(s \o t) = Len(u)
  OBVIOUS
<1>2. ASSUME NEW i \in 1..Len(u) PROVE (s \o t)[i] = u[i]
  <2>1. CASE i \in 1..Len(s)
    BY <2>1
  <2>2. CASE i \in (Len(s) + 1)..(Len(s) + Len(t))
    <3>1. i - Len(s) \in 1..Len(t) /\ Len(s) + (i - Len(s)) = i
      BY <2>2
    <3>2. (s \o t)[i] = t[i - Len(s)]
      BY <2>2
    <3> QED BY <3>1, <3>2
  <2> QED BY <2>1, <2>2
<1> QED BY <1>1, <1>2

LEMMA Join21 ==
  ASSUME NEW a, NEW b, NEW c
  PROVE  <<a, b>> \o <<c>> = <<a, b, c>>
<1> DEFINE all == {a, b, c}
           s == <<a, b>>
           t == <<c>>
           u == <<a, b, c>>
<1>1. /\ s \in Seq(all) /\ t \in Seq(all) /\ u \in Seq(all)
      /\ Len(s) = 2 /\ Len(t) = 1 /\ Len(u) = 3
  OBVIOUS
<1>2. \A i \in 1..2 : u[i] = s[i]
  OBVIOUS
<1>3. \A i \in 1..1 : u[2 + i] = t[i]
  OBVIOUS
<1> HIDE DEF all, s, t, u
<1>4. (\A i \in 1..Len(s) : u[i] = s[i]) /\ Len(u) = Len(s) + Len(t)
  BY <1>1, <1>2
<1>5. \A i \in 1..Len(t) : u[Len(s) + i] = t[i]
  BY <1>1, <1>3
<1>6. s \o t = u
  BY <1>1, <1>4, <1>5, Joined
<1> QED BY <1>6 DEF s, t, u

LEMMA Join12 ==
  ASSUME NEW a, NEW b, NEW c
  PROVE  <<a>> \o <<b, c>> = <<a, b, c>>
<1> DEFINE all == {a, b, c}
           s == <<a>>
           t == <<b, c>>
           u == <<a, b, c>>
<1>1. /\ s \in Seq(all) /\ t \in Seq(all) /\ u \in Seq(all)
      /\ Len(s) = 1 /\ Len(t) = 2 /\ Len(u) = 3
  OBVIOUS
<1>2. \A i \in 1..1 : u[i] = s[i]
  OBVIOUS
<1>3. \A i \in 1..2 : u[1 + i] = t[i]
  OBVIOUS
<1> HIDE DEF all, s, t, u
<1>4. (\A i \in 1..Len(s) : u[i] = s[i]) /\ Len(u) = Len(s) + Len(t)
  BY <1>1, <1>2
<1>5. \A i \in 1..Len(t) : u[Len(s) + i] = t[i]
  BY <1>1, <1>3
<1>6. s \o t = u
  BY <1>1, <1>4, <1>5, Joined
<1> QED BY <1>6 DEF s, t, u

LEMMA Join22 ==
  ASSUME NEW a, NEW b, NEW c, NEW d
  PROVE  <<a, b>> \o <<c, d>> = <<a, b, c, d>>
<1> DEFINE all == {a, b, c, d}
           s == <<a, b>>
           t == <<c, d>>
           u == <<a, b, c, d>>
<1>1. /\ s \in Seq(all) /\ t \in Seq(all) /\ u \in Seq(all)
      /\ Len(s) = 2 /\ Len(t) = 2 /\ Len(u) = 4
  OBVIOUS
<1>2. \A i \in 1..2 : u[i] = s[i]
  OBVIOUS
<1>3. \A i \in 1..2 : u[2 + i] = t[i]
  OBVIOUS
<1> HIDE DEF all, s, t, u
<1>4. (\A i \in 1..Len(s) : u[i] = s[i]) /\ Len(u) = Len(s) + Len(t)
  BY <1>1, <1>2
<1>5. \A i \in 1..Len(t) : u[Len(s) + i] = t[i]
  BY <1>1, <1>3
<1>6. s \o t = u
  BY <1>1, <1>4, <1>5, Joined
<1> QED BY <1>6 DEF s, t, u

LEMMA Join32 ==
  ASSUME NEW a, NEW b, NEW c, NEW d, NEW e
  PROVE  <<a, b, c>> \o <<d, e>> = <<a, b, c, d, e>>
<1> DEFINE all == {a, b, c, d, e}
           s == <<a, b, c>>
           t == <<d, e>>
           u == <<a, b, c, d, e>>
<1>1. /\ s \in Seq(all) /\ t \in Seq(all) /\ u \in Seq(all)
      /\ Len(s) = 3 /\ Len(t) = 2 /\ Len(u) = 5
  OBVIOUS
<1>2. \A i \in 1..3 : u[i] = s[i]
  OBVIOUS
<1>3. \A i \in 1..2 : u[3 + i] = t[i]
  OBVIOUS
<1> HIDE DEF all, s, t, u
<1>4. (\A i \in 1..Len(s) : u[i] = s[i]) /\ Len(u) = Len(s) + Len(t)
  BY <1>1, <1>2
<1>5. \A i \in 1..Len(t) : u[Len(s) + i] = t[i]
  BY <1>1, <1>3
<1>6. s \o t = u
  BY <1>1, <1>4, <1>5, Joined
<1> QED BY <1>6 DEF s, t, u

LEMMA Join33 ==
  ASSUME NEW a, NEW b, NEW c, NEW d, NEW e, NEW f
  PROVE  <<a, b, c>> \o <<d, e, f>> = <<a, b, c, d, e, f>>
<1> DEFINE all == {a, b, c, d, e, f}
           s == <<a, b, c>>
           t == <<d, e, f>>
           u == <<a, b, c, d, e, f>>
<1>1. /\ s \in Seq(all) /\ t \in Seq(all) /\ u \in Seq(all)
      /\ Len(s) = 3 /\ Len(t) = 3 /\ Len(u) = 6
  OBVIOUS
<1>2. \A i \in 1..3 : u[i] = s[i]
  OBVIOUS
<1>3. \A i \in 1..3 : u[3 + i] = t[i]
  OBVIOUS
<1> HIDE DEF all, s, t, u
<1>4. (\A i \in 1..Len(s) : u[i] = s[i]) /\ Len(u) = Len(s) + Len(t)
  BY <1>1, <1>2
<1>5. \A i \in 1..Len(t) : u[Len(s) + i] = t[i]
  BY <1>1, <1>3
<1>6. s \o t = u
  BY <1>1, <1>4, <1>5, Joined
<1> QED BY <1>6 DEF s, t, u

LEMMA Join51 ==
  ASSUME NEW a, NEW b, NEW c, NEW d, NEW e, NEW f
  PROVE  <<a, b, c, d, e>> \o <<f>> = <<a, b, c, d, e, f>>
<1> DEFINE all == {a, b, c, d, e, f}
           s == <<a, b, c, d, e>>
           t == <<f>>
           u == <<a, b, c, d, e, f>>
<1>1. /\ s \in Seq(all) /\ t \in Seq(all) /\ u \in Seq(all)
      /\ Len(s) = 5 /\ Len(t) = 1 /\ Len(u) = 6
  OBVIOUS
<1>2. \A i \in 1..5 : u[i] = s[i]
  OBVIOUS
<1>3. \A i \in 1..1 : u[5 + i] = t[i]
  OBVIOUS
<1> HIDE DEF all, s, t, u
<1>4. (\A i \in 1..Len(s) : u[i] = s[i]) /\ Len(u) = Len(s) + Len(t)
  BY <1>1, <1>2
<1>5. \A i \in 1..Len(t) : u[Len(s) + i] = t[i]
  BY <1>1, <1>3
<1>6. s \o t = u
  BY <1>1, <1>4, <1>5, Joined
<1> QED BY <1>6 DEF s, t, u

LEMMA Join52 ==
  ASSUME NEW a, NEW b, NEW c, NEW d, NEW e, NEW f, NEW g
  PROVE  <<a, b, c, d, e>> \o <<f, g>> = <<a, b, c, d, e, f, g>>
<1> DEFINE all == {a, b, c, d, e, f, g}
           s == <<a, b, c, d, e>>
           t == <<f, g>>
           u == <<a, b, c, d, e, f, g>>
<1>1. /\ s \in Seq(all) /\ t \in Seq(all) /\ u \in Seq(all)
      /\ Len(s) = 5 /\ Len(t) = 2 /\ Len(u) = 7
  OBVIOUS
<1>2. \A i \in 1..5 : u[i] = s[i]
  OBVIOUS
<1>3. \A i \in 1..2 : u[5 + i] = t[i]
  OBVIOUS
<1> HIDE DEF all, s, t, u
<1>4. (\A i \in 1..Len(s) : u[i] = s[i]) /\ Len(u) = Len(s) + Len(t)
  BY <1>1, <1>2
<1>5. \A i \in 1..Len(t) : u[Len(s) + i] = t[i]
  BY <1>1, <1>3
<1>6. s \o t = u
  BY <1>1, <1>4, <1>5, Joined
<1> QED BY <1>6 DEF s, t, u

LEMMA Join71 ==
  ASSUME NEW a, NEW b, NEW c, NEW d, NEW e, NEW f, NEW g, NEW h
  PROVE  <<a, b, c, d, e, f, g>> \o <<h>> = <<a, b, c, d, e, f, g, h>>
<1> DEFINE all == {a, b, c, d, e, f, g, h}
           s == <<a, b, c, d, e, f, g>>
           t == <<h>>
           u == <<a, b, c, d, e, f, g, h>>
<1>1. /\ s \in Seq(all) /\ t \in Seq(all) /\ u \in Seq(all)
      /\ Len(s) = 7 /\ Len(t) = 1 /\ Len(u) = 8
  OBVIOUS
<1>2. \A i \in 1..7 : u[i] = s[i]
  OBVIOUS
<1>3. \A i \in 1..1 : u[7 + i] = t[i]
  OBVIOUS
<1> HIDE DEF all, s, t, u
<1>4. (\A i \in 1..Len(s) : u[i] = s[i]) /\ Len(u) = Len(s) + Len(t)
  BY <1>1, <1>2
<1>5. \A i \in 1..Len(t) : u[Len(s) + i] = t[i]
  BY <1>1, <1>3
<1>6. s \o t = u
  BY <1>1, <1>4, <1>5, Joined
<1> QED BY <1>6 DEF s, t, u

LEMMA Join27 ==
  ASSUME NEW a, NEW b, NEW c, NEW d, NEW e, NEW f, NEW g, NEW h, NEW k
  PROVE  <<a, b>> \o <<c, d, e, f, g, h, k>> = <<a, b, c, d, e, f, g, h, k>>
<1> DEFINE all == {a, b, c, d, e, f, g, h, k}
           s == <<a, b>>
           t == <<c, d, e, f, g, h, k>>
           u == <<a, b, c, d, e, f, g, h, k>>
<1>1. /\ s \in Seq(all) /\ t \in Seq(all) /\ u \in Seq(all)
      /\ Len(s) = 2 /\ Len(t) = 7 /\ Len(u) = 9
  OBVIOUS
<1>2. \A i \in 1..2 : u[i] = s[i]
  OBVIOUS
<1>3. \A i \in 1..7 : u[2 + i] = t[i]
  OBVIOUS
<1> HIDE DEF all, s, t, u
<1>4. (\A i \in 1..Len(s) : u[i] = s[i]) /\ Len(u) = Len(s) + Len(t)
  BY <1>1, <1>2
<1>5. \A i \in 1..Len(t) : u[Len(s) + i] = t[i]
  BY <1>1, <1>3
<1>6. s \o t = u
  BY <1>1, <1>4, <1>5, Joined
<1> QED BY <1>6 DEF s, t, u

LEMMA Join91 ==
  ASSUME NEW a, NEW b, NEW c, NEW d, NEW e, NEW f, NEW g, NEW h, NEW k, NEW l
  PROVE  <<a, b, c, d, e, f, g, h, k>> \o <<l>> = <<a, b, c, d, e, f, g, h, k, l>>
<1> DEFINE all == {a, b, c, d, e, f, g, h, k, l}
           s == <<a, b, c, d, e, f, g, h, k>>
           t == <<l>>
           u == <<a, b, c, d, e, f, g, h, k, l>>
<1>1. /\ s \in Seq(all) /\ t \in Seq(all) /\ u \in Seq(all)
      /\ Len(s) = 9 /\ Len(t) = 1 /\ Len(u) = 10
  OBVIOUS
<1>2. \A i \in 1..9 : u[i] = s[i]
  OBVIOUS
<1>3. \A i \in 1..1 : u[9 + i] = t[i]
  OBVIOUS
<1> HIDE DEF all, s, t, u
<1>4. (\A i \in 1..Len(s) : u[i] = s[i]) /\ Len(u) = Len(s) + Len(t)
  BY <1>1, <1>2
<1>5. \A i \in 1..Len(t) : u[Len(s) + i] = t[i]
  BY <1>1, <1>3
<1>6. s \o t = u
  BY <1>1, <1>4, <1>5, Joined
<1> QED BY <1>6 DEF s, t, u

LEMMA Lists ==
  /\ \A last : Finish \o <<last>> =
       <<"close", "finishProbe", "finishBurst", "end", "endOwner", "finishAuto", "free", last>>
  /\ \A last : Failed \o Finish \o <<last>> =
       <<"burstDone", "probeDone", "close", "finishProbe", "finishBurst", "end", "endOwner",
         "finishAuto", "free", last>>
  /\ Tick \o <<"collect">> = <<"tickOwner", "tickTime", "collect">>
  /\ End \o <<"cancelling">> \o Tick \o <<"collect">> =
       <<"end", "endOwner", "cancelling", "tickOwner", "tickTime", "collect">>
  /\ <<"takeProbe">> \o Tick \o <<"takeBurst", "takeAuto", "submit">> =
       <<"takeProbe", "tickOwner", "tickTime", "takeBurst", "takeAuto", "submit">>
  /\ Failed \o <<"skip", "waiting">> = <<"burstDone", "probeDone", "skip", "waiting">>
  /\ <<"skip">> \o <<"report", "choose">> = <<"skip", "report", "choose">>
  /\ <<>> \o <<"report", "choose">> = <<"report", "choose">>
<1>1. Finish = <<"close", "finishProbe", "finishBurst", "end", "endOwner", "finishAuto", "free">>
  <2>1. <<"close", "finishProbe", "finishBurst">> \o End =
          <<"close", "finishProbe", "finishBurst", "end", "endOwner">>
    BY Join32 DEF End
  <2>2. <<"close", "finishProbe", "finishBurst", "end", "endOwner">> \o <<"finishAuto", "free">> =
          <<"close", "finishProbe", "finishBurst", "end", "endOwner", "finishAuto", "free">>
    BY Join52
  <2> QED BY <2>1, <2>2 DEF Finish
<1>2. \A last : Finish \o <<last>> =
       <<"close", "finishProbe", "finishBurst", "end", "endOwner", "finishAuto", "free", last>>
  BY <1>1, Join71, ZenonT(40)
<1>3. Failed \o Finish = <<"burstDone", "probeDone", "close", "finishProbe", "finishBurst", "end",
                           "endOwner", "finishAuto", "free">>
  BY <1>1, Join27 DEF Failed
<1>4. ASSUME NEW last PROVE Failed \o Finish \o <<last>> =
       <<"burstDone", "probeDone", "close", "finishProbe", "finishBurst", "end", "endOwner",
         "finishAuto", "free", last>>
  <2>1. Failed \o Finish \o <<last>> =
          <<"burstDone", "probeDone", "close", "finishProbe", "finishBurst", "end", "endOwner",
            "finishAuto", "free">> \o <<last>>
    BY <1>3
  <2>2. <<"burstDone", "probeDone", "close", "finishProbe", "finishBurst", "end", "endOwner",
          "finishAuto", "free">> \o <<last>> =
          <<"burstDone", "probeDone", "close", "finishProbe", "finishBurst", "end", "endOwner",
            "finishAuto", "free", last>>
    BY Join91
  <2> QED BY <2>1, <2>2
<1>5. Tick \o <<"collect">> = <<"tickOwner", "tickTime", "collect">>
  BY Join21 DEF Tick
<1>6. End \o <<"cancelling">> \o Tick = <<"end", "endOwner", "cancelling", "tickOwner", "tickTime">>
  <2>1. End \o <<"cancelling">> = <<"end", "endOwner", "cancelling">>
    BY Join21 DEF End
  <2> QED BY <2>1, Join32, ZenonT(40) DEF Tick
<1>7. <<"takeProbe">> \o Tick = <<"takeProbe", "tickOwner", "tickTime">>
  BY Join12 DEF Tick
<1>8. End \o <<"cancelling">> \o Tick \o <<"collect">> =
       <<"end", "endOwner", "cancelling", "tickOwner", "tickTime", "collect">>
  BY <1>6, Join51
<1>9. <<"takeProbe">> \o Tick \o <<"takeBurst", "takeAuto", "submit">> =
       <<"takeProbe", "tickOwner", "tickTime", "takeBurst", "takeAuto", "submit">>
  <2>1. <<"takeProbe">> \o Tick \o <<"takeBurst", "takeAuto", "submit">> =
          <<"takeProbe", "tickOwner", "tickTime">> \o <<"takeBurst", "takeAuto", "submit">>
    BY <1>7
  <2>2. <<"takeProbe", "tickOwner", "tickTime">> \o <<"takeBurst", "takeAuto", "submit">> =
          <<"takeProbe", "tickOwner", "tickTime", "takeBurst", "takeAuto", "submit">>
    BY Join33
  <2> QED BY <2>1, <2>2
<1>10. Failed \o <<"skip", "waiting">> = <<"burstDone", "probeDone", "skip", "waiting">>
  BY Join22 DEF Failed
<1>11. <<"skip">> \o <<"report", "choose">> = <<"skip", "report", "choose">>
  BY Join12
<1>12. <<>> \o <<"report", "choose">> = <<"report", "choose">>
  OBVIOUS
<1> QED BY <1>2, <1>4, <1>5, <1>8, <1>9, <1>10, <1>11, <1>12

\* What they put in their place.
LEMMA CollectedFits ==
  LET s == <<"burstDone", "probeDone", "after">>
  IN  /\ \A p \in Alone : Fits(s, p)
      /\ Pending(s) = {"burstDone", "probeDone", "after"}
<1> DEFINE s == <<"burstDone", "probeDone", "after">>
<1>1. /\ s \in Seq(Places) /\ Len(s) = 3
      /\ s[1] = "burstDone" /\ s[2] = "probeDone" /\ s[3] = "after"
  BY DEF Places
<1> HIDE DEF s
<1>2. 1..3 = {1, 2, 3} /\ 2..3 = {2, 3}
  OBVIOUS
<1>3. Pending(s) = {"burstDone", "probeDone", "after"}
  BY <1>1, <1>2 DEF Pending
<1>4. /\ \A i \in 1..Len(s) : s[i] \in Lowest => i = Len(s)
      /\ \A i \in 2..Len(s) : s[i] # "startBurst"
      /\ Ends(Pending(s)) => Pending(s) \subseteq Closing
  BY <1>1, <1>2, <1>3 DEF Lowest, Ends, Closing
<1>5. \A i \in 1..Len(s) : Owes(s[i]) \subseteq {s[j] : j \in (i + 1)..Len(s)}
  BY <1>1, <1>2 DEF Owes
<1>6. Stands(s)
  BY <1>1, <1>4, <1>5 DEF Stands
<1>7. \A p \in Alone : Fits(s, p)
  BY <1>6, AloneFits
<1> QED BY <1>3, <1>7 DEF s

LEMMA FinishFits ==
  ASSUME NEW last \in {"over", "faulted"}
  PROVE  LET s == <<"close", "finishProbe", "finishBurst", "end", "endOwner", "finishAuto", "free", last>>
         IN  /\ \A p \in Alone : Fits(s, p)
             /\ Pending(s) = {"close", "finishProbe", "finishBurst", "end", "endOwner", "finishAuto", "free", last}
<1> DEFINE s == <<"close", "finishProbe", "finishBurst", "end", "endOwner", "finishAuto", "free", last>>
<1>1. /\ s \in Seq(Places) /\ Len(s) = 8
      /\ s[1] = "close" /\ s[2] = "finishProbe" /\ s[3] = "finishBurst" /\ s[4] = "end"
      /\ s[5] = "endOwner" /\ s[6] = "finishAuto" /\ s[7] = "free" /\ s[8] = last
  BY DEF Places
<1> HIDE DEF s
<1>2. 1..8 = {1, 2, 3, 4, 5, 6, 7, 8} /\ 2..8 = {2, 3, 4, 5, 6, 7, 8}
  OBVIOUS
<1>3. Pending(s) = {"close", "finishProbe", "finishBurst", "end", "endOwner", "finishAuto", "free", last}
  BY <1>1, <1>2 DEF Pending
<1>4. /\ \A i \in 1..Len(s) : s[i] \in Lowest => i = Len(s)
      /\ \A i \in 2..Len(s) : s[i] # "startBurst"
      /\ Ends(Pending(s)) => Pending(s) \subseteq Closing
  BY <1>1, <1>2, <1>3 DEF Lowest, Ends, Closing
<1>5. ASSUME NEW i \in 1..Len(s) PROVE Owes(s[i]) \subseteq {s[j] : j \in (i + 1)..Len(s)}
  <2>1. /\ Owes(s[1]) = {s[2], s[3], s[4], s[5], s[6], s[7]}
        /\ Owes(s[2]) = {s[3], s[4], s[5], s[6], s[7]}
        /\ Owes(s[3]) = {s[4], s[5], s[6], s[7]}
        /\ Owes(s[4]) = {s[5]}
        /\ Owes(s[5]) = {}
        /\ Owes(s[6]) = {s[7]}
        /\ Owes(s[7]) = {}
        /\ Owes(s[8]) = {}
    BY <1>1 DEF Owes
  <2>2. \A q \in Owes(s[i]) : \E j \in (i + 1)..8 : q = s[j]
    BY <1>1, <1>2, <2>1
  <2> QED BY <1>1, <2>2
<1>6. Stands(s)
  BY <1>1, <1>4, <1>5 DEF Stands
<1>7. \A p \in Alone : Fits(s, p)
  BY <1>6, AloneFits
<1> QED BY <1>3, <1>7 DEF s

LEMMA RefusedFits ==
  LET s == <<"burstDone", "probeDone", "close", "finishProbe", "finishBurst", "end", "endOwner", "finishAuto", "free", "over">>
  IN  /\ \A p \in Alone : Fits(s, p)
      /\ Pending(s) = {"burstDone", "probeDone", "close", "finishProbe", "finishBurst", "end", "endOwner", "finishAuto", "free", "over"}
<1> DEFINE s == <<"burstDone", "probeDone", "close", "finishProbe", "finishBurst", "end", "endOwner", "finishAuto", "free", "over">>
<1>1. /\ s \in Seq(Places) /\ Len(s) = 10
      /\ s[1] = "burstDone" /\ s[2] = "probeDone" /\ s[3] = "close" /\ s[4] = "finishProbe"
      /\ s[5] = "finishBurst" /\ s[6] = "end" /\ s[7] = "endOwner" /\ s[8] = "finishAuto"
      /\ s[9] = "free" /\ s[10] = "over"
  BY DEF Places
<1> HIDE DEF s
<1>2. 1..10 = {1, 2, 3, 4, 5, 6, 7, 8, 9, 10} /\ 2..10 = {2, 3, 4, 5, 6, 7, 8, 9, 10}
  OBVIOUS
<1>3. Pending(s) = {"burstDone", "probeDone", "close", "finishProbe", "finishBurst", "end", "endOwner", "finishAuto", "free", "over"}
  BY <1>1, <1>2 DEF Pending
<1>4. /\ \A i \in 1..Len(s) : s[i] \in Lowest => i = Len(s)
      /\ \A i \in 2..Len(s) : s[i] # "startBurst"
      /\ Ends(Pending(s)) => Pending(s) \subseteq Closing
  BY <1>1, <1>2, <1>3 DEF Lowest, Ends, Closing
<1>5. ASSUME NEW i \in 1..Len(s) PROVE Owes(s[i]) \subseteq {s[j] : j \in (i + 1)..Len(s)}
  <2>1. /\ Owes(s[1]) = {}
        /\ Owes(s[2]) = {}
        /\ Owes(s[3]) = {s[4], s[5], s[6], s[7], s[8], s[9]}
        /\ Owes(s[4]) = {s[5], s[6], s[7], s[8], s[9]}
        /\ Owes(s[5]) = {s[6], s[7], s[8], s[9]}
        /\ Owes(s[6]) = {s[7]}
        /\ Owes(s[7]) = {}
        /\ Owes(s[8]) = {s[9]}
        /\ Owes(s[9]) = {}
        /\ Owes(s[10]) = {}
    BY <1>1 DEF Owes
  <2>2. \A q \in Owes(s[i]) : \E j \in (i + 1)..10 : q = s[j]
    BY <1>1, <1>2, <2>1
  <2> QED BY <1>1, <2>2
<1>6. Stands(s)
  BY <1>1, <1>4, <1>5 DEF Stands
<1>7. \A p \in Alone : Fits(s, p)
  BY <1>6, AloneFits
<1> QED BY <1>3, <1>7 DEF s

LEMMA ReportFits ==
  LET s == <<"report", "choose">>
  IN  /\ \A p \in Alone : Fits(s, p)
      /\ Pending(s) = {"report", "choose"}
<1> DEFINE s == <<"report", "choose">>
<1>1. /\ s \in Seq(Places) /\ Len(s) = 2
      /\ s[1] = "report" /\ s[2] = "choose"
  BY DEF Places
<1> HIDE DEF s
<1>2. 1..2 = {1, 2} /\ 2..2 = {2}
  OBVIOUS
<1>3. Pending(s) = {"report", "choose"}
  BY <1>1, <1>2 DEF Pending
<1>4. /\ \A i \in 1..Len(s) : s[i] \in Lowest => i = Len(s)
      /\ \A i \in 2..Len(s) : s[i] # "startBurst"
      /\ Ends(Pending(s)) => Pending(s) \subseteq Closing
  BY <1>1, <1>2, <1>3 DEF Lowest, Ends, Closing
<1>5. \A i \in 1..Len(s) : Owes(s[i]) \subseteq {s[j] : j \in (i + 1)..Len(s)}
  BY <1>1, <1>2 DEF Owes
<1>6. Stands(s)
  BY <1>1, <1>4, <1>5 DEF Stands
<1>7. \A p \in Alone : Fits(s, p)
  BY <1>6, AloneFits
<1> QED BY <1>3, <1>7 DEF s

LEMMA SkipReportFits ==
  LET s == <<"skip", "report", "choose">>
  IN  /\ \A p \in Alone : Fits(s, p)
      /\ Pending(s) = {"skip", "report", "choose"}
<1> DEFINE s == <<"skip", "report", "choose">>
<1>1. /\ s \in Seq(Places) /\ Len(s) = 3
      /\ s[1] = "skip" /\ s[2] = "report" /\ s[3] = "choose"
  BY DEF Places
<1> HIDE DEF s
<1>2. 1..3 = {1, 2, 3} /\ 2..3 = {2, 3}
  OBVIOUS
<1>3. Pending(s) = {"skip", "report", "choose"}
  BY <1>1, <1>2 DEF Pending
<1>4. /\ \A i \in 1..Len(s) : s[i] \in Lowest => i = Len(s)
      /\ \A i \in 2..Len(s) : s[i] # "startBurst"
      /\ Ends(Pending(s)) => Pending(s) \subseteq Closing
  BY <1>1, <1>2, <1>3 DEF Lowest, Ends, Closing
<1>5. \A i \in 1..Len(s) : Owes(s[i]) \subseteq {s[j] : j \in (i + 1)..Len(s)}
  BY <1>1, <1>2 DEF Owes
<1>6. Stands(s)
  BY <1>1, <1>4, <1>5 DEF Stands
<1>7. \A p \in Alone : Fits(s, p)
  BY <1>6, AloneFits
<1> QED BY <1>3, <1>7 DEF s

LEMMA ChooseFits ==
  LET s == <<"choose">>
  IN  /\ \A p \in Alone : Fits(s, p)
      /\ Pending(s) = {"choose"}
<1> DEFINE s == <<"choose">>
<1>1. /\ s \in Seq(Places) /\ Len(s) = 1
      /\ s[1] = "choose"
  BY DEF Places
<1> HIDE DEF s
<1>2. 1..1 = {1} /\ 2..1 = {}
  OBVIOUS
<1>3. Pending(s) = {"choose"}
  BY <1>1, <1>2 DEF Pending
<1>4. /\ \A i \in 1..Len(s) : s[i] \in Lowest => i = Len(s)
      /\ \A i \in 2..Len(s) : s[i] # "startBurst"
      /\ Ends(Pending(s)) => Pending(s) \subseteq Closing
  BY <1>1, <1>2, <1>3 DEF Lowest, Ends, Closing
<1>5. \A i \in 1..Len(s) : Owes(s[i]) \subseteq {s[j] : j \in (i + 1)..Len(s)}
  BY <1>1, <1>2 DEF Owes
<1>6. Stands(s)
  BY <1>1, <1>4, <1>5 DEF Stands
<1>7. \A p \in Alone : Fits(s, p)
  BY <1>6, AloneFits
<1> QED BY <1>3, <1>7 DEF s

LEMMA SkipChooseFits ==
  LET s == <<"skip", "choose">>
  IN  /\ \A p \in Alone : Fits(s, p)
      /\ Pending(s) = {"skip", "choose"}
<1> DEFINE s == <<"skip", "choose">>
<1>1. /\ s \in Seq(Places) /\ Len(s) = 2
      /\ s[1] = "skip" /\ s[2] = "choose"
  BY DEF Places
<1> HIDE DEF s
<1>2. 1..2 = {1, 2} /\ 2..2 = {2}
  OBVIOUS
<1>3. Pending(s) = {"skip", "choose"}
  BY <1>1, <1>2 DEF Pending
<1>4. /\ \A i \in 1..Len(s) : s[i] \in Lowest => i = Len(s)
      /\ \A i \in 2..Len(s) : s[i] # "startBurst"
      /\ Ends(Pending(s)) => Pending(s) \subseteq Closing
  BY <1>1, <1>2, <1>3 DEF Lowest, Ends, Closing
<1>5. \A i \in 1..Len(s) : Owes(s[i]) \subseteq {s[j] : j \in (i + 1)..Len(s)}
  BY <1>1, <1>2 DEF Owes
<1>6. Stands(s)
  BY <1>1, <1>4, <1>5 DEF Stands
<1>7. \A p \in Alone : Fits(s, p)
  BY <1>6, AloneFits
<1> QED BY <1>3, <1>7 DEF s

LEMMA TakeFits ==
  LET s == <<"takeProbe", "tickOwner", "tickTime", "takeBurst", "takeAuto", "submit">>
  IN  /\ \A p \in Alone : Fits(s, p)
      /\ Pending(s) = {"takeProbe", "tickOwner", "tickTime", "takeBurst", "takeAuto", "submit"}
<1> DEFINE s == <<"takeProbe", "tickOwner", "tickTime", "takeBurst", "takeAuto", "submit">>
<1>1. /\ s \in Seq(Places) /\ Len(s) = 6
      /\ s[1] = "takeProbe" /\ s[2] = "tickOwner" /\ s[3] = "tickTime" /\ s[4] = "takeBurst"
      /\ s[5] = "takeAuto" /\ s[6] = "submit"
  BY DEF Places
<1> HIDE DEF s
<1>2. 1..6 = {1, 2, 3, 4, 5, 6} /\ 2..6 = {2, 3, 4, 5, 6}
  OBVIOUS
<1>3. Pending(s) = {"takeProbe", "tickOwner", "tickTime", "takeBurst", "takeAuto", "submit"}
  BY <1>1, <1>2 DEF Pending
<1>4. /\ \A i \in 1..Len(s) : s[i] \in Lowest => i = Len(s)
      /\ \A i \in 2..Len(s) : s[i] # "startBurst"
      /\ Ends(Pending(s)) => Pending(s) \subseteq Closing
  BY <1>1, <1>2, <1>3 DEF Lowest, Ends, Closing
<1>5. \A i \in 1..Len(s) : Owes(s[i]) \subseteq {s[j] : j \in (i + 1)..Len(s)}
  BY <1>1, <1>2 DEF Owes
<1>6. Stands(s)
  BY <1>1, <1>4, <1>5 DEF Stands
<1>7. \A p \in Alone : Fits(s, p)
  BY <1>6, AloneFits
<1> QED BY <1>3, <1>7 DEF s

LEMMA SubmittedFits ==
  LET s == <<"submitted", "submittedEnd", "probeNext", "sent">>
  IN  /\ \A p \in Alone : Fits(s, p)
      /\ Pending(s) = {"submitted", "submittedEnd", "probeNext", "sent"}
<1> DEFINE s == <<"submitted", "submittedEnd", "probeNext", "sent">>
<1>1. /\ s \in Seq(Places) /\ Len(s) = 4
      /\ s[1] = "submitted" /\ s[2] = "submittedEnd" /\ s[3] = "probeNext" /\ s[4] = "sent"
  BY DEF Places
<1> HIDE DEF s
<1>2. 1..4 = {1, 2, 3, 4} /\ 2..4 = {2, 3, 4}
  OBVIOUS
<1>3. Pending(s) = {"submitted", "submittedEnd", "probeNext", "sent"}
  BY <1>1, <1>2 DEF Pending
<1>4. /\ \A i \in 1..Len(s) : s[i] \in Lowest => i = Len(s)
      /\ \A i \in 2..Len(s) : s[i] # "startBurst"
      /\ Ends(Pending(s)) => Pending(s) \subseteq Closing
  BY <1>1, <1>2, <1>3 DEF Lowest, Ends, Closing
<1>5. ASSUME NEW i \in 1..Len(s) PROVE Owes(s[i]) \subseteq {s[j] : j \in (i + 1)..Len(s)}
  <2>1. /\ Owes(s[1]) = {s[2]}
        /\ Owes(s[2]) = {}
        /\ Owes(s[3]) = {}
        /\ Owes(s[4]) = {}
    BY <1>1 DEF Owes
  <2>2. \A q \in Owes(s[i]) : \E j \in (i + 1)..4 : q = s[j]
    BY <1>1, <1>2, <2>1
  <2> QED BY <1>1, <2>2
<1>6. Stands(s)
  BY <1>1, <1>4, <1>5 DEF Stands
<1>7. \A p \in Alone : Fits(s, p)
  BY <1>6, AloneFits
<1> QED BY <1>3, <1>7 DEF s

LEMMA FallbackFits ==
  LET s == <<"burstDone", "submitted", "submittedEnd", "probeNext", "sent">>
  IN  /\ \A p \in Alone : Fits(s, p)
      /\ Pending(s) = {"burstDone", "submitted", "submittedEnd", "probeNext", "sent"}
<1> DEFINE s == <<"burstDone", "submitted", "submittedEnd", "probeNext", "sent">>
<1>1. /\ s \in Seq(Places) /\ Len(s) = 5
      /\ s[1] = "burstDone" /\ s[2] = "submitted" /\ s[3] = "submittedEnd" /\ s[4] = "probeNext"
      /\ s[5] = "sent"
  BY DEF Places
<1> HIDE DEF s
<1>2. 1..5 = {1, 2, 3, 4, 5} /\ 2..5 = {2, 3, 4, 5}
  OBVIOUS
<1>3. Pending(s) = {"burstDone", "submitted", "submittedEnd", "probeNext", "sent"}
  BY <1>1, <1>2 DEF Pending
<1>4. /\ \A i \in 1..Len(s) : s[i] \in Lowest => i = Len(s)
      /\ \A i \in 2..Len(s) : s[i] # "startBurst"
      /\ Ends(Pending(s)) => Pending(s) \subseteq Closing
  BY <1>1, <1>2, <1>3 DEF Lowest, Ends, Closing
<1>5. ASSUME NEW i \in 1..Len(s) PROVE Owes(s[i]) \subseteq {s[j] : j \in (i + 1)..Len(s)}
  <2>1. /\ Owes(s[1]) = {}
        /\ Owes(s[2]) = {s[3]}
        /\ Owes(s[3]) = {}
        /\ Owes(s[4]) = {}
        /\ Owes(s[5]) = {}
    BY <1>1 DEF Owes
  <2>2. \A q \in Owes(s[i]) : \E j \in (i + 1)..5 : q = s[j]
    BY <1>1, <1>2, <2>1
  <2> QED BY <1>1, <2>2
<1>6. Stands(s)
  BY <1>1, <1>4, <1>5 DEF Stands
<1>7. \A p \in Alone : Fits(s, p)
  BY <1>6, AloneFits
<1> QED BY <1>3, <1>7 DEF s

LEMMA WaitingFits ==
  LET s == <<"burstDone", "probeDone", "skip", "waiting">>
  IN  /\ \A p \in Alone : Fits(s, p)
      /\ Pending(s) = {"burstDone", "probeDone", "skip", "waiting"}
<1> DEFINE s == <<"burstDone", "probeDone", "skip", "waiting">>
<1>1. /\ s \in Seq(Places) /\ Len(s) = 4
      /\ s[1] = "burstDone" /\ s[2] = "probeDone" /\ s[3] = "skip" /\ s[4] = "waiting"
  BY DEF Places
<1> HIDE DEF s
<1>2. 1..4 = {1, 2, 3, 4} /\ 2..4 = {2, 3, 4}
  OBVIOUS
<1>3. Pending(s) = {"burstDone", "probeDone", "skip", "waiting"}
  BY <1>1, <1>2 DEF Pending
<1>4. /\ \A i \in 1..Len(s) : s[i] \in Lowest => i = Len(s)
      /\ \A i \in 2..Len(s) : s[i] # "startBurst"
      /\ Ends(Pending(s)) => Pending(s) \subseteq Closing
  BY <1>1, <1>2, <1>3 DEF Lowest, Ends, Closing
<1>5. \A i \in 1..Len(s) : Owes(s[i]) \subseteq {s[j] : j \in (i + 1)..Len(s)}
  BY <1>1, <1>2 DEF Owes
<1>6. Stands(s)
  BY <1>1, <1>4, <1>5 DEF Stands
<1>7. \A p \in Alone : Fits(s, p)
  BY <1>6, AloneFits
<1> QED BY <1>3, <1>7 DEF s

LEMMA StepFits ==
  LET s == <<"tickOwner", "tickTime", "collect">>
  IN  /\ \A p \in Alone : Fits(s, p)
      /\ Pending(s) = {"tickOwner", "tickTime", "collect"}
<1> DEFINE s == <<"tickOwner", "tickTime", "collect">>
<1>1. /\ s \in Seq(Places) /\ Len(s) = 3
      /\ s[1] = "tickOwner" /\ s[2] = "tickTime" /\ s[3] = "collect"
  BY DEF Places
<1> HIDE DEF s
<1>2. 1..3 = {1, 2, 3} /\ 2..3 = {2, 3}
  OBVIOUS
<1>3. Pending(s) = {"tickOwner", "tickTime", "collect"}
  BY <1>1, <1>2 DEF Pending
<1>4. /\ \A i \in 1..Len(s) : s[i] \in Lowest => i = Len(s)
      /\ \A i \in 2..Len(s) : s[i] # "startBurst"
      /\ Ends(Pending(s)) => Pending(s) \subseteq Closing
  BY <1>1, <1>2, <1>3 DEF Lowest, Ends, Closing
<1>5. \A i \in 1..Len(s) : Owes(s[i]) \subseteq {s[j] : j \in (i + 1)..Len(s)}
  BY <1>1, <1>2 DEF Owes
<1>6. Stands(s)
  BY <1>1, <1>4, <1>5 DEF Stands
<1>7. \A p \in Alone : Fits(s, p)
  BY <1>6, AloneFits
<1> QED BY <1>3, <1>7 DEF s

LEMMA CancelFits ==
  LET s == <<"end", "endOwner", "cancelling", "tickOwner", "tickTime", "collect">>
  IN  /\ \A p \in Alone : Fits(s, p)
      /\ Pending(s) = {"end", "endOwner", "cancelling", "tickOwner", "tickTime", "collect"}
<1> DEFINE s == <<"end", "endOwner", "cancelling", "tickOwner", "tickTime", "collect">>
<1>1. /\ s \in Seq(Places) /\ Len(s) = 6
      /\ s[1] = "end" /\ s[2] = "endOwner" /\ s[3] = "cancelling" /\ s[4] = "tickOwner"
      /\ s[5] = "tickTime" /\ s[6] = "collect"
  BY DEF Places
<1> HIDE DEF s
<1>2. 1..6 = {1, 2, 3, 4, 5, 6} /\ 2..6 = {2, 3, 4, 5, 6}
  OBVIOUS
<1>3. Pending(s) = {"end", "endOwner", "cancelling", "tickOwner", "tickTime", "collect"}
  BY <1>1, <1>2 DEF Pending
<1>4. /\ \A i \in 1..Len(s) : s[i] \in Lowest => i = Len(s)
      /\ \A i \in 2..Len(s) : s[i] # "startBurst"
      /\ Ends(Pending(s)) => Pending(s) \subseteq Closing
  BY <1>1, <1>2, <1>3 DEF Lowest, Ends, Closing
<1>5. ASSUME NEW i \in 1..Len(s) PROVE Owes(s[i]) \subseteq {s[j] : j \in (i + 1)..Len(s)}
  <2>1. /\ Owes(s[1]) = {s[2]}
        /\ Owes(s[2]) = {}
        /\ Owes(s[3]) = {}
        /\ Owes(s[4]) = {}
        /\ Owes(s[5]) = {}
        /\ Owes(s[6]) = {}
    BY <1>1 DEF Owes
  <2>2. \A q \in Owes(s[i]) : \E j \in (i + 1)..6 : q = s[j]
    BY <1>1, <1>2, <2>1
  <2> QED BY <1>1, <2>2
<1>6. Stands(s)
  BY <1>1, <1>4, <1>5 DEF Stands
<1>7. \A p \in Alone : Fits(s, p)
  BY <1>6, AloneFits
<1> QED BY <1>3, <1>7 DEF s

------------------------------------------------------------------------------
(***************************************************************************)
(* The steps.                                                              *)
(***************************************************************************)
Below == Pending(Tail(todo))

\* What is known where a place is about to do its work.
LEMMA AtWork ==
  ASSUME RetryInv, todo # <<>>
  PROVE  /\ Typed /\ Claims /\ Shape(todo)
         /\ Now = {Head(todo)} \cup Below /\ "startBurst" \notin Below
         /\ Ends(Now) => Now \subseteq Closing
         /\ Head(todo) \in Lowest => Below = {}
         /\ Owes(Head(todo)) \subseteq Below
<1>1. Head(todo) \in Lowest => Below = {}
  BY Parts, NoneFits DEF RetryInv, Below
<1> QED BY <1>1, Parts DEF RetryInv, Below

\* A place that calls nothing, one place or two.
LEMMA Returns ==
  ASSUME Shape(todo), todo # <<>>, Then(<<>>)
  PROVE  Shape(todo)' /\ Now' = Below
<1>1. Fits(<<>>, Head(todo)) /\ Pending(<<>>) = {}
  BY NoneFits
<1> QED BY <1>1, Pushed DEF Then, Below

LEMMA CallsOne ==
  ASSUME Shape(todo), todo # <<>>, NEW a \in Places \ (Lowest \cup {"startBurst"}), Then(<<a>>),
         Height(a) <= Height(Head(todo)), Owes(a) = {}, Head(todo) \in Closing => a \in Closing
  PROVE  Shape(todo)' /\ Now' = {a} \cup Below
<1>1. Fits(<<a>>, Head(todo)) /\ Pending(<<a>>) = {a}
  BY OneFits
<1> QED BY <1>1, Pushed DEF Then, Below

LEMMA CallsEnd ==
  ASSUME Shape(todo), todo # <<>>, Then(End), Head(todo) \in Deep
  PROVE  Shape(todo)' /\ Now' = {"end", "endOwner"} \cup Below
<1>1. Height(Head(todo)) = 2
  BY DEF Height, Deep, Lowest
<1>2. /\ Height("end") = 1 /\ Height("endOwner") = 1 /\ Owes("end") = {"endOwner"} /\ Owes("endOwner") = {}
      /\ {"end", "endOwner"} \subseteq Closing
      /\ "end" \in Places \ Lowest /\ "endOwner" \in Places \ (Lowest \cup {"startBurst"})
  BY DEF Height, Owes, Closing, Places, Lowest, Deep
<1>3. Fits(End, Head(todo)) /\ Pending(End) = {"end", "endOwner"}
  BY <1>1, <1>2, TwoFit DEF End
<1> QED BY <1>3, Pushed DEF Then, Below

LEMMA CallsProbeEnd ==
  ASSUME Shape(todo), todo # <<>>, Then(<<"free", "probeEnd">>), Head(todo) = "probeDone"
  PROVE  Shape(todo)' /\ Now' = {"free", "probeEnd"} \cup Below
<1>1. Height(Head(todo)) = 2
  BY DEF Height, Deep, Lowest
<1>2. /\ Height("free") = 1 /\ Height("probeEnd") = 1 /\ Owes("free") = {} /\ Owes("probeEnd") = {}
      /\ {"free", "probeEnd"} \subseteq Closing
      /\ "free" \in Places \ Lowest /\ "probeEnd" \in Places \ (Lowest \cup {"startBurst"})
  BY DEF Height, Owes, Closing, Places, Lowest, Deep
<1>3. Fits(<<"free", "probeEnd">>, Head(todo)) /\ Pending(<<"free", "probeEnd">>) = {"free", "probeEnd"}
  BY <1>1, <1>2, TwoFit
<1> QED BY <1>3, Pushed DEF Then, Below

\* The calls of all places but those that stand alone.
LEMMA Calls ==
  ASSUME RetryInv, todo # <<>>
  PROVE  /\ Then(<<>>) => Shape(todo)' /\ Now' = Below
         /\ \A a \in {"release", "releaseOwner", "free", "probeEnd"} :
              Then(<<a>>) => Shape(todo)' /\ Now' = {a} \cup Below
         /\ \A a \in {"ownAuto", "useAuto"} :
              Head(todo) \in {"takeAuto", "ownAuto"} /\ Then(<<a>>) => Shape(todo)' /\ Now' = {a} \cup Below
         /\ \A a \in {"probeDone", "burstDone"} :
              Head(todo) \in {"finishProbe", "finishBurst"} /\ Then(<<a>>)
                => Shape(todo)' /\ Now' = {a} \cup Below
         /\ Head(todo) = "takeBurst" /\ Then(<<"startBurst">>)
              => Shape(todo)' /\ Now' = {"startBurst"} \cup Below
         /\ Head(todo) \in Deep /\ Then(End) => Shape(todo)' /\ Now' = {"end", "endOwner"} \cup Below
         /\ Head(todo) = "probeDone" /\ Then(<<"free", "probeEnd">>)
              => Shape(todo)' /\ Now' = {"free", "probeEnd"} \cup Below
<1>1. Shape(todo)
  BY DEF RetryInv
<1>2. ASSUME NEW a \in {"release", "releaseOwner", "free", "probeEnd"}, Then(<<a>>)
      PROVE  Shape(todo)' /\ Now' = {a} \cup Below
  <2>1. /\ a \in Places \ (Lowest \cup {"startBurst"}) /\ a \in Closing
        /\ Height(a) = 1 /\ Owes(a) = {}
    BY DEF Places, Lowest, Closing, Height, Deep, Owes
  <2>2. Height(a) <= Height(Head(todo))
    BY <2>1, HeightBounds
  <2> QED BY <1>1, <1>2, <2>1, <2>2, CallsOne
<1>3. ASSUME NEW a \in {"ownAuto", "useAuto"}, Head(todo) \in {"takeAuto", "ownAuto"}, Then(<<a>>)
      PROVE  Shape(todo)' /\ Now' = {a} \cup Below
  <2>1. /\ a \in Places \ (Lowest \cup {"startBurst"}) /\ Head(todo) \notin Closing
        /\ Height(a) = 1 /\ Owes(a) = {}
    BY <1>3 DEF Places, Lowest, Closing, Height, Deep, Owes
  <2>2. Height(a) <= Height(Head(todo))
    BY <2>1, HeightBounds
  <2> QED BY <1>1, <1>3, <2>1, <2>2, CallsOne
<1>4. ASSUME NEW a \in {"probeDone", "burstDone"}, Head(todo) \in {"finishProbe", "finishBurst"}, Then(<<a>>)
      PROVE  Shape(todo)' /\ Now' = {a} \cup Below
  <2>1. /\ a \in Places \ (Lowest \cup {"startBurst"}) /\ a \in Closing
        /\ Height(a) <= Height(Head(todo)) /\ Owes(a) = {}
    BY <1>4 DEF Places, Lowest, Closing, Height, Deep, Owes
  <2> QED BY <1>1, <1>4, <2>1, CallsOne
<1>5. ASSUME Head(todo) = "takeBurst", Then(<<"startBurst">>)
      PROVE  Shape(todo)' /\ Now' = {"startBurst"} \cup Below
  BY <1>1, <1>5, OneStart, Pushed DEF Then, Below
<1> QED BY <1>1, <1>2, <1>3, <1>4, <1>5, Returns, CallsEnd, CallsProbeEnd

\* What is owed to what is pending.
LEMMA Owed ==
  ASSUME Shape(todo)
  PROVE  /\ "close" \in Now => {"finishProbe", "finishBurst", "end", "finishAuto"} \subseteq Now
         /\ "finishProbe" \in Now => {"finishBurst", "end", "finishAuto"} \subseteq Now
         /\ "finishBurst" \in Now => {"end", "finishAuto"} \subseteq Now
<1>1. ASSUME NEW p \in Now PROVE Owes(p) \subseteq Now
  <2>1. PICK i \in 1..Len(todo) : p = todo[i]
    BY DEF Now, Pending
  <2>2. Len(todo) \in Nat
    BY DEF Shape
  <2>3. (i + 1)..Len(todo) \subseteq 1..Len(todo)
    BY <2>2
  <2>4. Owes(p) \subseteq {todo[j] : j \in (i + 1)..Len(todo)}
    BY <2>1 DEF Shape
  <2>5. {todo[j] : j \in (i + 1)..Len(todo)} \subseteq Now
    BY <2>3 DEF Now, Pending
  <2> QED BY <2>4, <2>5
<1> QED BY <1>1 DEF Owes

LEMMA ReleaseKept ==
  ASSUME RetryInv, Release
  PROVE  RetryInv'
<1>1. todo # <<>> /\ Head(todo) = "release"
  BY DEF Release, At
<1>2. Shape(todo)' /\ Now' = {"releaseOwner"} \cup Below
  BY <1>1, Calls DEF Release
<1>4. /\ Typed /\ Claims /\ Now = {"release"} \cup Below
      /\ "startBurst" \notin Below
      /\ Ends(Now) => Now \subseteq Closing
  BY <1>1, AtWork
<1>5. Typed'
  BY <1>4 DEF Typed, Release, stream, private, controllerRest
<1>6. Counted' /\ InFlight'
  BY <1>2, <1>4 DEF Claims, Counted, InFlight, Typed, Release, stream, private, controllerRest
<1>7. BurstOwns' /\ ProbeOwns' /\ AutoOwns'
  BY <1>2, <1>4 DEF Claims, InFlight, BurstOwns, ProbeOwns, AutoOwns, Typed, Release, stream, private, controllerRest
<1>8. Finishing'
  BY <1>2, <1>4 DEF Claims, InFlight, Finishing, BurstRevoked, ProbeRevoked, Ends, Closing, Release, stream, private, controllerRest
<1>9. Finished'
  BY <1>2, <1>4 DEF Claims, InFlight, Finished, BurstRevoked, ProbeRevoked, Live, QuietPlaces, Finishing, Ends, Typed, Release, stream, private, controllerRest
<1> QED BY <1>2, <1>5, <1>6, <1>7, <1>8, <1>9 DEF RetryInv, Claims

LEMMA ReleaseOwnerKept ==
  ASSUME RetryInv, ReleaseOwner
  PROVE  RetryInv'
<1>1. todo # <<>> /\ Head(todo) = "releaseOwner"
  BY DEF ReleaseOwner, At
<1>2. \/ Then(<<>>)
      \/ Then(<<"free">>)
  BY DEF ReleaseOwner, Call
<1>3. /\ Then(<<>>) => Shape(todo)' /\ Now' = Below
      /\ Then(<<"free">>) => Shape(todo)' /\ Now' = {"free"} \cup Below
  BY <1>1, Calls
<1>4. /\ Typed /\ Claims /\ Now = {"releaseOwner"} \cup Below
      /\ "startBurst" \notin Below
      /\ Ends(Now) => Now \subseteq Closing
  BY <1>1, AtWork
<1>5. Typed'
  BY <1>4 DEF Typed, ReleaseOwner, retry, stream, private, controllerRest
<1>6. Counted' /\ InFlight'
  BY <1>2, <1>3, <1>4 DEF Claims, Counted, InFlight, Typed, ReleaseOwner, retry, stream, private, controllerRest, Call
<1>7. BurstOwns' /\ ProbeOwns' /\ AutoOwns'
  BY <1>2, <1>3, <1>4 DEF Claims, InFlight, BurstOwns, ProbeOwns, AutoOwns, Typed, ReleaseOwner, retry, stream, private, controllerRest, Call
<1>8. Finishing'
  BY <1>2, <1>3, <1>4 DEF Claims, InFlight, Finishing, BurstRevoked, ProbeRevoked, Ends, Closing, ReleaseOwner, retry, stream, private, controllerRest, Call
<1>9. Finished'
  BY <1>2, <1>3, <1>4 DEF Claims, InFlight, Finished, BurstRevoked, ProbeRevoked, Live, QuietPlaces, Finishing, Ends, Typed, ReleaseOwner, retry, stream, private, controllerRest, Call
<1> QED BY <1>2, <1>3, <1>5, <1>6, <1>7, <1>8, <1>9 DEF RetryInv, Claims

LEMMA FreeKept ==
  ASSUME RetryInv, Free
  PROVE  RetryInv'
<1>1. todo # <<>> /\ Head(todo) = "free"
  BY DEF Free, At
<1>2. Shape(todo)' /\ Now' = Below
  BY <1>1, Calls DEF Free
<1>4. /\ Typed /\ Claims /\ Now = {"free"} \cup Below
      /\ "startBurst" \notin Below
      /\ Ends(Now) => Now \subseteq Closing
  BY <1>1, AtWork
<1>5. Typed'
  BY <1>4 DEF Typed, Free, stream, private, controllerRest
<1>6. Counted' /\ InFlight'
  BY <1>2, <1>4 DEF Claims, Counted, InFlight, Typed, Free, stream, private, controllerRest
<1>7. BurstOwns' /\ ProbeOwns' /\ AutoOwns'
  BY <1>2, <1>4 DEF Claims, InFlight, BurstOwns, ProbeOwns, AutoOwns, Typed, Free, stream, private, controllerRest
<1>8. Finishing'
  BY <1>2, <1>4 DEF Claims, InFlight, Finishing, BurstRevoked, ProbeRevoked, Ends, Closing, Free, stream, private, controllerRest
<1>9. Finished'
  BY <1>2, <1>4 DEF Claims, InFlight, Finished, BurstRevoked, ProbeRevoked, Live, QuietPlaces, Finishing, Ends, Typed, Free, stream, private, controllerRest
<1> QED BY <1>2, <1>5, <1>6, <1>7, <1>8, <1>9 DEF RetryInv, Claims

LEMMA BurstEndKept ==
  ASSUME RetryInv, BurstEnd
  PROVE  RetryInv'
<1>1. todo # <<>> /\ Head(todo) = "end"
  BY DEF BurstEnd, At
<1>2. Shape(todo)' /\ Now' = Below
  BY <1>1, Calls DEF BurstEnd
<1>4. /\ Typed /\ Claims /\ Now = {"end"} \cup Below
      /\ "startBurst" \notin Below
      /\ Ends(Now) => Now \subseteq Closing
      /\ "endOwner" \in Below
  BY <1>1, AtWork DEF Owes
<1>5. Typed'
  BY <1>4 DEF Typed, BurstEnd, stream, private, controllerRest
<1>6. Counted' /\ InFlight'
  BY <1>2, <1>4 DEF Claims, Counted, InFlight, Typed, BurstEnd, stream, private, controllerRest
<1>7. BurstOwns' /\ ProbeOwns' /\ AutoOwns'
  BY <1>2, <1>4 DEF Claims, InFlight, BurstOwns, ProbeOwns, AutoOwns, Typed, BurstEnd, stream, private, controllerRest
<1>8. Finishing'
  BY <1>2, <1>4 DEF Claims, InFlight, Finishing, BurstRevoked, ProbeRevoked, Ends, Closing, BurstEnd, stream, private, controllerRest
<1>9. Finished'
  BY <1>2, <1>4 DEF Claims, InFlight, Finished, BurstRevoked, ProbeRevoked, Live, QuietPlaces, Finishing, Ends, Typed, BurstEnd, stream, private, controllerRest
<1> QED BY <1>2, <1>5, <1>6, <1>7, <1>8, <1>9 DEF RetryInv, Claims

LEMMA BurstEndOwnerKept ==
  ASSUME RetryInv, BurstEndOwner
  PROVE  RetryInv'
<1>1. todo # <<>> /\ Head(todo) = "endOwner"
  BY DEF BurstEndOwner, At
<1>2. \/ Then(<<>>)
      \/ Then(<<"free">>)
  BY DEF BurstEndOwner, Call
<1>3. /\ Then(<<>>) => Shape(todo)' /\ Now' = Below
      /\ Then(<<"free">>) => Shape(todo)' /\ Now' = {"free"} \cup Below
  BY <1>1, Calls
<1>4. /\ Typed /\ Claims /\ Now = {"endOwner"} \cup Below
      /\ "startBurst" \notin Below
      /\ Ends(Now) => Now \subseteq Closing
  BY <1>1, AtWork
<1>5. Typed'
  BY <1>4 DEF Typed, BurstEndOwner, retry, stream, private, controllerRest
<1>6. Counted' /\ InFlight'
  BY <1>2, <1>3, <1>4 DEF Claims, Counted, InFlight, Typed, BurstEndOwner, retry, stream, private, controllerRest, Call
<1>7. BurstOwns' /\ ProbeOwns' /\ AutoOwns'
  BY <1>2, <1>3, <1>4 DEF Claims, InFlight, BurstOwns, ProbeOwns, AutoOwns, Typed, BurstEndOwner, retry, stream, private, controllerRest, Call
<1>8. Finishing'
  BY <1>2, <1>3, <1>4 DEF Claims, InFlight, Finishing, BurstRevoked, ProbeRevoked, Ends, Closing, BurstEndOwner, retry, stream, private, controllerRest, Call
<1>9. Finished'
  BY <1>2, <1>3, <1>4 DEF Claims, InFlight, Finished, BurstRevoked, ProbeRevoked, Live, QuietPlaces, Finishing, Ends, Typed, BurstEndOwner, retry, stream, private, controllerRest, Call
<1> QED BY <1>2, <1>3, <1>5, <1>6, <1>7, <1>8, <1>9 DEF RetryInv, Claims

LEMMA TickOwnerKept ==
  ASSUME RetryInv, TickOwner
  PROVE  RetryInv'
<1>1. todo # <<>> /\ Head(todo) = "tickOwner"
  BY DEF TickOwner, At
<1>2. \/ Then(<<>>)
      \/ Then(<<"release">>)
  BY DEF TickOwner, Call
<1>3. /\ Then(<<>>) => Shape(todo)' /\ Now' = Below
      /\ Then(<<"release">>) => Shape(todo)' /\ Now' = {"release"} \cup Below
  BY <1>1, Calls
<1>4. /\ Typed /\ Claims /\ Now = {"tickOwner"} \cup Below
      /\ "startBurst" \notin Below
      /\ Ends(Now) => Now \subseteq Closing
  BY <1>1, AtWork
<1>5. Typed'
  BY <1>4 DEF Typed, TickOwner, retry, stream, private, controllerRest
<1>6. Counted' /\ InFlight'
  BY <1>2, <1>3, <1>4 DEF Claims, Counted, InFlight, Typed, TickOwner, retry, stream, private, controllerRest, Call
<1>7. BurstOwns' /\ ProbeOwns' /\ AutoOwns'
  BY <1>2, <1>3, <1>4 DEF Claims, InFlight, BurstOwns, ProbeOwns, AutoOwns, Typed, TickOwner, retry, stream, private, controllerRest, Call
<1>8. Finishing'
  BY <1>2, <1>3, <1>4 DEF Claims, InFlight, Finishing, BurstRevoked, ProbeRevoked, Ends, Closing, TickOwner, retry, stream, private, controllerRest, Call
<1>9. Finished'
  BY <1>2, <1>3, <1>4 DEF Claims, InFlight, Finished, BurstRevoked, ProbeRevoked, Live, QuietPlaces, Finishing, Ends, Typed, TickOwner, retry, stream, private, controllerRest, Call
<1> QED BY <1>2, <1>3, <1>5, <1>6, <1>7, <1>8, <1>9 DEF RetryInv, Claims

LEMMA TickTimeKept ==
  ASSUME RetryInv, TickTime
  PROVE  RetryInv'
<1>1. todo # <<>> /\ Head(todo) = "tickTime"
  BY DEF TickTime, At
<1>2. \/ Then(<<>>)
      \/ Then(End)
  BY DEF TickTime, Call
<1>3. /\ Then(<<>>) => Shape(todo)' /\ Now' = Below
      /\ Then(End) => Shape(todo)' /\ Now' = {"end", "endOwner"} \cup Below
  BY <1>1, Calls DEF Deep
<1>4. /\ Typed /\ Claims /\ Now = {"tickTime"} \cup Below
      /\ "startBurst" \notin Below
      /\ Ends(Now) => Now \subseteq Closing
  BY <1>1, AtWork
<1>5. Typed'
  BY <1>4 DEF Typed, TickTime, retry, stream, private, controllerRest
<1>6. Counted' /\ InFlight'
  BY <1>2, <1>3, <1>4 DEF Claims, Counted, InFlight, Typed, TickTime, retry, stream, private, controllerRest, Call
<1>7. BurstOwns' /\ ProbeOwns' /\ AutoOwns'
  BY <1>2, <1>3, <1>4 DEF Claims, InFlight, BurstOwns, ProbeOwns, AutoOwns, Typed, TickTime, retry, stream, private, controllerRest, Call
<1>8. Finishing'
  BY <1>2, <1>3, <1>4 DEF Claims, InFlight, Finishing, BurstRevoked, ProbeRevoked, Ends, Closing, TickTime, retry, stream, private, controllerRest, Call
<1>9. Finished'
  BY <1>2, <1>3, <1>4 DEF Claims, InFlight, Finished, BurstRevoked, ProbeRevoked, Live, QuietPlaces, Finishing, Ends, Typed, TickTime, retry, stream, private, controllerRest, Call
<1> QED BY <1>2, <1>3, <1>5, <1>6, <1>7, <1>8, <1>9 DEF RetryInv, Claims

LEMMA CancellingKept ==
  ASSUME RetryInv, Cancelling
  PROVE  RetryInv'
<1>1. todo # <<>> /\ Head(todo) = "cancelling"
  BY DEF Cancelling, At
<1>2. Shape(todo)' /\ Now' = Below
  BY <1>1, Calls DEF Cancelling
<1>4. /\ Typed /\ Claims /\ Now = {"cancelling"} \cup Below
      /\ "startBurst" \notin Below
      /\ Ends(Now) => Now \subseteq Closing
  BY <1>1, AtWork
<1>5. Typed'
  BY <1>4 DEF Typed, Cancelling, retry, private, controllerRest
<1>6. Counted' /\ InFlight'
  BY <1>2, <1>4 DEF Claims, Counted, InFlight, Typed, Cancelling, retry, private, controllerRest
<1>7. BurstOwns' /\ ProbeOwns' /\ AutoOwns'
  BY <1>2, <1>4 DEF Claims, InFlight, BurstOwns, ProbeOwns, AutoOwns, Typed, Cancelling, retry, private, controllerRest
<1>8. Finishing'
  BY <1>2, <1>4 DEF Claims, InFlight, Finishing, BurstRevoked, ProbeRevoked, Ends, Closing, Cancelling, retry, private, controllerRest
<1>9. Finished'
  BY <1>2, <1>4 DEF Claims, InFlight, Finished, BurstRevoked, ProbeRevoked, Live, QuietPlaces, Finishing, Ends, Typed, Cancelling, retry, private, controllerRest
<1> QED BY <1>2, <1>5, <1>6, <1>7, <1>8, <1>9 DEF RetryInv, Claims

LEMMA NotCollectedKept ==
  ASSUME RetryInv, NotCollected
  PROVE  RetryInv'
<1>1. todo # <<>> /\ Head(todo) = "collect"
  BY DEF NotCollected, At
<1>2. Shape(todo)' /\ Now' = Below
  BY <1>1, Calls DEF NotCollected
<1>4. /\ Typed /\ Claims /\ Now = {"collect"} \cup Below
      /\ "startBurst" \notin Below
      /\ Ends(Now) => Now \subseteq Closing
  BY <1>1, AtWork
<1>5. Typed'
  BY <1>4 DEF Typed, NotCollected, retry, private, controllerRest
<1>6. Counted' /\ InFlight'
  BY <1>2, <1>4 DEF Claims, Counted, InFlight, Typed, NotCollected, retry, private, controllerRest
<1>7. BurstOwns' /\ ProbeOwns' /\ AutoOwns'
  BY <1>2, <1>4 DEF Claims, InFlight, BurstOwns, ProbeOwns, AutoOwns, Typed, NotCollected, retry, private, controllerRest
<1>8. Finishing'
  BY <1>2, <1>4 DEF Claims, InFlight, Finishing, BurstRevoked, ProbeRevoked, Ends, Closing, NotCollected, retry, private, controllerRest
<1>9. Finished'
  BY <1>2, <1>4 DEF Claims, InFlight, Finished, BurstRevoked, ProbeRevoked, Live, QuietPlaces, Finishing, Ends, Typed, NotCollected, retry, private, controllerRest
<1> QED BY <1>2, <1>5, <1>6, <1>7, <1>8, <1>9 DEF RetryInv, Claims

LEMMA BurstDoneKept ==
  ASSUME RetryInv, BurstDone
  PROVE  RetryInv'
<1>1. todo # <<>> /\ Head(todo) = "burstDone"
  BY DEF BurstDone, At
<1>2. \/ Then(<<>>)
      \/ Then(End)
      \/ Then(<<"release">>)
  BY DEF BurstDone, Call
<1>3. /\ Then(<<>>) => Shape(todo)' /\ Now' = Below
      /\ Then(End) => Shape(todo)' /\ Now' = {"end", "endOwner"} \cup Below
      /\ Then(<<"release">>) => Shape(todo)' /\ Now' = {"release"} \cup Below
  BY <1>1, Calls DEF Deep
<1>4. /\ Typed /\ Claims /\ Now = {"burstDone"} \cup Below
      /\ "startBurst" \notin Below
      /\ Ends(Now) => Now \subseteq Closing
  BY <1>1, AtWork
<1>5. Typed'
  BY <1>4 DEF Typed, BurstDone, stream, controllerRest
<1>6. Counted' /\ InFlight'
  BY <1>2, <1>3, <1>4 DEF Claims, Counted, InFlight, Typed, BurstDone, stream, controllerRest, Call
<1>7. BurstOwns' /\ ProbeOwns' /\ AutoOwns'
  <2>1. ProbeOwns' /\ AutoOwns'
    BY <1>2, <1>3, <1>4 DEF Claims, ProbeOwns, AutoOwns, BurstDone, controllerRest
  <2>2. BurstOwns'
    <3>1. CASE ~burst_active
      BY <1>2, <1>3, <1>4, <3>1 DEF Claims, BurstOwns, BurstDone, controllerRest
    <3>2. CASE burst_active /\ outcome = "ended"
      <4>1. burst_watch' = TRUE /\ owner' = owner /\ burst' = burst /\ console' = console
        BY <3>2 DEF BurstDone, controllerRest
      <4> QED BY <1>4, <4>1 DEF Claims, BurstOwns
    <3>3. CASE burst_active /\ outcome # "ended" /\ owner # 3
      <4>1. Now' = {"end", "endOwner"} \cup Below /\ owner' = owner /\ burst' = burst /\ console' = console
        BY <1>3, <3>3 DEF BurstDone, controllerRest
      <4> QED BY <1>4, <4>1 DEF Claims, BurstOwns
    <3>4. CASE owner = 3
      BY <3>4 DEF BurstOwns, BurstDone
    <3> QED BY <1>4, <3>1, <3>2, <3>3, <3>4 DEF Typed
  <2> QED BY <2>1, <2>2
<1>8. Finishing'
  BY <1>2, <1>3, <1>4, Owed DEF Claims, InFlight, Finishing, BurstRevoked, ProbeRevoked, Ends, Closing, RetryInv, BurstDone, stream, controllerRest, Call
<1>9. Finished'
  BY <1>2, <1>3, <1>4 DEF Claims, InFlight, Finished, BurstRevoked, ProbeRevoked, Live, QuietPlaces, Finishing, Ends, Typed, BurstDone, stream, controllerRest, Call
<1> QED BY <1>2, <1>3, <1>5, <1>6, <1>7, <1>8, <1>9 DEF RetryInv, Claims

LEMMA ProbeDoneKept ==
  ASSUME RetryInv, ProbeDone
  PROVE  RetryInv'
<1>1. todo # <<>> /\ Head(todo) = "probeDone"
  BY DEF ProbeDone, At
<1>2. \/ Then(<<>>)
      \/ Then(<<"probeEnd">>)
      \/ Then(<<"free", "probeEnd">>)
  BY DEF ProbeDone, Call
<1>3. /\ Then(<<>>) => Shape(todo)' /\ Now' = Below
      /\ Then(<<"probeEnd">>) => Shape(todo)' /\ Now' = {"probeEnd"} \cup Below
      /\ Then(<<"free", "probeEnd">>) => Shape(todo)' /\ Now' = {"free", "probeEnd"} \cup Below
  BY <1>1, Calls
<1>4. /\ Typed /\ Claims /\ Now = {"probeDone"} \cup Below
      /\ "startBurst" \notin Below
      /\ Ends(Now) => Now \subseteq Closing
  BY <1>1, AtWork
<1>5. Typed'
  BY <1>4 DEF Typed, ProbeDone, retry, stream, controllerRest
<1>6. Counted' /\ InFlight'
  BY <1>2, <1>3, <1>4 DEF Claims, Counted, InFlight, Typed, ProbeDone, retry, stream, controllerRest, Call
<1>7. BurstOwns' /\ ProbeOwns' /\ AutoOwns'
  BY <1>2, <1>3, <1>4 DEF Claims, InFlight, BurstOwns, ProbeOwns, AutoOwns, Typed, ProbeDone, retry, stream, controllerRest, Call
<1>8. Finishing'
  BY <1>2, <1>3, <1>4, Owed DEF Claims, InFlight, Finishing, BurstRevoked, ProbeRevoked, Ends, Closing, RetryInv, ProbeDone, retry, stream, controllerRest, Call
<1>9. Finished'
  BY <1>2, <1>3, <1>4 DEF Claims, InFlight, Finished, BurstRevoked, ProbeRevoked, Live, QuietPlaces, Finishing, Ends, Typed, ProbeDone, retry, stream, controllerRest, Call
<1> QED BY <1>2, <1>3, <1>5, <1>6, <1>7, <1>8, <1>9 DEF RetryInv, Claims

LEMMA ProbeEndKept ==
  ASSUME RetryInv, ProbeEnd
  PROVE  RetryInv'
<1>1. todo # <<>> /\ Head(todo) = "probeEnd"
  BY DEF ProbeEnd, At
<1>2. Shape(todo)' /\ Now' = Below
  BY <1>1, Calls DEF ProbeEnd
<1>4. /\ Typed /\ Claims /\ Now = {"probeEnd"} \cup Below
      /\ "startBurst" \notin Below
      /\ Ends(Now) => Now \subseteq Closing
  BY <1>1, AtWork
<1>5. Typed'
  BY <1>4 DEF Typed, ProbeEnd, stream, private, controllerRest
<1>6. Counted' /\ InFlight'
  BY <1>2, <1>4 DEF Claims, Counted, InFlight, Typed, ProbeEnd, stream, private, controllerRest
<1>7. BurstOwns' /\ ProbeOwns' /\ AutoOwns'
  BY <1>2, <1>4 DEF Claims, InFlight, BurstOwns, ProbeOwns, AutoOwns, Typed, ProbeEnd, stream, private, controllerRest
<1>8. Finishing'
  BY <1>2, <1>4 DEF Claims, InFlight, Finishing, BurstRevoked, ProbeRevoked, Ends, Closing, ProbeEnd, stream, private, controllerRest
<1>9. Finished'
  BY <1>2, <1>4 DEF Claims, InFlight, Finished, BurstRevoked, ProbeRevoked, Live, QuietPlaces, Finishing, Ends, Typed, ProbeEnd, stream, private, controllerRest
<1> QED BY <1>2, <1>5, <1>6, <1>7, <1>8, <1>9 DEF RetryInv, Claims

LEMMA ReportKept ==
  ASSUME RetryInv, Report
  PROVE  RetryInv'
<1>1. todo # <<>> /\ Head(todo) = "report"
  BY DEF Report, At
<1>2. Shape(todo)' /\ Now' = Below
  BY <1>1, Calls DEF Report
<1>4. /\ Typed /\ Claims /\ Now = {"report"} \cup Below
      /\ "startBurst" \notin Below
      /\ Ends(Now) => Now \subseteq Closing
  BY <1>1, AtWork
<1>5. Typed'
  BY <1>4 DEF Typed, Report, retry, private, controllerRest
<1>6. Counted' /\ InFlight'
  BY <1>2, <1>4 DEF Claims, Counted, InFlight, Typed, Report, retry, private, controllerRest
<1>7. BurstOwns' /\ ProbeOwns' /\ AutoOwns'
  BY <1>2, <1>4 DEF Claims, InFlight, BurstOwns, ProbeOwns, AutoOwns, Typed, Report, retry, private, controllerRest
<1>8. Finishing'
  BY <1>2, <1>4 DEF Claims, InFlight, Finishing, BurstRevoked, ProbeRevoked, Ends, Closing, Report, retry, private, controllerRest
<1>9. Finished'
  BY <1>2, <1>4 DEF Claims, InFlight, Finished, BurstRevoked, ProbeRevoked, Live, QuietPlaces, Finishing, Ends, Typed, Report, retry, private, controllerRest
<1> QED BY <1>2, <1>5, <1>6, <1>7, <1>8, <1>9 DEF RetryInv, Claims

LEMMA SkipKept ==
  ASSUME RetryInv, Skip
  PROVE  RetryInv'
<1>1. todo # <<>> /\ Head(todo) = "skip"
  BY DEF Skip, At
<1>2. \/ Then(<<>>)
      \/ Then(<<"release">>)
      \/ Then(End)
  BY DEF Skip, Call
<1>3. /\ Then(<<>>) => Shape(todo)' /\ Now' = Below
      /\ Then(<<"release">>) => Shape(todo)' /\ Now' = {"release"} \cup Below
      /\ Then(End) => Shape(todo)' /\ Now' = {"end", "endOwner"} \cup Below
  BY <1>1, Calls DEF Deep
<1>4. /\ Typed /\ Claims /\ Now = {"skip"} \cup Below
      /\ "startBurst" \notin Below
      /\ Ends(Now) => Now \subseteq Closing
  BY <1>1, AtWork
<1>5. Typed'
  BY <1>4 DEF Typed, Skip, retry, stream, controllerRest
<1>6. Counted' /\ InFlight'
  BY <1>2, <1>3, <1>4 DEF Claims, Counted, InFlight, Typed, Skip, retry, stream, controllerRest, Call
<1>7. BurstOwns' /\ ProbeOwns' /\ AutoOwns'
  BY <1>2, <1>3, <1>4 DEF Claims, InFlight, BurstOwns, ProbeOwns, AutoOwns, Typed, Skip, retry, stream, controllerRest, Call
<1>8. Finishing'
  BY <1>2, <1>3, <1>4 DEF Claims, InFlight, Finishing, BurstRevoked, ProbeRevoked, Ends, Closing, Skip, retry, stream, controllerRest, Call
<1>9. Finished'
  BY <1>2, <1>3, <1>4 DEF Claims, InFlight, Finished, BurstRevoked, ProbeRevoked, Live, QuietPlaces, Finishing, Ends, Typed, Skip, retry, stream, controllerRest, Call
<1> QED BY <1>2, <1>3, <1>5, <1>6, <1>7, <1>8, <1>9 DEF RetryInv, Claims

LEMMA TakeProbeKept ==
  ASSUME RetryInv, TakeProbe
  PROVE  RetryInv'
<1>1. todo # <<>> /\ Head(todo) = "takeProbe"
  BY DEF TakeProbe, At
<1>2. Shape(todo)' /\ Now' = Below
  BY <1>1, Calls DEF TakeProbe
<1>4. /\ Typed /\ Claims /\ Now = {"takeProbe"} \cup Below
      /\ "startBurst" \notin Below
      /\ Ends(Now) => Now \subseteq Closing
  BY <1>1, AtWork
<1>5. Typed'
  <2>1. CASE frame = "eligible" /\ probe = 1
    <3>1. probes = 0 /\ probe' = 2 /\ probe_active' = TRUE /\ probes' = probes + 1
      BY <1>4, <2>1 DEF Claims, Counted, TakeProbe
    <3> QED BY <1>4, <3>1 DEF Typed, TakeProbe, stream, controllerRest
  <2>2. CASE ~(frame = "eligible" /\ probe = 1)
    <3>1. UNCHANGED <<probe, probe_active, probes>>
      BY <2>2 DEF TakeProbe
    <3> QED BY <1>4, <3>1 DEF Typed, TakeProbe, stream, controllerRest
  <2> QED BY <2>1, <2>2
<1>6. Counted' /\ InFlight'
  BY <1>2, <1>4 DEF Claims, Counted, InFlight, Typed, TakeProbe, stream, controllerRest
<1>7. BurstOwns' /\ ProbeOwns' /\ AutoOwns'
  BY <1>2, <1>4 DEF Claims, InFlight, BurstOwns, ProbeOwns, AutoOwns, Typed, TakeProbe, stream, controllerRest
<1>8. Finishing'
  BY <1>2, <1>4 DEF Claims, InFlight, Finishing, BurstRevoked, ProbeRevoked, Ends, Closing, TakeProbe, stream, controllerRest
<1>9. Finished'
  BY <1>2, <1>4 DEF Claims, InFlight, Finished, BurstRevoked, ProbeRevoked, Live, QuietPlaces, Finishing, Ends, Typed, TakeProbe, stream, controllerRest
<1> QED BY <1>2, <1>5, <1>6, <1>7, <1>8, <1>9 DEF RetryInv, Claims

LEMMA TakeBurstKept ==
  ASSUME RetryInv, TakeBurst
  PROVE  RetryInv'
<1>1. todo # <<>> /\ Head(todo) = "takeBurst"
  BY DEF TakeBurst, At
<1>2. \/ Then(<<>>)
      \/ Then(End)
      \/ Then(<<"startBurst">>)
  BY DEF TakeBurst, Call
<1>3. /\ Then(<<>>) => Shape(todo)' /\ Now' = Below
      /\ Then(End) => Shape(todo)' /\ Now' = {"end", "endOwner"} \cup Below
      /\ Then(<<"startBurst">>) => Shape(todo)' /\ Now' = {"startBurst"} \cup Below
  BY <1>1, Calls DEF Deep
<1>4. /\ Typed /\ Claims /\ Now = {"takeBurst"} \cup Below
      /\ "startBurst" \notin Below
      /\ Ends(Now) => Now \subseteq Closing
  BY <1>1, AtWork
<1>5. Typed'
  BY <1>4 DEF Typed, TakeBurst, retry, stream, private, controllerRest
<1>6. Counted' /\ InFlight'
  <2>1. CASE frame = "eligible" /\ burst \in {1, 2} /\ ~(attempts >= Budget)
    <3>1. Now' = {"startBurst"} \cup Below /\ attempts' < Budget
      BY <1>3, <1>4, <2>1, BudgetAssumption DEF Typed, TakeBurst, retry, Call, Spent
    <3> QED BY <1>4, <3>1 DEF Claims, Counted, InFlight, TakeBurst, retry, stream, private
  <2>2. CASE frame = "eligible" /\ burst \in {1, 2} /\ attempts >= Budget
    <3>1. Now' = {"end", "endOwner"} \cup Below
      BY <1>3, <2>2 DEF TakeBurst, Call, Spent
    <3> QED BY <1>4, <3>1 DEF Claims, Counted, InFlight, TakeBurst, retry, stream, private
  <2>3. CASE ~(frame = "eligible" /\ burst \in {1, 2})
    <3>1. Now' = Below
      BY <1>3, <2>3 DEF TakeBurst, Call
    <3> QED BY <1>4, <3>1 DEF Claims, Counted, InFlight, TakeBurst, retry, stream, private
  <2> QED BY <2>1, <2>2, <2>3
<1>7. BurstOwns' /\ ProbeOwns' /\ AutoOwns'
  BY <1>2, <1>3, <1>4 DEF Claims, InFlight, BurstOwns, ProbeOwns, AutoOwns, Typed, TakeBurst, retry, stream, private, controllerRest, Call, Spent
<1>8. Finishing'
  BY <1>2, <1>3, <1>4 DEF Claims, InFlight, Finishing, BurstRevoked, ProbeRevoked, Ends, Closing, TakeBurst, retry, stream, private, controllerRest, Call, Spent
<1>9. Finished'
  BY <1>2, <1>3, <1>4 DEF Claims, InFlight, Finished, BurstRevoked, ProbeRevoked, Live, QuietPlaces, Finishing, Ends, Typed, TakeBurst, retry, stream, private, controllerRest, Call, Spent
<1> QED BY <1>2, <1>3, <1>5, <1>6, <1>7, <1>8, <1>9 DEF RetryInv, Claims

LEMMA StartBurstKept ==
  ASSUME RetryInv, StartBurst
  PROVE  RetryInv'
<1>1. todo # <<>> /\ Head(todo) = "startBurst"
  BY DEF StartBurst, At
<1>2. Shape(todo)' /\ Now' = Below
  BY <1>1, Calls DEF StartBurst
<1>4. /\ Typed /\ Claims /\ Now = {"startBurst"} \cup Below
      /\ "startBurst" \notin Below
      /\ Ends(Now) => Now \subseteq Closing
  BY <1>1, AtWork
<1>5. Typed'
  BY <1>4, BudgetAssumption DEF Typed, StartBurst, stream, controllerRest, Claims, Counted
<1>6. Counted' /\ InFlight'
  <2>1. attempts' <= Budget /\ "startBurst" \notin Now'
    BY <1>2, <1>4, BudgetAssumption DEF Claims, Counted, Typed, StartBurst
  <2> QED BY <1>2, <1>4, <2>1 DEF Claims, Counted, InFlight, Typed, StartBurst, stream, controllerRest
<1>7. BurstOwns' /\ ProbeOwns' /\ AutoOwns'
  BY <1>2, <1>4 DEF Claims, InFlight, BurstOwns, ProbeOwns, AutoOwns, Typed, StartBurst, stream, controllerRest
<1>8. Finishing'
  BY <1>2, <1>4 DEF Claims, InFlight, Finishing, BurstRevoked, ProbeRevoked, Ends, Closing, StartBurst, stream, controllerRest
<1>9. Finished'
  BY <1>2, <1>4 DEF Claims, InFlight, Finished, BurstRevoked, ProbeRevoked, Live, QuietPlaces, Finishing, Ends, Typed, StartBurst, stream, controllerRest
<1> QED BY <1>2, <1>5, <1>6, <1>7, <1>8, <1>9 DEF RetryInv, Claims

LEMMA TakeAutoKept ==
  ASSUME RetryInv, TakeAuto
  PROVE  RetryInv'
<1>1. todo # <<>> /\ Head(todo) = "takeAuto"
  BY DEF TakeAuto, At
<1>2. \/ Then(<<>>)
      \/ Then(<<"release">>)
      \/ Then(<<"ownAuto">>)
      \/ Then(<<"useAuto">>)
  BY DEF TakeAuto, Call
<1>3. /\ Then(<<>>) => Shape(todo)' /\ Now' = Below
      /\ Then(<<"release">>) => Shape(todo)' /\ Now' = {"release"} \cup Below
      /\ Then(<<"ownAuto">>) => Shape(todo)' /\ Now' = {"ownAuto"} \cup Below
      /\ Then(<<"useAuto">>) => Shape(todo)' /\ Now' = {"useAuto"} \cup Below
  BY <1>1, Calls
<1>4. /\ Typed /\ Claims /\ Now = {"takeAuto"} \cup Below
      /\ "startBurst" \notin Below
      /\ Ends(Now) => Now \subseteq Closing
  BY <1>1, AtWork
<1>5. Typed'
  <2>1. coolProbe' \in 0..2 /\ burst_watch' \in BOOLEAN
    <3>1. CASE MayTakeAuto /\ owner = 3 /\ coolProbe = 1
      <4>1. coolProbe' \in 0..2
        BY <3>1 DEF TakeAuto
      <4>2. burst_watch' \in BOOLEAN
        BY <3>1 DEF TakeAuto
      <4> QED BY <4>1, <4>2
    <3>2. CASE ~(MayTakeAuto /\ owner = 3 /\ coolProbe = 1)
      <4>1. coolProbe' = coolProbe /\ burst_watch' = burst_watch
        BY <3>2 DEF TakeAuto
      <4> QED BY <1>4, <4>1 DEF Typed
    <3> QED BY <3>1, <3>2
  <2> QED BY <1>4, <2>1 DEF Typed, TakeAuto, stream, controllerRest
<1>6. Counted' /\ InFlight'
  BY <1>2, <1>3, <1>4 DEF Claims, Counted, InFlight, Typed, TakeAuto, stream, controllerRest, Call
<1>7. BurstOwns' /\ ProbeOwns' /\ AutoOwns'
  BY <1>2, <1>3, <1>4 DEF Claims, InFlight, BurstOwns, ProbeOwns, AutoOwns, Typed, TakeAuto, stream, controllerRest, Call
<1>8. Finishing'
  BY <1>2, <1>3, <1>4 DEF Claims, InFlight, Finishing, BurstRevoked, ProbeRevoked, Ends, Closing, TakeAuto, stream, controllerRest, Call
<1>9. Finished'
  BY <1>2, <1>3, <1>4 DEF Claims, InFlight, Finished, BurstRevoked, ProbeRevoked, Live, QuietPlaces, Finishing, Ends, Typed, TakeAuto, stream, controllerRest, Call
<1> QED BY <1>2, <1>3, <1>5, <1>6, <1>7, <1>8, <1>9 DEF RetryInv, Claims

LEMMA OwnAutoKept ==
  ASSUME RetryInv, OwnAuto
  PROVE  RetryInv'
<1>1. todo # <<>> /\ Head(todo) = "ownAuto"
  BY DEF OwnAuto, At
<1>2. \/ Then(<<>>)
      \/ Then(<<"useAuto">>)
  BY DEF OwnAuto, Call
<1>3. /\ Then(<<>>) => Shape(todo)' /\ Now' = Below
      /\ Then(<<"useAuto">>) => Shape(todo)' /\ Now' = {"useAuto"} \cup Below
  BY <1>1, Calls
<1>4. /\ Typed /\ Claims /\ Now = {"ownAuto"} \cup Below
      /\ "startBurst" \notin Below
      /\ Ends(Now) => Now \subseteq Closing
  BY <1>1, AtWork
<1>5. Typed'
  BY <1>4 DEF Typed, OwnAuto, stream, private, controllerRest
<1>6. Counted' /\ InFlight'
  BY <1>2, <1>3, <1>4 DEF Claims, Counted, InFlight, Typed, OwnAuto, stream, private, controllerRest, Call
<1>7. BurstOwns' /\ ProbeOwns' /\ AutoOwns'
  BY <1>2, <1>3, <1>4 DEF Claims, InFlight, BurstOwns, ProbeOwns, AutoOwns, Typed, OwnAuto, stream, private, controllerRest, Call
<1>8. Finishing'
  BY <1>2, <1>3, <1>4 DEF Claims, InFlight, Finishing, BurstRevoked, ProbeRevoked, Ends, Closing, OwnAuto, stream, private, controllerRest, Call
<1>9. Finished'
  BY <1>2, <1>3, <1>4 DEF Claims, InFlight, Finished, BurstRevoked, ProbeRevoked, Live, QuietPlaces, Finishing, Ends, Typed, OwnAuto, stream, private, controllerRest, Call
<1> QED BY <1>2, <1>3, <1>5, <1>6, <1>7, <1>8, <1>9 DEF RetryInv, Claims

LEMMA UseAutoKept ==
  ASSUME RetryInv, UseAuto
  PROVE  RetryInv'
<1>1. todo # <<>> /\ Head(todo) = "useAuto"
  BY DEF UseAuto, At
<1>2. Shape(todo)' /\ Now' = Below
  BY <1>1, Calls DEF UseAuto
<1>4. /\ Typed /\ Claims /\ Now = {"useAuto"} \cup Below
      /\ "startBurst" \notin Below
      /\ Ends(Now) => Now \subseteq Closing
  BY <1>1, AtWork
<1>5. Typed'
  BY <1>4 DEF Typed, UseAuto, stream, controllerRest
<1>6. Counted' /\ InFlight'
  BY <1>2, <1>4 DEF Claims, Counted, InFlight, Typed, UseAuto, stream, controllerRest
<1>7. BurstOwns' /\ ProbeOwns' /\ AutoOwns'
  BY <1>2, <1>4 DEF Claims, InFlight, BurstOwns, ProbeOwns, AutoOwns, Typed, UseAuto, stream, controllerRest
<1>8. Finishing'
  BY <1>2, <1>4 DEF Claims, InFlight, Finishing, BurstRevoked, ProbeRevoked, Ends, Closing, UseAuto, stream, controllerRest
<1>9. Finished'
  BY <1>2, <1>4 DEF Claims, InFlight, Finished, BurstRevoked, ProbeRevoked, Live, QuietPlaces, Finishing, Ends, Typed, UseAuto, stream, controllerRest
<1> QED BY <1>2, <1>5, <1>6, <1>7, <1>8, <1>9 DEF RetryInv, Claims

LEMMA SubmittedKept ==
  ASSUME RetryInv, Submitted
  PROVE  RetryInv'
<1>1. todo # <<>> /\ Head(todo) = "submitted"
  BY DEF Submitted, At
<1>2. \/ Then(<<>>)
      \/ Then(<<"release">>)
  BY DEF Submitted, Call
<1>3. /\ Then(<<>>) => Shape(todo)' /\ Now' = Below
      /\ Then(<<"release">>) => Shape(todo)' /\ Now' = {"release"} \cup Below
  BY <1>1, Calls
<1>4. /\ Typed /\ Claims /\ Now = {"submitted"} \cup Below
      /\ "startBurst" \notin Below
      /\ Ends(Now) => Now \subseteq Closing
      /\ "submittedEnd" \in Below
  BY <1>1, AtWork DEF Owes
<1>5. Typed'
  BY <1>4 DEF Typed, Submitted, retry, stream, controllerRest
<1>6. Counted' /\ InFlight'
  BY <1>2, <1>3, <1>4 DEF Claims, Counted, InFlight, Typed, Submitted, retry, stream, controllerRest, Call
<1>7. BurstOwns' /\ ProbeOwns' /\ AutoOwns'
  BY <1>2, <1>3, <1>4 DEF Claims, InFlight, BurstOwns, ProbeOwns, AutoOwns, Typed, Submitted, retry, stream, controllerRest, Call
<1>8. Finishing'
  BY <1>2, <1>3, <1>4 DEF Claims, InFlight, Finishing, BurstRevoked, ProbeRevoked, Ends, Closing, Submitted, retry, stream, controllerRest, Call
<1>9. Finished'
  BY <1>2, <1>3, <1>4 DEF Claims, InFlight, Finished, BurstRevoked, ProbeRevoked, Live, QuietPlaces, Finishing, Ends, Typed, Submitted, retry, stream, controllerRest, Call
<1> QED BY <1>2, <1>3, <1>5, <1>6, <1>7, <1>8, <1>9 DEF RetryInv, Claims

LEMMA SubmittedEndKept ==
  ASSUME RetryInv, SubmittedEnd
  PROVE  RetryInv'
<1>1. todo # <<>> /\ Head(todo) = "submittedEnd"
  BY DEF SubmittedEnd, At
<1>2. \/ Then(<<>>)
      \/ Then(End)
  BY DEF SubmittedEnd, Call
<1>3. /\ Then(<<>>) => Shape(todo)' /\ Now' = Below
      /\ Then(End) => Shape(todo)' /\ Now' = {"end", "endOwner"} \cup Below
  BY <1>1, Calls DEF Deep
<1>4. /\ Typed /\ Claims /\ Now = {"submittedEnd"} \cup Below
      /\ "startBurst" \notin Below
      /\ Ends(Now) => Now \subseteq Closing
  BY <1>1, AtWork
<1>5. Typed'
  BY <1>4 DEF Typed, SubmittedEnd, retry, stream, private, controllerRest
<1>6. Counted' /\ InFlight'
  BY <1>2, <1>3, <1>4 DEF Claims, Counted, InFlight, Typed, SubmittedEnd, retry, stream, private, controllerRest, Call, Ended
<1>7. BurstOwns' /\ ProbeOwns' /\ AutoOwns'
  BY <1>2, <1>3, <1>4 DEF Claims, InFlight, BurstOwns, ProbeOwns, AutoOwns, Typed, SubmittedEnd, retry, stream, private, controllerRest, Call, Ended
<1>8. Finishing'
  BY <1>2, <1>3, <1>4 DEF Claims, InFlight, Finishing, BurstRevoked, ProbeRevoked, Ends, Closing, SubmittedEnd, retry, stream, private, controllerRest, Call, Ended
<1>9. Finished'
  BY <1>2, <1>3, <1>4 DEF Claims, InFlight, Finished, BurstRevoked, ProbeRevoked, Live, QuietPlaces, Finishing, Ends, Typed, SubmittedEnd, retry, stream, private, controllerRest, Call, Ended
<1> QED BY <1>2, <1>3, <1>5, <1>6, <1>7, <1>8, <1>9 DEF RetryInv, Claims

LEMMA ProbeNextKept ==
  ASSUME RetryInv, ProbeNext
  PROVE  RetryInv'
<1>1. todo # <<>> /\ Head(todo) = "probeNext"
  BY DEF ProbeNext, At
<1>2. \/ Then(<<>>)
      \/ Then(<<"free">>)
  BY DEF ProbeNext, Call
<1>3. /\ Then(<<>>) => Shape(todo)' /\ Now' = Below
      /\ Then(<<"free">>) => Shape(todo)' /\ Now' = {"free"} \cup Below
  BY <1>1, Calls
<1>4. /\ Typed /\ Claims /\ Now = {"probeNext"} \cup Below
      /\ "startBurst" \notin Below
      /\ Ends(Now) => Now \subseteq Closing
  BY <1>1, AtWork
<1>5. Typed'
  BY <1>4 DEF Typed, ProbeNext, retry, stream, controllerRest
<1>6. Counted' /\ InFlight'
  BY <1>2, <1>3, <1>4 DEF Claims, Counted, InFlight, Typed, ProbeNext, retry, stream, controllerRest, Call
<1>7. BurstOwns' /\ ProbeOwns' /\ AutoOwns'
  BY <1>2, <1>3, <1>4 DEF Claims, InFlight, BurstOwns, ProbeOwns, AutoOwns, Typed, ProbeNext, retry, stream, controllerRest, Call
<1>8. Finishing'
  BY <1>2, <1>3, <1>4 DEF Claims, InFlight, Finishing, BurstRevoked, ProbeRevoked, Ends, Closing, ProbeNext, retry, stream, controllerRest, Call
<1>9. Finished'
  BY <1>2, <1>3, <1>4 DEF Claims, InFlight, Finished, BurstRevoked, ProbeRevoked, Live, QuietPlaces, Finishing, Ends, Typed, ProbeNext, retry, stream, controllerRest, Call
<1> QED BY <1>2, <1>3, <1>5, <1>6, <1>7, <1>8, <1>9 DEF RetryInv, Claims

LEMMA SentKept ==
  ASSUME RetryInv, Sent
  PROVE  RetryInv'
<1>1. todo # <<>> /\ Head(todo) = "sent"
  BY DEF Sent, At
<1>2. Shape(todo)' /\ Now' = Below
  BY <1>1, Calls DEF Sent
<1>4. /\ Typed /\ Claims /\ Now = {"sent"} \cup Below
      /\ "startBurst" \notin Below
      /\ Ends(Now) => Now \subseteq Closing
  BY <1>1, AtWork
<1>5. Typed'
  <2>1. phase' = "transmitting" /\ published' = published /\ sessions' = sessions /\ cancel' \in {cancel, TRUE}
    BY DEF Sent
  <2>2. cancel' \in BOOLEAN
    BY <1>4, <2>1 DEF Typed
  <2>3. /\ UNCHANGED <<owner, burst, attempts, probe, coolProbe, autoOn, autoActive, blocked, outcome, frame, probes,
                       console>>
        /\ UNCHANGED <<burst_active, burst_watch, probe_active, probe_next>>
    BY DEF Sent, retry, private, controllerRest
  <2> QED BY <1>4, <2>1, <2>2, <2>3 DEF Typed, Phases
<1>6. Counted' /\ InFlight'
  BY <1>2, <1>4 DEF Claims, Counted, InFlight, Typed, Sent, retry, private, controllerRest
<1>7. BurstOwns' /\ ProbeOwns' /\ AutoOwns'
  BY <1>2, <1>4 DEF Claims, InFlight, BurstOwns, ProbeOwns, AutoOwns, Typed, Sent, retry, private, controllerRest
<1>8. Finishing'
  BY <1>2, <1>4 DEF Claims, InFlight, Finishing, BurstRevoked, ProbeRevoked, Ends, Closing, Sent, retry, private, controllerRest
<1>9. Finished'
  BY <1>2, <1>4 DEF Claims, InFlight, Finished, BurstRevoked, ProbeRevoked, Live, QuietPlaces, Finishing, Ends, Typed, Sent, retry, private, controllerRest
<1> QED BY <1>2, <1>5, <1>6, <1>7, <1>8, <1>9 DEF RetryInv, Claims

LEMMA WaitingKept ==
  ASSUME RetryInv, Waiting
  PROVE  RetryInv'
<1>1. todo # <<>> /\ Head(todo) = "waiting"
  BY DEF Waiting, At
<1>2. Shape(todo)' /\ Now' = Below
  BY <1>1, Calls DEF Waiting
<1>4. /\ Typed /\ Claims /\ Now = {"waiting"} \cup Below
      /\ "startBurst" \notin Below
      /\ Ends(Now) => Now \subseteq Closing
  BY <1>1, AtWork
<1>5. Typed'
  BY <1>4 DEF Typed, Waiting, retry, private, controllerRest, Phases
<1>6. Counted' /\ InFlight'
  BY <1>2, <1>4 DEF Claims, Counted, InFlight, Typed, Waiting, retry, private, controllerRest
<1>7. BurstOwns' /\ ProbeOwns' /\ AutoOwns'
  BY <1>2, <1>4 DEF Claims, InFlight, BurstOwns, ProbeOwns, AutoOwns, Typed, Waiting, retry, private, controllerRest
<1>8. Finishing'
  BY <1>2, <1>4 DEF Claims, InFlight, Finishing, BurstRevoked, ProbeRevoked, Ends, Closing, Waiting, retry, private, controllerRest
<1>9. Finished'
  BY <1>2, <1>4 DEF Claims, InFlight, Finished, BurstRevoked, ProbeRevoked, Live, QuietPlaces, Finishing, Ends, Typed, Waiting, retry, private, controllerRest
<1> QED BY <1>2, <1>5, <1>6, <1>7, <1>8, <1>9 DEF RetryInv, Claims

LEMMA CloseKept ==
  ASSUME RetryInv, Close
  PROVE  RetryInv'
<1>1. todo # <<>> /\ Head(todo) = "close"
  BY DEF Close, At
<1>2. Shape(todo)' /\ Now' = Below
  BY <1>1, Calls DEF Close
<1>4. /\ Typed /\ Claims /\ Now = {"close"} \cup Below
      /\ "startBurst" \notin Below
      /\ Ends(Now) => Now \subseteq Closing
  BY <1>1, AtWork
<1>5. Typed'
  BY <1>4 DEF Typed, Close, private, controllerRest, Phases, Closed
<1>6. Counted' /\ InFlight'
  BY <1>2, <1>4 DEF Claims, Counted, InFlight, Typed, Close, private, controllerRest, Closed
<1>7. BurstOwns' /\ ProbeOwns' /\ AutoOwns'
  BY <1>2, <1>4 DEF Claims, InFlight, BurstOwns, ProbeOwns, AutoOwns, Typed, Close, private, controllerRest, Closed
<1>8. Finishing'
  BY <1>2, <1>4 DEF Claims, InFlight, Finishing, BurstRevoked, ProbeRevoked, Ends, Closing, Close, private, controllerRest, Closed
<1>9. Finished'
  BY <1>2, <1>4 DEF Claims, InFlight, Finished, BurstRevoked, ProbeRevoked, Live, QuietPlaces, Finishing, Ends, Typed, Close, private, controllerRest, Closed
<1> QED BY <1>2, <1>5, <1>6, <1>7, <1>8, <1>9 DEF RetryInv, Claims

LEMMA FinishProbeKept ==
  ASSUME RetryInv, FinishProbe
  PROVE  RetryInv'
<1>1. todo # <<>> /\ Head(todo) = "finishProbe"
  BY DEF FinishProbe, At
<1>2. \/ Then(<<>>)
      \/ Then(<<"probeDone">>)
  BY DEF FinishProbe, Call
<1>3. /\ Then(<<>>) => Shape(todo)' /\ Now' = Below
      /\ Then(<<"probeDone">>) => Shape(todo)' /\ Now' = {"probeDone"} \cup Below
  BY <1>1, Calls
<1>4. /\ Typed /\ Claims /\ Now = {"finishProbe"} \cup Below
      /\ "startBurst" \notin Below
      /\ Ends(Now) => Now \subseteq Closing
      /\ "free" \in Below
  BY <1>1, AtWork DEF Owes
<1>5. Typed'
  BY <1>4 DEF Typed, FinishProbe, stream, private, controllerRest, Outcomes
<1>6. Counted' /\ InFlight'
  BY <1>2, <1>3, <1>4 DEF Claims, Counted, InFlight, Typed, FinishProbe, stream, private, controllerRest, Call
<1>7. BurstOwns' /\ ProbeOwns' /\ AutoOwns'
  BY <1>2, <1>3, <1>4 DEF Claims, InFlight, BurstOwns, ProbeOwns, AutoOwns, Typed, FinishProbe, stream, private, controllerRest, Call
<1>8. Finishing'
  BY <1>2, <1>3, <1>4 DEF Claims, InFlight, Finishing, BurstRevoked, ProbeRevoked, Ends, Closing, FinishProbe, stream, private, controllerRest, Call
<1>9. Finished'
  BY <1>2, <1>3, <1>4 DEF Claims, InFlight, Finished, BurstRevoked, ProbeRevoked, Live, QuietPlaces, Finishing, Ends, Typed, FinishProbe, stream, private, controllerRest, Call
<1> QED BY <1>2, <1>3, <1>5, <1>6, <1>7, <1>8, <1>9 DEF RetryInv, Claims

LEMMA FinishBurstKept ==
  ASSUME RetryInv, FinishBurst
  PROVE  RetryInv'
<1>1. todo # <<>> /\ Head(todo) = "finishBurst"
  BY DEF FinishBurst, At
<1>2. \/ Then(<<>>)
      \/ Then(<<"burstDone">>)
  BY DEF FinishBurst, Call
<1>3. /\ Then(<<>>) => Shape(todo)' /\ Now' = Below
      /\ Then(<<"burstDone">>) => Shape(todo)' /\ Now' = {"burstDone"} \cup Below
  BY <1>1, Calls
<1>4. /\ Typed /\ Claims /\ Now = {"finishBurst"} \cup Below
      /\ "startBurst" \notin Below
      /\ Ends(Now) => Now \subseteq Closing
      /\ "free" \in Below
  BY <1>1, AtWork DEF Owes
<1>5. Typed'
  BY <1>4 DEF Typed, FinishBurst, retry, stream, controllerRest
<1>6. Counted' /\ InFlight'
  BY <1>2, <1>3, <1>4 DEF Claims, Counted, InFlight, Typed, FinishBurst, retry, stream, controllerRest, Call
<1>7. BurstOwns' /\ ProbeOwns' /\ AutoOwns'
  BY <1>2, <1>3, <1>4 DEF Claims, InFlight, BurstOwns, ProbeOwns, AutoOwns, Typed, FinishBurst, retry, stream, controllerRest, Call
<1>8. Finishing'
  BY <1>2, <1>3, <1>4, Owed DEF Claims, InFlight, Finishing, BurstRevoked, ProbeRevoked, Ends, Closing, RetryInv, FinishBurst, retry, stream, controllerRest, Call
<1>9. Finished'
  BY <1>2, <1>3, <1>4 DEF Claims, InFlight, Finished, BurstRevoked, ProbeRevoked, Live, QuietPlaces, Finishing, Ends, Typed, FinishBurst, retry, stream, controllerRest, Call
<1> QED BY <1>2, <1>3, <1>5, <1>6, <1>7, <1>8, <1>9 DEF RetryInv, Claims

LEMMA FinishAutoKept ==
  ASSUME RetryInv, FinishAuto
  PROVE  RetryInv'
<1>1. todo # <<>> /\ Head(todo) = "finishAuto"
  BY DEF FinishAuto, At
<1>2. Shape(todo)' /\ Now' = Below
  BY <1>1, Calls DEF FinishAuto
<1>4. /\ Typed /\ Claims /\ Now = {"finishAuto"} \cup Below
      /\ "startBurst" \notin Below
      /\ Ends(Now) => Now \subseteq Closing
      /\ "free" \in Below
  BY <1>1, AtWork DEF Owes
<1>5. Typed'
  BY <1>4 DEF Typed, FinishAuto, stream, private, controllerRest
<1>6. Counted' /\ InFlight'
  BY <1>2, <1>4 DEF Claims, Counted, InFlight, Typed, FinishAuto, stream, private, controllerRest
<1>7. BurstOwns' /\ ProbeOwns' /\ AutoOwns'
  BY <1>2, <1>4 DEF Claims, InFlight, BurstOwns, ProbeOwns, AutoOwns, Typed, FinishAuto, stream, private, controllerRest
<1>8. Finishing'
  BY <1>2, <1>4 DEF Claims, InFlight, Finishing, BurstRevoked, ProbeRevoked, Ends, Closing, FinishAuto, stream, private, controllerRest
<1>9. Finished'
  BY <1>2, <1>4 DEF Claims, InFlight, Finished, BurstRevoked, ProbeRevoked, Live, QuietPlaces, Finishing, Ends, Typed, FinishAuto, stream, private, controllerRest
<1> QED BY <1>2, <1>5, <1>6, <1>7, <1>8, <1>9 DEF RetryInv, Claims

\* The places that stand alone.
LEMMA CallsAlone ==
  ASSUME RetryInv, todo # <<>>, Head(todo) \in Alone, NEW s, Then(s), Fits(s, Head(todo))
  PROVE  /\ Shape(todo)' /\ Now' = Pending(s) /\ Now = {Head(todo)} /\ Typed /\ Claims
         /\ ~Live => Head(todo) \in QuietPlaces
<1>1. Head(todo) \in Lowest
  BY DEF Alone, Lowest
<1>2. Below = {} /\ Now = {Head(todo)} \cup Below /\ Typed /\ Claims
  BY <1>1, AtWork
<1>3. Shape(todo)' /\ Now' = Pending(s) \cup Below
  BY Pushed DEF RetryInv, Then, Below
<1>4. ~Live => Head(todo) \in QuietPlaces
  BY <1>2 DEF Claims, Finished
<1> QED BY <1>2, <1>3, <1>4

\* What none of them touches, and what is claimed when the list is one of theirs.
Kept == UNCHANGED <<owner, burst, attempts, probe, coolProbe, autoActive, burst_active, burst_watch,
                    probe_active, probe_next, probes, console, published, phase>>
FinishPlaces == {"close", "finishProbe", "finishBurst", "end", "endOwner", "finishAuto", "free"}

LEMMA AloneKeeps ==
  ASSUME Typed, Claims, NEW p \in Alone, Now = {p}, Kept, "startBurst" \notin Now',
         "probeEnd" \notin Now',
         Ends(Now') => FinishPlaces \subseteq Now', Live \/ Now' = {}
  PROVE  Claims'
<1>1. Counted' /\ InFlight'
  BY DEF Claims, Counted, InFlight, Kept, Alone
<1>2. BurstOwns' /\ ProbeOwns' /\ AutoOwns'
  BY DEF Claims, BurstOwns, ProbeOwns, AutoOwns, Kept, Alone
<1>3. Finishing'
  BY DEF Finishing, FinishPlaces
<1>4. Finished'
  BY DEF Claims, Finished, Live, Kept, BurstRevoked, ProbeRevoked
<1> QED BY <1>1, <1>2, <1>3, <1>4 DEF Claims

LEMMA NothingKept ==
  ASSUME RetryInv, CollectNothing
  PROVE  RetryInv'
<1>1. todo # <<>> /\ Head(todo) = "collect" /\ "collect" \in Alone /\ Kept
  BY DEF CollectNothing, At, Alone, Kept, retry, stream, private, controllerRest
<1>2. CASE Then(Finish \o <<"over">>) /\ phase = "wait"
  <2>1. /\ Fits(Finish \o <<"over">>, "collect")
        /\ Pending(Finish \o <<"over">>) = {"close", "finishProbe", "finishBurst", "end", "endOwner",
                                            "finishAuto", "free", "over"}
    BY <1>1, Lists, FinishFits
  <2>2. Shape(todo)' /\ Now = {"collect"} /\ Typed /\ Claims /\ Now' = Pending(Finish \o <<"over">>)
    BY <1>1, <1>2, <2>1, CallsAlone
  <2>3. Claims'
    BY <1>1, <1>2, <2>1, <2>2, AloneKeeps DEF FinishPlaces, Live
  <2> QED BY <1>1, <2>2, <2>3 DEF RetryInv, Typed, CollectNothing, retry, stream, private, controllerRest
<1>3. CASE Then(<<"choose">>) /\ phase = "wait"
  <2>1. Fits(<<"choose">>, "collect") /\ Pending(<<"choose">>) = {"choose"}
    BY <1>1, ChooseFits
  <2>2. Shape(todo)' /\ Now = {"collect"} /\ Typed /\ Claims /\ Now' = {"choose"}
    BY <1>1, <1>3, <2>1, CallsAlone
  <2>3. Claims'
    BY <1>1, <1>3, <2>2, AloneKeeps DEF Ends, Live
  <2> QED BY <1>1, <2>2, <2>3 DEF RetryInv, Typed, CollectNothing, retry, stream, private, controllerRest
<1>4. CASE Then(<<>>)
  <2>1. Shape(todo)' /\ Now = {"collect"} /\ Typed /\ Claims /\ Now' = {}
    BY <1>1, <1>4, NoneFits, CallsAlone
  <2>2. Claims'
    BY <1>1, <2>1, AloneKeeps DEF Ends
  <2> QED BY <1>1, <2>1, <2>2 DEF RetryInv, Typed, CollectNothing, retry, stream, private, controllerRest
<1> QED BY <1>2, <1>3, <1>4 DEF CollectNothing, Call

\* A place that stands alone puts s in its place and leaves what is claimed alone.
Puts(s) ==
    /\ Then(s) /\ \A p \in Alone : Fits(s, p)
    /\ Pending(s) \cap {"startBurst", "probeEnd"} = {}
    /\ Ends(Pending(s)) => FinishPlaces \subseteq Pending(s)

LEMMA AlonePuts ==
  ASSUME RetryInv, todo # <<>>, Head(todo) \in {"after", "choose", "submit"} \/ (Head(todo) = "collect" /\ Live),
         Kept, NEW s, Puts(s)
  PROVE  Shape(todo)' /\ Typed /\ Claims'
<1>1. Head(todo) \in Alone
  BY DEF Alone
<1>2. Fits(s, Head(todo)) /\ Then(s)
  BY <1>1 DEF Puts
<1>3. /\ Shape(todo)' /\ Now' = Pending(s) /\ Now = {Head(todo)} /\ Typed /\ Claims
      /\ ~Live => Head(todo) \in QuietPlaces
  BY <1>1, <1>2, CallsAlone
<1>4. Live
  BY <1>3 DEF QuietPlaces
<1>5. "startBurst" \notin Now' /\ "probeEnd" \notin Now' /\ (Ends(Now') => FinishPlaces \subseteq Now')
  BY <1>3 DEF Puts
<1>6. Claims'
  BY <1>1, <1>3, <1>4, <1>5, AloneKeeps
<1> QED BY <1>3, <1>6

LEMMA FinishPuts ==
  ASSUME NEW last \in {"over", "faulted"}, Then(Finish \o <<last>>)
  PROVE  \E s : Puts(s)
<1> DEFINE s == <<"close", "finishProbe", "finishBurst", "end", "endOwner", "finishAuto", "free", last>>
<1>1. /\ \A p \in Alone : Fits(s, p)
      /\ Pending(s) = {"close", "finishProbe", "finishBurst", "end", "endOwner", "finishAuto", "free", last}
  BY FinishFits
<1>2. Then(s)
  BY Lists
<1> HIDE DEF s
<1>3. Puts(s)
  BY <1>1, <1>2 DEF Puts, FinishPlaces
<1> QED BY <1>3

LEMMA CollectedKept ==
  ASSUME RetryInv, Collected
  PROVE  RetryInv'
<1>1. todo # <<>> /\ Head(todo) = "collect" /\ Live /\ Kept
  BY DEF Collected, At, Live, Kept, retry, stream, private, controllerRest
<1>2. Puts(<<"burstDone", "probeDone", "after">>)
  BY CollectedFits DEF Puts, Collected, Ends
<1>3. Shape(todo)' /\ Typed /\ Claims'
  BY <1>1, <1>2, AlonePuts
<1>4. Typed'
  BY <1>3 DEF Typed, Outcomes, Collected, retry, stream, private, controllerRest
<1> QED BY <1>3, <1>4 DEF RetryInv

LEMMA AfterKept ==
  ASSUME RetryInv, After
  PROVE  RetryInv'
<1>1. todo # <<>> /\ Head(todo) = "after" /\ Kept
  BY DEF After, At, Kept, retry, stream, private, controllerRest
<1>2. \E s : Puts(s)
  <2>1. CASE \E last \in {"over", "faulted"} : Then(Finish \o <<last>>)
    BY <2>1, FinishPuts
  <2>2. CASE \E skipped \in BOOLEAN : Then((IF skipped THEN <<"skip">> ELSE <<>>) \o <<"report", "choose">>)
    <3>1. CASE Then(<<"skip">> \o <<"report", "choose">>)
      <4>1. Then(<<"skip", "report", "choose">>)
        BY <3>1, Lists
      <4>2. Puts(<<"skip", "report", "choose">>)
        BY <4>1, SkipReportFits DEF Puts, Ends
      <4> QED BY <4>2
    <3>2. CASE Then(<<>> \o <<"report", "choose">>)
      <4>1. Then(<<"report", "choose">>)
        BY <3>2, Lists
      <4>2. Puts(<<"report", "choose">>)
        BY <4>1, ReportFits DEF Puts, Ends
      <4> QED BY <4>2
    <3> QED BY <2>2, <3>1, <3>2
  <2> QED BY <2>1, <2>2 DEF After
<1>3. Shape(todo)' /\ Typed /\ Claims'
  BY <1>1, <1>2, AlonePuts
<1>4. Typed'
  BY <1>3 DEF Typed, After, retry, stream, private, controllerRest
<1> QED BY <1>3, <1>4 DEF RetryInv

LEMMA ChooseKept ==
  ASSUME RetryInv, Choose
  PROVE  RetryInv'
<1>1. todo # <<>> /\ Head(todo) = "choose" /\ Kept
  BY DEF Choose, At, Kept, retry, stream, private, controllerRest
<1>2. \E s : Puts(s)
  <2>1. CASE Then(Finish \o <<"over">>)
    BY <2>1, FinishPuts
  <2>2. CASE Then(<<"skip", "choose">>)
    <3>1. Puts(<<"skip", "choose">>)
      BY <2>2, SkipChooseFits DEF Puts, Ends
    <3> QED BY <3>1
  <2>3. CASE Then(<<"takeProbe">> \o Tick \o <<"takeBurst", "takeAuto", "submit">>)
    <3>1. Then(<<"takeProbe", "tickOwner", "tickTime", "takeBurst", "takeAuto", "submit">>)
      BY <2>3, Lists
    <3>2. Puts(<<"takeProbe", "tickOwner", "tickTime", "takeBurst", "takeAuto", "submit">>)
      BY <3>1, TakeFits DEF Puts, Ends
    <3> QED BY <3>2
  <2> QED BY <2>1, <2>2, <2>3 DEF Choose
<1>3. Shape(todo)' /\ Typed /\ Claims'
  BY <1>1, <1>2, AlonePuts
<1>4. Typed'
  BY <1>3 DEF Typed, Choose, retry, stream, private, controllerRest
<1> QED BY <1>3, <1>4 DEF RetryInv

LEMMA SubmitKept ==
  ASSUME RetryInv, Submit
  PROVE  RetryInv'
<1>1. todo # <<>> /\ Head(todo) = "submit" /\ Kept
  BY DEF Submit, At, Kept, retry, stream, private, controllerRest
<1>2. \E s : Puts(s)
  <2>1. CASE Then(Finish \o <<"over">>)
    BY <2>1, FinishPuts
  <2>2. CASE Then(<<"submitted", "submittedEnd", "probeNext", "sent">>)
    <3>1. Puts(<<"submitted", "submittedEnd", "probeNext", "sent">>)
      BY <2>2, SubmittedFits DEF Puts, Ends
    <3> QED BY <3>1
  <2>3. CASE Then(<<"burstDone", "submitted", "submittedEnd", "probeNext", "sent">>)
    <3>1. Puts(<<"burstDone", "submitted", "submittedEnd", "probeNext", "sent">>)
      BY <2>3, FallbackFits DEF Puts, Ends
    <3> QED BY <3>1
  <2>4. CASE Then(Failed \o <<"skip", "waiting">>)
    <3>1. Then(<<"burstDone", "probeDone", "skip", "waiting">>)
      BY <2>4, Lists
    <3>2. Puts(<<"burstDone", "probeDone", "skip", "waiting">>)
      BY <3>1, WaitingFits DEF Puts, Ends
    <3> QED BY <3>2
  <2>5. CASE Then(Failed \o Finish \o <<"over">>)
    <3> DEFINE s == <<"burstDone", "probeDone", "close", "finishProbe", "finishBurst", "end", "endOwner",
                      "finishAuto", "free", "over">>
    <3>1. Then(s)
      BY <2>5, Lists
    <3>2. /\ \A p \in Alone : Fits(s, p)
          /\ Pending(s) = {"burstDone", "probeDone", "close", "finishProbe", "finishBurst", "end", "endOwner",
                           "finishAuto", "free", "over"}
      BY RefusedFits
    <3> HIDE DEF s
    <3>3. Puts(s)
      BY <3>1, <3>2 DEF Puts, FinishPlaces
    <3> QED BY <3>3
  <2> QED BY <2>1, <2>2, <2>3, <2>4, <2>5 DEF Submit
<1>3. Shape(todo)' /\ Typed /\ Claims'
  BY <1>1, <1>2, AlonePuts
<1>4. Typed'
  BY <1>3 DEF Typed, Outcomes, Submit, retry, stream, private, controllerRest
<1> QED BY <1>3, <1>4 DEF RetryInv

LEMMA OverKept ==
  ASSUME RetryInv, Over
  PROVE  RetryInv'
<1>1. todo # <<>> /\ Head(todo) \in {"over", "faulted"} /\ Then(<<>>)
  BY DEF Over, At
<1>2. /\ Typed /\ Claims /\ Now = {Head(todo)} /\ Below = {}
  BY <1>1, AtWork DEF Lowest
<1>3. Shape(todo)' /\ Now' = {}
  BY <1>1, <1>2, Calls
<1>4. phase' \in {"over", "fault"} /\ published' = phase'
  BY DEF Over
<1>5. /\ published = "over" /\ outcome = "none" /\ ProbeRevoked /\ BurstRevoked
      /\ ~probe_active /\ ~probe_next /\ ~burst_active /\ ~burst_watch /\ ~autoActive
  BY <1>1, <1>2 DEF Claims, Finishing, Ends
<1>6. Typed'
  BY <1>2, <1>4 DEF Typed, Phases, Over, retry, private, controllerRest
<1>7. Counted' /\ InFlight'
  BY <1>2, <1>3, <1>1 DEF Claims, Counted, InFlight, Over, retry, private, controllerRest
<1>8. BurstOwns' /\ ProbeOwns' /\ AutoOwns'
  BY <1>1, <1>2, <1>3 DEF Claims, BurstOwns, ProbeOwns, AutoOwns, Over, retry, private, controllerRest
<1>9. Finishing'
  BY <1>3 DEF Finishing, Ends
<1>10. Finished'
  BY <1>3, <1>4, <1>5 DEF Finished, Live, BurstRevoked, ProbeRevoked, Over, retry, private, controllerRest
<1> QED BY <1>3, <1>6, <1>7, <1>8, <1>9, <1>10 DEF RetryInv, Claims

\* Between the commands of the controller.
LEMMA Idle == ASSUME todo = <<>> PROVE Now = {}
BY NoneFits DEF Now

\* A command puts its places into an empty list.
LEMMA Begun ==
  ASSUME RetryInv, todo = <<>>, NEW s, todo' = s, \A p \in Alone : Fits(s, p), Pending(s) \subseteq QuietPlaces,
         UNCHANGED <<retry, stream, private, outcome, frame, probes, controllerRest>>
  PROVE  RetryInv'
<1>1. Shape(s)
  <2>1. Fits(s, "collect") /\ Height("collect") = 11
    BY DEF Alone, Height, Lowest
  <2> QED BY <2>1 DEF Fits, Shape
<1>2. Now = {} /\ Now' \subseteq QuietPlaces
  BY Idle DEF Now
<1>3. /\ "startBurst" \notin Now' /\ "probeEnd" \notin Now' /\ ~Ends(Now')
  BY <1>2 DEF QuietPlaces, Ends
<1>4. Typed'
  BY DEF RetryInv, Typed, retry, stream, private, controllerRest
<1>5. Counted' /\ InFlight'
  BY <1>2, <1>3 DEF RetryInv, Claims, Counted, InFlight, retry, private, controllerRest
<1>6. BurstOwns' /\ ProbeOwns' /\ AutoOwns'
  BY <1>2, <1>3 DEF RetryInv, Claims, BurstOwns, ProbeOwns, AutoOwns, retry, private, controllerRest
<1>7. Finishing' /\ Finished'
  BY <1>2, <1>3 DEF RetryInv, Claims, Finishing, Finished, Live, BurstRevoked, ProbeRevoked, retry, stream, private,
     controllerRest
<1> QED BY <1>1, <1>4, <1>5, <1>6, <1>7 DEF RetryInv, Claims

LEMMA StepKept ==
  ASSUME RetryInv, Step
  PROVE  RetryInv'
<1>1. todo' = <<"tickOwner", "tickTime", "collect">>
  BY Lists DEF Step
<1>2. Pending(<<"tickOwner", "tickTime", "collect">>) \subseteq QuietPlaces
  BY StepFits DEF QuietPlaces
<1> QED BY <1>1, <1>2, StepFits, Begun DEF Step

LEMMA TrialCancelKept ==
  ASSUME RetryInv, TrialCancel
  PROVE  RetryInv'
<1>1. todo' = <<"end", "endOwner", "cancelling", "tickOwner", "tickTime", "collect">>
  BY Lists DEF TrialCancel
<1>2. Pending(<<"end", "endOwner", "cancelling", "tickOwner", "tickTime", "collect">>) \subseteq QuietPlaces
  BY CancelFits DEF QuietPlaces
<1> QED BY <1>1, <1>2, CancelFits, Begun DEF TrialCancel

LEMMA TrialStartKept ==
  ASSUME RetryInv, TrialStart
  PROVE  RetryInv'
<1> USE DEF TrialStart, retry, private, controllerRest
<1>1. Now = {} /\ Now' = {}
  BY Idle DEF Now
<1>2. Shape(todo)'
  BY DEF RetryInv
<1>3. Typed'
  <2>1. sessions' \in 0..MaxSessions
    <3>1. sessions \in 0..MaxSessions /\ sessions < MaxSessions /\ sessions' = sessions + 1
      BY DEF RetryInv, Typed
    <3> QED BY <3>1, SessionsAssumption
  <2>2. Typed /\ phase' = "wait" /\ published' = "wait" /\ cancel' = FALSE
    BY DEF RetryInv
  <2> QED BY <2>1, <2>2 DEF Typed, Phases
<1>4. Counted' /\ InFlight' /\ BurstOwns' /\ ProbeOwns' /\ AutoOwns'
  BY <1>1 DEF RetryInv, Claims, Counted, InFlight, BurstOwns, ProbeOwns, AutoOwns
<1>5. Finishing' /\ Finished'
  BY <1>1 DEF Finishing, Finished, Live, Ends
<1> QED BY <1>2, <1>3, <1>4, <1>5 DEF RetryInv, Claims

LEMMA TrialRearmKept ==
  ASSUME RetryInv, TrialRearm
  PROVE  RetryInv'
<1> USE DEF TrialRearm, private, controllerRest
<1>1. Now = {} /\ Now' = {}
  BY Idle DEF Now
<1>2. Shape(todo)'
  BY DEF RetryInv
<1>3. Typed'
  BY DEF RetryInv, Typed, Phases
<1>4. Counted' /\ InFlight' /\ BurstOwns' /\ ProbeOwns'
  BY <1>1 DEF RetryInv, Claims, Counted, InFlight, BurstOwns, ProbeOwns
<1>5. Finished /\ ~autoActive
  BY DEF RetryInv, Claims, Finished
<1>6. AutoOwns'
  BY <1>1, <1>5 DEF RetryInv, Claims, AutoOwns
<1>7. Finishing'
  BY <1>1 DEF Finishing, Ends
<1>8. Finished'
  BY <1>1, <1>5 DEF Finished, Live, BurstRevoked, ProbeRevoked
<1> QED BY <1>2, <1>3, <1>4, <1>6, <1>7, <1>8 DEF RetryInv, Claims

------------------------------------------------------------------------------
(***************************************************************************)
(* The console's steps leave the list alone.  A second look at the stream  *)
(* that finds it transmitting comes before what finish does.               *)
(***************************************************************************)
Looked == published = "transmitting" /\ Ends(Now) => "finishProbe" \in Now /\ "end" \in Now

LEMMA LooksFirst == ASSUME RetryInv PROVE Looked
<1>1. Shape(todo) /\ Finishing
  BY DEF RetryInv, Claims
<1> QED BY <1>1, Owed DEF Finishing, Looked

LEMMA ConsoleKept ==
  ASSUME RetryInv, ConsoleCommand \/ ConsoleStep
  PROVE  RetryInv'
<1> USE DEF consoleRest, stream, private
<1>1. Typed /\ Claims /\ Looked
  BY LooksFirst DEF RetryInv
<1>2. todo' = todo
  BY DEF ConsoleCommand, ArmBurst, ArmProbe, ArmCooldown, EnableAuto, ConsoleStep, BurstOwner, BurstState,
     BurstCheck, BurstClose, GiveUp, ProbeOwner, ProbeState, ProbeCheck, ProbeClose, CooldownState, CooldownCheck
<1>3. Shape(todo)' /\ Now' = Now
  BY <1>2 DEF RetryInv, Now
<1> DEFINE Good == Typed' /\ Counted' /\ InFlight' /\ BurstOwns' /\ ProbeOwns' /\ AutoOwns' /\ Finishing' /\ Finished'
<1>4. Good
  <2>1. CASE ArmBurst
    <3> USE <2>1 DEF ArmBurst, Transmitting
    <3>1. Typed'
      BY <1>1 DEF Typed, ConsolePlaces
    <3>2. Counted' /\ InFlight'
      BY <1>1, <1>3 DEF Claims, Counted, InFlight
    <3>3. BurstOwns' /\ ProbeOwns' /\ AutoOwns'
      BY <1>1, <1>3 DEF Claims, InFlight, BurstOwns, ProbeOwns, AutoOwns, Typed
    <3>4. Finishing'
      BY <1>1, <1>3 DEF Claims, Finishing, BurstRevoked, ProbeRevoked, Looked
    <3>5. Finished'
      BY <1>1, <1>3 DEF Claims, Finished, Live, BurstRevoked, ProbeRevoked
    <3> QED BY <3>1, <3>2, <3>3, <3>4, <3>5
  <2>2. CASE ArmProbe
    <3> USE <2>2 DEF ArmProbe, Transmitting
    <3>1. Typed'
      BY <1>1 DEF Typed, ConsolePlaces
    <3>2. Counted' /\ InFlight'
      BY <1>1, <1>3 DEF Claims, Counted, InFlight
    <3>3. BurstOwns' /\ ProbeOwns' /\ AutoOwns'
      BY <1>1, <1>3 DEF Claims, InFlight, BurstOwns, ProbeOwns, AutoOwns, Typed
    <3>4. Finishing'
      BY <1>1, <1>3 DEF Claims, Finishing, BurstRevoked, ProbeRevoked, Looked
    <3>5. Finished'
      BY <1>1, <1>3 DEF Claims, Finished, Live, BurstRevoked, ProbeRevoked
    <3> QED BY <3>1, <3>2, <3>3, <3>4, <3>5
  <2>3. CASE ArmCooldown
    <3> USE <2>3 DEF ArmCooldown, AutomaticOwns
    <3>1. Typed'
      BY <1>1 DEF Typed, ConsolePlaces
    <3>2. Counted' /\ InFlight'
      BY <1>1, <1>3 DEF Claims, Counted, InFlight
    <3>3. BurstOwns' /\ ProbeOwns' /\ AutoOwns'
      BY <1>1, <1>3 DEF Claims, InFlight, BurstOwns, ProbeOwns, AutoOwns, Typed
    <3>4. Finishing'
      BY <1>1, <1>3 DEF Claims, Finishing, BurstRevoked, ProbeRevoked, Looked
    <3>5. Finished'
      BY <1>1, <1>3 DEF Claims, Finished, Live, BurstRevoked, ProbeRevoked
    <3> QED BY <3>1, <3>2, <3>3, <3>4, <3>5
  <2>4. CASE EnableAuto
    <3> USE <2>4 DEF EnableAuto
    <3>1. Typed'
      BY <1>1 DEF Typed, ConsolePlaces
    <3>2. Counted' /\ InFlight'
      BY <1>1, <1>3 DEF Claims, Counted, InFlight
    <3>3. BurstOwns' /\ ProbeOwns' /\ AutoOwns'
      BY <1>1, <1>3 DEF Claims, InFlight, BurstOwns, ProbeOwns, AutoOwns, Typed
    <3>4. Finishing'
      BY <1>1, <1>3 DEF Claims, Finishing, BurstRevoked, ProbeRevoked, Looked
    <3>5. Finished'
      BY <1>1, <1>3 DEF Claims, Finished, Live, BurstRevoked, ProbeRevoked
    <3> QED BY <3>1, <3>2, <3>3, <3>4, <3>5
  <2>5. CASE BurstOwner
    <3> USE <2>5 DEF BurstOwner
    <3>1. Typed'
      BY <1>1 DEF Typed, ConsolePlaces
    <3>2. Counted' /\ InFlight'
      BY <1>1, <1>3 DEF Claims, Counted, InFlight
    <3>3. BurstOwns' /\ ProbeOwns' /\ AutoOwns'
      BY <1>1, <1>3 DEF Claims, InFlight, BurstOwns, ProbeOwns, AutoOwns, Typed
    <3>4. Finishing'
      BY <1>1, <1>3 DEF Claims, Finishing, BurstRevoked, ProbeRevoked, Looked
    <3>5. Finished'
      BY <1>1, <1>3 DEF Claims, Finished, Live, BurstRevoked, ProbeRevoked
    <3> QED BY <3>1, <3>2, <3>3, <3>4, <3>5
  <2>6. CASE BurstState
    <3> USE <2>6 DEF BurstState
    <3>1. Typed'
      BY <1>1 DEF Typed, ConsolePlaces
    <3>2. Counted' /\ InFlight'
      BY <1>1, <1>3 DEF Claims, Counted, InFlight
    <3>3. BurstOwns' /\ ProbeOwns' /\ AutoOwns'
      BY <1>1, <1>3 DEF Claims, InFlight, BurstOwns, ProbeOwns, AutoOwns, Typed
    <3>4. Finishing'
      BY <1>1, <1>3 DEF Claims, Finishing, BurstRevoked, ProbeRevoked, Looked
    <3>5. Finished'
      BY <1>1, <1>3 DEF Claims, Finished, Live, BurstRevoked, ProbeRevoked
    <3> QED BY <3>1, <3>2, <3>3, <3>4, <3>5
  <2>7. CASE BurstCheck
    <3> USE <2>7 DEF BurstCheck, StillTransmitting, Transmitting
    <3>1. Typed'
      BY <1>1 DEF Typed, ConsolePlaces
    <3>2. Counted' /\ InFlight'
      BY <1>1, <1>3 DEF Claims, Counted, InFlight
    <3>3. BurstOwns' /\ ProbeOwns' /\ AutoOwns'
      BY <1>1, <1>3 DEF Claims, InFlight, BurstOwns, ProbeOwns, AutoOwns, Typed
    <3>4. Finishing'
      BY <1>1, <1>3 DEF Claims, Finishing, BurstRevoked, ProbeRevoked, Looked
    <3>5. Finished'
      BY <1>1, <1>3 DEF Claims, Finished, Live, BurstRevoked, ProbeRevoked
    <3> QED BY <3>1, <3>2, <3>3, <3>4, <3>5
  <2>8. CASE BurstClose
    <3> USE <2>8 DEF BurstClose
    <3>1. Typed'
      BY <1>1 DEF Typed, ConsolePlaces
    <3>2. Counted' /\ InFlight'
      BY <1>1, <1>3 DEF Claims, Counted, InFlight
    <3>3. BurstOwns' /\ ProbeOwns' /\ AutoOwns'
      BY <1>1, <1>3 DEF Claims, InFlight, BurstOwns, ProbeOwns, AutoOwns, Typed
    <3>4. Finishing'
      BY <1>1, <1>3 DEF Claims, Finishing, BurstRevoked, ProbeRevoked, Looked
    <3>5. Finished'
      BY <1>1, <1>3 DEF Claims, Finished, Live, BurstRevoked, ProbeRevoked
    <3> QED BY <3>1, <3>2, <3>3, <3>4, <3>5
  <2>9. CASE GiveUp
    <3> USE <2>9 DEF GiveUp
    <3>1. Typed'
      BY <1>1 DEF Typed, ConsolePlaces
    <3>2. Counted' /\ InFlight'
      BY <1>1, <1>3 DEF Claims, Counted, InFlight
    <3>3. BurstOwns' /\ ProbeOwns' /\ AutoOwns'
      BY <1>1, <1>3 DEF Claims, InFlight, BurstOwns, ProbeOwns, AutoOwns, Typed
    <3>4. Finishing'
      BY <1>1, <1>3 DEF Claims, Finishing, BurstRevoked, ProbeRevoked, Looked
    <3>5. Finished'
      BY <1>1, <1>3 DEF Claims, Finished, Live, BurstRevoked, ProbeRevoked
    <3> QED BY <3>1, <3>2, <3>3, <3>4, <3>5
  <2>10. CASE ProbeOwner
    <3> USE <2>10 DEF ProbeOwner
    <3>1. Typed'
      BY <1>1 DEF Typed, ConsolePlaces
    <3>2. Counted' /\ InFlight'
      BY <1>1, <1>3 DEF Claims, Counted, InFlight
    <3>3. BurstOwns' /\ ProbeOwns' /\ AutoOwns'
      BY <1>1, <1>3 DEF Claims, InFlight, BurstOwns, ProbeOwns, AutoOwns, Typed
    <3>4. Finishing'
      BY <1>1, <1>3 DEF Claims, Finishing, BurstRevoked, ProbeRevoked, Looked
    <3>5. Finished'
      BY <1>1, <1>3 DEF Claims, Finished, Live, BurstRevoked, ProbeRevoked
    <3> QED BY <3>1, <3>2, <3>3, <3>4, <3>5
  <2>11. CASE ProbeState
    <3> USE <2>11 DEF ProbeState, ProbeFree
    <3>1. Typed'
      BY <1>1 DEF Typed, ConsolePlaces
    <3>2. Counted' /\ InFlight'
      BY <1>1, <1>3 DEF Claims, Counted, InFlight
    <3>3. BurstOwns' /\ ProbeOwns' /\ AutoOwns'
      BY <1>1, <1>3 DEF Claims, InFlight, BurstOwns, ProbeOwns, AutoOwns, Typed
    <3>4. Finishing'
      BY <1>1, <1>3 DEF Claims, Finishing, BurstRevoked, ProbeRevoked, Looked
    <3>5. Finished'
      BY <1>1, <1>3 DEF Claims, Finished, Live, BurstRevoked, ProbeRevoked
    <3> QED BY <3>1, <3>2, <3>3, <3>4, <3>5
  <2>12. CASE ProbeCheck
    <3> USE <2>12 DEF ProbeCheck, StillTransmitting, Transmitting
    <3>1. Typed'
      BY <1>1 DEF Typed, ConsolePlaces
    <3>2. Counted' /\ InFlight'
      BY <1>1, <1>3 DEF Claims, Counted, InFlight
    <3>3. BurstOwns' /\ ProbeOwns' /\ AutoOwns'
      BY <1>1, <1>3 DEF Claims, InFlight, BurstOwns, ProbeOwns, AutoOwns, Typed
    <3>4. Finishing'
      BY <1>1, <1>3 DEF Claims, Finishing, BurstRevoked, ProbeRevoked, Looked
    <3>5. Finished'
      BY <1>1, <1>3 DEF Claims, Finished, Live, BurstRevoked, ProbeRevoked
    <3> QED BY <3>1, <3>2, <3>3, <3>4, <3>5
  <2>13. CASE ProbeClose
    <3> USE <2>13 DEF ProbeClose
    <3>1. Typed'
      BY <1>1 DEF Typed, ConsolePlaces
    <3>2. Counted' /\ InFlight'
      BY <1>1, <1>3 DEF Claims, Counted, InFlight
    <3>3. BurstOwns' /\ ProbeOwns' /\ AutoOwns'
      BY <1>1, <1>3 DEF Claims, InFlight, BurstOwns, ProbeOwns, AutoOwns, Typed
    <3>4. Finishing'
      BY <1>1, <1>3 DEF Claims, Finishing, BurstRevoked, ProbeRevoked, Looked
    <3>5. Finished'
      BY <1>1, <1>3 DEF Claims, Finished, Live, BurstRevoked, ProbeRevoked
    <3> QED BY <3>1, <3>2, <3>3, <3>4, <3>5
  <2>14. CASE CooldownState
    <3> USE <2>14 DEF CooldownState
    <3>1. Typed'
      BY <1>1 DEF Typed, ConsolePlaces
    <3>2. Counted' /\ InFlight'
      BY <1>1, <1>3 DEF Claims, Counted, InFlight
    <3>3. BurstOwns' /\ ProbeOwns' /\ AutoOwns'
      BY <1>1, <1>3 DEF Claims, InFlight, BurstOwns, ProbeOwns, AutoOwns, Typed
    <3>4. Finishing'
      BY <1>1, <1>3 DEF Claims, Finishing, BurstRevoked, ProbeRevoked, Looked
    <3>5. Finished'
      BY <1>1, <1>3 DEF Claims, Finished, Live, BurstRevoked, ProbeRevoked
    <3> QED BY <3>1, <3>2, <3>3, <3>4, <3>5
  <2>15. CASE CooldownCheck
    <3> USE <2>15 DEF CooldownCheck, AutomaticOwns
    <3>1. Typed'
      BY <1>1 DEF Typed, ConsolePlaces
    <3>2. Counted' /\ InFlight'
      BY <1>1, <1>3 DEF Claims, Counted, InFlight
    <3>3. BurstOwns' /\ ProbeOwns' /\ AutoOwns'
      BY <1>1, <1>3 DEF Claims, InFlight, BurstOwns, ProbeOwns, AutoOwns, Typed
    <3>4. Finishing'
      BY <1>1, <1>3 DEF Claims, Finishing, BurstRevoked, ProbeRevoked, Looked
    <3>5. Finished'
      BY <1>1, <1>3 DEF Claims, Finished, Live, BurstRevoked, ProbeRevoked
    <3> QED BY <3>1, <3>2, <3>3, <3>4, <3>5
  <2> QED BY <2>1, <2>2, <2>3, <2>4, <2>5, <2>6, <2>7, <2>8, <2>9, <2>10, <2>11, <2>12, <2>13, <2>14, <2>15 DEF ConsoleCommand, ConsoleStep
<1> QED BY <1>3, <1>4 DEF RetryInv, Claims

------------------------------------------------------------------------------
(***************************************************************************)
(* What holds of the specification.                                        *)
(***************************************************************************)
\* At boot nothing is armed, owned or pending.
LEMMA RetryStarts == ASSUME RetryInit PROVE RetryInv
<1> USE DEF RetryInit
<1>1. Now = {}
  BY Idle
<1>2. Shape(todo)
  <2>1. <<>> \in Seq(Places) /\ Len(<<>>) = 0 /\ 1..0 = {} /\ 2..0 = {}
    OBVIOUS
  <2>2. ~Ends(Pending(todo))
    BY <1>1 DEF Now, Ends
  <2> QED BY <2>1, <2>2 DEF Shape
<1>3. Typed
  <2>1. attempts \in 0..Budget+1 /\ sessions \in 0..MaxSessions
    BY BudgetAssumption, SessionsAssumption
  <2>2. owner \in 0..3 /\ burst \in 0..3 /\ probe \in 0..4 /\ coolProbe \in 0..2 /\ probes \in 0..2
    OBVIOUS
  <2>3. /\ published \in Phases /\ phase \in Phases /\ outcome \in Outcomes
        /\ frame \in {"plain", "eligible", "automatic"} /\ console \in ConsolePlaces
    BY DEF Phases, Outcomes, ConsolePlaces
  <2>4. /\ autoOn \in BOOLEAN /\ autoActive \in BOOLEAN /\ blocked \in BOOLEAN /\ cancel \in BOOLEAN
        /\ burst_active \in BOOLEAN /\ burst_watch \in BOOLEAN
        /\ probe_active \in BOOLEAN /\ probe_next \in BOOLEAN
    BY Zenon
  <2> QED BY <2>1, <2>2, <2>3, <2>4 DEF Typed
<1>4. Claims
  BY <1>1, BudgetAssumption DEF Claims, Counted, InFlight, BurstOwns, ProbeOwns, AutoOwns, Finishing, Ends, Finished,
     Live, BurstRevoked, ProbeRevoked
<1> QED BY <1>2, <1>3, <1>4 DEF RetryInv

\* Every step of the console and of the controller keeps it.
LEMMA RetrySteps == ASSUME RetryInv, [RetryNext]_retryVars PROVE RetryInv'
<1>1. CASE ControllerStep
  BY <1>1, ReleaseKept, ReleaseOwnerKept, FreeKept, BurstEndKept, BurstEndOwnerKept, TickOwnerKept,
     TickTimeKept, CancellingKept, NothingKept, NotCollectedKept, CollectedKept, BurstDoneKept,
     ProbeDoneKept, ProbeEndKept, AfterKept, ReportKept, ChooseKept, SkipKept, TakeProbeKept,
     TakeBurstKept, StartBurstKept, TakeAutoKept, OwnAutoKept, UseAutoKept, SubmitKept,
     SubmittedKept, SubmittedEndKept, ProbeNextKept, SentKept, WaitingKept, CloseKept,
     FinishProbeKept, FinishBurstKept, FinishAutoKept, OverKept DEF ControllerStep
<1>2. CASE UNCHANGED retryVars
  <2> USE <1>2 DEF retryVars
  <2>1. Shape(todo)' /\ Now' = Now
    BY DEF RetryInv, Now
  <2>2. Typed'
    BY DEF RetryInv, Typed
  <2>3. Counted' /\ InFlight' /\ BurstOwns' /\ ProbeOwns' /\ AutoOwns'
    BY <2>1 DEF RetryInv, Claims, Counted, InFlight, BurstOwns, ProbeOwns, AutoOwns
  <2>4. Finishing' /\ Finished'
    BY <2>1 DEF RetryInv, Claims, Finishing, Finished, Live, BurstRevoked, ProbeRevoked
  <2> QED BY <2>1, <2>2, <2>3, <2>4 DEF RetryInv, Claims
<1> QED BY <1>1, <1>2, ConsoleKept, StepKept, TrialCancelKept, TrialStartKept, TrialRearmKept DEF RetryNext

\* The bound of the list in RetryTypeOK.
LEMMA ListBounded == ASSUME Shape(todo) PROVE todo \in Seq(Places) /\ Len(todo) <= 14
<1>1. todo \in Seq(Places) /\ Len(todo) \in Nat
  BY DEF Shape
<1>2. CASE Len(todo) > 0
  <2>1. 1 \in 1..Len(todo)
    BY <1>1, <1>2
  <2>2. Height(todo[1]) + Len(todo) - 1 <= 11
    BY <2>1 DEF Shape
  <2> QED BY <1>1, <2>2, HeightBounds
<1> QED BY <1>1, <1>2

\* The inductive invariant: the shape of the controller's list, a reason for
\* whoever owns retry_owner, and what finish has done by each of its places.
THEOREM RetryInvariant == RetrySpec => []RetryInv
<1>1. RetryInit => RetryInv
  BY RetryStarts
<1>2. RetryInv /\ [RetryNext]_retryVars => RetryInv'
  BY RetrySteps
<1> QED BY <1>1, <1>2, PTL DEF RetrySpec

\* A manual test is taken once per boot and a burst stays within its budget,
\* however arming, taking and finishing interleave (retry_probe_take, burst_take).
THEOREM OncePerBootAlways == RetrySpec => []OncePerBoot
<1>1. ASSUME RetryInv PROVE OncePerBoot
  <2>1. todo \in Seq(Places) /\ Len(todo) <= 14
    BY <1>1, ListBounded DEF RetryInv
  <2>2. probes <= 1 /\ attempts <= Budget
    BY <1>1 DEF RetryInv, Claims, Counted
  <2>3. RetryTypeOK
    BY <1>1, <2>1 DEF RetryInv, Typed, RetryTypeOK
  <2> QED BY <2>2, <2>3 DEF OncePerBoot
<1> QED BY <1>1, RetryInvariant, PTL

\* No manual test and no automatic repeat outlives the session in which it was
\* armed: closing the console's arming before the cleanup in finish is enough.
THEOREM NothingSurvivesAlways == RetrySpec => []NothingSurvives
<1>1. ASSUME RetryInv, todo = <<>>, phase \in {"over", "idle"}, console = "idle"
      PROVE  owner = 0 /\ burst \notin {1, 2} /\ probe \notin {1, 2} /\ ~autoActive
  <2>1. Now = {} /\ Typed /\ Claims
    BY <1>1, Idle DEF RetryInv
  <2>2. /\ ~probe_active /\ ~probe_next /\ ~burst_active /\ ~burst_watch /\ ~autoActive
        /\ burst \notin {1, 2} /\ probe # 1
    BY <1>1, <2>1 DEF Claims, Finished, BurstRevoked, ProbeRevoked
  <2>3. probe # 2
    BY <2>1, <2>2 DEF Claims, InFlight
  <2>4. owner # 1 /\ owner # 2 /\ owner # 3
    BY <1>1, <2>1, <2>2, <2>3 DEF Claims, BurstOwns, ProbeOwns, AutoOwns
  <2> QED BY <2>1, <2>2, <2>3, <2>4 DEF Typed
<1>2. RetryInv => NothingSurvives
  BY <1>1 DEF NothingSurvives
<1> QED BY <1>2, RetryInvariant, PTL

\* retry_owner is never left with somebody who no longer uses it, so a later
\* policy is not kept out for nothing (auto_release, burst_end, retry_probe_done).
THEOREM OwnerUsedAlways == RetrySpec => []OwnerUsed
<1>1. ASSUME RetryInv, todo = <<>>, console = "idle"
      PROVE  /\ owner = 1 => probe \in {1, 2} \/ probe_next
             /\ owner = 2 => burst \in {1, 2} \/ burst_active \/ burst_watch
             /\ owner = 3 => autoActive
  <2>1. Now = {} /\ Claims
    BY <1>1, Idle DEF RetryInv
  <2> QED BY <1>1, <2>1 DEF Claims, BurstOwns, ProbeOwns, AutoOwns
<1>2. RetryInv => OwnerUsed
  BY <1>1 DEF OwnerUsed
<1> QED BY <1>2, RetryInvariant, PTL
===============================================================================
