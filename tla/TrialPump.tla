------------------------------ MODULE TrialPump ------------------------------
(***************************************************************************)
(* The pump that drives the radio trial (trial_pump.c).  A periodic timer  *)
(* callback publishes at most one internal step command; the controller    *)
(* task claims it, steps the trial and completes it.  Either side may      *)
(* finish the run.  No lock is held across these: the three atomics        *)
(* active, tick_running and pending, and the order in which                *)
(* ull_trial_pump_busy reads them, decide when a new run may start.        *)
(*                                                                         *)
(* The timer task and the controller task each take one shared-memory      *)
(* access per step.  HCI commands of the keeper (start, cancel, rearm) are *)
(* served by the controller task between step commands, in any order.      *)
(***************************************************************************)
EXTENDS Integers, Sequences

CONSTANT MaxRuns   \* bound: runs ever started

ASSUME MaxRunsAssumption == MaxRuns \in Nat \ {0}

VARIABLES
  active, pending,   \* the atomics of those names
  tick_running,      \* the callback is inside tick()
  timerOn,           \* the periodic timer is armed
  recording, frozen, \* the trace buffer
  trial,             \* ull_tone_trial: "idle", "active" or "ended"
  tick,              \* where the timer task is
  ctl,               \* where the controller task is, and why
  queue,             \* step commands on their way, each with its run number
  asks,              \* a busy query of the keeper in progress
  run                \* history: number of the current run

vars == <<active, pending, tick_running, timerOn, recording, frozen, trial,
          tick, ctl, queue, asks, run>>

TickPlaces == {"away", "called", "check", "look", "publish", "send",
               "finish", "stop", "freeze", "leave"}
CtlPlaces == {"idle", "claim", "step", "cancel", "reply", "busy", "rearm", "open",
              "go", "timer", "finish", "stop", "freeze"}
Purposes == {"none", "start", "rearm", "trace", "locked"}
CtlStates == [at : CtlPlaces, for : Purposes, saw : 0..2, next : CtlPlaces, status : BOOLEAN]

TypeOK ==
  /\ active \in BOOLEAN /\ pending \in BOOLEAN /\ tick_running \in 0..1
  /\ timerOn \in BOOLEAN /\ recording \in BOOLEAN /\ frozen \in BOOLEAN
  /\ trial \in {"idle", "active", "ended"}
  /\ tick \in TickPlaces
  /\ ctl \in CtlStates
  /\ queue \in Seq(1..MaxRuns) /\ Len(queue) <= 1
  /\ asks \in {"no", "sawInactive", "sawAway", "idle"}
  /\ run \in 0..MaxRuns

\* for: whose busy query this is; saw: loads of that query done; next: where to
\* go after finish; status: the command failed.
Rest == [at |-> "idle", for |-> "none", saw |-> 0, next |-> "idle", status |-> FALSE]

Init ==
  /\ active = FALSE /\ pending = FALSE /\ tick_running = 0 /\ timerOn = FALSE
  /\ recording = FALSE /\ frozen = FALSE
  /\ trial = "idle"
  /\ tick = "away" /\ ctl = Rest /\ queue = <<>>
  /\ asks = "no" /\ run = 0

-------------------------------------------------------------------------------
(***************************************************************************)
(* The timer task: tick, tick_body and its calls of finish.                *)
(***************************************************************************)
timerRest == <<recording, frozen, trial, ctl, asks, run>>

\* The callback has been taken off the timer list; stopping the timer no
\* longer prevents it.
TickCalled ==
  /\ tick = "away" /\ timerOn
  /\ tick' = "called"
  /\ UNCHANGED <<active, pending, tick_running, timerOn, queue, timerRest>>

TickEnter ==
  /\ tick = "called"
  /\ tick_running' = tick_running + 1
  /\ tick' = "check"
  /\ UNCHANGED <<active, pending, timerOn, queue, timerRest>>

\* Inactive: leave.  A run of bounded length may be over.
TickCheck ==
  /\ tick = "check"
  /\ tick' \in IF active THEN {"look", "finish"} ELSE {"leave"}
  /\ UNCHANGED <<active, pending, tick_running, timerOn, queue, timerRest>>

\* A bug that does not wait for the command before.
NeverWaits(announced) == FALSE
Waits(announced) == announced

\* A command that is still pending may have waited too long.
TickLook ==
  /\ tick = "look"
  /\ tick' \in IF Waits(pending) THEN {"leave", "finish"} ELSE {"publish"}
  /\ UNCHANGED <<active, pending, tick_running, timerOn, queue, timerRest>>

TickPublish ==
  /\ tick = "publish"
  /\ pending' = TRUE
  /\ tick' = "send"
  /\ UNCHANGED <<active, tick_running, timerOn, queue, timerRest>>

TickSend ==
  /\ tick = "send"
  /\ queue' = Append(queue, run)
  /\ tick' = "leave"
  /\ UNCHANGED <<active, pending, tick_running, timerOn, timerRest>>

\* A bug that leaves a command announced that was not sent.
StillAnnounced == TRUE
AfterRefusal == FALSE

\* ull_hci_try_send refuses: another sender holds the gate, or no room.
TickSendRefused ==
  /\ tick = "send"
  /\ pending' = AfterRefusal
  /\ tick' = "leave"
  /\ UNCHANGED <<active, tick_running, timerOn, queue, timerRest>>

\* Only the caller that turns active off goes on.
TickFinish ==
  /\ tick = "finish"
  /\ active' = FALSE
  /\ tick' = IF active THEN "stop" ELSE "leave"
  /\ UNCHANGED <<pending, tick_running, timerOn, queue, timerRest>>

TickStop ==
  /\ tick = "stop"
  /\ timerOn' = FALSE
  /\ tick' = "freeze"
  /\ UNCHANGED <<active, pending, tick_running, queue, timerRest>>

\* The trace always holds at least finish's own summary record.
TickFreeze ==
  /\ tick = "freeze"
  /\ recording' = FALSE /\ frozen' = TRUE
  /\ tick' = "leave"
  /\ UNCHANGED <<active, pending, tick_running, timerOn, queue, trial, ctl, asks, run>>

TickLeave ==
  /\ tick = "leave"
  /\ tick_running' = tick_running - 1
  /\ tick' = "away"
  /\ UNCHANGED <<active, pending, timerOn, queue, timerRest>>

-------------------------------------------------------------------------------
(***************************************************************************)
(* The controller task: finish, and the step command (0xfcfe) with its     *)
(* completion, which ull_trial_pump_receive sees in the same task.         *)
(***************************************************************************)
controlRest == <<tick_running, tick, asks, run>>

CtlFinish ==
  /\ ctl.at = "finish"
  /\ active' = FALSE
  /\ ctl' = IF active THEN [ctl EXCEPT !.at = "stop"]
            ELSE [ctl EXCEPT !.at = ctl.next, !.next = "idle"]
  /\ UNCHANGED <<pending, timerOn, recording, frozen, trial, queue, controlRest>>

CtlStop ==
  /\ ctl.at = "stop"
  /\ timerOn' = FALSE
  /\ ctl' = [ctl EXCEPT !.at = "freeze"]
  /\ UNCHANGED <<active, pending, recording, frozen, trial, queue, controlRest>>

CtlFreeze ==
  /\ ctl.at = "freeze"
  /\ recording' = FALSE /\ frozen' = TRUE
  /\ ctl' = [ctl EXCEPT !.at = ctl.next, !.next = "idle"]
  /\ UNCHANGED <<active, pending, timerOn, trial, queue, controlRest>>

\* ull_trial_pump_claim: active, then pending.
StepArrives ==
  /\ ctl.at = "idle" /\ queue # <<>>
  /\ ctl' = IF active THEN [ctl EXCEPT !.at = "claim"]
            ELSE [ctl EXCEPT !.at = "reply", !.status = TRUE]
  /\ UNCHANGED <<active, pending, timerOn, recording, frozen, trial, queue, controlRest>>

StepClaim ==
  /\ ctl.at = "claim"
  /\ ctl' = IF pending THEN [ctl EXCEPT !.at = "step"]
            ELSE [ctl EXCEPT !.at = "reply", !.status = TRUE]
  /\ UNCHANGED <<active, pending, timerOn, recording, frozen, trial, queue, controlRest>>

\* ull_tone_trial_step: the trial goes on, or it ends, well or badly.
StepTrial ==
  /\ ctl.at = "step"
  /\ trial' \in IF trial = "active" THEN {"active", "ended"} ELSE {trial}
  /\ \E failed \in BOOLEAN :
       /\ failed => trial' # "active"
       /\ ctl' = IF trial' = "active" THEN [ctl EXCEPT !.at = "reply"]
                 ELSE [ctl EXCEPT !.at = "finish", !.next = "reply", !.status = failed]
  /\ UNCHANGED <<active, pending, timerOn, recording, frozen, queue, controlRest>>

\* The completion: pending is cleared, and a failed status ends the run.
StepReply ==
  /\ ctl.at = "reply"
  /\ pending' = FALSE
  /\ queue' = Tail(queue)
  /\ ctl' = IF ctl.status THEN [Rest EXCEPT !.at = "finish"] ELSE Rest
  /\ UNCHANGED <<active, timerOn, recording, frozen, trial, controlRest>>

\* 0xfcfd: ull_tone_trial_cancel; a trial that is not on the air ends at once.
Cancel ==
  /\ ctl.at = "idle"
  /\ trial' \in IF trial = "active" THEN {"active", "ended"} ELSE {trial}
  /\ ctl' = IF trial' = "active" THEN ctl ELSE [ctl EXCEPT !.at = "finish"]
  /\ UNCHANGED <<active, pending, timerOn, recording, frozen, queue, controlRest>>

-------------------------------------------------------------------------------
(***************************************************************************)
(* ull_trial_pump_busy, one load per step: callback ownership before       *)
(* pending, because an old callback may publish a command and retire       *)
(* between the loads.                                                      *)
(***************************************************************************)
\* A bug that reads pending before the callback's ownership.
BusyLoadPendingFirst(n) == CASE n = 0 -> active [] n = 1 -> pending [] n = 2 -> tick_running > 0
\* A bug that looks at the run only.
BusyLoadActiveOnly(n) == active
BusyLoad(n) == CASE n = 0 -> active [] n = 1 -> tick_running > 0 [] n = 2 -> pending

\* What follows a query that found the pump idle.  ull_trial_pump_rearm asks
\* once more when it has the trace.
AfterQuery(c) ==
  CASE c.for = "rearm" -> [c EXCEPT !.at = "rearm", !.saw = 0]
    [] c.for = "trace" -> [c EXCEPT !.for = "locked", !.saw = 0]
    [] OTHER           -> [c EXCEPT !.at = "open", !.saw = 0]

\* 0xfcfb: ull_tone_trial_start, then ull_trial_pump_start.
Start ==
  /\ ctl.at = "idle" /\ trial = "idle" /\ run < MaxRuns
  /\ trial' = "active"
  /\ ctl' = [Rest EXCEPT !.at = "busy", !.for = "start"]
  /\ UNCHANGED <<active, pending, timerOn, recording, frozen, queue, controlRest>>

\* 0xfcff, from the keeper: not busy, ull_tone_trial_rearm, ull_trial_pump_rearm.
Rearm ==
  /\ ctl.at = "idle" /\ trial = "ended"
  /\ ctl' = [Rest EXCEPT !.at = "busy", !.for = "rearm"]
  /\ UNCHANGED <<active, pending, timerOn, recording, frozen, trial, queue, controlRest>>

\* A start that is refused cancels the trial it has begun.
BusyQuery ==
  /\ ctl.at = "busy"
  /\ IF BusyLoad(ctl.saw)
     THEN /\ ctl' = Rest
          /\ trial' = IF ctl.for = "start" THEN "ended" ELSE trial
     ELSE /\ ctl' = IF ctl.saw < 2 THEN [ctl EXCEPT !.saw = @ + 1]
                    ELSE AfterQuery(ctl)
          /\ trial' = trial
  /\ UNCHANGED <<active, pending, timerOn, recording, frozen, queue, controlRest>>

RearmTrial ==
  /\ ctl.at = "rearm"
  /\ trial' = "idle"
  /\ ctl' = [ctl EXCEPT !.at = "busy", !.for = "trace"]
  /\ UNCHANGED <<active, pending, timerOn, recording, frozen, queue, controlRest>>

\* ull_trial_pump_rearm's locked part.
RearmTrace ==
  /\ ctl.at = "open" /\ ctl.for = "locked"
  /\ frozen' = IF recording THEN frozen ELSE FALSE
  /\ ctl' = Rest
  /\ UNCHANGED <<active, pending, timerOn, recording, trial, queue, controlRest>>

\* ull_trial_pump_start's locked part: refused while the trace is in use.
StartOpen ==
  /\ ctl.at = "open" /\ ctl.for = "start"
  /\ IF recording \/ frozen
     THEN /\ ctl' = Rest
          /\ trial' = "ended"
          /\ recording' = recording
     ELSE /\ ctl' = [ctl EXCEPT !.at = "go"]
          /\ trial' = trial
          /\ recording' = TRUE
  /\ UNCHANGED <<active, pending, timerOn, frozen, queue, controlRest>>

StartActive ==
  /\ ctl.at = "go"
  /\ active' = TRUE
  /\ run' = run + 1
  /\ asks' = "no"
  /\ ctl' = [ctl EXCEPT !.at = "timer"]
  /\ UNCHANGED <<pending, timerOn, recording, frozen, trial, queue, tick_running, tick>>

StartTimer ==
  /\ ctl.at = "timer"
  /\ timerOn' = TRUE
  /\ ctl' = Rest
  /\ UNCHANGED <<active, pending, recording, frozen, trial, queue, controlRest>>

GivesUp == [Rest EXCEPT !.at = "finish"]

\* The timer cannot be started: finish, and the trial is cancelled.
StartTimerFails ==
  /\ ctl.at = "timer"
  /\ trial' = "ended"
  /\ ctl' = GivesUp
  /\ UNCHANGED <<active, pending, timerOn, recording, frozen, queue, controlRest>>

-------------------------------------------------------------------------------
(***************************************************************************)
(* Other tasks: the printer drains a frozen trace; the keeper asks whether *)
(* the pump is busy while it stops the audio.  A start makes the keeper's  *)
(* answer void (the keeper itself asks for starts).                        *)
(***************************************************************************)
Drain ==
  /\ frozen
  /\ frozen' = FALSE
  /\ UNCHANGED <<active, pending, tick_running, timerOn, recording, trial, tick,
                 ctl, queue, asks, run>>

\* Reading pending is the last load, so its answer is the verdict.
KeeperAsks ==
  /\ asks' = CASE asks = "no" /\ ~BusyLoad(0)          -> "sawInactive"
               [] asks = "sawInactive" /\ ~BusyLoad(1) -> "sawAway"
               [] asks = "sawAway" /\ ~BusyLoad(2)     -> "idle"
               [] OTHER                                -> "no"
  /\ UNCHANGED <<active, pending, tick_running, timerOn, recording, frozen, trial,
                 tick, ctl, queue, run>>

TimerStep ==
  \/ TickCalled \/ TickEnter \/ TickCheck \/ TickLook \/ TickPublish \/ TickSend
  \/ TickSendRefused \/ TickFinish \/ TickStop \/ TickFreeze \/ TickLeave

CtlStep ==
  \/ CtlFinish \/ CtlStop \/ CtlFreeze \/ StepArrives \/ StepClaim \/ StepTrial
  \/ StepReply \/ BusyQuery \/ RearmTrial \/ RearmTrace \/ StartOpen
  \/ StartActive \/ StartTimer \/ StartTimerFails

Next == TimerStep \/ CtlStep \/ Cancel \/ Start \/ Rearm \/ Drain \/ KeeperAsks

Spec == Init /\ [][Next]_vars

\* Both tasks are scheduled, and the controller serves its commands in the order
\* they came, so the keeper's commands, which may never come, do not keep a step
\* command waiting for ever.
FairSpec ==
  /\ Spec
  /\ WF_vars(TimerStep)
  /\ WF_vars(CtlStep)
  /\ SF_vars(StepArrives)

-------------------------------------------------------------------------------
\* Safety.  Never two step commands at once, and one on its way keeps the pump
\* pending, so the controller never falls behind by more than one tick; and a
\* finish that comes late never stops the timer of the next run or leaves an
\* active run without one or unrecorded.
OneOutstanding ==
  /\ TypeOK
  /\ queue # <<>> => pending /\ Len(queue) = 1 /\ tick # "send"
  /\ active /\ ctl.at \notin {"timer", "finish"} => timerOn /\ recording

\* When busy has said no, nothing of an earlier run can still happen: no
\* command is on its way, and no callback can publish one or finish a run.  This
\* is the comment in ull_trial_pump_busy.
Quiet ==
  /\ ~pending
  /\ queue = <<>>
  /\ tick \in {"away", "called", "check", "leave"}
IdleMeansQuiet ==
  /\ ctl.at \in {"open", "rearm", "go"} => Quiet
  /\ asks = "idle" => Quiet

\* A step command only ever drives the run that published it.
NoStaleStep == ctl.at = "step" => Head(queue) = run

\* Liveness.  After a run ends, the pump becomes idle by itself: the last
\* command is answered and the last callback leaves.
PumpSettles == (~active) ~> (active \/ (tick_running = 0 /\ ~pending))
==============================================================================
