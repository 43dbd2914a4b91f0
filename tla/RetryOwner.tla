------------------------------ MODULE RetryOwner ------------------------------
(***************************************************************************)
(* Who may repeat audio packets (tone_trial.c): the automatic policy, or   *)
(* one of two manual tests that the console arms once per boot.  The       *)
(* atomic retry_owner decides between them; the console task reserves it   *)
(* and the controller task uses it and gives it back, with no lock.        *)
(*                                                                         *)
(* Each step of the console and of the controller touches what the other   *)
(* one may change at most once.  The controller runs a list of places,     *)
(* todo: a place does its work and may put places in front of the rest,    *)
(* which is how a call is written.                                         *)
(***************************************************************************)
EXTENDS Integers, Sequences

CONSTANTS
  Budget,       \* attempts of a burst, 24000 in the code
  MaxSessions   \* bound: trials ever started

ASSUME BudgetAssumption == Budget \in Nat \ {0}
ASSUME SessionsAssumption == MaxSessions \in Nat \ {0}

VARIABLES
  owner,                \* retry_owner: 0 free, 1 probe, 2 burst, 3 automatic
  burst, attempts,      \* retry_burst[0] and [2]
  probe,                \* retry_probe_state
  autoOn,               \* retry_auto_enabled
  autoActive, blocked,  \* retry_auto_values[0] and [1]
  coolProbe,            \* auto_cooldown_probe
  published,            \* stream_state[0], what the console sees of the phase
  phase, cancel,        \* trial.phase, trial.cancel
  burst_active, burst_watch,
  probe_active, probe_next,   \* retry_probe_active, retry_probe_next_pending
  todo, outcome, frame,    \* the controller task
  console,              \* where the console task is
  probes, sessions      \* history: probes begun, trials started

retry == <<owner, burst, attempts, probe, autoActive, blocked, coolProbe>>
private == <<burst_active, burst_watch, probe_active, probe_next>>
stream == <<published, phase, cancel, sessions>>
retryVars == <<owner, burst, attempts, probe, autoOn, autoActive, blocked, coolProbe,
          published, phase, cancel, burst_active, burst_watch,
          probe_active, probe_next, todo, outcome, frame, console, probes, sessions>>

Phases == {"idle", "wait", "transmitting", "over", "fault"}
Outcomes == {"none", "ended", "cancelled", "fault", "conflict", "expired", "refused"}
ConsolePlaces == {"idle", "burstOwner", "burstState", "burstCheck", "burstClose",
                  "burstGiveUp", "probeOwner", "probeState", "probeCheck",
                  "probeClose", "probeGiveUp", "coolState", "coolCheck"}
Places == {"tickOwner", "tickTime", "release", "releaseOwner", "free", "end",
           "endOwner", "cancelling", "collect", "burstDone", "probeDone",
           "probeEnd", "after", "report", "choose", "skip", "takeProbe", "takeBurst",
           "startBurst", "takeAuto", "ownAuto", "useAuto", "submit", "submitted", "submittedEnd",
           "probeNext", "sent", "waiting", "close", "finishProbe", "finishBurst",
           "finishAuto", "over", "faulted"}

RetryTypeOK ==
  /\ owner \in 0..3 /\ burst \in 0..3 /\ probe \in 0..4 /\ coolProbe \in 0..2
  /\ attempts \in 0..Budget+1 /\ probes \in 0..2
  /\ {autoOn, autoActive, blocked, cancel, burst_active, burst_watch,
      probe_active, probe_next} \subseteq BOOLEAN
  /\ published \in Phases /\ phase \in Phases
  /\ todo \in Seq(Places) /\ Len(todo) <= 14
  /\ outcome \in Outcomes
  /\ frame \in {"plain", "eligible", "automatic"}
  /\ console \in ConsolePlaces
  /\ sessions \in 0..MaxSessions

RetryInit ==
  /\ owner = 0 /\ burst = 0 /\ attempts = 0 /\ probe = 0 /\ coolProbe = 0
  /\ autoOn = TRUE /\ autoActive = FALSE /\ blocked = FALSE
  /\ published = "idle" /\ phase = "idle" /\ cancel = FALSE
  /\ burst_active = FALSE /\ burst_watch = FALSE
  /\ probe_active = FALSE /\ probe_next = FALSE
  /\ todo = <<>> /\ outcome = "none" /\ frame = "plain"
  /\ console = "idle" /\ probes = 0 /\ sessions = 0

-------------------------------------------------------------------------------
(***************************************************************************)
(* The console task: the three arm commands and retryauto.                 *)
(***************************************************************************)
consoleRest == <<attempts, autoActive, blocked, stream, private, todo, outcome,
                 frame, probes>>
Transmitting == published = "transmitting"

\* ull_tone_trial_retry_burst_arm.
ArmBurst ==
  /\ console = "idle" /\ Transmitting
  /\ console' = "burstOwner"
  /\ UNCHANGED <<owner, burst, probe, autoOn, coolProbe, consoleRest>>

BurstOwner ==
  /\ console = "burstOwner"
  /\ IF owner = 0 THEN owner' = 2 /\ console' = "burstState"
     ELSE owner' = owner /\ console' = "idle"
  /\ UNCHANGED <<burst, probe, autoOn, coolProbe, consoleRest>>

BurstState ==
  /\ console = "burstState"
  /\ IF burst = 0 THEN burst' = 1 /\ console' = "burstCheck"
     ELSE burst' = burst /\ console' = "burstGiveUp"
  /\ UNCHANGED <<owner, probe, autoOn, coolProbe, consoleRest>>

\* A bug that arms without a second look at the stream.
StillTransmittingUnchecked == TRUE
StillTransmitting == Transmitting

BurstCheck ==
  /\ console = "burstCheck"
  /\ console' = IF StillTransmitting THEN "idle" ELSE "burstClose"
  /\ UNCHANGED <<owner, burst, probe, autoOn, coolProbe, consoleRest>>

BurstClose ==
  /\ console = "burstClose"
  /\ burst' = 3
  /\ console' = "burstGiveUp"
  /\ UNCHANGED <<owner, probe, autoOn, coolProbe, consoleRest>>

\* The store is unconditional, whoever owns by now.
GiveUp ==
  /\ console \in {"burstGiveUp", "probeGiveUp"}
  /\ owner' = 0
  /\ console' = "idle"
  /\ UNCHANGED <<burst, probe, autoOn, coolProbe, consoleRest>>

\* ull_tone_trial_retry_probe_arm.
ArmProbe ==
  /\ console = "idle" /\ Transmitting
  /\ console' = "probeOwner"
  /\ UNCHANGED <<owner, burst, probe, autoOn, coolProbe, consoleRest>>

ProbeOwner ==
  /\ console = "probeOwner"
  /\ IF owner = 0 THEN owner' = 1 /\ console' = "probeState"
     ELSE owner' = owner /\ console' = "idle"
  /\ UNCHANGED <<burst, probe, autoOn, coolProbe, consoleRest>>

ProbeFree(state) == state = 0

ProbeState ==
  /\ console = "probeState"
  /\ IF ProbeFree(probe) THEN probe' = 1 /\ console' = "probeCheck"
     ELSE probe' = probe /\ console' = "probeGiveUp"
  /\ UNCHANGED <<owner, burst, autoOn, coolProbe, consoleRest>>

ProbeCheck ==
  /\ console = "probeCheck"
  /\ console' = IF StillTransmitting THEN "idle" ELSE "probeClose"
  /\ UNCHANGED <<owner, burst, probe, autoOn, coolProbe, consoleRest>>

ProbeClose ==
  /\ console = "probeClose"
  /\ probe' = 4
  /\ console' = "probeGiveUp"
  /\ UNCHANGED <<owner, burst, autoOn, coolProbe, consoleRest>>

\* ull_tone_trial_retry_cooldown_probe_arm.
AutomaticOwns == autoOn /\ owner = 3 /\ ~blocked

ArmCooldown ==
  /\ console = "idle" /\ AutomaticOwns
  /\ console' = "coolState"
  /\ UNCHANGED <<owner, burst, probe, autoOn, coolProbe, consoleRest>>

CooldownState ==
  /\ console = "coolState"
  /\ IF coolProbe = 0 THEN coolProbe' = 1 /\ console' = "coolCheck"
     ELSE coolProbe' = coolProbe /\ console' = "idle"
  /\ UNCHANGED <<owner, burst, probe, autoOn, consoleRest>>

CooldownCheck ==
  /\ console = "coolCheck"
  /\ coolProbe' = IF ~AutomaticOwns /\ coolProbe = 1 THEN 2 ELSE coolProbe
  /\ console' = "idle"
  /\ UNCHANGED <<owner, burst, probe, autoOn, consoleRest>>

\* ull_tone_trial_retry_auto_enable.
EnableAuto ==
  /\ console = "idle"
  /\ autoOn' = ~autoOn
  /\ UNCHANGED <<owner, burst, probe, coolProbe, console, consoleRest>>

ConsoleCommand == ArmBurst \/ ArmProbe \/ ArmCooldown \/ EnableAuto
ConsoleStep ==
  \/ BurstOwner \/ BurstState \/ BurstCheck \/ BurstClose \/ GiveUp \/ ProbeOwner
  \/ ProbeState \/ ProbeCheck \/ ProbeClose \/ CooldownState \/ CooldownCheck

-------------------------------------------------------------------------------
(***************************************************************************)
(* The controller task.                                                    *)
(***************************************************************************)
At(place) == todo # <<>> /\ Head(todo) = place
Then(places) == todo' = places \o Tail(todo)
Call(condition, places) == Then(IF condition THEN places ELSE <<>>)
End == <<"end", "endOwner">>
Tick == <<"tickOwner", "tickTime">>
\* finish(), which gives up whatever is armed or running.
Finish == <<"close", "finishProbe", "finishBurst">> \o End \o <<"finishAuto", "free">>

Live == phase \in {"wait", "transmitting"}
controllerRest == <<autoOn, console>>

\* auto_release, whose two parts are separate accesses.
Release ==
  /\ At("release")
  /\ autoActive' = FALSE
  /\ Then(<<"releaseOwner">>)
  /\ UNCHANGED <<owner, burst, attempts, probe, blocked, coolProbe, stream, private,
                 outcome, frame, probes, controllerRest>>

ReleaseOwner ==
  /\ At("releaseOwner")
  /\ Call(owner = 3, <<"free">>)
  /\ UNCHANGED <<retry, stream, private, outcome, frame, probes, controllerRest>>

Free ==
  /\ At("free")
  /\ owner' = 0
  /\ Then(<<>>)
  /\ UNCHANGED <<burst, attempts, probe, autoActive, blocked, coolProbe, stream,
                 private, outcome, frame, probes, controllerRest>>

\* burst_end.
BurstEnd ==
  /\ At("end")
  /\ burst' = IF burst \in {1, 2} THEN 3 ELSE burst
  /\ Then(<<>>)
  /\ UNCHANGED <<owner, attempts, probe, autoActive, blocked, coolProbe, stream,
                 private, outcome, frame, probes, controllerRest>>

BurstEndOwner ==
  /\ At("endOwner")
  /\ Call(~burst_active /\ ~burst_watch /\ owner = 2, <<"free">>)
  /\ UNCHANGED <<retry, stream, private, outcome, frame, probes, controllerRest>>

\* burst_tick: the automatic policy was switched off; the burst's time is over.
TickOwner ==
  /\ At("tickOwner")
  /\ Call(owner = 3 /\ ~autoOn /\ ~burst_active /\ ~burst_watch, <<"release">>)
  /\ UNCHANGED <<retry, stream, private, outcome, frame, probes, controllerRest>>

TickTime ==
  /\ At("tickTime")
  /\ \E late \in BOOLEAN : Call(late /\ burst \in {1, 2}, End)
  /\ UNCHANGED <<retry, stream, private, outcome, frame, probes, controllerRest>>

\* 0xfcfe and 0xfcfd: ull_tone_trial_step, ull_tone_trial_cancel.
Step ==
  /\ todo = <<>>
  /\ todo' = Tick \o <<"collect">>
  /\ UNCHANGED <<retry, stream, private, outcome, frame, probes, controllerRest>>

TrialCancel ==
  /\ todo = <<>>
  /\ todo' = End \o <<"cancelling">> \o Tick \o <<"collect">>
  /\ UNCHANGED <<retry, stream, private, outcome, frame, probes, controllerRest>>

Cancelling ==
  /\ At("cancelling")
  /\ cancel' = TRUE
  /\ Then(<<>>)
  /\ UNCHANGED <<retry, published, phase, sessions, private, outcome, frame, probes, controllerRest>>

\* Waiting for the session to be confirmed, or going on after a frame that could
\* not be scheduled.
CollectNothing ==
  /\ At("collect") /\ phase # "transmitting"
  /\ IF phase = "wait"
     THEN \/ Then(Finish \o <<"over">>)
          \/ ~cancel /\ \E go \in BOOLEAN : Call(go, <<"choose">>)
     ELSE Then(<<>>)
  /\ UNCHANGED <<retry, stream, private, outcome, frame, probes, controllerRest>>

\* The event is not over yet; the second stream may fail meanwhile.
NotCollected ==
  /\ At("collect") /\ phase = "transmitting"
  /\ cancel' \in {cancel, TRUE}
  /\ Then(<<>>)
  /\ UNCHANGED <<retry, published, phase, sessions, private, outcome, frame, probes, controllerRest>>

Collected ==
  /\ At("collect") /\ phase = "transmitting"
  /\ outcome' \in {"ended", "cancelled", "fault"}
  /\ Then(<<"burstDone", "probeDone", "after">>)
  /\ UNCHANGED <<retry, stream, private, frame, probes, controllerRest>>

\* burst_done.
BurstDone ==
  /\ At("burstDone")
  /\ burst_active' = FALSE
  /\ IF ~burst_active THEN UNCHANGED <<burst_watch, blocked>> /\ Then(<<>>)
     ELSE IF outcome = "ended"
     THEN /\ burst_watch' = TRUE /\ blocked' = blocked
          /\ Call(owner # 3 /\ attempts >= Budget, End)
     ELSE /\ burst_watch' = IF owner = 3 THEN FALSE ELSE burst_watch
          /\ blocked' = (blocked \/ (owner = 3 /\ outcome \notin {"conflict", "expired"}))
          /\ Then(IF owner = 3 THEN <<"release">> ELSE End)
  /\ UNCHANGED <<owner, burst, attempts, probe, autoActive, coolProbe, stream,
                 probe_active, probe_next, outcome, frame, probes, controllerRest>>

\* retry_probe_done: the owner is given back before the state is closed, unless
\* the next frame is still to be timed.
ProbeDone ==
  /\ At("probeDone")
  /\ probe_active' = FALSE
  /\ probe_next' = IF probe_active THEN outcome = "ended" ELSE probe_next
  /\ Call(probe_active, IF outcome = "ended" THEN <<"probeEnd">> ELSE <<"free", "probeEnd">>)
  /\ UNCHANGED <<retry, stream, burst_active, burst_watch, outcome, frame, probes,
                 controllerRest>>

ProbeEnd ==
  /\ At("probeEnd")
  /\ probe' = IF outcome \in {"ended", "cancelled"} THEN 3 ELSE 4
  /\ Then(<<>>)
  /\ UNCHANGED <<owner, burst, attempts, autoActive, blocked, coolProbe, stream,
                 private, outcome, frame, probes, controllerRest>>

\* What becomes of the trial after an event.  A cancelled one may be tried again
\* at once; a reply may be invalid.
After ==
  /\ At("after")
  /\ IF outcome = "fault" THEN \E last \in {"over", "faulted"} : Then(Finish \o <<last>>)
     ELSE \/ Then(Finish \o <<"over">>)
          \/ ~cancel /\ \E skipped \in BOOLEAN :
               /\ skipped => outcome = "cancelled"
               /\ Then((IF skipped THEN <<"skip">> ELSE <<>>) \o <<"report", "choose">>)
  /\ UNCHANGED <<retry, stream, private, outcome, frame, probes, controllerRest>>

Report ==
  /\ At("report")
  /\ published' = phase
  /\ Then(<<>>)
  /\ UNCHANGED <<retry, phase, cancel, sessions, private, outcome, frame, probes, controllerRest>>

-------------------------------------------------------------------------------
(***************************************************************************)
(* The next frame: passing over late ones, choosing who repeats it, and    *)
(* submitting it.                                                          *)
(***************************************************************************)
Choose ==
  /\ At("choose")
  /\ \/ frame' = frame /\ Then(<<"skip", "choose">>)
     \/ frame' = frame /\ Then(Finish \o <<"over">>)
     \/ frame' \in {"plain", "eligible"} /\ Then(<<"takeProbe">> \o Tick \o <<"takeBurst", "takeAuto", "submit">>)
  /\ UNCHANGED <<retry, stream, private, outcome, probes, controllerRest>>

\* burst_skip.
Skip ==
  /\ At("skip")
  /\ burst_watch' = FALSE
  /\ Call(burst_watch, IF owner = 3 THEN <<"release">> ELSE End)
  /\ UNCHANGED <<retry, stream, burst_active, probe_active, probe_next, outcome,
                 frame, probes, controllerRest>>

\* retry_probe_take.
TakeProbe ==
  /\ At("takeProbe")
  /\ IF frame = "eligible" /\ probe = 1
     THEN probe' = 2 /\ probe_active' = TRUE /\ probes' = probes + 1
     ELSE UNCHANGED <<probe, probe_active, probes>>
  /\ Then(<<>>)
  /\ UNCHANGED <<owner, burst, attempts, autoActive, blocked, coolProbe, stream,
                 burst_active, burst_watch, probe_next, outcome, frame, controllerRest>>

\* A bug in the budget's comparison.
SpentTooLate == attempts > Budget
Spent == attempts >= Budget

\* burst_take, whose check and store of the state are separate accesses.
TakeBurst ==
  /\ At("takeBurst")
  /\ Call(frame = "eligible" /\ burst \in {1, 2}, IF Spent THEN End ELSE <<"startBurst">>)
  /\ UNCHANGED <<retry, stream, private, outcome, frame, probes, controllerRest>>

StartBurst ==
  /\ At("startBurst")
  /\ burst' = 2 /\ attempts' = attempts + 1 /\ burst_active' = TRUE
  /\ Then(<<>>)
  /\ UNCHANGED <<owner, probe, autoActive, blocked, coolProbe, stream, burst_watch,
                 probe_active, probe_next, outcome, frame, probes, controllerRest>>

\* auto_take.  The warm-up and a cooldown may still be on.
MayTakeAuto ==
  /\ frame = "eligible" /\ ~probe_active /\ ~burst_active
  /\ ~cancel /\ autoOn /\ ~blocked
  /\ owner \in {0, 3}

TakeAuto ==
  /\ At("takeAuto")
  /\ IF MayTakeAuto /\ owner = 3 /\ coolProbe = 1
     THEN coolProbe' = 2 /\ burst_watch' = FALSE /\ Then(<<"release">>)
     ELSE /\ UNCHANGED <<coolProbe, burst_watch>>
          /\ \E take \in BOOLEAN :
               Call(take /\ MayTakeAuto, IF owner = 0 THEN <<"ownAuto">> ELSE <<"useAuto">>)
  /\ UNCHANGED <<owner, burst, attempts, probe, autoActive, blocked, stream, burst_active,
                 probe_active, probe_next, outcome, frame, probes, controllerRest>>

\* The compare and exchange of a free owner; a manual test may be first.
OwnAuto ==
  /\ At("ownAuto")
  /\ owner' = IF owner = 0 THEN 3 ELSE owner
  /\ Call(owner = 0, <<"useAuto">>)
  /\ UNCHANGED <<burst, attempts, probe, autoActive, blocked, coolProbe, stream,
                 private, outcome, frame, probes, controllerRest>>

UseAuto ==
  /\ At("useAuto")
  /\ autoActive' = TRUE /\ burst_active' = TRUE /\ frame' = "automatic"
  /\ Then(<<>>)
  /\ UNCHANGED <<owner, burst, attempts, probe, blocked, coolProbe, stream, burst_watch,
                 probe_active, probe_next, outcome, probes, controllerRest>>

Failed == <<"burstDone", "probeDone">>

\* submit_with_retry_fallback and what follows.  An automatic repeat that
\* conflicts is given up, and the frame may still go out once.
Submit ==
  /\ At("submit")
  /\ \/ outcome' = outcome /\ Then(<<"submitted", "submittedEnd", "probeNext", "sent">>)
     \/ frame = "automatic" /\ outcome' = "conflict"
          /\ Then(<<"burstDone", "submitted", "submittedEnd", "probeNext", "sent">>)
     \/ outcome' \in {"conflict", "expired"} /\ Then(Failed \o <<"skip", "waiting">>)
     \/ outcome' = "refused" /\ Then(Failed \o Finish \o <<"over">>)
     \/ outcome' = outcome /\ Then(Finish \o <<"over">>)
  /\ UNCHANGED <<retry, stream, private, frame, probes, controllerRest>>

\* burst_submitted.
Submitted ==
  /\ At("submitted")
  /\ burst_watch' = FALSE
  /\ Call(owner = 3 /\ ~burst_active /\ ~autoOn, <<"release">>)
  /\ UNCHANGED <<retry, stream, burst_active, probe_active, probe_next, outcome,
                 frame, probes, controllerRest>>

\* A bug that forgets a burst which ended while its next frame was watched.
NeverEnded == FALSE
Ended == burst = 3

SubmittedEnd ==
  /\ At("submittedEnd")
  /\ Call(Ended, End)
  /\ UNCHANGED <<retry, stream, private, outcome, frame, probes, controllerRest>>

\* The frame after the probe has been timed.
ProbeNext ==
  /\ At("probeNext")
  /\ probe_next' = FALSE
  /\ Call(probe_next /\ owner = 1, <<"free">>)
  /\ UNCHANGED <<retry, stream, burst_active, burst_watch, probe_active, outcome,
                 frame, probes, controllerRest>>

\* The event is reserved; the console learns of it with the next report.  The
\* frame after it may fail to be built.
Sent ==
  /\ At("sent")
  /\ phase' = "transmitting" /\ cancel' \in {cancel, TRUE}
  /\ Then(<<>>)
  /\ UNCHANGED <<retry, published, sessions, private, outcome, frame, probes, controllerRest>>

Waiting ==
  /\ At("waiting")
  /\ phase' = "wait" /\ published' = "wait"
  /\ Then(<<>>)
  /\ UNCHANGED <<retry, cancel, sessions, private, outcome, frame, probes, controllerRest>>

-------------------------------------------------------------------------------
(***************************************************************************)
(* finish, start and rearm.                                                *)
(***************************************************************************)
\* A bug that lets the console arm until the cleanup is done.
StillOpen(before) == before
Closed(before) == "over"

\* Close console arming before cleanup; end a probe that was only armed.
Close ==
  /\ At("close")
  /\ published' = Closed(published)
  /\ coolProbe' = IF coolProbe = 1 THEN 2 ELSE coolProbe
  /\ Then(<<>>)
  /\ UNCHANGED <<owner, burst, attempts, probe, autoActive, blocked, phase, cancel, sessions,
                 private, outcome, frame, probes, controllerRest>>

FinishProbe ==
  /\ At("finishProbe")
  /\ probe' = IF probe = 1 THEN 4 ELSE probe
  /\ outcome' = "none"
  /\ Call(probe_active, <<"probeDone">>)
  /\ UNCHANGED <<owner, burst, attempts, autoActive, blocked, coolProbe, stream,
                 private, frame, probes, controllerRest>>

FinishBurst ==
  /\ At("finishBurst")
  /\ probe_next' = FALSE /\ burst_watch' = FALSE
  /\ Call(burst_active, <<"burstDone">>)
  /\ UNCHANGED <<retry, stream, burst_active, probe_active, outcome, frame, probes,
                 controllerRest>>

FinishAuto ==
  /\ At("finishAuto")
  /\ autoActive' = FALSE /\ blocked' = TRUE
  /\ Then(<<>>)
  /\ UNCHANGED <<owner, burst, attempts, probe, coolProbe, stream, private, outcome,
                 frame, probes, controllerRest>>

Over ==
  /\ At("over") \/ At("faulted")
  /\ phase' = IF At("over") THEN "over" ELSE "fault"
  /\ published' = phase'
  /\ Then(<<>>)
  /\ UNCHANGED <<retry, cancel, sessions, private, outcome, frame, probes, controllerRest>>

\* ull_tone_trial_start.
TrialStart ==
  /\ todo = <<>> /\ phase = "idle" /\ sessions < MaxSessions
  /\ sessions' = sessions + 1
  /\ phase' = "wait" /\ published' = "wait" /\ cancel' = FALSE
  /\ UNCHANGED <<retry, private, todo, outcome, frame, probes, controllerRest>>

\* ull_tone_trial_rearm: the counts of the manual tests stay, a blocked
\* automatic policy is free again.
TrialRearm ==
  /\ todo = <<>> /\ phase = "over"
  /\ phase' = "idle" /\ published' = "idle" /\ cancel' = FALSE
  /\ autoActive' = FALSE /\ blocked' = FALSE
  /\ UNCHANGED <<owner, burst, attempts, probe, coolProbe, private, todo, outcome,
                 frame, probes, sessions, controllerRest>>

ControllerStep ==
  \/ Release \/ ReleaseOwner \/ Free \/ BurstEnd \/ BurstEndOwner \/ TickOwner
  \/ TickTime \/ Cancelling \/ CollectNothing \/ NotCollected \/ Collected
  \/ BurstDone \/ ProbeDone \/ ProbeEnd \/ After \/ Report \/ Choose \/ Skip
  \/ TakeProbe \/ TakeBurst \/ StartBurst \/ TakeAuto \/ OwnAuto
  \/ UseAuto \/ Submit \/ Submitted
  \/ SubmittedEnd \/ ProbeNext \/ Sent \/ Waiting \/ Close \/ FinishProbe
  \/ FinishBurst \/ FinishAuto \/ Over

RetryNext ==
  \/ ConsoleCommand \/ ConsoleStep
  \/ ControllerStep \/ Step \/ TrialCancel \/ TrialStart \/ TrialRearm

RetrySpec == RetryInit /\ [][RetryNext]_retryVars

-------------------------------------------------------------------------------
\* A manual test is used once per boot, and a burst never exceeds its budget.
\* tone_trial.h: "Manual probe/burst APIs retain their once-per-boot limits".
OncePerBoot == RetryTypeOK /\ probes <= 1 /\ attempts <= Budget

\* No manual test and no automatic repeat outlives the session in which it was
\* armed, however the console's arming and the end of the session interleave:
\* this is what "Close console arming before cleanup" in finish() is for.
NothingSurvives ==
  todo = <<>> /\ phase \in {"over", "idle"} /\ console = "idle"
    => owner = 0 /\ burst \notin {1, 2} /\ probe \notin {1, 2} /\ ~autoActive

\* Nobody is kept out for nothing: whenever both tasks are between commands, the
\* owner is there, or the last frame of the one it was is still being watched.
OwnerUsed ==
  todo = <<>> /\ console = "idle" =>
    /\ owner = 1 => probe \in {1, 2} \/ probe_next
    /\ owner = 2 => burst \in {1, 2} \/ burst_active \/ burst_watch
    /\ owner = 3 => autoActive

\* What tone_trial.h says of the manual tests' "exclusion": none of them is armed
\* or running while the automatic policy is active.
Exclusion == ~(autoActive /\ (burst \in {1, 2} \/ probe \in {1, 2}))
==============================================================================
