------------------------------ MODULE Controls ------------------------------
(***************************************************************************)
(* What the headset's controls become on this side: a record of the log    *)
(* (ControlLog) and, for the wheel and the media button, a key of the USB  *)
(* keyboard (usb_controls.c).  The controller task logs a control and then *)
(* queues its key; the USB task (usb_audio.c) handles bus events and then  *)
(* services the keys; the USB host configures, suspends and resets as it   *)
(* pleases.                                                                *)
(***************************************************************************)
EXTENDS ControlLog

CONSTANTS KeyCap,       \* slots of the key queue (32 in the code)
          MaxKeys,      \* bound: keys accepted
          MaxRefusals   \* bound: reports refused though the endpoint was ready

ASSUME KeyAssumption == {KeyCap, MaxKeys, MaxRefusals} \subseteq Nat \ {0}
ASSUME PublisherAssumption == {"air", "acl"} \subseteq Publishers

VARIABLES
    key,          \* the controller task has a control whose key is to be queued
    pending,      \* the queue of keys; they are numbered as they are accepted
    accepted,     \* key_queued
    release, due, \* release_pending; 12 ms have gone by
    turn,         \* USB task: "bus" or "keys"
    configured, asleep,
    report,       \* the report the endpoint holds for the host, or None
    pressed,      \* the key the host holds for pressed, or 0
    reports,      \* history: the reports given to the endpoint
    refusals

keys == <<pending, accepted>>
usb == <<release, due, turn, configured, asleep, report, pressed, reports, refusals>>
vars == <<logVars, key, keys, usb>>

None == MaxKeys + 1

TypeOK ==
    /\ {key, release, due, configured, asleep} \subseteq BOOLEAN /\ turn \in {"bus", "keys"}
    /\ pending \in Seq(1..MaxKeys) /\ Len(pending) <= KeyCap /\ accepted \in 0..MaxKeys
    /\ report \in 0..None /\ pressed \in 0..MaxKeys /\ refusals \in 0..MaxRefusals

Init ==
    /\ LogInit /\ key = FALSE /\ pending = <<>> /\ accepted = 0
    /\ release = FALSE /\ due = FALSE /\ turn = "bus"
    /\ configured = FALSE /\ asleep = FALSE /\ report = None /\ pressed = 0
    /\ reports = <<>> /\ refusals = 0

-----------------------------------------------------------------------------
(* The controller task: ull_raw_receive_air_control logs every PDU of the  *)
(* detached link and acts on a fresh control only.                         *)

ControlArrives ==
    /\ ~key /\ accepted < MaxKeys
    /\ Observe("air") /\ key' \in BOOLEAN
    /\ UNCHANGED <<keys, usb>>

\* ull_usb_audio_consumer_key; a full queue drops the key.
Accepted == Len(pending) < KeyCap
QueueKey ==
    /\ key /\ pub["air"].at = "idle" /\ key' = FALSE
    /\ IF Accepted THEN pending' = Append(pending, accepted + 1) /\ accepted' = accepted + 1
       ELSE UNCHANGED keys
    /\ UNCHANGED <<logVars, usb>>

\* The keeper logs what comes over the ACL.
AclArrives == Observe("acl") /\ UNCHANGED <<key, keys, usb>>

Publication ==
    /\ \E p \in Publishers : Build(p) \/ Publish(p)
    /\ UNCHANGED <<key, keys, usb>>

Prompt == Console /\ UNCHANGED <<key, keys, usb>>

-----------------------------------------------------------------------------
(* The USB task: tud_task with the bus events, then                        *)
(* ull_usb_controls_service.                                               *)

Bus(c, a) == configured' = c /\ asleep' = a
KeepKeys == UNCHANGED <<logVars, key, keys, release, due, reports, refusals>>

Configure == turn = "bus" /\ ~configured /\ Bus(TRUE, FALSE) /\ KeepKeys /\ UNCHANGED <<turn, report, pressed>>

\* Unplugged, reset or configured anew: the host forgets the keyboard.
Unmount ==
    /\ turn = "bus" /\ configured /\ Bus(FALSE, FALSE) /\ report' = None /\ pressed' = 0
    /\ KeepKeys /\ UNCHANGED turn

Suspend == turn = "bus" /\ configured /\ ~asleep /\ Bus(TRUE, TRUE) /\ KeepKeys /\ UNCHANGED <<turn, report, pressed>>
WakeUp == turn = "bus" /\ asleep /\ Bus(TRUE, FALSE) /\ KeepKeys /\ UNCHANGED <<turn, report, pressed>>

\* The host polls the endpoint.
Fetch ==
    /\ turn = "bus" /\ configured /\ ~asleep /\ report # None
    /\ pressed' = report /\ report' = None
    /\ KeepKeys /\ UNCHANGED <<turn, configured, asleep>>

BusDone == turn = "bus" /\ turn' = "keys" /\ KeepKeys /\ UNCHANGED <<configured, asleep, report, pressed>>

HidReady == configured /\ ~asleep /\ report = None

\* tud_hid_report.
Send(usage) == report' = usage /\ reports' = Append(reports, usage) /\ UNCHANGED refusals
Refuse == refusals < MaxRefusals /\ refusals' = refusals + 1 /\ UNCHANGED <<report, reports>>

\* Mutant: a release the endpoint refused counts as sent.
ReleaseAnyway == (Send(0) \/ Refuse) /\ release' = FALSE

Release == (Send(0) /\ release' = FALSE) \/ (Refuse /\ UNCHANGED release)

\* Mutant: the key is taken from the queue first.
PressTaken ==
    /\ pending' = Tail(pending)
    /\ (Send(Head(pending)) /\ release' = TRUE /\ due' = FALSE) \/ (Refuse /\ UNCHANGED <<release, due>>)

Press ==
    \/ /\ Send(Head(pending)) /\ pending' = Tail(pending)
       /\ release' = TRUE /\ due' = FALSE
    \/ Refuse /\ UNCHANGED <<pending, release, due>>

Service ==
    /\ turn = "keys" /\ turn' = "bus"
    /\ IF ~HidReady \/ (release /\ ~due) \/ (~release /\ pending = <<>>)
       THEN UNCHANGED <<pending, release, due, report, reports, refusals>>
       ELSE IF release THEN Release /\ UNCHANGED <<pending, due>> ELSE Press
    /\ UNCHANGED <<logVars, key, accepted, configured, asleep, pressed>>

ReleaseDue ==
    /\ release /\ ~due /\ due' = TRUE
    /\ UNCHANGED <<logVars, key, keys, release, turn, configured, asleep, report, pressed, reports, refusals>>

Usb == BusDone \/ Service

Next ==
    \/ ControlArrives \/ QueueKey \/ AclArrives \/ Publication \/ Prompt
    \/ Configure \/ Unmount \/ Suspend \/ WakeUp \/ Fetch \/ Usb \/ ReleaseDue

Spec == Init /\ [][Next]_vars

\* The USB task runs, time passes, and a host that is awake polls.
FairSpec == Spec /\ WF_vars(Usb) /\ WF_vars(ReleaseDue) /\ SF_vars(Fetch)

-----------------------------------------------------------------------------
(* Properties.                                                             *)

\* Every key that was accepted is reported once, in order, and after each
\* comes its release before the next key: whatever the bus did in between and
\* however often the endpoint refused. Reported means given to the endpoint; what
\* a bus reset does to it there is not counted.
KeysReported ==
    /\ TypeOK
    /\ \A i \in DOMAIN reports : reports[i] = IF i % 2 = 1 THEN (i + 1) \div 2 ELSE 0
    /\ release = (Len(reports) % 2 = 1)
    /\ pending = [i \in 1..Len(pending) |-> (Len(reports) + 1) \div 2 + i]
    /\ accepted = (Len(reports) + 1) \div 2 + Len(pending)

\* A host that stays awake does not hold a key for pressed for ever: also when
\* the bus was reset or suspended between the press and its release.
KeyReleased == <>[](configured /\ ~asleep) => (pressed # 0 ~> pressed = 0)
=============================================================================
