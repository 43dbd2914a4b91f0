# A verification of open-ull-receiver

TLA+ models of the receiver's firmware, checked with TLC, and proofs checked
with TLAPS.  Every definition is translated from the C source; the table of
`PROJECT.json` ("map") gives the lines each one stands for.  Paths below are
under `src/firmware/radio/src/` unless another one is given.

## The system

Two ESP32-S3 boards replace the USB dongle of a wireless headset.  The *radio
board* is a USB sound card with media keys; it runs a Bluetooth controller whose
internals the firmware drives directly, and sends an encrypted audio packet to
the headset every 5 ms.  The *codec board* encodes and decodes on request over
SPI.  The radio board has these concurrent parts: the controller task (radio
interrupts and HCI commands, vendor opcodes included), a periodic timer, the
keeper task, the codec worker, the USB task and the console.

| Component | State it keeps | Operations | Hard behaviour | Model |
|---|---|---|---|---|
| parent automaton `parent_ack.c` | two sequence bits, active | seed, acknowledge, accept, refuse | one bit tells new from repeated | `ParentAck` |
| control link `raw_llcp.c`, frame cache in `tone_trial.c` | eligibility, prepared frames | prepare, submit, collect, hand over, reset | loss, repetition, stale headers, reconnect | `ParentLink`, `ControlDelivery` |
| retries `tone_trial.c` | owner, burst, probe, automatic policy | arm, take, done, skip, finish | lock-free ownership between two tasks | `RetryOwner` |
| frame trial `tone_trial.c` | phase, next frame, feedback, two streams | start, step, cancel, rearm | deadlines, late frames | in part: `ParentLink`, `RetryOwner`, `Tunnel`, `AirParent`, `AirFeedback` |
| pump `trial_pump.c`, `controller_diag.c` | active, pending, tick running, trace | tick, claim, reply, start, rearm, busy | timer task against controller task | `TrialPump` |
| PCM ring `audio_source.c` | two counters, latch, statistics | push, select, rearm, statistics | lock-free, repeated and skipped events | `AudioSource` |
| codec worker `pcm_stream.c`, `reconnect_barrier.h`, `firmware/codec/src/main.c` | session, epoch, ready, rings | pause, rearm, exchange, accept, push | in-flight work over a reconnect, SPI faults | `CodecLink` |
| keeper `auto_link.c` | connection, event queue, lost | connect, start, stop, restart, pause | time-outs, overflow, late completions, pause handshake | `Keeper`, `CodecLink` |
| radio events `radio_tx.c` | phase, three programs, buffers | submit, callbacks, cancel, collect | callbacks in any order, arbitration | `RadioTx`, `RadioEvent` |
| LLCP set-up `raw_llcp.c` | E0, E1, E2, E4 flags, sent proposal, committed plan, parent in the air | send, receive E1, prepare, commit, call back, reset | stale confirmations, reconnection within a second | `Tunnel`, `AirParent` |
| buffer pool `llcp_pool.c`, free hook | reservation, handed over | reserve, release, free | refusal, drop with the connection | `Tunnel` |
| timing `air_session.c`, `air_feedback.c` | plans, per-channel sequence | plan, time, accept, note, sequences | wrapping clock and counter, 4-bit sequences | `AirFeedback` |
| media keys `components/ull_usb/usb_controls.c` | key queue, release pending | queue, service | full queue, bus reset between press and release | `Controls` |
| USB streams `components/ull_usb` | PCM rings, feedback, mute | push, pop, suspend, feedback | streams restarted under traffic | not modelled |
| capture `control_log.c` | ring, generation | publish, enable, drain | freeze against late publishers | `ControlLog` |

They meet in these places.  The timer's tick sends a vendor command (pump); the
controller claims it, collects the last radio event and submits the next (trial);
a frame carries the audio the ring has latched (ring) and, every 30 ms, the header
of the control link (link); the headset's answers give USB keys and microphone
frames, which the worker sends to the codec board (worker).  The keeper starts
and stops all of it around a connection.

What makes each part correct, and the lines where it can go wrong, is the list
"hazards" of `PROJECT.json`; every hazard names the properties that watch it, or
says why none does.

## Modules

* **ParentAck** — `ull_parent_ack_receive` as an operator from a state, a
  received PDU and the header sent to a new state.
* **ParentLink** — one radio event at a time: `Submit` (with the cached frame or a
  rebuilt one, once or twice on the air), the headset hearing, answering or losing
  each copy, `Collect` with up to `Windows` answers handled in order, `Cancelled`,
  `Retire` (the parent connection ends, the session goes on alone) and `Reconnect`.
  `rx.last`, `rx.keys`, `rx.lead` and `told` are histories.  `told` has the controls the
  headset saw acknowledged, and apart those of them that the fixed poll acknowledged: as
  long as the link is not seeded, every poll carries NESN = 0 (`raw_llcp.c:321`), which a
  headset that began with SN = 1 reads as an acknowledgement of its first PDU.
* **ControlDelivery** — what the link promises: a press is offered, consumed at
  most once and in order.  `ParentLink!DeliversControls` is the refinement.
* **AudioSource** — each shared access of push, select and the statistics reader
  is a step; rearm runs behind the barrier of `reconnect_barrier.h`.
* **TrialPump** — the tick, the controller's opcodes and the keeper's question
  `busy` (three loads), in every order.  A command queue of the controller is a
  sequence.
* **CodecLink** — the keeper's pause, rearm and resume; the worker's loop with each
  shared access a step; the codec board, which answers a request with the reply to
  the one before, may be damaged on the wire or restart.
* **RetryOwner** — each access of the console's three arm commands and of the
  controller's calls is a step; `todo` is the controller's call stack.
* **RadioTx** — one radio event from `Submit` to `CollectRelease`.  `tx` is the code's
  static struct; `arb`, `queued`, `ring`, `called`, `aborted` and `hw` are the ROM's
  arbiter, its program ring and what of ours the hardware holds, which the code only
  sees through its checks (`ActiveIsOurs`, `EntryIsOurs`).  `Modes` are the four kinds
  of event the callers submit: one program, one with a followup, two programs, three.
  `interfered` is set by the slots' owner leaving, by a preemption and by a refused
  program push; it happens at most once.
* **RadioEvent** — what the caller of an event can count on: it is given back once, with one
  outcome, a followup is tried at most once, nothing starts after a cancel, and a lost event
  stays lost.  `RadioTx!KeepsEventPromise` is the refinement; the caller cannot tell a started
  event from one that is being aborted (`Stage`).
* **Keeper** — `pc` is the keeper's place in `run` and the functions it calls, `op` its
  last command, `peer` the set of flags of `struct peer` that are true.  A command is
  sent (`Call`), executed by the controller in order at any later time (`Execute`) and
  completed by an event; `WaitAnswer` and `WaitTimeout` are the loop of `command`.
  `events` and `lost` are the queue filled by `ull_auto_receive`; an event carries in
  `old` and `gap` whether it was emitted before the session's reset, or after one that
  did not fit.  `Console` is `ull_auto_enable` flag by flag.
* **Tunnel** — `raw_llcp.c` and `llcp_pool.c` with their users in the trial: the pool as
  a count per slot, the one reservation, the controller's procedure list (`node`), the
  flags of the E4/E0/E1/E2 exchange, the last E0 (`sent`) with the connection it went
  to, the committed plan, and the trial's stages.  `conn.ptr` is the address of the
  controller's structures, `conn.gen` the connection itself: the code compares the
  first and, by its anchor, the second.
* **AirParent** — the second stream's E1 and E2 when the radio has taken the parent link
  over: what each step of the trial does with the replies of the last frame, the
  commit, and the PDU of the next frame, in that order.  `acl` are the two bits of the
  controller, `air` is `air_parent`, and the headset is a Link Layer that may lose
  either direction.
* **AirFeedback** — `ull_air_session_plan_build`, `ull_air_session_time` and the checks of
  `ull_raw_prepare_second_stream` on small moduli, and the feedback of two streams
  frame by frame against the number the headset expects.  Where the headset counts from is
  arbitrary: nothing in the code agrees on it.  `blind` is a history: it names a stream that
  was sent before any reply to a headset exactly one ahead.
* **ControlLog**, **Controls** — the log of controls with two publishers and the
  console; `Controls` extends it with what else a control causes, a USB key, and with
  the USB task, the host and the bus.
* **ParentLink_proofs**, **Trial_proofs**, **AudioSource_proofs**, **CodecLink_proofs**,
  **Tunnel_proofs**, **Controls_proofs**, **Keeper_proofs**, **Air_proofs** —
  theorems about the modules they are named after; `Trial_proofs` is about `TrialPump` and
  `RetryOwner`, `Air_proofs` about `AirFeedback`, `AirParent` and `RadioTx`.  So that several
  modules can be extended by one, the definitions that every specification has are prefixed
  in some: `RetryInit`, `RetryNext`, `RetrySpec`, `RetryTypeOK` (and `TrialStart`,
  `TrialCancel`, `TrialRearm` for the trial's commands) in `RetryOwner`, `Join...` in
  `AirParent`, `Event...` in `RadioTx`.

## Runs

| Run | Bounds | What it shows |
|---|---|---|
| `ParentLink` | 3 PDUs, 2 reply windows | keys in order and not twice, nothing acknowledged without being acted on but the one press of a connection that the fixed poll may swallow, acknowledgements sound, the inductive invariant (its first part is the type invariant, another that the header in flight is current), a press arrives on a link that stays, refinement of `ControlDelivery` |
| `AudioSource` | queue 2, counters modulo 8 starting at 6, 4 frames, 3 events, 2 attempts of the statistics | the two channels stay together; a repeated event gives the same audio and is not refused its own latch; skipped events skip audio; the count adds up, nothing of before a rearm, statistics are a state that was |
| `TrialPump` | 3 runs | one command outstanding, and an active pump has a timer; idle means that no step is under way or queued; no step of an earlier run; a pump that stops becomes idle |
| `CodecLink` | queue 2, microphone queue 1, 2 sequence numbers, 2 sessions | a paused worker is parked; nothing of an earlier session is played or sent; the queue never drops a frame; the decoder starts fresh; a pause is answered or withdrawn |
| `RetryOwner` | budget 1, 2 sessions | manual tests once per boot and within budget; nothing survives its session; the owner is somebody who uses it |
| `RadioTx` | all four modes, one interference, events one after another without end | a program on the air has its payload and settings, and an idle struct owns nothing; storage goes back after the ROM retired its entries, and settings are saved once; a fault takes an interference; a cancelled event and its followup never start; every event is given back, or something interfered; refinement of `RadioEvent` |
| `RetryExclusion` | budget 2, 1 session | **violated**, see Findings |
| `Keeper` | queue 3, 2 late commands, 2 tries, 1 event out of turn | whoever streams was verified over an encrypted connection; a manual session is alone with the board; no session works with a lost or an older event; the reset meets no running stream; the console's request is served |
| `Tunnel` | 3 slots, 2 wide, 3 proposals, 2 connections, 2 addresses | no slot lost or twice in the pool; each stage of the trial has its E2 received by the headset; E2 goes to the connection of its E0 |
| `AirParent` | none: two bits each, one exchange of the ACL between steps | E2 counts as acknowledged only when the headset took it |
| `AirFeedback` | coarse clock modulo 64 of 5 fine steps, frames of 20 steps, an ACL event every 40, counters modulo 8, sequence numbers modulo 4, every first number at the headset, 12 frames | a number derived from a reply is the one the headset expects and only a packet it took is noted as acknowledged, unless stream 1 began blind and one behind; the second stream starts at a frame of the first |
| `Controls` | ring 2, 2 records, 3 changes of generation, queue of 1 key, 2 keys, 1 refusal | a drain shows exactly what its capture recorded; accepted keys are given to the endpoint once, in order and released; a host that stays awake sees the release |

The bounds are small because the hazards are: two sequence bits are told apart by
three PDUs; a ring of two slots is full, wraps and is skipped within four frames,
and its counters start two below their modulus so that they wrap early; a
handshake fails, if at all, against the session before or the one before that.  With
`Wrap` as small as the number of events between two loads, the statistics in
`Accounted` would fail on a whole turn of the counters, which takes 2^32 events in
the code; likewise `MaxGen` keeps the generation of the log from wrapping.
RetryOwner was also explored once with a budget of two and one session (5.8 million
states), CodecLink with three sessions and ParentLink with four PDUs, with no
violation of the invariants of their runs.

One bound matters for what is claimed, `Keeper`'s `MaxInbox = 2`: at most two commands
are accepted by the controller and not yet executed.  With three, a session can
begin while a reset of the one before and one of its own are both waiting; completions
are matched by opcode only, the first is taken for the second, and `InOrder` fails.
Since each command is given five seconds, this takes a controller that executes
nothing for more than ten.

**Deadlock** is checked in every run but three: in `AirParent` the trial may end, in
`AirFeedback` the last frame is reached, in `Controls` the bounds are used up.

**Fairness.**  `ParentLink` assumes that frames keep being submitted in poll
slots and are not lost for ever (strong fairness of `SubmitPoll`, `HeadsetHearPoll`,
`HeadsetReplyPoll`, `CollectPoll`: every sixth frame is a poll slot, and a radio
link that loses every poll is one that is torn down) and that events end
(weak fairness of `Collect`).  `TrialPump` assumes that the timer task and the
controller task are scheduled and that the controller serves its queue.
`CodecLink` assumes only that the worker is scheduled: each of its waits has a
time-out in the code.  `RadioTx` assumes that the arbiter decides on every listed
event, that foreign events end, that the ROM retires entries, that collect is polled
(every tick of the pump does so), and that a program ends by itself, *except* the
stopper of a repeat, which ends only after an abort ("stopper needs the owned RF-test
abort", `radio_tx.c:812`).  The alarm is not assumed to fire in time: `FineTimeout` of
collect is enough.  `Keeper` assumes that the keeper's task runs (all its waits end by
themselves), that a restart happens, and that the console goes on while it waits in
`ull_auto_enable`; it assumes nothing of the controller or the headset.  `Controls`
assumes that the USB task runs, that 12 ms pass, and that a host which is awake again
and again polls the endpoint (strong fairness of `Fetch`).

## Proofs

`ParentLink_proofs.tla` proves, for any number of PDUs and reply windows:
`LinkInvariant`, that `LinkInv` is an invariant, and from it `Ordered`, `NothingLost`,
`AcksAreSound`, `HeaderCurrent` and the refinement `LinkDelivers`.  The assumptions
are that the two bounds are positive numbers.  `NothingLost` says that a press which the
headset saw acknowledged was dispatched, with one exception that the code leaves open: what
the fixed poll acknowledged before the link was seeded.  That is at most the one PDU a
connection begins with, and only if it has SN = 1 (`told.swallowed` is contained in
`told.opening`): a press lost before seeding costs no later one.

The safety properties are not inductive: that a press is not taken twice depends on
how the receiver's expected bit relates to the headset's sequence number, and on
what answers are still in the air.  `RxInv` says the first, as a statement about a
receiver state `st` so that it can be used for every intermediate state while the
answers of one event are handled; `ReplyInv` says what an answer in the air may
look like: the headset as it is, or as it was before one of its two bits moved in
this event.  `HeaderInv` ties the header in flight to the automaton.  The key
lemmas show that handling one answer preserves `RxInv` if `ReplyInv` holds of it,
then that handling a sequence does; each action follows with a step of its own.
The refinement needs in addition that one collected event consumes at most one PDU.

`IsStale` (the check of the header sent) can be dropped alone without breaking a
safety property: `SentHeaderCurrent` already holds.  It is a second line of defence.
So are, in the other models, the check that a reply answers exactly the PDU that is due
(`Exact` in `AirParent`, given that E2 is committed before the next frame is prepared),
and the second look at `enabled` in `SameCapture`, given the generation.

`Trial_proofs.tla`, of `TrialPump`, for any number of runs: `IdleIsQuiet`, `StepsAreCurrent` and
`OneCommand` follow from the invariant `PumpInv`.  That nobody is left in the pump after
`ull_trial_pump_busy` said no depends on the order of its three loads, so `QueryInv` says
what is known after each of them: a pump that was inactive stays so while the query
lasts, a callback that was away can from then on only come and go without effect
(`Harmless`), and only with both of these does a cleared `pending` mean that no command
is on its way.  `TickInv` and `QueueInv` say where the callback and a command may be,
`CtlInv` where the controller task, `RecordInv` that an active run has timer and trace.

The same module, of `RetryOwner`, for any budget and number of sessions:
`OncePerBootAlways`, `NothingSurvivesAlways` and `OwnerUsedAlways`, from `RetryInv`
(`RetryInvariant`).  The difficulty is that a claim is made in one access and given up in
another, with the rest of a call in between; what holds meanwhile depends on which calls
are still on the controller's list.  `Shape` says that the list is a stack: it is never
longer than the heights of its places allow, the six places of `Lowest` have nothing
behind them, and what a place relies on being done later is still behind it
(`Owes`: every place of `finish` owes the ones that follow).  Each way in which a place
replaces itself by others is a lemma (`Returns`, `CallsOne`, `CallsEnd`, `AlonePuts`, ...),
so that each action only has to be shown to keep the claims, which read the list as a set
(`Now`).  The claims are: whoever owns has a reason to, or the place that will free the owner
is on the list or the console is about to (`BurstOwns`, `ProbeOwns`, `AutoOwns`); a probe that
was taken is in flight until its end was noted (`InFlight`); and for each place of
`finish`, what is over once it is no longer on the list (`Finishing`).  The order in
`finish` matters for one step: a console that finds the stream still transmitting
leaves its test armed, and then the state has not been closed, so the two places that
end an armed test are still to come (`LooksFirst`).

`AudioSource_proofs.tla`, for any ring, any modulus of the counters that the ring
divides, any place where they start and any number of frames and events:
`ChannelsStayTogether`, `AnsweredTheSame`, `PaceKept`, `FramesAreAccounted` and
`OccupancyIsTrue`, from the invariant `SourceInv` (`RingKept`).  The proof counts frames
without wrapping: the counters of the code are remainders of these numbers, a slot is the
remainder by the size of the ring, and since that divides the modulus of the counters, two
frames that wait never share a slot.  `CountersInv` orders producer, published counter and
consumer; `RingInv` says that frames that wait are whole and in their slots;
`LatchInv` that the latches are those of the last two events; `GivenInv` that an
answer lies as far behind as its event allows.  One hypothesis is made, and only for the
last conjunct of `Accounted` (the reported occupancy was the true one at some moment of
the call): `MaxFrames < Wrap`, the counters make no whole turn while the statistics
are read twice.  In the code a turn is 2^32 frames.  `FramesAreAccounted` proves the
rest of the count without it.

`CodecLink_proofs.tla`, for any size of the queues, number of sequence numbers and of
sessions: `PausedIsParked`, `SessionsStayApart`, `AnswersFindRoom`, `DecoderStaysFresh`.
`ParkInv` adds to the first what the worker has given up
at each step towards the barrier (`EmptyHands`), that its flag says where it is
(`BarrierInv`), and that the keeper asks only when the trial is over, which is why the
radio is not pushing into the ring that the worker has just emptied (`KeeperInv`).  The
other three rest on it: `LinkInv` adds what each phase of an exchange knows (`PhaseInv`),
that everything in the queue and in the hands of the worker is of the session of now, or
will be refused (`SessionInv`), that what was asked for and what waits together fit
the queue until the answer comes (`CreditInv`), and that the codec decodes only behind a
reset for its session (`DecoderInv`).

`Tunnel_proofs.tla`, for any pool and reservation (the reservation fits the pool), any
number of proposals and connections: `PoolConserved` and `StagesAreConfirmed`.  `PoolInv`
says that every slot is
free once, or the controller's, or of the reservation it was handed; that a reservation
has a first slot is `FirstOf`, by the well-foundedness of the naturals.  The second needs
that every E0 has a number of its own, which belongs to one connection (`NumbersInv`);
that the E2 on the link answers an E0 of this connection, and that a plan comes only from
an answer to the E0 that was sent, when no confirmation of an earlier E2 is left nor can
come (`AnswerInv`); and that the trial waits for the E2 it sent itself (`TrialInv`).

`Keeper_proofs.tla` has three layers.  `KeeperKeeps`, for any constants, gives
`StreamersAreKnown` and `ManualIsAlone`: `GateInv` relates the two flags to where keeper and
console are; `StartupInv` says what the step of the startup implies about the peer;
`CancelInv` that there is one cancel at a time, the last in the queue of the controller, so
that its completion means that no earlier start is still to come; `QuietInv` that a
stream, or a command that will start one, belongs to a session that knows it has to
stop it.  `OldInv` gives `ResetsMeetQuiet`: behind a reset only what opens a session is
queued, and news of an earlier session end with the completion of a reset.  That is
where the hypothesis `MaxInbox <= 2` is needed (see Runs: with three commands behind it
is false).  `GapInv` gives `NewsInOrder`: when an event does not fit, the session is
marked lost, and the keeper can take only so many more events before it sees the
mark (`Need`, by where it is and after which command, five at most); the queue was full,
so those it takes are from before the loss.  This is for a queue of five slots or more;
the code has 32.  On the smaller queue of the run TLC finds the property to hold as well.

`Controls_proofs.tla`, for any set of publishers with the two of the code, ring, queue
and number of captures, keys and refusals: `OneCaptureDrained` and `KeysAreReported`.
The first needs `BuiltInv`, that a record built for the generation of now is one of the
capture of now, whatever the console has done in between; the two lemmas on sequences
say that appending to the ring and moving its head to the console continue the same
series of records.  The second is nearly inductive by itself (`KeyInv` adds that
a control is taken up only while another key can be counted); the work is in the series
of reports, two to a key (`Told`), which the queue continues.

`Air_proofs.tla`, of `AirFeedback`, for any clock, tick, interval, horizon and modulus of the
numbers; the run has a clock of 64 and numbers modulo 4 where the code has 2^28 and 16.
`StreamsShareTimeLine`: the plan of the second stream was accepted because its distance
from the first, with the clock's difference taken forwards, is a whole number of
frames; the proof is that going forward by that distance leads to the plan itself
(`ElapsedLater`, by the uniqueness of quotient and remainder), so that it holds however
clock and counter wrap.  `SequencesInStep` follows `Base`, the number of the present frame,
which is what the headset expects but for a packet that it took in this frame, and shows
that it goes on by one a frame whether the number was used or expired (`FrameNumbers`).
A reply fixes it (`CountInv`), with one to subtract exactly when the reply came behind the
packet; that this can be told from the number alone is `AckInv`.  It would fail for a packet
sent without a reply to a headset exactly one ahead (`Ahead`), whose reply looks like an
acknowledgement.  Only stream 1 is ever sent so, the second waits for a reply; it is in
`blind` from then on, its number stays one behind what the headset expects, and so the headset
takes none of its packets.  `SequencesInStep` says just this: numbers are right, and only
packets that were taken are noted as acknowledged (a reply of this frame says so only of
those, `Told`), in every stream that is not in `blind`; one that is stays one behind and is
never taken; where the headset
counts from is arbitrary.  The hypothesis `(MaxFrame + 1) * Interval <= Clock * Tick`
says that a session is shorter than a turn of the coarse clock, 23 hours in the code;
only then is a reply kept for that long sure to lie in no later frame's slot
(`OtherSlot`).  All other steps hold without it.

The same module, of `AirParent`: `ConfirmedWasTaken`, from `JoinInv`.  While E1 is awaited, the
frame's bits are those of the parent link or, when the link has moved in between, ones that
the headset no longer answers with E1 (`Awaits`); so an E1 that is accepted tells the
program where the headset is.  From then on E2 is known to be taken by the bit it was sent with
(`Pends`), as long as the parent link's own bit is another one: a frame of the parent link
that the headset acknowledges cannot pass for E2's.

And of `RadioTx`, for any set of modes: `OnAirAlwaysConfigured`, `FaultAlwaysProvoked`,
`AlwaysRetiredBeforeRelease`, `CancelledNeverStarts` and the refinement
`EventKeepsPromise`, from `EventInv`.  `RingInv`
says that entries lie in the order in which their programs are pushed (`Rank`), each once and
a foreign one last, so that four suffice; that the ROM may retire any entry that is over keeps it
(`EntryRemoved`).  `OwnInv` says that the entries in the ring are those of the present event,
or the first of a followup's, which then was called back.  `HwInv` ties the three flags of
the struct to what the hardware holds: an entry that is not over has the settings changed, and
these are saved only from a state in which nothing is changed.  `StopInv` (a cancelled
event is not listed and has no followup) is all that `CancelledNeverStarts` needs.  These
hold whatever interferes.  That a fault takes an interference needs `IntactInv`, what is
true as long as nothing has: a started event is the active one, the ring holds only its
entries and all that are not over, and its `ended` agrees with the callbacks that came.  Then
the consumer of the ring is an entry of ours, so that an abort finds what it checks for
(`MayAlwaysAbort`), and a later program cannot be on the air before an earlier one is over
(`InOrder`).  The refinement needs one more fact, that an event which ended has no entry left
that is not over: else a late callback could lose, or end again, what the caller may already
have taken back.  Each action then maps to one of `RadioEvent` or to none (`EventAlwaysMoves`).

All assumptions are the named ones of the modules (bounds are positive, a reservation is
no wider than the pool, `"air"` and `"acl"` are publishers, a frame is a whole number of
coarse steps), and the four hypotheses
that theorems state: `MaxFrames < Wrap` in `OccupancyIsTrue`, `MaxInbox <= 2` in
`ResetsMeetQuiet` and `NewsInOrder`, `Cap >= 5` in the latter, and the length of a
session in `SequencesInStep`.

Only model-checked: all liveness properties (fairness and ENABLED are out of the prover's
reach): `ControlArrives`, `PumpSettles`, `PauseAnswered`, `PauseServed`, `EventuallyReclaimed`,
`KeyReleased`.  Every invariant, action property and refinement of a passing run is proved.

## Findings

`RetryExclusion` (`tone_trial.c:224`).  The header says "Manual probe/burst APIs
retain their once-per-boot limits and exclusion" (`tone_trial.h:39`).  Once a burst
was used up, arming it again takes `retry_owner` and then fails to move the burst's
state.  In between the controller's `burst_submitted` sees a finished burst and frees
owner 2, and the automatic policy takes the owner.  The console then stores 0
unconditionally: the automatic policy runs on while the owner says free, and a probe
can be armed beside it.  It is narrow and its effect is on a diagnostic.
`ull_tone_trial_retry_probe_arm` ends with the same unconditional store.  Related,
without a property of its own: `burst_take` checks and then stores the burst's state,
so that it may overwrite the 3 the console has just written.

`audio_source.h:41` says that on a refused push "caller retains the encoded frame for
retry" where `pcm_stream.c:83` drops it; `NoQueueDrop` shows that the push is never
refused.

Found with `AirFeedback`, whose `InStep` names it as its exception (`air_feedback.c:105`).  A
comment says that "only authenticated ACKs establish receipt of the completed audio event by
the headset" (`tone_trial.c:902`), and `air_feedback.h:41` calls a reply that carries the sent
number plus one "an ACK".  The first packets of stream 1 are sent before any reply, numbered by
the frame.  If the headset's own number is one more, it takes none of them, and its first
reply, which truthfully says so, passes for an acknowledgement.  The stream is kept one behind
from then on, no packet of it is taken, and `tone_trial.c:939` counts its stereo frames as
acknowledged: without `\cup blind` in its last conjunct `InStep` fails in a state where the
headset has taken nothing.  The code does not say whether a headset may begin like that;
any other difference is corrected by the first reply.

Not a disagreement, because no comment says otherwise, but worth knowing: the poll that
goes out before the link is seeded acknowledges a PDU with SN = 1 that nobody has handled
(`NoPressLost`, `told.swallowed`).  If it is a press, it may be lost.

## Not modelled

* Audio samples, payload bytes, encryption, packet layouts and checksums: data.
* In `CodecLink`: the codec's answer to a repeated request number, since the worker
  numbers every request anew; the codec's worker tasks.  A start command that fails
  is covered by the path that restarts the board.
* In `RetryOwner`: warm-up and cool-down counters (a nondeterministic choice),
  statistics, trace switches.
* In `TrialPump`: the refusals of `ull_tone_trial_rearm` on a radio fault.
* In `RadioTx`: instants, so that an alarm may come at any time while it is armed and a
  fine timeout whenever its other conditions hold; register values; the traces; the
  callbacks that the code only refuses (reason 3 for the stopper, a second final callback,
  which changes nothing); `first_alarm`, which nothing sets.  The ROM is a set of
  assumptions: it calls each entry back once, runs the ring in order except for skips,
  and retires an entry after its callback, at any later time.  Comments say that it does so as
  the callback returns (`radio_tx.c:366`); collect does not rely on it, with the
  exception of a followup, whose predecessor's index is overwritten (line 401).
  `RetiredBeforeRelease` exempts that entry.
* In `AudioSource`: the occupancy test of `select` (line 44), which `Accounted` shows
  to be always true.
* In `Keeper`: the contents of the commands and the checks of their replies (a reply that
  does not fit is a command that failed), reassembly of ACL fragments, and time: a
  time-out may come whenever its wait is on.  While the console gives the board back
  (`resuming`), the keeper may start as soon as `enabled` is set; the model lets it.
  A manual session that leaves a trial over and not rearmed makes every later startup
  of the keeper fail at its last step (`ull_tone_trial_continuous` refuses), before there
  is a stream to stop and rearm, so that the keeper goes on connecting in vain until the
  board is restarted.  The model contains this (`ManualTrial`); no comment promises
  otherwise, and no property is about it.
* In `Tunnel`: the fill pattern behind the payload (`tail_ok`) and the checks of ROM
  tables; a pool that is fragmented by more than the controller's own PDUs.  E2's
  confirmation is withdrawn by the next E0, not by E2's commit; `Confirmed` shows
  that this is enough, because no E2 is committed without an E0.
* In `AirParent`: that the ACL is silent for longer than a step; it polls every 30 ms
  and a step takes 5.
* In `AirFeedback`: decryption and parsing.  A reply that is collected twice lies in an
  earlier frame's slot; all replies come before the numbers expire.
* The USB audio streams: two PCM rings that drop the oldest frames, the feedback value,
  mute and volume are updated under one lock by one task and read by another, so that
  what remains is arithmetic on sample counts; CDC input and output; the shutdown of
  the USB task for the bootloader.
* In `Controls`: what happens to a report after the endpoint took it; if the bus is reset
  before the host fetches it, it is lost, and `KeysReported` does not count that.
* In `CodecLink`: the decoder's history by session only.  A microphone that is switched off
  and on again within a session asks for a reset (`pcm_stream.c:129`), which is modelled, but
  `DecoderFresh` would not notice if it were missing.
* `main.c` beyond the commands above, `mic_stream.c` (not compiled), host tools, the
  LC3plus codec and the resamplers.

## Plan

1. `RadioEvent` in the place of `RadioTx`, composed with `RetryOwner` and the trial's schedule,
   which act on its outcomes.
2. `UsbStreams`: the PCM rings and the feedback value over mount, suspend and change of
   the alternate setting, and the shutdown of the USB task against a writer of the console.
