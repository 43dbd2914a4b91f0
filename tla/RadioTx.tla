------------------------------- MODULE RadioTx --------------------------------
(***************************************************************************)
(* One physical radio event (radio_tx.c): submitted by the controller      *)
(* task, started, stopped or cancelled by the ROM's arbiter, run by the    *)
(* ROM as one, two or three programs of a ring, ended by the programs'     *)
(* callbacks or by an alarm, and given back by polling collect.            *)
(*                                                                         *)
(* tx is the code's static struct.  arb, queued, ring, called, aborted and *)
(* hw are the ROM and the hardware, which the code only sees through the   *)
(* checks it makes.  The ROM retires an entry some time after its          *)
(* callback, which is what collect waits for.                              *)
(***************************************************************************)
EXTENDS Naturals, Sequences, FiniteSets, Functions

CONSTANT Modes   \* the kinds of event submitted

AllModes == {"single", "follow", "reply", "repeat"}

ASSUME ModesAssumption == Modes \subseteq AllModes

VARIABLES
  tx,          \* phase, mode and the flags of the static struct
  arb,         \* the arbiter's active event
  queued,      \* is our event in the arbiter's list
  ring,        \* entries of the program ring, the consumer first
  called,      \* our entries whose final callback has run
  aborted,     \* our entries an abort command was issued on
  hw,          \* what is ours in the hardware: alarm, globals, buffer
  handle,      \* does the caller still own the activity slots
  interfered,  \* history: ownership was lost or a program refused
  stopping     \* history: this event was cancelled

rom == <<arb, queued, ring, called, aborted>>
eventVars == <<tx, rom, hw, handle, interfered, stopping>>

Phases == {"idle", "queued", "active", "aborting", "ended", "cancelled",
           "refused", "fault"}
Own == {"first", "follow", "reply", "stop"}
Clear == [phase |-> "idle", mode |-> "single", followPending |-> FALSE,
          followActive |-> FALSE, ended |-> {}, stopAbort |-> FALSE,
          rxInvalid |-> FALSE, good |-> FALSE,
          alarm |-> FALSE, globals |-> FALSE, storage |-> FALSE]

EventTypeOK ==
  /\ tx \in [phase: Phases, mode: AllModes, followPending: BOOLEAN,
             followActive: BOOLEAN, ended: SUBSET Own, stopAbort: BOOLEAN,
             rxInvalid: BOOLEAN, good: BOOLEAN,
             alarm: BOOLEAN, globals: BOOLEAN, storage: BOOLEAN]
  /\ arb \in {"none", "ours", "foreign"}
  /\ ring \in Seq(Own \cup {"foreign", "stale"}) /\ Len(ring) <= 4
  /\ called \subseteq Own /\ aborted \subseteq Own
  /\ hw \subseteq {"alarm", "globals", "buffer"}
  /\ {queued, handle, interfered, stopping} \subseteq BOOLEAN

EventInit ==
  /\ tx = Clear
  /\ arb = "none" /\ queued = FALSE /\ ring = <<>>
  /\ called = {} /\ aborted = {} /\ hw = {}
  /\ handle = TRUE /\ interfered = FALSE /\ stopping = FALSE

-------------------------------------------------------------------------------
(***************************************************************************)
(* What the code looks at.                                                 *)
(***************************************************************************)
Prequeued == tx.mode \in {"reply", "repeat"}
Repeat == tx.mode = "repeat"

\* The programs of the event in the order they are pushed.
Programs == CASE tx.followActive -> <<"follow">>
              [] tx.mode = "reply" -> <<"first", "reply">>
              [] Repeat -> <<"first", "reply", "stop">>
              [] OTHER -> <<"first">>
Mine == Range(Programs)
Used == Range(ring)

\* tx_active_is_ours, tx_entry_is_ours and tx_program_is_ours(true): a queued
\* followup has forgotten the index of its predecessor.
ActiveIsOurs == arb = "ours"
EntryIsOurs(e) == e \in Mine \cap Used
ConsumerIsOurs == ring # <<>> /\ EntryIsOurs(Head(ring))
ProgramIsOurs == Mine \cap Used # {}

\* The entry on the air: the oldest one that was not called back.
Waiting == {i \in DOMAIN ring: ring[i] \notin called \cup {"stale"}}
OnAir == IF Waiting = {} THEN "none"
         ELSE ring[CHOOSE i \in Waiting: \A j \in Waiting: i <= j]

MayAbort == ActiveIsOurs /\ ConsumerIsOurs

\* tx_abort_active, on the struct and on the hardware.
Started(t) == t.phase \in {"active", "aborting"}
AbortActive(t) ==
  IF ~Started(t) THEN t
  ELSE IF ~MayAbort THEN [t EXCEPT !.phase = "fault"]
  ELSE [t EXCEPT !.phase = "aborting", !.stopAbort = @ \/ Head(ring) = "stop"]
AbortedBy(t) == IF Started(t) /\ MayAbort THEN aborted \cup {Head(ring)} ELSE aborted

ClearAlarm(t) == [t EXCEPT !.alarm = FALSE]
RestoreGlobals(t) == [t EXCEPT !.globals = FALSE]

\* A bug that forgets that the event was lost.
EndedAnyway(t) == [t EXCEPT !.phase = "ended"]
Ended(t) == IF t.phase = "fault" THEN t ELSE [t EXCEPT !.phase = "ended"]
Without(t) == hw \ ((IF tx.alarm /\ ~t.alarm THEN {"alarm"} ELSE {})
                    \cup (IF tx.globals /\ ~t.globals THEN {"globals"} ELSE {}))

\* r_sch_arb_remove(&tx.arb, 1) behind the check that it is active.
Removed == IF ActiveIsOurs THEN "none" ELSE arb

-------------------------------------------------------------------------------
(***************************************************************************)
(* The controller task: submit.  A refusal before the storage is taken     *)
(* changes nothing.                                                        *)
(***************************************************************************)
ReleaseStorage(h) == h \ {"buffer"}

Submit(mode) ==
  /\ tx.phase = "idle" /\ handle
  /\ tx' = [Clear EXCEPT !.phase = "queued", !.mode = mode,
                         !.followPending = (mode = "follow"), !.storage = TRUE]
  /\ queued' = TRUE /\ hw' = hw \cup {"buffer"} /\ stopping' = FALSE
  /\ UNCHANGED <<arb, ring, called, aborted, handle, interfered>>

SubmitConflict ==
  /\ tx.phase = "idle" /\ handle
  /\ tx' = Clear
  /\ hw' = ReleaseStorage(hw \cup {"buffer"})
  /\ UNCHANGED <<rom, handle, interfered, stopping>>

(***************************************************************************)
(* The arbiter starts, cancels or stops our event.                         *)
(***************************************************************************)
RingEmpty == ring = <<>>

StartRefused ==
  /\ tx' = [tx EXCEPT !.phase = "refused"]
  /\ arb' = "none"
  /\ UNCHANGED <<ring, hw, interfered>>

\* The ring offers no entry.
StartNoEntry ==
  /\ ~interfered /\ interfered' = TRUE
  /\ tx' = [tx EXCEPT !.phase = "fault"]
  /\ arb' = "none"
  /\ UNCHANGED <<ring, hw>>

\* n of the programs were accepted; the last push that fails is fatal.
StartPrograms(n) ==
  LET all == n = Len(Programs) IN
  /\ handle /\ RingEmpty
  /\ all \/ ~interfered
  /\ tx' = [tx EXCEPT !.phase = IF all THEN "active" ELSE "fault",
                      !.globals = TRUE, !.alarm = all]
  /\ arb' = "ours"
  /\ ring' = ring \o SubSeq(Programs, 1, n)
  /\ hw' = hw \cup {"globals"} \cup (IF all THEN {"alarm"} ELSE {})
  /\ interfered' = (interfered \/ ~all)

ArbStart ==
  /\ queued /\ arb = "none" /\ tx.phase = "queued"
  /\ queued' = FALSE
  /\ StartRefused \/ StartNoEntry \/ \E n \in 0..Len(Programs): StartPrograms(n)
  /\ UNCHANGED <<called, aborted, handle, stopping>>

ArbCancel ==
  /\ queued
  /\ queued' = FALSE
  /\ tx' = [tx EXCEPT !.phase = IF @ = "queued" THEN "cancelled" ELSE "fault"]
  /\ UNCHANGED <<arb, ring, called, aborted, hw, handle, interfered, stopping>>

ArbStop ==
  /\ arb = "ours"
  /\ tx' = AbortActive(tx) /\ aborted' = AbortedBy(tx)
  /\ UNCHANGED <<arb, queued, ring, called, hw, handle, interfered, stopping>>

Alarm ==
  /\ "alarm" \in hw
  /\ hw' = hw \ {"alarm"}
  /\ tx' = AbortActive(ClearAlarm(tx)) /\ aborted' = AbortedBy(tx)
  /\ UNCHANGED <<arb, queued, ring, called, handle, interfered, stopping>>

(***************************************************************************)
(* Callbacks of our programs.  A packet received by the stopper is freed,  *)
(* not kept.                                                               *)
(***************************************************************************)
Packets == {"none", "bad", "good", "invalid"}
Receive(t, e, packet) ==
  [t EXCEPT !.rxInvalid = @ \/ packet = "invalid",
            !.good = @ \/ (packet = "good" /\ e # "stop")]

\* A bug that takes a skipped stopper for one that overtook.
SkipIsOvertaking(e, reason) ==
  \/ e = "reply" /\ "first" \notin tx.ended
  \/ e = "stop" /\ ~({"first", "reply"} \subseteq tx.ended)
Overtaking(e, reason) == SkipIsOvertaking(e, reason) /\ reason # 4

Faulty(e, reason) == ~EntryIsOurs(e) \/ Overtaking(e, reason)

\* Reason 2: enough was heard of the event on the air.
RxPacket(packet) ==
  LET e == OnAir
      t == Receive(tx, e, packet)
      native == tx.followPending
      enough == /\ tx.followActive \/ e = "reply" \/ native \/ Repeat
                /\ ~t.rxInvalid /\ t.good
      u == [t EXCEPT !.followPending = @ /\ ~native]
  IN
  /\ e \in Own
  /\ IF Faulty(e, 2) THEN tx' = [tx EXCEPT !.phase = "fault"] /\ UNCHANGED aborted
     ELSE IF e # "stop" /\ enough THEN tx' = AbortActive(u) /\ aborted' = AbortedBy(u)
     ELSE tx' = t /\ UNCHANGED aborted
  /\ UNCHANGED <<arb, queued, ring, called, hw, handle, interfered, stopping>>

\* Reasons 0, 1 and 4: the program ended, was aborted or was skipped.  An
\* event of several programs is over when all were called back.
\* A bug that counts two programs whatever the mode.
AllEndedOfTwo(ended) == {"first", "reply"} \subseteq ended
AllEnded(ended) == Mine \subseteq ended

\* A bug that runs into the clean-up of an event of one program.
PrequeuedDoneAtOnce(e, reason, t) ==
  LET u == [t EXCEPT !.ended = @ \cup {e}]
      v == RestoreGlobals(IF AllEnded(u.ended) THEN Ended(ClearAlarm(u)) ELSE u)
  IN
  /\ tx' = v /\ hw' = Without(v)
  /\ UNCHANGED <<arb, queued, ring>>
PrequeuedDone(e, reason, t) ==
  LET u == [t EXCEPT !.ended = @ \cup {e}]
      v == IF AllEnded(u.ended) THEN Ended(ClearAlarm(u)) ELSE u
  IN
  /\ tx' = v /\ hw' = Without(v)
  /\ UNCHANGED <<arb, queued, ring>>

\* The event of one program: everything but the storage is given back, and a
\* followup is tried after an undisturbed first event.
Follows(t, reason) ==
  /\ t.followPending /\ reason = 0 /\ t.phase = "ended" /\ ~t.rxInvalid

\* tx_queue_followup: the parent may take the arbiter as soon as it is free.
FollowUp(t) ==
  LET u == [t EXCEPT !.followPending = FALSE]
      q == [u EXCEPT !.followActive = TRUE]
  IN
  \/ /\ ~handle
     /\ tx' = [u EXCEPT !.phase = "fault"]
     /\ arb' = Removed /\ UNCHANGED <<queued, ring>>
  \/ /\ handle
     /\ IF Removed = "none" /\ Len(ring) = 1
        THEN arb' = "foreign" /\ ring' = Append(ring, "foreign")
        ELSE arb' = Removed /\ UNCHANGED ring
     /\ tx' = u /\ UNCHANGED queued
  \/ /\ handle /\ Removed = "none" /\ Len(ring) = 1
     /\ arb' = Removed /\ UNCHANGED ring
     /\ \/ tx' = u /\ UNCHANGED queued
        \/ tx' = q /\ UNCHANGED queued
        \/ tx' = [q EXCEPT !.phase = "queued"] /\ queued' = TRUE

SingleDone(reason, t) ==
  LET u == Ended(RestoreGlobals(ClearAlarm(t))) IN
  /\ hw' = Without(u)
  /\ IF Follows(u, reason) THEN FollowUp(u)
     ELSE tx' = u /\ arb' = Removed /\ UNCHANGED <<queued, ring>>

Done(e, reason, packet) ==
  LET t == IF reason = 4 THEN tx ELSE Receive(tx, e, packet) IN
  /\ called' = called \cup {e}
  /\ IF Faulty(e, reason)
     THEN tx' = [tx EXCEPT !.phase = "fault"] /\ UNCHANGED <<arb, queued, ring, hw>>
     ELSE IF Prequeued THEN PrequeuedDone(e, reason, t) ELSE SingleDone(reason, t)
  /\ UNCHANGED <<aborted, handle, interfered, stopping>>

Finish(e) == e = OnAir /\ e \in Own
             /\ \E reason \in {0, 1}, packet \in Packets: Done(e, reason, packet)
Skipped(e) == e \in Used \ called /\ e \in Own /\ Done(e, 4, "none")

(***************************************************************************)
(* The controller task: cancel, and collect where it does not just answer  *)
(* "pending" or "lost".                                                    *)
(***************************************************************************)
CancelQueued ==
  /\ tx.phase = "queued"
  /\ queued' = FALSE
  /\ tx' = [tx EXCEPT !.phase = IF queued /\ ~ActiveIsOurs THEN "cancelled" ELSE @,
                      !.followPending = FALSE]
  /\ UNCHANGED aborted

\* A started repeat is left to its own end; only its entries are checked.
RepeatIntact == ActiveIsOurs /\ \A e \in Mine: EntryIsOurs(e) \/ e \in tx.ended

CancelRepeat ==
  /\ Repeat /\ Started(tx)
  /\ tx' = [tx EXCEPT !.phase = IF RepeatIntact THEN @ ELSE "fault"]
  /\ UNCHANGED <<queued, aborted>>

\* A bug that keeps the followup of a cancelled event.
GivenUpNot == tx
GivenUp == [tx EXCEPT !.followPending = FALSE]

CancelOther ==
  /\ tx.phase # "queued" /\ ~(Repeat /\ Started(tx))
  /\ tx' = AbortActive(GivenUp) /\ aborted' = AbortedBy(GivenUp)
  /\ UNCHANGED queued

Cancel ==
  /\ tx.phase # "idle"
  /\ stopping' = TRUE
  /\ CancelQueued \/ CancelRepeat \/ CancelOther
  /\ UNCHANGED <<arb, ring, called, hw, handle, interfered>>

Collectable == tx.phase \notin {"idle", "fault"} /\ (tx.storage => handle)

\* The stopper is aborted once its window is over; nothing else ends it soon.
\* A bug that leaves the stopper to the coarse alarm.
FineTimeoutNever == FALSE
FineTimeout ==
  /\ Repeat /\ {"first", "reply"} \subseteq tx.ended /\ "stop" \notin tx.ended
  /\ ~tx.stopAbort /\ Started(tx)
  /\ MayAbort /\ Head(ring) = "stop" /\ "stop" \notin called

CollectAbort ==
  /\ Collectable /\ FineTimeout
  /\ tx' = AbortActive([tx EXCEPT !.stopAbort = TRUE])
  /\ aborted' = AbortedBy(tx)
  /\ UNCHANGED <<arb, queued, ring, called, hw, handle, interfered, stopping>>

AllOver == Prequeued /\ AllEnded(tx.ended)

CollectForeign ==
  /\ Collectable /\ AllOver
  /\ arb = "foreign"
  /\ tx' = [tx EXCEPT !.phase = "fault"]
  /\ UNCHANGED <<rom, hw, handle, interfered, stopping>>

\* A bug that does not wait for the ROM to retire the entries.
UnusedAssumed == TRUE
Unused == ~ProgramIsOurs

CollectRelease ==
  LET t == IF AllOver THEN RestoreGlobals(tx) ELSE tx
      a == IF AllOver THEN Removed ELSE arb
  IN
  /\ Collectable
  /\ AllOver => arb # "foreign" /\ Unused
  /\ t.phase \in {"ended", "cancelled", "refused"}
  /\ ~t.globals /\ ~t.alarm /\ a # "ours" /\ Unused
  /\ hw' = IF t.storage THEN ReleaseStorage(Without(t)) ELSE Without(t)
  /\ arb' = a
  /\ tx' = Clear
  /\ ring' = [i \in DOMAIN ring |-> IF ring[i] \in Own THEN "stale" ELSE ring[i]]
  /\ called' = {} /\ aborted' = {} /\ stopping' = FALSE
  /\ UNCHANGED <<queued, handle, interfered>>

-------------------------------------------------------------------------------
(***************************************************************************)
(* The ROM retires an entry that was called back and runs other events in  *)
(* between; the environment interferes once.                               *)
(***************************************************************************)
WithoutEntry(i) == SubSeq(ring, 1, i - 1) \o SubSeq(ring, i + 1, Len(ring))

Retire ==
  \E i \in DOMAIN ring:
    /\ ring[i] \in called \cup {"stale"}
    /\ ring' = WithoutEntry(i)
    /\ UNCHANGED <<tx, arb, queued, called, aborted, hw, handle, interfered, stopping>>

ForeignStart ==
  /\ arb = "none" /\ "foreign" \notin Used
  /\ arb' = "foreign" /\ ring' = Append(ring, "foreign")
  /\ UNCHANGED <<tx, queued, called, aborted, hw, handle, interfered, stopping>>

ForeignEnd ==
  /\ OnAir = "foreign"
  /\ \E i \in DOMAIN ring: ring[i] = "foreign" /\ ring' = WithoutEntry(i)
  /\ arb' = IF arb = "foreign" THEN "none" ELSE arb
  /\ UNCHANGED <<tx, queued, called, aborted, hw, handle, interfered, stopping>>

\* The caller gives the slots up early, or the arbiter hands the radio to a
\* foreign event while ours is active.
LoseHandle ==
  /\ ~interfered /\ interfered' = TRUE
  /\ handle' = FALSE
  /\ UNCHANGED <<tx, rom, hw, stopping>>

Preempt ==
  /\ ~interfered /\ interfered' = TRUE
  /\ arb = "ours" /\ arb' = "foreign"
  /\ ring' = Append(ring, "foreign")
  /\ UNCHANGED <<tx, queued, called, aborted, hw, handle, stopping>>

-------------------------------------------------------------------------------
Resolve == ArbStart \/ ArbCancel
Callback ==
  \/ \E packet \in Packets: RxPacket(packet)
  \/ \E e \in Own: Finish(e) \/ Skipped(e)
Collect == CollectAbort \/ CollectForeign \/ CollectRelease

EventNext ==
  \/ \E mode \in Modes: Submit(mode)
  \/ SubmitConflict
  \/ Resolve \/ ArbStop \/ Alarm
  \/ Callback
  \/ Cancel \/ Collect
  \/ Retire \/ ForeignStart \/ ForeignEnd
  \/ LoseHandle \/ Preempt

EventSpec == EventInit /\ [][EventNext]_eventVars

\* Every program but the stopper ends by itself; the stopper ends when it was
\* aborted.  The arbiter decides on every event it has listed.
Ends == \E e \in Own: (e # "stop" \/ e \in aborted) /\ Finish(e)
Fairness ==
  /\ WF_eventVars(Resolve) /\ WF_eventVars(Ends) /\ WF_eventVars(Retire)
  /\ WF_eventVars(Collect) /\ WF_eventVars(ForeignEnd)
FairSpec == EventSpec /\ Fairness

-------------------------------------------------------------------------------
\* A program of ours that is not over runs with its payload, its control
\* structure and its radio settings in place, whatever ended before it; and
\* while the struct is idle nothing of it is listed, active, armed, changed or
\* held ("Do not release handle 0xee ... until this returns 1", radio_tx.h).
OnAirConfigured ==
  /\ EventTypeOK
  /\ OnAir \in Own => {"globals", "buffer"} \subseteq hw
  /\ tx.phase = "idle" => ~queued /\ arb # "ours" /\ hw = {}

\* Storage goes back to the ROM only after it retired the entries that point
\* there.  The predecessor of a tried followup is the exception: the code
\* forgets its index and relies on the ROM to retire it in time.  And settings
\* are saved and the alarm is armed only while neither is ours: the followup,
\* which starts over its own predecessor, would otherwise save the
\* predecessor's settings as the parent's.
RetiredBeforeRelease ==
  [][/\ tx.phase # "idle" /\ tx'.phase = "idle"
          => Used \cap (Own \ (IF tx.followActive THEN {"first"} ELSE {})) = {}
     /\ tx.phase = "queued" /\ tx'.globals
          => ~tx.globals /\ hw \cap {"globals", "alarm"} = {}]_eventVars

\* Losing the event for good ("requiring HCI reset") takes an interference:
\* no order of callbacks, alarm, stop, cancel and collect does it alone.
FaultProvoked == tx.phase = "fault" => interfered

\* What the caller can tell of the phase and the flags.
Stage == IF Started(tx) THEN "running" ELSE tx.phase
Event == INSTANCE RadioEvent
  WITH stage <- Stage, again <- tx.followPending, stopped <- stopping

\* The event as its caller sees it (radio_tx.h): one outcome, final until it is
\* collected, at most one followup and none after a cancel; a lost event stays
\* lost, and one that was withdrawn or refused is never lost.
KeepsEventPromise == Event!Spec

\* Every submitted event is given back unless something interfered, also a
\* repeat whose alarm came before its stopper was on the air.
EventuallyReclaimed == (tx.phase # "idle") ~> (tx.phase = "idle" \/ interfered)
===============================================================================
