------------------------------- MODULE Keeper -------------------------------
(***************************************************************************)
(* The keeper: the task that connects to the bonded headset, starts the    *)
(* audio stream, tears it down and starts over (auto_link.c), with what it *)
(* shares with its neighbours: the flags of the console that takes the     *)
(* board over for a manual session, the event queue filled by the receive  *)
(* hook, and the command queue of the controller.  Commands are executed   *)
(* in order, perhaps after the keeper stopped waiting: the completion is   *)
(* then late, and completions are told apart by their opcode only.         *)
(***************************************************************************)
EXTENDS Naturals, Sequences

CONSTANTS Cap,       \* slots of the event queue (32 in the code)
          MaxInbox,  \* commands accepted and not yet executed
          MaxTries,  \* attempts of one step (12, 10; cancel: what 500 ms allow)
          MaxOdd     \* events the headset sends out of turn

ASSUME KeeperAssumption == {Cap, MaxInbox, MaxTries} \subseteq Nat \ {0} /\ MaxOdd \in Nat

VARIABLES
    con,             \* console: where it is in ull_auto_enable
    enabled, pauseRequested, busy,   \* the flags the two tasks share
    pc, op,          \* keeper: where it is in run; its last command
    peer, step,      \* the flags of struct peer that are set; startup_step
    tries,           \* peer.raw_tries; cancel commands of this stop_audio
    parked,          \* the codec worker is paused for the reconnection
    events, lost,    \* the event queue; an event did not fit
    missed, taken,   \* history: an event of this session did not fit; the
                     \* kinds of wrong events that were processed
    inbox,           \* controller: commands to execute
    up, due,         \* connection present; events still to come
    trial, pump,     \* the frame trial and its timer
    odd

console == <<con, enabled, pauseRequested>>
host == <<busy, pc, op, peer, step, tries, parked, taken>>
queue == <<events, lost, missed>>
radio == <<inbox, up, due, trial, pump, odd>>
vars == <<console, host, queue, radio>>

Commands == {"reset", "setup", "connect", "encrypt", "prepare", "length",
             "e4", "e0", "verify", "play", "cancel", "rearm"}
Acl == {"config", "mismatch", "idle", "hold"}
Kinds == Acl \cup {"done", "conn", "refused", "disc", "enc", "encfail", "room",
                   "acked", "nack", "air", "pumpfail"}
Flags == {"handle", "encrypted", "requested", "setup", "verified", "idle", "holding",
          "room", "acked", "air", "attempted", "started", "failed", "disconnected", "retired"}
Outside == {"gate", "claim", "recheck", "recheck_pause"}
Session == {"loop", "act", "acl_setup", "startup", "limit", "stop", "park"}
Waiting == {"wait", "ok", "again", "no"}

Has(f) == f \in peer
ResetPending == \E i \in DOMAIN inbox : inbox[i] = "reset"

TypeOK ==
    /\ con \in {"on", "pausing", "idle_seen", "manual", "resuming"}
    /\ {enabled, busy, pauseRequested, parked, lost, missed, up, pump} \subseteq BOOLEAN
    /\ pc \in Outside \cup Session \cup Waiting \cup {"flush", "send", "leave", "restart"}
    /\ op \in Commands /\ peer \subseteq Flags /\ step \in 0..3 /\ tries \in 0..MaxTries
    /\ events \in Seq([kind : Kinds, op : Commands, res : Waiting, old : BOOLEAN, gap : BOOLEAN])
    /\ inbox \in Seq(Commands) /\ Len(inbox) <= MaxInbox /\ Len(events) <= Cap
    /\ due \subseteq Kinds /\ trial \in {"idle", "running", "ended", "fault"}
    /\ taken \subseteq {"old", "gap"} /\ odd \in 0..MaxOdd

Init ==
    /\ con = "on" /\ enabled = TRUE /\ pauseRequested = FALSE /\ busy = FALSE
    /\ pc = "gate" /\ op = "reset" /\ peer = {} /\ step = 0 /\ tries = 0 /\ parked = FALSE
    /\ events = <<>> /\ lost = FALSE /\ missed = FALSE /\ taken = {}
    /\ inbox = <<>> /\ up = FALSE /\ due = {} /\ trial = "idle" /\ pump = FALSE /\ odd = 0

-----------------------------------------------------------------------------
(* The console: ull_auto_enable, step by step.                             *)

PauseAsked == con = "on" /\ con' = "pausing" /\ pauseRequested' = TRUE /\ UNCHANGED enabled
PauseSeesIdle == con = "pausing" /\ ~busy /\ con' = "idle_seen" /\ UNCHANGED <<enabled, pauseRequested>>
PauseDone == con = "idle_seen" /\ con' = "manual" /\ enabled' = FALSE /\ UNCHANGED pauseRequested

\* The console refuses to give the board back while the pump runs.
Resume == con = "manual" /\ ~pump /\ con' = "resuming" /\ pauseRequested' = FALSE /\ UNCHANGED enabled
ResumeDone == con = "resuming" /\ con' = "on" /\ enabled' = TRUE /\ UNCHANGED pauseRequested

Console ==
    /\ PauseAsked \/ PauseSeesIdle \/ PauseDone \/ Resume \/ ResumeDone
    /\ UNCHANGED <<host, queue, radio>>

-----------------------------------------------------------------------------
(* The keeper.                                                             *)

\* Mutant: the last frame of the exchange alone starts the stream.
ProcessedUnverified(p, kind) ==
    IF kind = "hold" THEN p \cup {"holding"}
    ELSE IF kind = "conn" THEN p \cup {"handle"} ELSE p \cup ({kind} \cap {"room", "acked", "air"})

\* process and l2cap.  Frames of the connection are ignored without a handle;
\* the proprietary channel needs encryption, and the idle reply goes only to
\* a verified headset.  After the start the parent connection may go.
Processed(p, kind) ==
    LET fail == p \cup {"failed"}
        proprietary ==
            IF "encrypted" \notin p \/ kind = "mismatch" THEN fail
            ELSE CASE kind = "config" -> p \cup {"verified"}
                   [] kind = "hold" -> IF {"verified", "idle"} \subseteq p THEN p \cup {"holding"} ELSE p
                   [] kind = "idle" -> IF {"verified", "idle"} \cap p = {} THEN fail ELSE p \cup {"idle"}
    IN CASE kind = "conn" -> p \cup {"handle"}
         [] kind = "refused" -> p \cup {"disconnected"}
         [] kind = "disc" -> (p \ {"handle"}) \cup
                (IF "started" \notin p THEN {"disconnected"}
                 ELSE IF "handle" \in p THEN {"retired"} ELSE {})
         [] kind = "enc" -> p \cup {"encrypted"}
         [] kind = "encfail" -> fail \ {"encrypted"}
         [] kind \in {"nack", "pumpfail"} -> fail
         [] kind \in {"room", "acked", "air"} -> p \cup {kind}
         [] kind \in Acl /\ "handle" \in p -> proprietary
         [] OTHER -> p

\* The frames the headset answers with, in their order.
Answers(p, q) ==
    IF ~up THEN {} ELSE {f[2] : f \in {g \in {<<"setup", "config">>, <<"verified", "idle">>,
                                             <<"idle", "hold">>} : g[1] \in q \ p}}

Process(e) ==
    /\ peer' = Processed(peer, e.kind)
    /\ due' = due \cup Answers(peer, peer')
    /\ taken' = IF e.kind = "done" THEN taken
                ELSE taken \cup {w \in {"old", "gap"} : IF w = "old" THEN e.old ELSE e.gap}

Goes(l) == pc' = l /\ UNCHANGED <<op, inbox, events, missed>>
still == <<busy, parked, lost, taken, due>>

\* send_packet: the transport takes the command, or the tries run out.  What
\* was emitted before a reset was sent belongs to an earlier session.
Call(o) ==
    /\ op' = o
    /\ IF enabled /\ Len(inbox) < MaxInbox THEN inbox' = Append(inbox, o) /\ pc' = "wait"
       ELSE pc' = "no" /\ UNCHANGED inbox
    /\ missed' = (missed /\ o # "reset")
    /\ events' = [i \in DOMAIN events |-> [events[i] EXCEPT !.old = @ \/ o = "reset"]]

\* command: the completion of the opcode ends it.  Anything else is processed
\* (not while the reset is awaited), and then a lost event ends it too.
WaitAnswer ==
    /\ pc = "wait" /\ enabled /\ events # <<>>
    /\ events' = Tail(events)
    /\ LET e == Head(events)
           answer == e.kind = "done" /\ e.op = op
       IN /\ IF answer \/ op = "reset" THEN UNCHANGED <<peer, due, taken>> ELSE Process(e)
          /\ pc' = IF answer THEN e.res ELSE IF lost THEN "no" ELSE "wait"
    /\ UNCHANGED <<busy, op, step, tries, parked, lost, missed, inbox>>

\* Five seconds without it, or no longer the owner of the board.
WaitTimeout == pc = "wait" /\ Goes("no") /\ UNCHANGED <<peer, step, tries, still>>

\* Mutant: the flags are not looked at again after busy was set.
PausedNever == FALSE
PausedNow == IF pc = "recheck" THEN ~enabled ELSE pauseRequested

\* run, at the top: busy is set between two looks at the flags.
Gate ==
    /\ \/ pc = "gate" /\ enabled /\ ~pauseRequested /\ Goes("claim") /\ UNCHANGED busy
       \/ pc = "gate" /\ ~(enabled /\ ~pauseRequested) /\ busy' = FALSE /\ Goes("gate")
       \/ pc = "claim" /\ busy' = TRUE /\ Goes("recheck")
       \/ pc \in {"recheck", "recheck_pause"} /\ PausedNow /\ busy' = FALSE /\ Goes("gate")
       \/ /\ pc \in {"recheck", "recheck_pause"} /\ ~PausedNow
          /\ Goes(IF pc = "recheck" THEN "recheck_pause" ELSE "flush") /\ UNCHANGED busy
    /\ UNCHANGED <<peer, step, tries, parked, lost, taken, due>>

\* start_connection: peer and the queue are cleared, then lost; then reset,
\* setup and connect, or another try later.
StartConnection ==
    /\ \/ /\ pc = "flush" /\ pc' = "send"
          /\ peer' = {} /\ step' = 0 /\ tries' = 0 /\ events' = <<>>
          /\ UNCHANGED <<op, inbox, lost, missed>>
       \/ pc = "send" /\ lost' = FALSE /\ Call("reset") /\ UNCHANGED <<peer, step, tries>>
       \/ /\ pc \in Waiting \ {"wait"} /\ op \in {"reset", "setup", "connect"}
          /\ IF pc # "ok" THEN Goes("leave")
             ELSE CASE op = "reset" -> Call("setup")
                    [] op = "setup" -> Call("connect")
                    [] op = "connect" -> Goes("loop")
          /\ UNCHANGED <<peer, step, tries, lost>>
    /\ UNCHANGED <<busy, parked, taken, due>>

\* Mutants: a session goes on after a loss; or whatever the console asks.
LeavingDeaf == ~enabled \/ pauseRequested \/ Has("failed") \/ Has("disconnected")
LeavingStubborn == ~enabled \/ Has("failed") \/ Has("disconnected") \/ lost
Leaving == ~enabled \/ pauseRequested \/ Has("failed") \/ Has("disconnected") \/ lost

\* The loop of a session: leave it, or take one event or none and act.
Loop ==
    /\ pc = "loop"
    /\ IF Leaving THEN Goes("stop") /\ tries' = 0 /\ UNCHANGED <<peer, due, taken>>
       ELSE IF events = <<>> THEN Goes("act") /\ UNCHANGED <<peer, due, taken, tries>>
       ELSE /\ events' = Tail(events) /\ Process(Head(events))
            /\ pc' = "act" /\ UNCHANGED <<op, inbox, missed, tries>>
    /\ UNCHANGED <<busy, step, parked, lost>>

\* send_acl fails without a handle.
AclSent == IF Has("handle") THEN {} ELSE {"failed"}

\* A stream must keep its pump and be heard (5 s).  Before that: 20 s for the
\* connection, encryption when it is a second old, the setup frame once it is
\* encrypted, the startup once the headset holds, 20 s for all of it.
Act ==
    /\ \/ /\ pc = "act" /\ Has("started") /\ Goes("loop")
          /\ peer' = peer \cup {"failed"} \/ (pump /\ peer' = peer)
       \/ /\ pc = "act" /\ ~Has("started") /\ ~Has("handle")
          /\ (Goes("loop") \/ Goes("stop")) /\ peer' = peer
       \/ /\ pc = "act" /\ ~Has("started") /\ Has("handle")
          /\ \/ Goes("acl_setup") /\ peer' = peer
             \/ ~Has("requested") /\ Call("encrypt") /\ peer' = peer \cup {"requested"}
       \/ /\ op = "encrypt" /\ pc \in {"ok", "no"} /\ Goes("acl_setup")
          /\ peer' = peer \cup (IF pc = "ok" THEN {} ELSE {"failed"})
       \/ /\ pc = "acl_setup" /\ Goes(IF Has("holding") THEN "startup" ELSE "limit")
          /\ peer' = peer \cup (IF Has("encrypted") /\ ~Has("setup") THEN {"setup"} \cup AclSent ELSE {})
       \/ /\ pc = "limit" /\ Goes("loop")
          /\ peer' = peer \/ (~Has("started") /\ peer' = peer \cup {"failed"})
    /\ due' = due \cup Answers(peer, peer')
    /\ tries' = IF pc' = "stop" THEN 0 ELSE tries
    /\ UNCHANGED <<step, busy, parked, lost, taken>>

\* audio_startup.  Each step waits for its condition and sends its command;
\* step 0 goes on with reserve_audio, the frames that open the streams and a
\* request for longer packets.  E4 and E0 are tried again only when the link
\* was busy.  stream_attempted is set before the stream is started.
Startup ==
    /\ \/ /\ pc = "startup"
          /\ \/ Goes("limit")
             \/ /\ Has(<<"holding", "room", "acked", "air">>[step + 1])
                /\ Call(<<"verify", "e4", "e0", "verify">>[step + 1])
          /\ UNCHANGED <<peer, step, tries>>
       \/ /\ pc = "ok" /\ op = "verify" /\ step = 0
          /\ Call("prepare") /\ UNCHANGED <<peer, step, tries>>
       \/ /\ pc = "ok" /\ op = "prepare" /\ peer' = peer \cup AclSent
          /\ IF Has("handle") THEN Call("length") ELSE Goes("limit")
          /\ UNCHANGED <<step, tries>>
       \/ /\ pc = "ok" /\ op \in {"length", "e4", "e0"}
          /\ Goes("limit") /\ step' = step + 1 /\ tries' = 0 /\ UNCHANGED peer
       \/ /\ pc = "ok" /\ op = "verify" /\ step = 3
          /\ IF trial = "idle" /\ ~pump THEN peer' = peer \cup {"attempted"} /\ Call("play")
             ELSE peer' = peer \cup {"failed"} /\ Goes("limit")
          /\ UNCHANGED <<step, tries>>
       \/ /\ pc = "ok" /\ op = "play"
          /\ Goes("limit") /\ peer' = peer \cup {"started"} \cup AclSent /\ UNCHANGED <<step, tries>>
       \/ /\ pc = "again" \/ (pc = "no" /\ op = "play")
          /\ tries + 1 < MaxTries
          /\ Goes("limit") /\ tries' = tries + 1 /\ UNCHANGED <<peer, step>>
       \/ /\ pc \in {"again", "no"} /\ op \in {"verify", "prepare", "length", "e4", "e0", "play"}
          /\ tries + 1 >= MaxTries \/ (pc = "no" /\ op # "play")
          /\ Goes("limit") /\ peer' = peer \cup {"failed"} /\ UNCHANGED <<step, tries>>
    /\ UNCHANGED still

\* Mutant: only a stream that was seen to start is stopped.
ToStopSeen == Has("started")
ToStop == Has("attempted")

\* stop_audio: cancel until the pump is idle and the trial over, pause the
\* codec worker, rearm.  Whatever fails restarts the board.
Stop ==
    /\ \/ /\ pc = "stop" /\ (IF ToStop THEN Call("cancel") ELSE Goes("leave"))
          /\ UNCHANGED <<tries, parked>>
       \/ /\ pc = "ok" /\ op = "cancel" /\ ~pump /\ trial = "ended"
          /\ Goes("park") /\ UNCHANGED <<tries, parked>>
       \/ /\ pc = "ok" /\ op = "cancel" /\ (pump \/ trial # "ended") /\ tries < MaxTries
          /\ Goes("stop") /\ tries' = tries + 1 /\ UNCHANGED parked
       \/ /\ pc = "ok" /\ op = "cancel" /\ (pump \/ trial # "ended")
          /\ Goes("restart") /\ UNCHANGED <<tries, parked>>
       \/ pc = "park" /\ Call("rearm") /\ parked' = TRUE /\ UNCHANGED tries
       \/ pc = "park" /\ Goes("restart") /\ UNCHANGED <<tries, parked>>
       \/ pc = "ok" /\ op = "rearm" /\ Goes("leave") /\ parked' = FALSE /\ UNCHANGED tries
       \/ pc = "no" /\ op \in {"cancel", "rearm"} /\ Goes("restart") /\ UNCHANGED <<tries, parked>>
    /\ UNCHANGED <<busy, peer, step, lost, taken, due>>

Leave == pc = "leave" /\ busy' = FALSE /\ Goes("gate") /\ UNCHANGED <<peer, step, tries, parked, lost, taken, due>>

Run ==
    /\ WaitAnswer \/ WaitTimeout \/ Gate \/ StartConnection \/ Loop \/ Act \/ Startup \/ Stop \/ Leave
    /\ UNCHANGED <<console, up, trial, pump, odd>>

\* esp_restart: the whole board, controller and console included.
Restart ==
    /\ pc = "restart"
    /\ con' = "on" /\ enabled' = TRUE /\ pauseRequested' = FALSE /\ busy' = FALSE
    /\ pc' = "gate" /\ op' = "reset" /\ peer' = {} /\ step' = 0 /\ tries' = 0 /\ parked' = FALSE
    /\ events' = <<>> /\ lost' = FALSE /\ missed' = FALSE
    /\ inbox' = <<>> /\ up' = FALSE /\ due' = {} /\ trial' = "idle" /\ pump' = FALSE
    /\ UNCHANGED <<taken, odd>>

-----------------------------------------------------------------------------
(* The controller and the headset.                                         *)

Event(kind, o, res) == [kind |-> kind, op |-> o, res |-> res, old |-> ResetPending, gap |-> missed]

\* ull_auto_receive: in a manual session the event goes to the console.
Receive(e) ==
    IF enabled /\ Len(events) < Cap
    THEN events' = Append(events, e) /\ UNCHANGED <<lost, missed>>
    ELSE /\ lost' = (lost \/ enabled) /\ missed' = (missed \/ (enabled /\ ~e.old))
         /\ UNCHANGED events

Report(kind) == Receive(Event(kind, "reset", "no"))
Done(res) == Receive(Event("done", Head(inbox), res))

\* Play (FCFB) is refused unless the trial is idle; started without its pump
\* it is cancelled.  Cancel (FCFD) ends the trial or leaves it to a later call
\* when its event is not collected yet; the pump stops with the trial.  Rearm
\* (FCFF) needs the worker paused, the pump idle and the trial over.
Radio(o) ==
    \/ /\ o = "play"
       /\ \/ trial = "idle" /\ Done("ok") /\ trial' = "running" /\ pump' = TRUE
          \/ trial = "idle" /\ Done("no") /\ trial' \in {"idle", "ended"} /\ UNCHANGED pump
          \/ trial # "idle" /\ Done("no") /\ UNCHANGED <<trial, pump>>
    \/ /\ o = "cancel"
       /\ \/ trial = "running" /\ Done("ok") /\ trial' = "ended" /\ pump' = FALSE
          \/ trial = "running" /\ Done("ok") /\ UNCHANGED <<trial, pump>>
          \/ trial = "running" /\ Done("no") /\ trial' = "fault" /\ pump' = FALSE
          \/ /\ trial # "running" /\ Done(IF trial = "ended" THEN "ok" ELSE "no")
             /\ pump' = FALSE /\ UNCHANGED trial
    \/ /\ o = "rearm" /\ UNCHANGED pump
       /\ \/ parked /\ ~pump /\ trial = "ended" /\ Done("ok") /\ trial' = "idle"
          \/ Done("no") /\ UNCHANGED trial

\* The next command is executed and completed; what it causes comes later.
Execute ==
    /\ inbox # <<>> /\ inbox' = Tail(inbox)
    /\ LET o == Head(inbox) IN
       \/ /\ o = "reset" /\ up' = FALSE /\ due' = {}
          /\ Receive([Event("done", o, "ok") EXCEPT !.old = FALSE]) /\ UNCHANGED <<trial, pump>>
       \/ /\ o \notin {"reset", "play", "cancel", "rearm"}
          /\ \/ /\ Done("ok") /\ (o \in {"e4", "e0"} => up)
                /\ due' = due \cup (CASE o = "connect" -> {"conn"}
                                      [] o = "encrypt" /\ up -> {"enc"}
                                      [] o = "length" /\ up -> {"room"}
                                      [] o = "e4" -> {"acked"}
                                      [] o = "e0" -> {"air"}
                                      [] OTHER -> {})
             \/ UNCHANGED due /\ \E r \in {"no"} \cup (IF o \in {"e4", "e0"} THEN {"again"} ELSE {}) : Done(r)
          /\ UNCHANGED <<up, trial, pump>>
       \/ Radio(o) /\ UNCHANGED <<up, due>>
    /\ UNCHANGED odd

Deliver ==
    /\ \E e \in due : up' = (up \/ e = "conn") /\ due' = due \ {e} /\ Report(e)
    /\ UNCHANGED <<inbox, trial, pump, odd>>

Disconnect ==
    /\ up /\ up' = FALSE /\ due' = {} /\ Report("disc")
    /\ UNCHANGED <<inbox, trial, pump, odd>>

\* Not what was due: a refused connection, a failed encryption or
\* acknowledgement, a headset of another mode or out of turn.
Odd ==
    /\ odd < MaxOdd /\ odd' = odd + 1
    /\ \/ "conn" \in due /\ due' = due \ {"conn"} /\ Report("refused")
       \/ up /\ UNCHANGED due /\ \E e \in {"encfail", "nack"} \cup Acl : Report(e)
    /\ UNCHANGED <<inbox, up, trial, pump>>

\* The trial ends by itself, or its pump gives up and leaves it behind.
StreamEnds ==
    /\ pump /\ pump' = FALSE /\ Report("pumpfail")
    /\ trial' = trial \/ trial' \in {"ended", "fault"}
    /\ UNCHANGED <<inbox, up, due, odd>>

\* A manual session may leave a trial that is over.
ManualTrial ==
    /\ ~enabled /\ trial = "idle" /\ trial' = "ended"
    /\ UNCHANGED <<queue, inbox, up, due, pump, odd>>

Controller ==
    /\ Execute \/ Deliver \/ Disconnect \/ Odd \/ StreamEnds \/ ManualTrial
    /\ UNCHANGED <<console, host>>

Next == Console \/ Run \/ Restart \/ Controller
Spec == Init /\ [][Next]_vars

\* The keeper has a task of its own and every wait of it ends; so has the console.
LiveSpec == Spec /\ WF_vars(Run) /\ WF_vars(Restart) /\ WF_vars(Console /\ con = "pausing")

-----------------------------------------------------------------------------
(* Properties.                                                             *)

\* Types, and what a stream presupposes: whoever streams was verified over an
\* encrypted connection, both answers of the tunnel came, and stop_audio knows
\* that there is something to stop (process, audio_startup).
KeeperInv ==
    /\ TypeOK
    /\ Has("started") => {"verified", "idle", "holding", "acked", "air", "attempted"} \subseteq peer
    /\ (pump \/ trial = "running") => Has("attempted")

\* ull_auto_enable(false) hands the board over only when the keeper is out of
\* its session, waits for no command and left no stream behind; the keeper
\* does not slip in again between its two looks at the flags.
ManualAlone ==
    con = "manual" => pc \in Outside /\ ~pump /\ trial # "running" /\ ~parked

\* No session works with a hole in its history or with news of another one:
\* an event emitted after one that did not fit, or before the reset that
\* opened the session, is never processed (ull_auto_receive, command).
InOrder == taken = {}

\* The reset of start_connection never meets a running stream or a command
\* that starts one, whatever timed out before it.
ResetQuiet ==
    ResetPending => ~pump /\ trial # "running" /\ \A i \in DOMAIN inbox : inbox[i] # "play"

\* The console that asks for a manual session gets it, or the board restarts
\* because the stream could not be stopped cleanly (run, stop_audio).
PauseServed == con = "pausing" ~> con # "pausing"
=============================================================================
