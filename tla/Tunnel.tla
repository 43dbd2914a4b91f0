------------------------------- MODULE Tunnel -------------------------------
(***************************************************************************)
(* The proprietary control PDUs that set up the audio streams, sent        *)
(* through the controller's own Link Layer (raw_llcp.c, llcp_pool.c): E4,  *)
(* then E0, which the headset answers with E1, then E2, for the first      *)
(* stream and, E4 excepted, once more for the second one.                  *)
(*                                                                         *)
(* Each PDU borrows adjacent slots of the controller's buffer pool, which  *)
(* knows only the first; the controller frees that one when the PDU was    *)
(* acknowledged or the connection is gone, calls back, and may do so after *)
(* anything else happened.                                                 *)
(***************************************************************************)
EXTENDS Naturals, FiniteSetsExt

CONSTANTS Pool,      \* slots of the pool (20)
          Width,     \* slots a PDU borrows (7)
          MaxE0,     \* bound: E0 PDUs sent
          MaxConn    \* bound: connections

ASSUME TunnelAssumption == {Pool, Width, MaxE0, MaxConn} \subseteq Nat \ {0} /\ Width <= Pool

Slots == 1..Pool

VARIABLES
    free,      \* the pool's free list: how often each slot is in it
    rom,       \* slots the controller uses for itself
    held,      \* the reservation
    handed,    \* handed_off: the controller owns it
    released,  \* released_slots = 7: the last reservation came back whole
    node,      \* [op, id]: the control procedure the link is in; op is "none"
               \* when the link is free
    acked,     \* its PDU was acknowledged, the callback is still to come
    conn,      \* [up, enc, ptr, gen]: ptr is the address of its structures
    flags,     \* the flags that are set
    sent,      \* the E0 that was sent: [kind, id, ptr, gen]; id 0 for none
    committed, \* the first stream's E2 that was sent, likewise
    age,       \* seconds, roughly: 0 below 1, 1 below 5, 2 above; of the
               \* acknowledged E4, of the E0 and of the first E2
    reply,     \* ids of the E1 PDUs the headset has under way
    trial,     \* [state, first, second]: the trial that waits for both streams
    e0s,       \* number of E0 sent (e0_counter)
    got        \* history: the E0 and E2 the headset received: <<PDU, id, connection>>

pool == <<free, rom, held, handed, released>>
session == <<flags, sent, committed, age>>
vars == <<pool, node, acked, conn, session, reply, trial, e0s, got>>

Idle == [op |-> "none", id |-> 0]
NoE0 == [kind |-> 0, id |-> 0, ptr |-> 0, gen |-> 0]
Flag == {"e4", "e1_expected", "e1", "e2", "second"}
Has(f) == f \in flags

TypeOK ==
    /\ free \in [Slots -> 0..2] /\ {rom, held} \subseteq SUBSET Slots
    /\ {handed, released, acked} \subseteq BOOLEAN
    /\ node \in [op : {"none", "ping", "e4", "e0", "e2"}, id : 0..MaxE0] /\ flags \subseteq Flag
    /\ conn \in [up : BOOLEAN, enc : BOOLEAN, ptr : 0..2, gen : 0..MaxConn]
    /\ {sent, committed} \subseteq [kind : 0..2, id : 0..MaxE0, ptr : 0..2, gen : 0..MaxConn]
    /\ age \in [{"e4", "e0", "e2"} -> 0..2]
    /\ reply \subseteq 1..MaxE0 /\ e0s \in 0..MaxE0
    /\ trial \in [state : {"idle", "first", "streaming", "requested", "joining", "joined"},
                  first : 0..MaxE0, second : 0..MaxE0]

Init ==
    /\ free = [s \in Slots |-> 1] /\ rom = {} /\ held = {} /\ handed = FALSE
    /\ released = FALSE /\ node = Idle /\ acked = FALSE
    /\ conn = [up |-> FALSE, enc |-> FALSE, ptr |-> 0, gen |-> 0]
    /\ flags = {} /\ sent = NoE0 /\ committed = NoE0
    /\ age = [t \in {"e4", "e0", "e2"} |-> 2]
    /\ reply = {} /\ e0s = 0 /\ got = {}
    /\ trial = [state |-> "idle", first |-> 0, second |-> 0]

-----------------------------------------------------------------------------
(* The pool.                                                               *)

Taken(f, S) == [s \in Slots |-> IF s \in S THEN f[s] - 1 ELSE f[s]]
Freed(f, S) == [s \in Slots |-> IF s \in S THEN f[s] + 1 ELSE f[s]]

\* ull_pool_reserve takes the whole pool, keeps the first run of adjacent
\* slots and frees the others.
Runs == {w \in 1..(Pool - Width + 1) : \A s \in w..(w + Width - 1) : free[s] > 0}
FirstRun == Min(Runs)..(Min(Runs) + Width - 1)

\* Mutant: all slots but the first are given back.
ReleasedRest(f, S) == Freed(f, S \ {Min(S)})

\* ull_pool_release.
Released(f, S) == Freed(f, S)

\* The free hook: with the first slot of a PDU that was handed over the
\* others are freed too.
Free(s) ==
    IF handed /\ held # {} /\ s = Min(held)
    THEN /\ free' = Freed(free, held)
         /\ held' = {} /\ handed' = FALSE /\ released' = TRUE
    ELSE free' = Freed(free, {s}) /\ UNCHANGED <<held, handed, released>>

-----------------------------------------------------------------------------
(* Sending.                                                                *)

Secure == conn.up /\ conn.enc
SameConnection(e) == e.ptr = conn.ptr /\ conn.ptr # 0

\* Mutant: the current anchor is not compared with that of the E0.
SamePlanByAddress(e) == TRUE

\* same_plan: the plan computed from the anchor of now is that of the E0's.
SamePlan(e) == e.gen = conn.gen

\* plan_for_current_anchor, with session_connection_valid.
PlanValid == Has("e1") /\ SameConnection(sent) /\ Secure /\ age["e0"] = 0 /\ SamePlan(sent)

\* E0 goes out once, within 5 s of the acknowledged E4; for the second stream
\* once, within 1 s of the first E2 and when that was acknowledged.
MayPropose(kind) ==
    IF kind = 1 THEN Has("e4") /\ age["e4"] < 2
    ELSE Has("second") /\ Has("e2") /\ SameConnection(committed) /\ age["e2"] = 0

Handover(op, id, S) ==
    /\ free' = Taken(free, S) /\ held' = S /\ handed' = TRUE /\ released' = FALSE
    /\ node' = [op |-> op, id |-> id] /\ acked' = FALSE
    /\ UNCHANGED rom

\* raw_send, its last two thirds: no run of free slots, no memory for the
\* node, a refusal of the lower driver, or success.
LinkFree == Secure /\ ~handed /\ node = Idle

SendFails ==
    /\ LinkFree /\ Runs # {}
    /\ free' = Released(Taken(free, FirstRun), FirstRun)
    /\ UNCHANGED <<rom, held, handed, released, node, acked, conn, session, reply, trial, e0s, got>>

SendPing ==
    /\ LinkFree /\ Runs # {} /\ Handover("ping", 0, FirstRun)
    /\ UNCHANGED <<conn, session, reply, trial, e0s, got>>

SendE4 ==
    /\ LinkFree /\ Runs # {} /\ Handover("e4", 0, FirstRun)
    /\ flags' = flags \ {"e4", "e1_expected", "e1", "e2", "second"}
    /\ sent' = NoE0 /\ committed' = NoE0
    /\ UNCHANGED <<conn, age, reply, trial, e0s, got>>

\* For the first stream FCF4, for the second the trial.
Propose(kind) ==
    /\ LinkFree /\ Runs # {} /\ MayPropose(kind) /\ e0s < MaxE0
    /\ Handover("e0", e0s + 1, FirstRun)
    /\ flags' = ((flags \ {"e4", "e1", "e2"}) \cup {"e1_expected"}) \ (IF kind = 2 THEN {"second"} ELSE {})
    /\ sent' = [kind |-> kind, id |-> e0s + 1, ptr |-> conn.ptr, gen |-> conn.gen]
    /\ e0s' = e0s + 1 /\ age' = [age EXCEPT !["e0"] = 0]
    /\ UNCHANGED <<committed, conn, reply, got>>

\* ull_raw_commit_session over this link: E2 of exactly the prepared plan.
Commit ==
    /\ LinkFree /\ Runs # {} /\ PlanValid
    /\ Handover("e2", sent.id, FirstRun)
    /\ committed' = IF sent.kind = 1 THEN sent ELSE NoE0
    /\ flags' = (flags \ {"e1", "second"}) \cup (IF sent.kind = 1 THEN {"second"} ELSE {})
    /\ age' = [age EXCEPT !["e2"] = IF sent.kind = 1 THEN 0 ELSE @]
    /\ sent' = NoE0
    /\ UNCHANGED <<conn, reply, e0s, got>>

-----------------------------------------------------------------------------
(* The trial. It prepares a plan and commits it in one handler.            *)

Start ==
    /\ trial.state = "idle" /\ Commit
    /\ trial' = [state |-> "first", first |-> sent.id, second |-> 0]

FirstConfirmed ==
    /\ trial.state = "first" /\ Has("e2")
    /\ trial' = [trial EXCEPT !.state = "streaming"]
    /\ UNCHANGED <<pool, node, acked, conn, session, reply, e0s, got>>

RequestSecond ==
    /\ trial.state = "streaming" /\ trial.first = committed.id /\ Propose(2)
    /\ trial' = [trial EXCEPT !.state = "requested"]

JoinSecond ==
    /\ trial.state = "requested" /\ Has("e1") /\ sent.kind = 2
    /\ trial.first = committed.id /\ SameConnection(committed) /\ Commit
    /\ trial' = [trial EXCEPT !.state = "joining", !.second = sent.id]

SecondConfirmed ==
    /\ trial.state = "joining" /\ Has("e2")
    /\ trial' = [trial EXCEPT !.state = "joined"]
    /\ UNCHANGED <<pool, node, acked, conn, session, reply, e0s, got>>

TrialEnds ==
    /\ trial.state # "idle" /\ trial' = [state |-> "idle", first |-> 0, second |-> 0]
    /\ UNCHANGED <<pool, node, acked, conn, session, reply, e0s, got>>

-----------------------------------------------------------------------------
(* The controller and the headset.                                         *)

outside == <<flags, sent, committed, age, trial, e0s>>

\* The PDU is acknowledged: the controller frees the slot it knows. The
\* headset answers an E0.
Acknowledge ==
    /\ Secure /\ handed /\ Free(Min(held))
    /\ acked' = TRUE
    /\ got' = IF node.id = 0 THEN got ELSE got \cup {<<node.op, node.id, conn.gen>>}
    /\ reply' = IF node.op = "e0" THEN reply \cup {node.id} ELSE reply
    /\ UNCHANGED <<rom, node, conn, outside>>

\* acknowledged: the controller takes its node off the link and calls back.
Callback ==
    /\ acked /\ acked' = FALSE /\ node' = Idle
    /\ flags' = IF released /\ node.op \in {"e4", "e2"} THEN flags \cup {node.op} ELSE flags
    /\ age' = IF released /\ node.op = "e4" THEN [age EXCEPT !["e4"] = 0] ELSE age
    /\ UNCHANGED <<pool, conn, sent, committed, reply, trial, e0s, got>>

\* ull_raw_receive_e1; another E1 is left to the controller, which has no use
\* for it.
ReceiveE1 ==
    /\ \E id \in reply :
        /\ Secure /\ reply' = reply \ {id}
        /\ IF Has("e1_expected") /\ age["e0"] < 2 /\ id = sent.id
           THEN flags' = (flags \ {"e1_expected"}) \cup {"e1"}
           ELSE UNCHANGED flags
    /\ UNCHANGED <<pool, node, acked, conn, sent, committed, age, trial, e0s, got>>

\* The controller's own control PDUs, through the same hook.
RomTakes ==
    /\ \E s \in Slots : free[s] > 0 /\ free' = Taken(free, {s}) /\ rom' = rom \cup {s}
    /\ UNCHANGED <<held, handed, released, node, acked, conn, session, reply, trial, e0s, got>>
RomFrees ==
    /\ \E s \in rom : Free(s) /\ rom' = rom \ {s}
    /\ UNCHANGED <<node, acked, conn, session, reply, trial, e0s, got>>

Ages ==
    /\ \E t \in DOMAIN age : age[t] < 2 /\ age' = [age EXCEPT ![t] = @ + 1]
    /\ UNCHANGED <<pool, node, acked, conn, flags, sent, committed, reply, trial, e0s, got>>

\* A connection gets the structures of one of two addresses.
Connect ==
    /\ ~conn.up /\ conn.gen < MaxConn
    /\ \E p \in 1..2 : conn' = [up |-> TRUE, enc |-> FALSE, ptr |-> p, gen |-> conn.gen + 1]
    /\ UNCHANGED <<pool, node, acked, session, reply, trial, e0s, got>>

Encrypt ==
    /\ conn.up /\ ~conn.enc /\ conn' = [conn EXCEPT !.enc = TRUE]
    /\ UNCHANGED <<pool, node, acked, session, reply, trial, e0s, got>>

\* The controller drops the procedure, and with it the descriptor, without a
\* call back.
Disconnect ==
    /\ conn.up /\ conn' = [conn EXCEPT !.up = FALSE, !.enc = FALSE, !.ptr = 0]
    /\ IF handed THEN Free(Min(held)) ELSE UNCHANGED <<free, held, handed, released>>
    /\ node' = Idle /\ acked' = FALSE /\ reply' = {}
    /\ UNCHANGED <<rom, session, trial, e0s, got>>

\* ull_raw_reset_sequence, before an HCI reset, which ends the connection
\* only later.
ResetSequence ==
    /\ flags # {} /\ flags' = {} /\ sent' = NoE0 /\ committed' = NoE0
    /\ UNCHANGED <<pool, node, acked, conn, age, reply, trial, e0s, got>>

ProposeFirst == Propose(1) /\ UNCHANGED trial

Next ==
    \/ SendFails \/ SendPing \/ SendE4 \/ ProposeFirst
    \/ Start \/ FirstConfirmed \/ RequestSecond \/ JoinSecond
    \/ SecondConfirmed \/ TrialEnds
    \/ Acknowledge \/ Callback \/ ReceiveE1 \/ RomTakes \/ RomFrees \/ Ages
    \/ Connect \/ Encrypt \/ Disconnect \/ ResetSequence

Spec == Init /\ [][Next]_vars

-----------------------------------------------------------------------------
(* Properties.                                                             *)

\* No slot is lost and none is in the pool twice, whichever way a PDU ends:
\* refused by the lower driver, acknowledged, or dropped with its connection.
\* A slot is free, or the controller's, or part of the reservation it holds.
SlotsConserved ==
    /\ TypeOK
    /\ rom \cap held = {} /\ \A s \in Slots : free[s] = IF s \in rom \cup held THEN 0 ELSE 1
    /\ handed <=> held # {}
    /\ ~conn.up => ~handed

\* A trial goes on to its next stage only after the headset itself received
\* the E2 of this trial's stream: not on the confirmation of an E2 sent
\* before, and not because an older call back comes late.  And E2 goes to the
\* connection whose E0 it answers, also when a new connection has come up
\* within the second that E0 and E1 stay valid and the controller gave it the
\* same structures.
Confirmed ==
    /\ trial.state \in {"streaming", "requested", "joining", "joined"} =>
           \E g \in 1..MaxConn : <<"e2", trial.first, g>> \in got
    /\ trial.state = "joined" => \E g \in 1..MaxConn : <<"e2", trial.second, g>> \in got
    /\ \A id \in 1..MaxE0, g \in 1..MaxConn : <<"e2", id, g>> \in got => <<"e0", id, g>> \in got
=============================================================================
