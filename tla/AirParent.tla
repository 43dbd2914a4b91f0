------------------------------ MODULE AirParent ------------------------------
(***************************************************************************)
(* Joining the second stream when the first one is already on the air: the *)
(* parent link's last E1 and E2 then travel inside the audio frames        *)
(* (raw_llcp.c, tone_trial.c).                                             *)
(*                                                                         *)
(* The headset answers the parent link's polls in the frames, with the     *)
(* sequence bits of that link. Its hardware on this side keeps bits of its *)
(* own and knows nothing of the exchange: the program continues from the   *)
(* bits the headset's E1 carries, must not go on when the hardware's bits  *)
(* move, and returns to them when both agree again.                        *)
(***************************************************************************)
EXTENDS Naturals

VARIABLES
    acl,       \* the hardware's [sn, nesn]
    headset,   \* the headset's [sn, nesn], out: the PDU it sends with sn,
               \* e1: its E1 is still to come, took: it has received E2
    air,       \* air_parent [active, pending, tx_sn, rx_nesn, hardware]
    e1,        \* "expected"; "air" or "acl": received there
    fresh,     \* less than a second since E0
    committed, \* second_committed
    confirmed, \* e2_confirmed
    poll,      \* [sent, kind, sn, nesn]: the parent PDU in the frame on the air
    heard,     \* the headset has received the frame
    reply,     \* [present, kind, sn, nesn] that was received in its windows
    moved,     \* the ACL had an exchange since the last step
    trial      \* it runs

session == <<e1, fresh, committed, confirmed>>
joinVars == <<acl, headset, air, session, poll, heard, reply, moved, trial>>

Bit == 0..1
Nothing == [sent |-> FALSE, kind |-> "empty", sn |-> 0, nesn |-> 0]
NoReply == [present |-> FALSE, kind |-> "empty", sn |-> 0, nesn |-> 0]
Inactive == [active |-> FALSE, pending |-> FALSE, tx_sn |-> 0, rx_nesn |-> 0,
             hardware |-> [sn |-> 0, nesn |-> 0]]

JoinTypeOK ==
    /\ acl \in [sn : Bit, nesn : Bit]
    /\ headset \in [sn : Bit, nesn : Bit, out : {"empty", "e1"}, e1 : BOOLEAN, took : BOOLEAN]
    /\ air \in [active : BOOLEAN, pending : BOOLEAN, tx_sn : Bit, rx_nesn : Bit,
                hardware : [sn : Bit, nesn : Bit]]
    /\ e1 \in {"expected", "air", "acl"}
    /\ {fresh, committed, confirmed, heard, moved, trial} \subseteq BOOLEAN
    /\ poll \in [sent : BOOLEAN, kind : {"empty", "e2"}, sn : Bit, nesn : Bit]
    /\ reply \in [present : BOOLEAN, kind : {"empty", "e1"}, sn : Bit, nesn : Bit]

\* The second E0 was acknowledged; either side's last acknowledgement may
\* have been lost, so the four bits can have any value.
JoinInit ==
    /\ acl \in [sn : Bit, nesn : Bit]
    /\ headset \in [sn : Bit, nesn : Bit, out : {"empty"}, e1 : {TRUE}, took : {FALSE}]
    /\ air = Inactive /\ e1 = "expected" /\ fresh = TRUE
    /\ committed = FALSE /\ confirmed = FALSE
    /\ poll = Nothing /\ heard = FALSE /\ reply = NoReply /\ moved = FALSE /\ trial = TRUE

-----------------------------------------------------------------------------
(* The headset's side of the parent link, on the air or over the ACL.      *)

\* A PDU with the expected sequence bit is new; one that expects the next
\* acknowledges what the headset has sent, and its next PDU, perhaps E1, is
\* due.
Hears(p) ==
    /\ \E e \in IF p.nesn # headset.sn /\ headset.e1 THEN BOOLEAN ELSE {FALSE} :
        headset' =
          [sn   |-> IF p.nesn # headset.sn THEN 1 - headset.sn ELSE headset.sn,
           nesn |-> IF p.sn = headset.nesn THEN 1 - headset.nesn ELSE headset.nesn,
           out  |-> IF p.nesn = headset.sn THEN headset.out ELSE IF e THEN "e1" ELSE "empty",
           e1   |-> headset.e1 /\ ~e,
           took |-> headset.took \/ (p.sn = headset.nesn /\ p.kind = "e2")]

HeadsetHears ==
    /\ poll.sent /\ ~heard /\ heard' = TRUE /\ Hears(poll)
    /\ UNCHANGED <<acl, air, session, poll, reply, moved, trial>>

\* It answers in its slot, whether or not it received the frame.
HeadsetReplies ==
    /\ poll.sent /\ ~reply.present
    /\ reply' = [present |-> TRUE, kind |-> headset.out, sn |-> headset.sn, nesn |-> headset.nesn]
    /\ UNCHANGED <<acl, headset, air, session, poll, heard, moved, trial>>

\* The ACL goes on every 30 ms, frames and steps every 5 ms: at most one
\* exchange of empty PDUs, either half of which may be lost, between steps.
AclPoll ==
    /\ ~moved /\ moved' = TRUE /\ Hears([kind |-> "empty", sn |-> acl.sn, nesn |-> acl.nesn])
    /\ UNCHANGED <<acl, air, session, poll, heard, reply, trial>>

AclReply ==
    /\ moved
    /\ acl' = [sn   |-> IF headset.nesn # acl.sn THEN 1 - acl.sn ELSE acl.sn,
              nesn |-> IF headset.sn = acl.nesn THEN 1 - acl.nesn ELSE acl.nesn]
    /\ acl' # acl
    /\ e1' = IF headset.out = "e1" /\ headset.sn = acl.nesn /\ e1 = "expected" THEN "acl" ELSE e1
    /\ UNCHANGED <<headset, air, fresh, committed, confirmed, poll, heard, reply, moved, trial>>

-----------------------------------------------------------------------------
(* A step of the trial: what the frame brought, then the second stream,    *)
(* then the next frame. It runs on the operators' record                   *)
(* [air, e1, committed, confirmed].                                        *)

Current(a) == a.active /\ a.hardware = acl

\* The first reply on the air: E1 to a poll of the hardware's bits.
Activates(s, rx) ==
    /\ rx.kind = "e1" /\ s.e1 = "expected" /\ fresh
    /\ poll.kind = "empty" /\ rx.sn = poll.nesn /\ rx.nesn # poll.sn

Activated(s, rx) ==
    [s EXCEPT !.e1 = "air",
              !.air = [active |-> TRUE, pending |-> FALSE, tx_sn |-> rx.nesn,
                       rx_nesn |-> 1 - rx.sn, hardware |-> acl]]

\* Only a reply to exactly the PDU that is due acknowledges it.
Exact(a) == poll.sn = a.tx_sn /\ poll.kind = IF a.pending THEN "e2" ELSE "empty"
Acknowledges(a, rx) == Exact(a) /\ rx.nesn # a.tx_sn

Continued(s, rx) ==
    LET a == s.air
        ack == Acknowledges(a, rx)
        next == [a EXCEPT !.tx_sn = IF ack THEN 1 - @ ELSE @,
                          !.pending = @ /\ ~ack,
                          !.rx_nesn = IF rx.sn = @ THEN 1 - @ ELSE @]
        agree == next.tx_sn = acl.sn /\ next.rx_nesn = acl.nesn
    IN  [s EXCEPT !.air = [next EXCEPT !.active = ~(ack /\ a.pending /\ agree)],
                  !.confirmed = @ \/ (ack /\ a.pending)]

\* ull_raw_receive_air_control while the link is not detached.
Received(s, rx) ==
    IF ~s.air.active THEN IF Activates(s, rx) THEN Activated(s, rx) ELSE s
    ELSE IF Current(s.air) THEN Continued(s, rx) ELSE s

\* Both windows of a frame may have caught the reply.
Collected(s) ==
    IF ~reply.present THEN {s} ELSE {Received(s, reply), Received(Received(s, reply), reply)}

\* advance_second_stream: E1 is here and E2 not committed. Over the ACL the
\* commit is raw_send's.
Advances(s) == s.e1 = "air" /\ ~s.committed
CanCommit(s) == Current(s.air) /\ ~s.air.pending /\ fresh
Committed(s) ==
    IF Advances(s)
    THEN [s EXCEPT !.air.pending = TRUE, !.confirmed = FALSE, !.committed = TRUE]
    ELSE s

\* ull_raw_parent_air_pdu.
HasPdu(a) == a.active => Current(a)
Pdu(a) ==
    IF a.active
    THEN [sent |-> TRUE, kind |-> IF a.pending THEN "e2" ELSE "empty", sn |-> a.tx_sn, nesn |-> a.rx_nesn]
    ELSE [sent |-> TRUE, kind |-> "empty", sn |-> acl.sn, nesn |-> acl.nesn]

Keeps(s) == air' = s.air /\ e1' = s.e1 /\ committed' = s.committed /\ confirmed' = s.confirmed

\* Mutant: the next frame is prepared before E2 is committed.
StepFrameFirst(s, c) ==
    /\ Keeps(c)
    /\ IF (Advances(s) => CanCommit(s)) /\ HasPdu(s.air)
       THEN trial' = TRUE /\ poll' = Pdu(s.air)
       ELSE trial' = FALSE /\ poll' = Nothing

\* s is what the frame brought, c that and the commit.
StepNext(s, c) ==
    IF (Advances(s) => CanCommit(s)) /\ HasPdu(c.air)
    THEN Keeps(c) /\ trial' = TRUE /\ poll' = Pdu(c.air)
    ELSE Keeps(IF Advances(s) /\ ~CanCommit(s) THEN s ELSE c) /\ trial' = FALSE /\ poll' = Nothing

Step ==
    /\ trial
    /\ \E s \in Collected([air |-> air, e1 |-> e1, committed |-> committed, confirmed |-> confirmed]) :
           StepNext(s, Committed(s))
    /\ heard' = FALSE /\ reply' = NoReply /\ moved' = FALSE
    /\ UNCHANGED <<acl, headset, fresh>>

SecondPasses == fresh /\ fresh' = FALSE
    /\ UNCHANGED <<acl, headset, air, e1, committed, confirmed, poll, heard, reply, moved, trial>>

JoinNext == HeadsetHears \/ HeadsetReplies \/ AclPoll \/ AclReply \/ Step \/ SecondPasses

JoinSpec == JoinInit /\ [][JoinNext]_joinVars

-----------------------------------------------------------------------------
(* Properties.                                                             *)

\* The trial takes the second stream for joined only when the headset did
\* receive its E2: neither a poll of before the commit, nor one with the bit
\* E2 was to have, nor a reply that is heard twice, nor an exchange of the ACL
\* meanwhile passes for the acknowledgement.
ConfirmedTaken == JoinTypeOK /\ (confirmed => headset.took)
=============================================================================
