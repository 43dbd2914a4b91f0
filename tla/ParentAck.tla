------------------------------ MODULE ParentAck ------------------------------
(***************************************************************************)
(* The one-bit acknowledgement automaton of parent_ack.c.  Once the BLE    *)
(* parent connection is gone, headset controls (wheel, media key,          *)
(* microphone mute) ride inside the audio packets, and this automaton is   *)
(* the receiver's half of the BLE SN/NESN scheme for them.                 *)
(*                                                                         *)
(* The operators are pure: they map a state of struct ull_parent_ack to    *)
(* the next.  The counters of the C structure are statistics; the one that *)
(* decides something, whether `accepted` moved, is the field "took".       *)
(* Lengths are left out: in the detached path every sent PDU is empty      *)
(* (sent_length is 0).  MD, the header bit no branch reads, is left out.   *)
(***************************************************************************)
EXTENDS Integers

Bit == {0, 1}

Flip(b) == 1 - b

(***************************************************************************)
(* What the shape tests at the top of ull_parent_ack_receive tell apart:   *)
(*   control    an exact wheel, media or mic PDU (LLID 2)                  *)
(*   empty      LLID 1, no payload                                         *)
(*   unknown    any other well-formed PDU                                  *)
(*   malformed  reserved header bits, LLID 0 or an impossible length       *)
(***************************************************************************)
Kinds == {"control", "empty", "unknown", "malformed"}

Acks == [active : BOOLEAN, tx_sn : Bit, rx_nesn : Bit]

\* The memset of ull_parent_ack_reset.
Reset == [active |-> FALSE, tx_sn |-> 0, rx_nesn |-> 0]

(***************************************************************************)
(* The parent header byte of a transmitted frame: 0, "no parent was sent", *)
(* or LLID 1 with the sequence bits.                                       *)
(***************************************************************************)
Headers == [present : BOOLEAN, sn : Bit, nesn : Bit]
NoParent == [present |-> FALSE, sn |-> 0, nesn |-> 0]
Poll == [present |-> TRUE, sn |-> 0, nesn |-> 0]

Header(s) == IF s.active
             THEN [present |-> TRUE, sn |-> s.tx_sn, nesn |-> s.rx_nesn]
             ELSE NoParent

\* A bug that seeds from a poll the headset has not acknowledged.
MaySeedUnacked(r, sent) ==
  /\ r.kind \in {"control", "empty"}
  /\ r.kind = "empty" => sent = Poll
  /\ sent \in {NoParent, Poll}

\* The first packet that seeds an inactive automaton: a control, or an empty
\* answer to the poll; after a poll it must acknowledge that poll.
MaySeed(r, sent) ==
  /\ r.kind \in {"control", "empty"}
  /\ r.kind = "empty" => sent = Poll
  /\ sent \in {NoParent, Poll}
  /\ sent = Poll => r.nesn = 1

Seed(r) == [active |-> TRUE, tx_sn |-> r.nesn, rx_nesn |-> Flip(r.sn)]

\* The acknowledgement half: independent of the received SN and payload.
Acknowledges(s, r) == r.nesn # s.tx_sn

AckedTx(s, r) == IF Acknowledges(s, r) THEN [s EXCEPT !.tx_sn = Flip(@)] ELSE s

\* Only the header really sent may be answered: with a frame that carried no
\* parent, or an older header, the answer is left alone.
IsStale(s, sent) == sent # Header(s)

\* A bug that lets a repeated packet count again.
NeverDuplicate(s, r) == FALSE

\* Old data is recognised by its SN alone, whatever it carries.
IsDuplicate(s, r) == r.sn # s.rx_nesn

\* A bug that acknowledges what it does not understand.
RefusesControl(r) == r.kind = "control"

\* New data of an unknown kind is left unacknowledged (flow control).
IsRefused(r) == r.kind = "unknown"

(***************************************************************************)
(* ull_parent_ack_receive: the next state, whether the caller hears        *)
(* "true", and which kind of new PDU was consumed ("none" if none was).    *)
(***************************************************************************)
Rejected(s) == [ack |-> s, ok |-> FALSE, took |-> "none"]

ReceiveActive(s, r, sent) ==
  LET t == AckedTx(s, r)
      advanced == [t EXCEPT !.rx_nesn = Flip(@)]
  IN
  IF IsStale(s, sent) THEN Rejected(s)
  ELSE IF IsDuplicate(s, r) THEN [ack |-> t, ok |-> TRUE, took |-> "none"]
  ELSE IF IsRefused(r) THEN Rejected(t)
  ELSE [ack |-> advanced, ok |-> TRUE, took |-> r.kind]

Receive(s, r, sent) ==
  IF r.kind = "malformed" THEN Rejected(s)
  ELSE IF s.active THEN ReceiveActive(s, r, sent)
  ELSE IF MaySeed(r, sent) THEN [ack |-> Seed(r), ok |-> TRUE, took |-> r.kind]
  ELSE Rejected(s)
==============================================================================
