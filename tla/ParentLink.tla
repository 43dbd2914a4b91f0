------------------------------ MODULE ParentLink ------------------------------
(***************************************************************************)
(* The detached control link: ParentAck at the receiver, the prepared and  *)
(* retried audio frames that carry its header (tone_trial.c), the gate     *)
(* that hands received PDUs to it (raw_llcp.c), a lossy air interface and  *)
(* the headset's own BLE link layer.                                       *)
(*                                                                         *)
(* One radio event: a frame is submitted with the header of that moment;   *)
(* it goes out once, or twice when it is repeated; the headset hears or    *)
(* misses each copy and answers in up to two windows; on collection the    *)
(* answers received are processed in order against the header that was     *)
(* really sent.  The next frame is prepared while this one is in flight,   *)
(* so its cached header may be old when its turn comes.                    *)
(***************************************************************************)
EXTENDS ParentAck, Sequences

CONSTANTS
  MaxMsg,    \* bound: number of PDUs the headset ever offers
  Windows    \* bound: reply windows in one event

ASSUME MaxMsgAssumption == MaxMsg \in Nat \ {0}
ASSUME WindowsAssumption == Windows \in {1, 2}

VARIABLES
  eligible,  \* detached_eligible(): the parent is retired and stereo confirmed
  rx,        \* the automaton, and the history of what it consumed
  prepared,  \* the cached next frame: its poll slot and its parent header
  air,       \* the frame in flight and the answers received so far
  headset,   \* the headset's link layer and the PDU it is offering
  told       \* history of what the headset was told, see below

vars == <<eligible, rx, prepared, air, headset, told>>

Replies == [sn : Bit, nesn : Bit, kind : Kinds, msg : 1..MaxMsg]

(***************************************************************************)
(* rx.last, rx.keys and rx.lead are histories: the number of the last PDU  *)
(* consumed, the numbers of the controls dispatched to USB, and how many   *)
(* new empty PDUs the headset heard beyond those the receiver saw          *)
(* acknowledged.  headset.msg numbers the headset's PDUs; nothing reads    *)
(* it but the histories.                                                   *)
(* told.passed are the controls the headset saw acknowledged;              *)
(* told.swallowed those of them that the fixed poll acknowledged, while    *)
(* the link was not seeded; told.opening are the PDUs a headset offered    *)
(* with SN = 1 when its connection began.                                  *)
(***************************************************************************)
History == [passed : SUBSET (1..MaxMsg), swallowed : SUBSET (1..MaxMsg),
            opening : SUBSET (1..MaxMsg)]

\* The PDU of a new connection that the fixed poll, whose NESN is 0, will
\* acknowledge.
Opening(r) == IF r.sn = 1 THEN {r.msg} ELSE {}

Idle == [busy |-> FALSE, due |-> FALSE, header |-> NoParent,
         copies |-> 0, replies |-> <<>>]

NothingPrepared == [valid |-> FALSE, due |-> FALSE, header |-> NoParent]

TypeOK ==
  /\ eligible \in BOOLEAN
  /\ rx \in [ack : Acks, last : 0..MaxMsg, keys : Seq(1..MaxMsg), lead : Int]
  /\ prepared \in [valid : BOOLEAN, due : BOOLEAN, header : Headers]
  /\ air \in [busy : BOOLEAN, due : BOOLEAN, header : Headers,
              copies : 0..2, replies : Seq(Replies)]
  /\ Len(air.replies) <= Windows
  /\ headset \in Replies
  /\ told \in History

Init ==
  /\ eligible = FALSE
  /\ rx = [ack |-> Reset, last |-> 0, keys |-> <<>>, lead |-> 0]
  /\ prepared = NothingPrepared
  /\ air = Idle
  /\ headset \in {r \in Replies : r.msg = 1}
  /\ told = [passed |-> {}, swallowed |-> {}, opening |-> Opening(headset)]

-------------------------------------------------------------------------------
(***************************************************************************)
(* ull_raw_detached_parent_air_pdu as prepare_frame calls it: a parent     *)
(* header only in a poll slot of an eligible session; before seeding only  *)
(* the fixed poll, and only while probing is allowed.                      *)
(***************************************************************************)
ParentPdu(due, probing) ==
  IF ~due \/ ~eligible THEN NoParent
  ELSE IF rx.ack.active THEN Header(rx.ack)
  ELSE IF probing THEN Poll
  ELSE NoParent

\* A bug that forgets the parent header in the comparison.
FrameMatchesIndexOnly(same, header) ==
  /\ same
  /\ prepared.valid

\* frame_matches: the cached frame serves the same index and carries the
\* parent header that is wanted now.
FrameMatches(same, header) ==
  /\ same
  /\ prepared.valid
  /\ prepared.header = header

SentHeader(same, header) ==
  IF FrameMatches(same, header) THEN prepared.header ELSE header

(***************************************************************************)
(* The submitting half of ull_tone_trial_step.  "same" is false when late  *)
(* frames were skipped, so that another index is sent.  A frame with a     *)
(* parent header is sent twice only if it came from the cache.  After the  *)
(* submission the next frame is prepared from the same automaton state.    *)
(***************************************************************************)
Submit ==
  /\ ~air.busy
  /\ \E same, due, probing, repeat, nextDue \in BOOLEAN :
       LET header == ParentPdu(due, probing) IN
       /\ same /\ prepared.valid => due = prepared.due
       /\ repeat /\ header.present => FrameMatches(same, header)
       /\ air' = [busy |-> TRUE, due |-> due,
                  header |-> SentHeader(same, header),
                  copies |-> IF repeat THEN 2 ELSE 1, replies |-> <<>>]
       /\ prepared' = [valid |-> TRUE, due |-> nextDue,
                       header |-> ParentPdu(nextDue, probing)]
  /\ UNCHANGED <<eligible, rx, headset, told>>

\* A bug that does not dispatch the control that seeds the link.
HandleQuietSeed(st, r, sent) ==
  LET out == Receive(st.ack, r, sent) IN
  [st EXCEPT !.ack = out.ack,
             !.last = IF out.took # "none" THEN r.msg ELSE @,
             !.keys = IF out.took = "control" /\ st.ack.active
                      THEN Append(@, r.msg) ELSE @]

\* One answer handled by ull_raw_receive_air_control in the detached path: a
\* fresh control becomes one USB action.
Handle(st, r, sent) ==
  LET out == Receive(st.ack, r, sent) IN
  [ack  |-> out.ack,
   last |-> IF out.took # "none" THEN r.msg ELSE st.last,
   keys |-> IF out.took = "control" THEN Append(st.keys, r.msg) ELSE st.keys,
   lead |-> IF ~st.ack.active THEN 0
            ELSE IF out.ack.tx_sn # st.ack.tx_sn THEN st.lead - 1
            ELSE st.lead]

HandleAll(st, rs, sent) ==
  CASE Len(rs) = 0 -> st
    [] Len(rs) = 1 -> Handle(st, rs[1], sent)
    [] OTHER       -> Handle(Handle(st, rs[1], sent), rs[2], sent)

\* The collecting half of ull_tone_trial_step for a frame that was sent.
Collect ==
  /\ air.busy
  /\ rx' = IF eligible THEN HandleAll(rx, air.replies, air.header) ELSE rx
  /\ air' = Idle
  /\ UNCHANGED <<eligible, prepared, headset, told>>

\* A cancelled event yields no answers.  If arbitration took the reservation
\* before anything was sent, the same index is tried again from its own cache
\* slot; otherwise the frame prepared ahead is the next one.
Cancelled ==
  /\ air.busy
  /\ prepared' \in {prepared,
        [valid |-> TRUE, due |-> air.due, header |-> air.header]}
  /\ air' = Idle
  /\ UNCHANGED <<eligible, rx, headset, told>>

\* The parent connection is gone; the air session goes on.
Retire ==
  /\ ~eligible
  /\ eligible' = TRUE
  /\ UNCHANGED <<rx, prepared, air, headset, told>>

-------------------------------------------------------------------------------
(***************************************************************************)
(* The headset: a BLE 5.4 link layer (external).                           *)
(***************************************************************************)
LoseCopy ==
  /\ air.copies > 0
  /\ air' = [air EXCEPT !.copies = @ - 1]
  /\ UNCHANGED <<eligible, rx, prepared, headset, told>>

\* The headset hears a copy: its NESN follows new data, and an
\* acknowledgement of its own PDU lets it offer the next one.
HeadsetHear ==
  LET h == air.header
      fresh == h.present /\ h.sn = headset.nesn
      acked == h.present /\ h.nesn # headset.sn
  IN
  /\ air.copies > 0
  /\ air' = [air EXCEPT !.copies = @ - 1]
  /\ acked => headset.msg < MaxMsg
  /\ \E kind \in Kinds :
       /\ acked \/ kind = headset.kind
       /\ headset' = [sn   |-> IF acked THEN Flip(headset.sn) ELSE headset.sn,
                      nesn |-> IF fresh THEN Flip(headset.nesn) ELSE headset.nesn,
                      kind |-> kind,
                      msg  |-> IF acked THEN headset.msg + 1 ELSE headset.msg]
  /\ rx' = IF fresh /\ rx.ack.active THEN [rx EXCEPT !.lead = @ + 1] ELSE rx
  /\ LET known == IF acked /\ headset.kind = "control" THEN {headset.msg} ELSE {}
     IN  told' = [told EXCEPT
                    !.passed = @ \cup known,
                    !.swallowed = IF rx.ack.active THEN @ ELSE @ \cup known]
  /\ UNCHANGED <<eligible, prepared>>

\* The headset answers in a reply window and the answer arrives.
HeadsetReply ==
  /\ air.busy
  /\ Len(air.replies) < Windows
  /\ air' = [air EXCEPT !.replies = Append(@, headset)]
  /\ UNCHANGED <<eligible, rx, prepared, headset, told>>

\* The keeper connects again: ull_raw_reset_sequence at the receiver, a new
\* link layer and another first PDU at the headset.
Reconnect ==
  /\ ~air.busy
  /\ headset.msg < MaxMsg
  /\ eligible' = FALSE
  /\ rx' = [rx EXCEPT !.ack = Reset, !.lead = 0]
  /\ prepared' = NothingPrepared
  /\ headset' \in {r \in Replies : r.msg = headset.msg + 1}
  /\ told' = [told EXCEPT !.opening = @ \cup Opening(headset')]
  /\ UNCHANGED air

Next ==
  \/ Submit \/ Collect \/ Cancelled \/ Retire
  \/ LoseCopy \/ HeadsetHear \/ HeadsetReply \/ Reconnect

Spec == Init /\ [][Next]_vars

(***************************************************************************)
(* Fairness.  The controller task collects and submits on every tick, and  *)
(* one frame in six is a poll slot, so a frame with a header is sent again *)
(* and again; the air loses packets and arbitration cancels events, but    *)
(* not every one for ever.                                                 *)
(***************************************************************************)
SubmitPoll == Submit /\ air'.header.present
CollectPoll == Collect /\ air.header.present /\ air.replies # <<>>
HeadsetHearPoll == HeadsetHear /\ air.header.present
HeadsetReplyPoll == HeadsetReply /\ air.header.present

FairSpec ==
  /\ Spec
  /\ WF_vars(Collect)
  /\ SF_vars(CollectPoll)
  /\ SF_vars(SubmitPoll)
  /\ SF_vars(HeadsetHearPoll)
  /\ SF_vars(HeadsetReplyPoll)

-------------------------------------------------------------------------------
\* Safety.  A turn of the wheel is applied at most once and in the order the
\* headset offered it, however often packets are repeated on the air
\* ("Never apply or re-consume it", parent_ack.c).
KeysInOrder ==
  \A i, j \in DOMAIN rx.keys : i < j => rx.keys[i] < rx.keys[j]

\* A control the headset has seen acknowledged is among the dispatched ones, with
\* one exception: the fixed poll before seeding carries NESN = 0 whatever the
\* headset offers (ull_raw_detached_parent_air_pdu), and a headset whose first PDU
\* has SN = 1 takes it for an acknowledgement, though nobody has acted on that
\* PDU.  It costs at most this one press of a connection, never a later one.
NoPressLost ==
  /\ \A m \in told.passed \ told.swallowed : \E i \in DOMAIN rx.keys : rx.keys[i] = m
  /\ told.swallowed \subseteq told.opening

\* The receiver takes an acknowledgement only for an empty PDU the headset
\* really heard, and never falls more than one behind.
AckSound == rx.ack.active => rx.lead \in 0..1

\* A poll in flight always carries the header of the automaton as it is: a
\* frame prepared before the last answer never goes out with the old bits.
SentHeaderCurrent ==
  air.busy /\ air.header.present =>
    air.header = IF rx.ack.active THEN Header(rx.ack) ELSE Poll

\* The facts above are not inductive on their own.  RxInv(st) relates the
\* receiver's history to the headset's link layer: the two sequence bits agree
\* on which PDU is next, in both directions.
RxInv(st) ==
  /\ st.last <= headset.msg
  /\ st.ack.active =>
       /\ eligible
       /\ \/ st.last = headset.msg /\ st.ack.rx_nesn = Flip(headset.sn)
          \/ st.last = headset.msg - 1 /\ st.ack.rx_nesn = headset.sn
       /\ \/ st.lead = 0 /\ st.ack.tx_sn = headset.nesn
          \/ st.lead = 1 /\ st.ack.tx_sn = Flip(headset.nesn)
       /\ st.last = headset.msg /\ headset.kind = "control"
            => \E i \in DOMAIN st.keys : st.keys[i] = headset.msg
  /\ ~st.ack.active =>
       /\ st.last < headset.msg
       /\ st.lead = 0
       /\ \A i \in DOMAIN air.replies : st.last < air.replies[i].msg
       /\ headset.sn = 1 => headset.msg \in told.opening
  /\ \A i \in DOMAIN st.keys : st.keys[i] <= st.last
  /\ \A i, j \in DOMAIN st.keys : i < j => st.keys[i] < st.keys[j]
  /\ \A m \in told.passed \ told.swallowed : \E i \in DOMAIN st.keys : st.keys[i] = m
  /\ told.swallowed \subseteq told.opening

\* An answer in flight shows the headset as it is, or as it was before the
\* frame in flight moved one of its two bits.
ReplyInv(r) ==
  /\ \/ r.msg = headset.msg /\ r.sn = headset.sn /\ r.kind = headset.kind
     \/ /\ r.msg = headset.msg - 1 /\ r.sn = Flip(headset.sn)
        /\ air.header.present /\ air.header.nesn # r.sn
  /\ \/ r.nesn = headset.nesn
     \/ r.nesn = Flip(headset.nesn) /\ air.header.present /\ air.header.sn = r.nesn

HeaderInv ==
  /\ air.header.present => air.busy /\ eligible
  /\ ~air.header.present => air.header = NoParent
  /\ ~air.busy => air = Idle
  /\ SentHeaderCurrent

LinkInv ==
  /\ TypeOK
  /\ RxInv(rx)
  /\ HeaderInv
  /\ \A i \in DOMAIN air.replies : ReplyInv(air.replies[i])

\* One control PDU of the headset is applied in a bounded number of fair
\* rounds, unless the connection goes away or the PDU stays unknown.
ControlArrives ==
  \A m \in 1..MaxMsg :
    (rx.ack.active /\ headset.msg = m /\ headset.kind = "control")
      ~> (~rx.ack.active \/ \E i \in DOMAIN rx.keys : rx.keys[i] = m)

\* The link keeps the promise of ControlDelivery.
Delivery == INSTANCE ControlDelivery WITH
              seeded <- rx.ack.active, msg <- headset.msg,
              kind <- headset.kind, last <- rx.last, keys <- rx.keys
DeliversControls == Delivery!Spec
===============================================================================
