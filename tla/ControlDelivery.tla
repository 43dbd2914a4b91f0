--------------------------- MODULE ControlDelivery ---------------------------
(***************************************************************************)
(* What the detached control link promises, with no headers or bits: while *)
(* the link is seeded the headset's PDUs are consumed one after the other, *)
(* none twice and none skipped, and each control PDU produces exactly one  *)
(* USB action.  Nothing is promised while the link is not seeded.          *)
(***************************************************************************)
EXTENDS Integers, Sequences

VARIABLES
  seeded,    \* the receiver's automaton is active
  msg,       \* number of the PDU the headset is offering
  kind,      \* and its kind
  last,      \* number of the last PDU the receiver consumed
  keys       \* numbers of the control PDUs turned into USB actions

vars == <<seeded, msg, kind, last, keys>>

Init ==
  /\ seeded = FALSE
  /\ msg \in Nat
  /\ kind \in {"control", "empty", "unknown", "malformed"}
  /\ last = 0
  /\ keys = <<>>

\* The headset offers its next PDU: once seeded, only after this one was
\* consumed.
Offer ==
  /\ seeded => last = msg
  /\ msg' = msg + 1
  /\ kind' \in {"control", "empty", "unknown", "malformed"}
  /\ UNCHANGED <<seeded, last, keys>>

\* The receiver consumes the offered PDU.
Consume ==
  /\ seeded
  /\ last = msg - 1
  /\ kind \in {"control", "empty"}
  /\ last' = msg
  /\ keys' = IF kind = "control" THEN Append(keys, msg) ELSE keys
  /\ UNCHANGED <<seeded, msg, kind>>

\* The link is seeded by the offered PDU or by the one before it.
Start ==
  /\ ~seeded
  /\ seeded' = TRUE
  /\ last' \in {msg - 1, msg}
  /\ last' > last
  /\ keys' \in {keys, Append(keys, last')}
  /\ UNCHANGED <<msg, kind>>

\* A new connection: the old PDU is gone with its link layer.
Drop ==
  /\ seeded' = FALSE
  /\ msg' = msg + 1
  /\ kind' \in {"control", "empty", "unknown", "malformed"}
  /\ UNCHANGED <<last, keys>>

Next == Offer \/ Consume \/ Start \/ Drop

Spec == Init /\ [][Next]_vars
==============================================================================
