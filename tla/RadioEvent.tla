------------------------------ MODULE RadioEvent ------------------------------
(***************************************************************************)
(* What the caller of a radio event can count on: it is given back once,   *)
(* with one outcome, and only after the outcome; its followup is tried at  *)
(* most once; nothing of it starts after a cancel.  An event may be lost   *)
(* instead ("requiring HCI reset", radio_tx.h), and stays lost; one that   *)
(* was withdrawn or refused is not lost.                                   *)
(***************************************************************************)

VARIABLES
  stage,    \* the phase, started or aborting being "running"
  again,    \* is a followup wanted
  stopped   \* was the event cancelled by the caller

vars == <<stage, again, stopped>>

Outcomes == {"ended", "cancelled", "refused"}

Init == stage = "idle" /\ again = FALSE /\ stopped = FALSE

Accept ==
  /\ stage = "idle"
  /\ stage' = "queued" /\ again' \in BOOLEAN /\ stopped' = FALSE

Start ==
  /\ stage = "queued" /\ ~stopped
  /\ stage' = "running" /\ UNCHANGED <<again, stopped>>

Decline ==
  /\ stage = "queued"
  /\ stage' \in {"cancelled", "refused"} /\ UNCHANGED <<again, stopped>>

Forgo ==
  /\ stage \in {"running", "fault"} /\ again
  /\ again' = FALSE /\ UNCHANGED <<stage, stopped>>

Follow ==
  /\ stage = "running" /\ again /\ ~stopped
  /\ stage' = "queued" /\ again' = FALSE /\ UNCHANGED stopped

End ==
  /\ stage = "running"
  /\ stage' = "ended" /\ again' \in {again, FALSE} /\ UNCHANGED stopped

\* A cancel withdraws an event that is listed and may end one that runs.
Stop ==
  /\ stage # "idle"
  /\ stopped' = TRUE /\ again' \in {again, FALSE}
  /\ \/ UNCHANGED stage
     \/ stage = "queued" /\ stage' = "cancelled"
     \/ stage = "running" /\ stage' = "fault"

Lose ==
  /\ stage \in {"queued", "running", "ended"}
  /\ stage' = "fault" /\ again' \in {again, FALSE} /\ UNCHANGED stopped

GiveBack ==
  /\ stage \in Outcomes
  /\ stage' = "idle" /\ again' = FALSE /\ stopped' = FALSE

Next == \/ Accept \/ Start \/ Decline \/ Forgo \/ Follow \/ End \/ Stop \/ Lose \/ GiveBack

Spec == Init /\ [][Next]_vars
===============================================================================
