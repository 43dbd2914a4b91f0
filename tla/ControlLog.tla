----------------------------- MODULE ControlLog -----------------------------
(***************************************************************************)
(* The log of the headset's controls (control_log.c): the controller task  *)
(* and the keeper publish, the console starts, freezes and drains.  The    *)
(* two flags a publisher looks at first are read without the lock.         *)
(***************************************************************************)
EXTENDS Naturals, Sequences

CONSTANTS Publishers,  \* "air", "acl"
          LogCap,      \* slots of the ring (32 in the code)
          MaxTotal,    \* bound: records of a capture
          MaxGen       \* bound: times the console starts or freezes it

ASSUME LogAssumption == {LogCap, MaxTotal, MaxGen} \subseteq Nat \ {0}

VARIABLES
    enabled, generation,
    ring, total,   \* the records; how many were recorded in this capture
    pub,           \* publishers: [at, gen, capture]
    con,           \* console: [at, on, drain]
    capture,       \* history: number of the capture
    printed        \* history: the records drained of this capture

flags == <<enabled, generation>>
logVars == <<flags, ring, total, pub, con, capture, printed>>

Quiet == [at |-> "idle", gen |-> 0, capture |-> 0]
AtPrompt == [at |-> "idle", on |-> FALSE, drain |-> FALSE]

LogTypeOK ==
    /\ enabled \in BOOLEAN /\ generation \in 0..MaxGen
    /\ ring \in Seq([capture : 1..MaxGen, n : Nat]) /\ Len(ring) <= LogCap
    /\ pub \in [Publishers -> [at : {"idle", "loaded", "built"}, gen : 0..MaxGen, capture : 0..MaxGen]]
    /\ con \in [at : {"idle", "bump", "set", "drain"}, on : BOOLEAN, drain : BOOLEAN]

LogInit ==
    /\ enabled = FALSE /\ generation = 0 /\ ring = <<>> /\ total = 0
    /\ pub = [p \in Publishers |-> Quiet] /\ con = AtPrompt
    /\ capture = 0 /\ printed = <<>>

-----------------------------------------------------------------------------
(* publish.                                                                *)

Observe(p) ==
    /\ pub[p].at = "idle" /\ total < MaxTotal
    /\ pub' = [pub EXCEPT ![p] = [at |-> "loaded", gen |-> generation, capture |-> 0]]
    /\ UNCHANGED <<flags, ring, total, con, capture, printed>>

Build(p) ==
    /\ pub[p].at = "loaded"
    /\ pub' = [pub EXCEPT ![p] = IF enabled THEN [at |-> "built", gen |-> @.gen, capture |-> capture] ELSE Quiet]
    /\ UNCHANGED <<flags, ring, total, con, capture, printed>>

\* Mutant: the capture may be another one by now.
StillOn(p) == enabled

\* The second look, under the lock.
SameCapture(p) == enabled /\ pub[p].gen = generation

Unlocked == con.at \notin {"bump", "set"}

\* What must not be shown (hide: setup and key exchange) is only counted.
Publish(p) ==
    /\ pub[p].at = "built" /\ Unlocked
    /\ \E hide \in BOOLEAN :
       IF SameCapture(p) /\ ~hide /\ Len(ring) < LogCap
       THEN /\ ring' = Append(ring, [capture |-> pub[p].capture, n |-> total + 1])
            /\ total' = total + 1
       ELSE UNCHANGED <<ring, total>>
    /\ pub' = [pub EXCEPT ![p] = Quiet]
    /\ UNCHANGED <<flags, con, capture, printed>>

-----------------------------------------------------------------------------
(* The console: ull_control_log_enable under the lock, store by store, and *)
(* the drain, which freezes first.                                         *)

Command ==
    /\ con.at = "idle"
    /\ \E c \in [at : {"bump"}, on : BOOLEAN, drain : BOOLEAN] :
          ~(c.on /\ c.drain) /\ con' = c
    /\ generation < MaxGen
    /\ enabled' = FALSE
    /\ UNCHANGED <<generation, ring, total, pub, capture, printed>>

Bump ==
    /\ con.at = "bump" /\ con' = [con EXCEPT !.at = "set"]
    /\ generation' = generation + 1
    /\ UNCHANGED <<enabled, ring, total, pub, capture, printed>>

SetEnabled ==
    /\ con.at = "set" /\ enabled' = con.on
    /\ con' = IF con.drain THEN [con EXCEPT !.at = "drain"] ELSE AtPrompt
    /\ IF con.on THEN ring' = <<>> /\ total' = 0 /\ printed' = <<>> /\ capture' = capture + 1
       ELSE UNCHANGED <<ring, total, printed, capture>>
    /\ UNCHANGED <<generation, pub>>

Drain ==
    /\ con.at = "drain"
    /\ IF ring = <<>> THEN con' = AtPrompt /\ UNCHANGED <<ring, printed>>
       ELSE ring' = Tail(ring) /\ printed' = Append(printed, Head(ring)) /\ UNCHANGED con
    /\ UNCHANGED <<flags, total, pub, capture>>

Console == Command \/ Bump \/ SetEnabled \/ Drain

-----------------------------------------------------------------------------
(* Properties.                                                             *)

\* What is drained, with what is still to be, is exactly what was recorded of
\* the capture it is drained for, in its order: a publisher that looked at
\* the flags in an earlier capture, or just before the freeze, adds nothing.
OneCapture ==
    /\ LogTypeOK
    /\ printed \o ring = [i \in 1..total |-> [capture |-> capture, n |-> i]]
=============================================================================
