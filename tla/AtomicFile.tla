----------------------------- MODULE AtomicFile -----------------------------
(***************************************************************************)
(* What Tether's state file promises to everything that keeps its truth    *)
(* there: each update is applied whole to the value the previous one left, *)
(* and once an update was reported as successful, no loss of power undoes  *)
(* it.  An update that was not reported may be there, and may yet be lost. *)
(***************************************************************************)
EXTENDS Sequences

CONSTANT Marks  \* the updates, each recognizable in the values it contributed to

VARIABLES
  value,   \* the updates in the file, in their order
  safe,    \* the values that a loss of power may leave
  acked    \* the updates reported as successful

vars == <<value, safe, acked>>

In(m, v) == \E i \in DOMAIN v : v[i] = m

Init ==
  /\ value = <<>>
  /\ safe = {value}
  /\ acked = {}

Update(m) ==
  /\ value' = Append(value, m)
  /\ safe' = safe \cup {value'}
  /\ UNCHANGED acked

Settle ==
  /\ safe' = {value}
  /\ UNCHANGED <<value, acked>>

Acknowledge(m) ==
  /\ \A v \in safe : In(m, v)
  /\ acked' = acked \cup {m}
  /\ UNCHANGED <<value, safe>>

LosePower ==
  /\ value' \in safe
  /\ safe' = {value'}
  /\ UNCHANGED acked

Next ==
  \/ \E m \in Marks : Update(m) \/ Acknowledge(m)
  \/ Settle
  \/ LosePower

Spec == Init /\ [][Next]_vars

\* Whatever was reported as successful is in the file, and in whatever a loss
\* of power may make of it.
AckedIsKept ==
  \A m \in acked : In(m, value) /\ \A v \in safe : In(m, v)
=============================================================================
