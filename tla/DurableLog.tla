----------------------------- MODULE DurableLog -----------------------------
(***************************************************************************)
(* What the write-ahead log promises to the sink in front of it, without   *)
(* segments, locks or files: a record whose Write returned nil is kept     *)
(* until the replay handler has accepted it, whatever crashes in between.  *)
(* A record may be handed to the handler several times (at-least-once),    *)
(* and a record whose Write failed may still be kept and handed over.      *)
(***************************************************************************)
CONSTANT Records

VARIABLES
  acked,      \* records whose Write returned nil
  stored,     \* acknowledged records the log would still replay
  delivered   \* records the replay handler has accepted at least once

vars == <<acked, stored, delivered>>

Init == acked = {} /\ stored = {} /\ delivered = {}

\* Write returns nil for r: from here on the log answers for it, unless a replay
\* has already handed it over.
Accept(r) ==
  /\ r \notin acked
  /\ acked' = acked \cup {r}
  /\ \/ stored' = stored \cup {r}
     \/ r \in delivered /\ UNCHANGED stored
  /\ UNCHANGED delivered

\* The handler accepts r; nothing is forgotten yet.
Deliver(r) ==
  /\ delivered' = delivered \cup {r}
  /\ UNCHANGED <<acked, stored>>

\* A whole group of records is confirmed and forgotten.
Retire(S) ==
  /\ S \subseteq stored \cap delivered
  /\ stored' = stored \ S
  /\ UNCHANGED <<acked, delivered>>

Next ==
  \/ \E r \in Records : Accept(r) \/ Deliver(r)
  \/ \E S \in SUBSET stored : Retire(S)

Spec == Init /\ [][Next]_vars
=============================================================================
