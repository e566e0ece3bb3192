------------------------------- MODULE TraceLog -------------------------------
(***************************************************************************)
(* What the trace store promises its readers: a log of records, keyed by   *)
(* request id, to which well-formed records are added one at a time and in *)
(* which no record ever changes or disappears.                             *)
(***************************************************************************)
EXTENDS Integers, Sequences

CONSTANT Id      \* request ids
VARIABLE log     \* request id -> record

NoTotal == -1    \* engine_total_hit_tokens = None

(***************************************************************************)
(* A record: n prompt tokens, their tags (empty: not tagged), the sum of   *)
(* the hit tokens of its lookups (NoTotal: no lookups), the engine's own   *)
(* total, and how often the lookup-sum violation is listed.                *)
(***************************************************************************)
Exceeds(r) == r.total # NoTotal /\ r.lookups > r.total

WellFormed(r) ==
  /\ r.tags # <<>> => Len(r.tags) = r.n
  /\ \A k \in DOMAIN r.tags : r.tags[k] # ""
  /\ ~ r.negative
  /\ r.flags = IF Exceeds(r) THEN 1 ELSE 0

Init == DOMAIN log = {}

Add(i) ==
  /\ i \notin DOMAIN log
  /\ DOMAIN log' = DOMAIN log \cup {i}
  /\ \A j \in DOMAIN log : log'[j] = log[j]
  /\ WellFormed(log'[i])

Next == \E i \in Id : Add(i)

Spec == Init /\ [][Next]_log
=============================================================================
