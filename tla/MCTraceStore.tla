----------------------------- MODULE MCTraceStore -----------------------------
(***************************************************************************)
(* Two proxies on one directory, three ids, and records with every outcome *)
(* of the checks: untagged, tagged, tags of another length, a negative     *)
(* token, lookups below and above the engine's total.                      *)
(***************************************************************************)
EXTENDS TraceStore

Plain    == [NoRecord EXCEPT !.n = 2]
Tagged   == [Plain EXCEPT !.tags = <<"skill_body", "other">>, !.lookups = 1, !.total = 2]
TooMany  == [Tagged EXCEPT !.lookups = 3]
Short    == [Plain EXCEPT !.tags = <<"other">>]
Long     == [Plain EXCEPT !.tags = <<"other", "other", "other">>]
Negative == [Plain EXCEPT !.negative = TRUE]

MCRecord == {Plain, Tagged, TooMany, Short, Long, Negative}
=============================================================================
