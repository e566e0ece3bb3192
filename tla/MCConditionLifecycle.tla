------------------------ MODULE MCConditionLifecycle ------------------------
(***************************************************************************)
(* Two benches on one machine: b1 runs two conditions with a log dump, b2  *)
(* one of them without.                                                    *)
(***************************************************************************)
EXTENDS ConditionLifecycle

CONSTANTS b1, b2, c1, c2

MCPlan == [b \in Bench |-> IF b = b1 THEN <<c1, c2>> ELSE <<c1>>]
MCDumps == [b \in Bench |-> b = b1]
=============================================================================
