---------------------------- MODULE MCStreamBridge ----------------------------
(***************************************************************************)
(* A backend stream of at most three chunks: text, two tool calls that may *)
(* be interleaved inside one chunk, an opening tool call without arguments,*)
(* a usage-only chunk, a usage record without counts and a finish reason.  *)
(***************************************************************************)
EXTENDS StreamBridge

CONSTANTS t1, t2

T(i, a) == [index |-> i, args |-> a]

C(u, ch, tx, ts, f) ==
  [usage |-> u, choices |-> ch, text |-> tx, tools |-> ts, finish |-> f]

MCChunks ==
  { C(None, TRUE, TRUE, <<>>, None),
    C(None, TRUE, FALSE, <<T(t1, FALSE)>>, None),
    C(None, TRUE, TRUE, <<T(t2, TRUE)>>, None),
    C(None, TRUE, FALSE, <<T(t1, TRUE), T(t2, TRUE), T(t1, TRUE)>>, None),
    C("unkeyed", TRUE, FALSE, <<>>, "tool_calls"),
    C("final", FALSE, FALSE, <<>>, None) }
=============================================================================
