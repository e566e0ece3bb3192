---------------------------- MODULE MCProxyServer ----------------------------
(***************************************************************************)
(* Values for the runs of ProxyServer.  One skill, "brain", with an anchor  *)
(* a1 of its body, and one mined span.                                     *)
(***************************************************************************)
EXTENDS ProxyServer

CONSTANTS brain, a1, mined

MCContentOf == [s \in Span |-> IF s = mined THEN mined ELSE brain]
MCSize == [s \in Span |-> 1]
BothContents == {{brain, mined}}

AllOn == [lookup |-> TRUE, tail |-> TRUE, pre_seed |-> TRUE]
MCConfigs == {AllOn, [AllOn EXCEPT !.lookup = FALSE, !.tail = FALSE],
              [AllOn EXCEPT !.pre_seed = FALSE]}

TwoSeeds == <<a1, mined>>
=============================================================================
