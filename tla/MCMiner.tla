------------------------------- MODULE MCMiner -------------------------------
(***************************************************************************)
(* Corpora for the runs of Miner: all triples of short files over two      *)
(* tokens, and a few longer ones.  The first two files lie in one          *)
(* directory, the others in another.                                       *)
(***************************************************************************)
EXTENDS Miner

Short(m) == UNION {[1..k -> {0, 1}] : k \in 0..m}
ThreeFiles == {<<a, b, c>> : a \in Short(3), b \in Short(4), c \in Short(3)}
TwoFiles   == {<<a, b>> : a \in Short(4), b \in Short(4)}

Long == {
  <<<<0, 1, 0, 1, 1, 0>>, <<1, 0, 1, 0, 1>>, <<>>, <<0, 1, 0, 1>>>>,
  <<<<2, 0, 1, 2, 0, 1>>, <<0, 1, 2, 0>>, <<1, 2, 0, 1, 2>>>>,
  <<<<0, 0, 0, 0>>, <<0, 0, 0>>, <<1, 0, 0>>>>}

MCLabel == <<"first", "first", "second", "second">>
MCCorpora == ThreeFiles \cup TwoFiles \cup Long
=============================================================================
