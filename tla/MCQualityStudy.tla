---------------------------- MODULE MCQualityStudy ----------------------------
(***************************************************************************)
(* Values for the run of QualityStudy.  The corpora have a malformed       *)
(* record before a usable one; a capture in the corpus root, with another  *)
(* capture of the same id or with one that cannot be read; a corrupt       *)
(* capture behind a usable one; and no usable turn at all.  A session      *)
(* takes all captures, or those of one id: these once, leaving no_cache to *)
(* an earlier session, or twice for cacheblend alone.  The judge asks      *)
(* about one pair at most, or about all that are not identical.            *)
(***************************************************************************)
EXTENDS QualityStudy

CONSTANTS unreadable, corrupt

At(place, turns) == [dir |-> place, turns |-> turns]
MCRootName == 2
MCCorpora ==
  {<<At(1, <<FALSE, TRUE>>), At(3, <<TRUE>>)>>,
   <<At(RootDir, <<TRUE>>), At(2, <<TRUE>>)>>,
   <<At(RootDir, <<TRUE>>), At(1, unreadable)>>,
   <<At(1, <<TRUE>>), At(3, corrupt)>>,
   <<At(1, <<FALSE>>), At(3, unreadable)>>}
All == 1..3
MCEvalOptions ==
  {[conditions |-> <<"no_cache", "cacheblend">>, samples |-> 1, captures |-> All],
   [conditions |-> <<"prefix_cache", "cacheblend">>, samples |-> 1, captures |-> {1}],
   [conditions |-> <<"cacheblend">>, samples |-> 2, captures |-> {1}]}
MCText  == {"x", "y"}
MCAlike == {}
MCJudgeOptions ==
  {[limit |-> 1, include_identical |-> identical] : identical \in BOOLEAN}
    \cup {[limit |-> NoLimit, include_identical |-> FALSE]}
=============================================================================
