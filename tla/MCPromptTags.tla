----------------------------- MODULE MCPromptTags -----------------------------
(***************************************************************************)
(* Payloads put together from up to three pieces: whole blocks of every    *)
(* kind, openings that are not closed or closed with another's tag, skills *)
(* and parts of them, a header value outside a header, newlines, other     *)
(* text, a separator.  The body of one skill holds that of the other, and  *)
(* their beginnings overlap in the pieces "k1" "n" and "k3".               *)
(***************************************************************************)
EXTENDS PromptTags

CONSTANTS brain, debug

Command   == <<"<name>", "x", "</name>">>
Reminder  == <<"<sr>", "n", "x", "n", "</sr>">>
Preamble  == <<"preamble", "x">>
Summary   == <<"n", "n", "Summary:", "n", "1. ", "x">>
Backref   == <<"n", "If you need", "x", ".jsonl">>
Header    == <<"billing", "cc_version=1", "cch=1", "n", "Date:", "x">>
Status    == <<"gitStatus:", "x">>
Commits   == <<"n", "Recent commits:", "n", "x">>

MCBody == [s \in {brain, debug} |->
             IF s = brain THEN <<"k1", "n", "k3", "k2">> ELSE <<"n", "k3">>]
MCAnchors == {2, 4}

Pieces == {Command, Reminder, Preamble, Summary, Backref, Header, Status, Commits,
           MCBody[brain], <<"k1", "n">>, <<"k3">>,
           <<"<args>">>, <<"</args>">>, <<"<sr>", "n">>, <<"n">>, <<"cch=2", Marker>>, <<Sep>>,
           <<Frontmatter>>}

\* Three rewritings in a row change it.
Unfolding ==
  <<"Summary:", "n", "1. ", "n", "If you need", "Recent commits:", "n", "If you need", "n",
    "Recent commits:", "n", ".jsonl">>

MCTexts ==
  {<<>>, Unfolding} \cup Pieces \cup {p[1] \o p[2] : p \in Pieces \X Pieces}
    \cup {p[1] \o p[2] \o p[3] : p \in Pieces \X Pieces \X Pieces}
    \cup {Preamble \o Summary \o Backref \o p : p \in Pieces}
    \cup {Header \o Status \o Commits \o p : p \in Pieces}

MCAtom ==
  {CchPlaceholder, VersionPlaceholder} \cup UNION {{p[i] : i \in DOMAIN p} : p \in Pieces}
=============================================================================
