------------------------------ MODULE PromptTags ------------------------------
(***************************************************************************)
(* What the proxy does with a text payload once SegmentParser is through:  *)
(* tagging/skill_prefix_index.py finds the skills in it, proxy/assemble.py *)
(* emits its tokens with a tag each.  An atom stands for the tokens of a   *)
(* piece of text, and a token is named by its position in the payload.     *)
(* Payloads that are not text get one tag throughout and are left out.     *)
(***************************************************************************)
EXTENDS SegmentParser, FiniteSetsExt

CONSTANTS
  Skill,       \* installed skills
  Body,        \* skill -> its rendered body
  Anchors      \* anchor lengths of the index

ASSUME TagsAssumption ==
  Body \in [Skill -> Seq(Atom)] /\ Anchors \subseteq Nat \ {0} /\ IsFiniteSet(Anchors)

VARIABLES
  todo,        \* matches not emitted yet
  at,          \* cursor of the emission
  emitted,     \* sequence of [pos, tag]
  tagged       \* is the payload tagged?

tagVars == <<todo, at, emitted, tagged>>

(***************************************************************************)
(* The index: a prefix of every anchor length the body reaches.  Of each   *)
(* skill the longest one that occurs counts, where it occurs first.        *)
(***************************************************************************)
Occurrences(h, w) == {p \in DOMAIN h : StartsWith(h, p, w)}

Prefix(s, n) == SubSeq(Body[s], 1, n)
Occurring(s, h) ==
  {n \in Anchors : n <= Len(Body[s]) /\ Occurrences(h, Prefix(s, n)) # {}}

MatchOf(s, h) ==
  LET n == Max(Occurring(s, h))
      p == Min(Occurrences(h, Prefix(s, n)))
  IN  [skill |-> s, start |-> p, end |-> p + n]

FindMatches(h) == {MatchOf(s, h) : s \in {x \in Skill : Occurring(x, h) # {}}}

(***************************************************************************)
(* Outside the matches a dynamic marker is "dynamic", the rest has the tag *)
(* of the payload: skill_body if it starts with a frontmatter (the payload *)
(* is a text block of a list; a plain string is not looked at for one).    *)
(***************************************************************************)
Marker == "!cmd"
Frontmatter == "---"

BaseTag == IF out # <<>> /\ out[1] = Frontmatter THEN "skill_body" ELSE "other"

Plain(s, e) ==
  [i \in 1 .. e - s |->
     [pos |-> s + i - 1, tag |-> IF out[s + i - 1] = Marker THEN "dynamic" ELSE BaseTag]]

Inside(m) == [i \in 1 .. m.end - m.start |-> [pos |-> m.start + i - 1, tag |-> "skill_body"]]

InitTags ==
  /\ Init
  /\ todo = {} /\ at = 1 /\ emitted = <<>> /\ tagged = FALSE

ParseStep ==
  /\ Parse
  /\ todo' = IF pc' = "done" THEN FindMatches(out') ELSE {}
  /\ UNCHANGED <<at, emitted, tagged>>

(***************************************************************************)
(* The matches by start: the text before one, then the match.              *)
(***************************************************************************)
AfterMatch_Start(m) == m.start
AfterMatch(m) == m.end

EmitMatch ==
  /\ pc = "done"
  /\ \E m \in todo :
       /\ \A x \in todo : m.start <= x.start
       /\ emitted' = emitted \o Plain(at, m.start) \o Inside(m)
       /\ at' = AfterMatch(m)
       /\ todo' = todo \ {m}
  /\ UNCHANGED <<vars, tagged>>

EmitLast ==
  /\ pc = "done" /\ todo = {} /\ ~ tagged
  /\ emitted' = emitted \o Plain(at, Len(out) + 1)
  /\ tagged' = TRUE
  /\ UNCHANGED <<vars, todo, at>>

SendAgain ==
  /\ tagged
  /\ Replay
  /\ todo' = {} /\ at' = 1 /\ emitted' = <<>> /\ tagged' = FALSE

NextTags == ParseStep \/ EmitMatch \/ EmitLast \/ SendAgain

SpecTags == InitTags /\ [][NextTags]_<<vars, tagVars>>

-----------------------------------------------------------------------------
(***************************************************************************)
(* "emit (token_ids, tags) parallel arrays", "each segment as skill_body   *)
(* inside a match, else ... the block's natural base tag": no token of the *)
(* payload is left out; every token of a match is emitted as skill_body,   *)
(* and one outside all matches with the tag it has of itself.  A token is  *)
(* emitted before an earlier one, or a second time, only where two matches *)
(* overlap: the cursor is set back to the end of the later one.            *)
(***************************************************************************)
Covers(m, p) == p \in m.start .. m.end - 1
Contested(p) == \E m, x \in FindMatches(out) : m # x /\ Overlap(m, x) /\ Covers(m, p)

EachTokenOnce ==
  tagged =>
    /\ {emitted[i].pos : i \in DOMAIN emitted} = DOMAIN out
    /\ \A i, j \in DOMAIN emitted :
         i < j /\ emitted[j].pos <= emitted[i].pos => Contested(emitted[i].pos)
    /\ \A m \in FindMatches(out) : \A p \in m.start .. m.end - 1 :
         \E i \in DOMAIN emitted : emitted[i] = [pos |-> p, tag |-> "skill_body"]
    /\ \A i \in DOMAIN emitted :
         \/ \E m \in FindMatches(out) : Covers(m, emitted[i].pos)
         \/ emitted[i].tag = IF out[emitted[i].pos] = Marker THEN "dynamic" ELSE BaseTag
=============================================================================
