---------------------------- MODULE SegmentParser ----------------------------
(***************************************************************************)
(* proxy/cc_segment_parser.py: inject_separators on one text payload of a  *)
(* request, and what becomes of it.  The proxy records the rewritten body  *)
(* (server.py, request_body_json) and the bench sends recorded bodies      *)
(* through the proxy again, so a payload may be rewritten several times.   *)
(*                                                                         *)
(* A text is a sequence of atoms: the literals of the patterns, newlines,  *)
(* the separator, the values of the billing header that change from turn   *)
(* to turn, and everything else.  Positions are 1-based and an end is      *)
(* exclusive.                                                              *)
(***************************************************************************)
EXTENDS Integers, Sequences, FiniteSets, SequencesExt

CONSTANTS
  Atom,         \* pieces of text
  Texts,        \* the payloads clients send
  MaxRewrites   \* bound: how often a payload is rewritten

Sep == "sep"

(***************************************************************************)
(* Two values stand for all of "cch=<hash>;", one for those of             *)
(* "cc_version=<a>.<b>.<c>.<build>;".  They are looked for in any text,    *)
(* inside a header or not.  A placeholder replaces itself.                 *)
(***************************************************************************)
CchValues == {"cch=1", "cch=2"}
VersionValues == {"cc_version=1"}
CchPlaceholder == "cch=NORM"
VersionPlaceholder == "cc_version=NORM"

ASSUME ParserAssumption ==
  /\ {Sep, CchPlaceholder, VersionPlaceholder} \subseteq Atom
  /\ Texts \subseteq Seq(Atom) /\ MaxRewrites \in Nat

NormalAtom(a) ==
  IF a \in CchValues THEN CchPlaceholder
  ELSE IF a \in VersionValues THEN VersionPlaceholder ELSE a

Normal(t) == [p \in DOMAIN t |-> NormalAtom(t[p])]

VARIABLES
  pc,           \* "arrived", "find", "resolve", "emit", "collapse", "done"
  given,        \* the payload as it came in
  text,         \* the payload the segments are looked for in
  kind,         \* position in Patterns the search is at
  pos,          \* where the search goes on
  raw,          \* matches found and not resolved yet
  accepted,     \* the segments kept so far, in document order
  seg,          \* segment the emission is at
  cursor,
  out,          \* the payload as rewritten so far
  found,        \* history: all matches of this payload
  rewrites      \* how often it has been rewritten

parseVars == <<kind, pos, raw, accepted, seg, cursor, found>>
vars      == <<pc, given, text, parseVars, out, rewrites>>

(***************************************************************************)
(* The atoms: "<name>", "</name>" and "<args>", "</args>", two of the five *)
(* command tags; "<sr>", "</sr>" a reminder;                               *)
(* "preamble" the continuation sentence; "Summary:" and "1. "; "If you     *)
(* need" and ".jsonl" of the back-reference; "billing" and "Date:" of the  *)
(* header; "Recent commits:"; "gitStatus:"; "n" a newline.                 *)
(***************************************************************************)
StartsWith(t, s, w) == s + Len(w) - 1 <= Len(t) /\ \A i \in 1..Len(w) : t[s + i - 1] = w[i]

AtEnd(t, e) == e = Len(t) + 1

(***************************************************************************)
(* The pattern of each kind fits t from s up to e.                         *)
(***************************************************************************)
CommandTags == {<<"<name>", "</name>">>, <<"<args>", "</args>">>}
CommandBlock(t, s, e) ==
  \E tag \in CommandTags : t[s] = tag[1] /\ e >= s + 2 /\ t[e - 1] = tag[2]

SystemReminder(t, s, e) ==
  StartsWith(t, s, <<"<sr>", "n">>) /\ e >= s + 4 /\ StartsWith(t, e - 2, <<"n", "</sr>">>)

SummaryBlock(t, s, e) ==
  /\ StartsWith(t, s, <<"Summary:", "n", "1. ">>) /\ e >= s + 3
  /\ StartsWith(t, e, <<"n", "If you need">>) \/ AtEnd(t, e)

JsonlBackref(t, s, e) == t[s] = "If you need" /\ e >= s + 2 /\ t[e - 1] = ".jsonl"

CompactionPreamble(t, s, e) ==
  /\ t[s] = "preamble"
  /\ StartsWith(t, e, <<"n", "n", "Summary:", "n">>) \/ AtEnd(t, e)

CcHeader(t, s, e) ==
  /\ t[s] = "billing"
  /\ \E d \in s + 1 .. e - 1 : t[d] = "Date:" /\ \A i \in d .. e - 1 : t[i] # "n"
  /\ StartsWith(t, e, <<"n">>) \/ AtEnd(t, e)

RecentCommits(t, s, e) ==
  /\ StartsWith(t, s, <<"Recent commits:", "n">>) /\ e >= s + 2
  /\ StartsWith(t, e, <<"n", "n">>) \/ AtEnd(t, e)

GitStatus(t, s, e) ==
  /\ t[s] = "gitStatus:"
  /\ StartsWith(t, e, <<"n", "Recent commits:", "n">>) \/ AtEnd(t, e)

Kinds == 1..8
Prec(k) == 90 - 10 * k

Fits(k, t, s, e) ==
  \/ k = 1 /\ CommandBlock(t, s, e)
  \/ k = 2 /\ SystemReminder(t, s, e)
  \/ k = 3 /\ SummaryBlock(t, s, e)
  \/ k = 4 /\ JsonlBackref(t, s, e)
  \/ k = 5 /\ CompactionPreamble(t, s, e)
  \/ k = 6 /\ CcHeader(t, s, e)
  \/ k = 7 /\ RecentCommits(t, s, e)
  \/ k = 8 /\ GitStatus(t, s, e)

(***************************************************************************)
(* What finditer finds from p on: the leftmost match, and the shortest one *)
(* there, for all patterns are lazy.                                       *)
(***************************************************************************)
Spans(t, p) == {m \in (p..Len(t)) \X (p + 1 .. Len(t) + 1) : m[1] < m[2]}
Matches(k, t, p) == {m \in Spans(t, p) : Fits(k, t, m[1], m[2])}

IsFirst(m, ms) == \A x \in ms : m[1] < x[1] \/ (m[1] = x[1] /\ m[2] <= x[2])

Match(k, m) == [start |-> m[1], end |-> m[2], prec |-> Prec(k)]
Length(r) == r.end - r.start

Fresh(t) ==
  /\ kind' = 1 /\ pos' = 1 /\ raw' = {} /\ found' = {} /\ accepted' = <<>>
  /\ seg' = 1 /\ cursor' = 1 /\ given' = t /\ text' = t /\ out' = <<>>

Init ==
  /\ pc = "arrived" /\ given \in Texts /\ text = given
  /\ kind = 1 /\ pos = 1 /\ raw = {} /\ found = {} /\ accepted = <<>>
  /\ seg = 1 /\ cursor = 1 /\ out = <<>>
  /\ rewrites = 0

(***************************************************************************)
(* The parser is switched off, or the request is not one of Claude Code:   *)
(* none of its payloads holds the billing header.                          *)
(***************************************************************************)
LeaveUnchanged ==
  /\ pc = "arrived"
  /\ out' = text /\ pc' = "done"
  /\ UNCHANGED <<given, text, parseVars, rewrites>>

(***************************************************************************)
(* The header values give way to placeholders before anything is looked    *)
(* for.                                                                    *)
(***************************************************************************)
Rewrite ==
  /\ pc = "arrived" /\ rewrites < MaxRewrites
  /\ pc' = "find"
  /\ rewrites' = rewrites + 1
  /\ text' = Normal(text)
  /\ UNCHANGED <<given, parseVars, out>>

(***************************************************************************)
(* The next match of the pattern the search is at.                         *)
(***************************************************************************)
Find ==
  /\ pc = "find" /\ kind \in Kinds
  /\ \E m \in Matches(kind, text, pos) :
       /\ IsFirst(m, Matches(kind, text, pos))
       /\ raw' = raw \cup {Match(kind, m)}
       /\ found' = found \cup {Match(kind, m)}
       /\ pos' = m[2]
  /\ UNCHANGED <<pc, given, text, kind, accepted, seg, cursor, out, rewrites>>

NextKind ==
  /\ pc = "find" /\ kind \in Kinds
  /\ Matches(kind, text, pos) = {}
  /\ kind' = kind + 1 /\ pos' = 1
  /\ UNCHANGED <<pc, given, text, raw, accepted, seg, cursor, out, found, rewrites>>

(***************************************************************************)
(* No pattern is left: without a match the text goes on as it is.          *)
(***************************************************************************)
Searched ==
  /\ pc = "find" /\ kind \notin Kinds
  /\ IF raw = {} THEN out' = text /\ pc' = "done"
                 ELSE UNCHANGED out /\ pc' = "resolve"
  /\ UNCHANGED <<given, text, parseVars, rewrites>>

(***************************************************************************)
(* The matches come by start, then by precedence.  One that overlaps the   *)
(* segment kept last takes its place or is dropped.                        *)
(***************************************************************************)
IsNext(r) == \A q \in raw : r.start < q.start \/ (r.start = q.start /\ r.prec >= q.prec)

Overlaps_Start(r) == accepted # <<>> /\ r.start = Last(accepted).start
Overlaps(r) == accepted # <<>> /\ r.start < Last(accepted).end

Beats_Later(r, p) == TRUE
Beats(r, p) == r.prec > p.prec \/ (r.prec = p.prec /\ Length(r) > Length(p))

Keep(r) == IF ~ Overlaps(r) THEN Append(accepted, r)
           ELSE IF Beats(r, Last(accepted)) THEN Append(Front(accepted), r)
           ELSE accepted

Resolve ==
  /\ pc = "resolve"
  /\ \E r \in raw : IsNext(r) /\ raw' = raw \ {r} /\ accepted' = Keep(r)
  /\ UNCHANGED <<pc, given, text, kind, pos, seg, cursor, out, found, rewrites>>

Resolved ==
  /\ pc = "resolve" /\ raw = {}
  /\ pc' = "emit"
  /\ UNCHANGED <<given, text, parseVars, out, rewrites>>

(***************************************************************************)
(* The text up to the segment, then the segment between separators.        *)
(***************************************************************************)
Slice(s, e) == SubSeq(text, s, e - 1)

AfterSegment_Next(a) == a.end + 1
AfterSegment_Start(a) == a.start
AfterSegment(a) == a.end

Emit ==
  LET a == accepted[seg] IN
  /\ pc = "emit" /\ seg <= Len(accepted)
  /\ out' = out \o Slice(cursor, a.start) \o <<Sep>> \o Slice(a.start, a.end) \o <<Sep>>
  /\ cursor' = AfterSegment(a)
  /\ seg' = seg + 1
  /\ UNCHANGED <<pc, given, text, kind, pos, raw, accepted, found, rewrites>>

(***************************************************************************)
(* The rest of the text; then every run of separators becomes one.         *)
(***************************************************************************)
EmitRest ==
  /\ pc = "emit" /\ seg > Len(accepted)
  /\ out' = out \o Slice(cursor, Len(text) + 1)
  /\ pc' = "collapse"
  /\ UNCHANGED <<given, text, parseVars, rewrites>>

Doubled_Never(t) == {}
Doubled(t) == {p \in 1 .. Len(t) - 1 : t[p] = Sep /\ t[p + 1] = Sep}

Collapse ==
  /\ pc = "collapse"
  /\ IF Doubled(out) = {}
       THEN UNCHANGED out /\ pc' = "done"
       ELSE /\ \E p \in Doubled(out) :
                 /\ \A q \in Doubled(out) : p <= q
                 /\ out' = SubSeq(out, 1, p) \o SubSeq(out, p + 2, Len(out))
            /\ UNCHANGED pc
  /\ UNCHANGED <<given, text, parseVars, rewrites>>

(***************************************************************************)
(* The recorded payload is sent through the proxy again.                   *)
(***************************************************************************)
Replay ==
  /\ pc = "done"
  /\ pc' = "arrived"
  /\ Fresh(out)
  /\ UNCHANGED rewrites

Parse ==
  \/ LeaveUnchanged \/ Rewrite \/ Find \/ NextKind \/ Searched
  \/ Resolve \/ Resolved \/ Emit \/ EmitRest \/ Collapse

Next == Parse \/ Replay

Spec == Init /\ [][Next]_vars

-----------------------------------------------------------------------------
MatchType(r) == r.start \in 1..Len(text) /\ r.end \in r.start + 1 .. Len(text) + 1
                  /\ r.prec \in {Prec(k) : k \in Kinds}

TypeOK ==
  /\ pc \in {"arrived", "find", "resolve", "emit", "collapse", "done"}
  /\ kind \in 1..9 /\ pos \in 1 .. Len(text) + 1 /\ cursor \in 1 .. Len(text) + 1
  /\ raw \subseteq found /\ \A r \in found : MatchType(r)
  /\ \A i \in DOMAIN accepted : accepted[i] \in found
  /\ seg \in 1 .. Len(accepted) + 1
  /\ rewrites \in 0..MaxRewrites

(***************************************************************************)
(* find_segments returns "the segment list for a single text payload, in   *)
(* document order, with no overlaps".                                      *)
(***************************************************************************)
SegmentsDisjoint ==
  \A i \in DOMAIN accepted : \A j \in DOMAIN accepted :
    i < j => accepted[i].end <= accepted[j].start

(***************************************************************************)
(* "overlapping spans resolved by precedence": a match that was dropped    *)
(* overlaps one of higher precedence.                                      *)
(***************************************************************************)
Overlap(r, q) == r.start < q.end /\ q.start < r.end

DroppedForHigher ==
  \A r \in found \ raw :
    \/ \E i \in DOMAIN accepted : accepted[i] = r
    \/ \E q \in found : q.prec > r.prec /\ Overlap(q, r)

(***************************************************************************)
(* "never edits the captured content; it only injects separators", up to   *)
(* the header values, which the code replaces all the same: a payload the  *)
(* parser is kept from goes on as it came in; of any other the atoms are   *)
(* what they were, in their order, with a placeholder for every value, and *)
(* there is a separator exactly where there was one and at the two ends of *)
(* every segment, none doubled.  The layout of a text is its atoms, each   *)
(* with how many atoms other than separators come before it.               *)
(***************************************************************************)
Before(t, p) == Cardinality({q \in 1 .. p - 1 : t[q] # Sep})
Layout(t) == {<<Before(t, p), t[p]>> : p \in DOMAIN t}
Boundaries ==
  UNION {{Before(text, accepted[i].start), Before(text, accepted[i].end)} : i \in DOMAIN accepted}

Parsed == kind \notin Kinds

OnlySeparators ==
  pc = "done" =>
    IF Parsed
      THEN /\ Layout(out) = Layout(Normal(given)) \cup {<<b, Sep>> : b \in Boundaries}
           /\ accepted # <<>> => \A p \in 1 .. Len(out) - 1 : out[p] # Sep \/ out[p + 1] # Sep
      ELSE out = given

(***************************************************************************)
(* Recorded payloads are rewritten again when they are replayed, and each  *)
(* time other points where a lazy pattern ends may be hidden behind the    *)
(* separators.  It cannot go on for ever: no header value is left, and     *)
(* without doubled separators to collapse, a rewriting that changes a      *)
(* payload without header values makes it longer, while there is room for  *)
(* one separator before every other atom and at the end.                   *)
(***************************************************************************)
Values(t) == {p \in DOMAIN t : t[p] \in CchValues \cup VersionValues}

Settles ==
  pc = "done" /\ Doubled(given) = {} /\ out # given =>
    /\ Values(out) = {}
    /\ Values(given) = {} => Len(given) < Len(out)
    /\ Len(out) <= 2 * Before(given, Len(given) + 1) + 1

(***************************************************************************)
(* inject_separators' docstring, "Idempotent: the separator string itself  *)
(* is never targeted by any pattern, so re-running on already-separated    *)
(* text is a no-op", which server.py repeats.                              *)
(***************************************************************************)
Idempotent == pc = "done" /\ rewrites >= 2 => out = given
=============================================================================
