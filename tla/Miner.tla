-------------------------------- MODULE Miner --------------------------------
(***************************************************************************)
(* The statistical span miner: scripts/mine_corpus.py (what is loaded and  *)
(* written) around mine_spans of tagging/statistical_miner.py, which looks *)
(* for token sequences of at least LengthFloor tokens that occur in at     *)
(* least FrequencyFloor streams.  One action is one turn of one of its     *)
(* loops: loading and joining the streams, the doubling rounds of the      *)
(* suffix array, Kasai's scan for the common prefixes of neighbours, the   *)
(* walk over them with a stack of open intervals, the removal of prefixes, *)
(* the merging of near-duplicates.                                         *)
(*                                                                         *)
(* Positions count from 1, so that "no rank" is 0 and the sentinel behind  *)
(* stream sid is -sid: any negative number, different for every stream.    *)
(* A MinHash signature is abstracted to which comparisons can exceed the   *)
(* threshold: equal shingle sets always do, disjoint ones never.           *)
(***************************************************************************)
EXTENDS Integers, Sequences, FiniteSets, SequencesExt

CONSTANTS
  Corpora,         \* the corpora: sequences of files, a file being its prompt tokens
  Label,           \* position of a file -> the directory it is reported under: the
                   \* first one below the root of the traces, or the root itself
  LengthFloor,
  FrequencyFloor,
  ShingleWidth,
  NearDedup        \* is jaccard_threshold below 1.0?

ASSUME MinerAssumption ==
  /\ Corpora \subseteq Seq(Seq(Nat))
  /\ LengthFloor \in Nat \ {0} /\ FrequencyFloor \in Nat
  /\ ShingleWidth \in Nat \ {0} /\ NearDedup \in BOOLEAN

VARIABLES
  files,       \* what the loader finds; <<>> has no prompt or does not parse
  phase,       \* "load", "join", "sort", "lcp", "walk", "prefix", "near", "done"
  streams,     \* the token streams handed to mine_spans
  origin,      \* stream -> the label of its file (sources)
  concat,      \* the streams with their sentinels in one sequence
  streamOf,    \* position -> the stream it belongs to
  sa, rank,    \* the suffix array and the ranks of the current round
  width,       \* k: the ranks compare the first k tokens
  lcp, h,      \* common prefixes of neighbours in sa; the length carried over
  at,          \* the loop variable of the current loop
  stack, left, \* open intervals [height, left]; last_left
  candidates,  \* emitted spans
  kept,        \* the spans prefix dedup keeps, longest first
  buckets,     \* the positions in kept of each bucket, its representative first
  result       \* the lines of the output file

loaded == <<files, streams, origin>>
text   == <<concat, streamOf>>
walk   == <<stack, left>>
found  == <<candidates, kept, buckets, result>>
vars   == <<loaded, text, found, walk, phase, sa, rank, width, lcp, h, at>>

n == Len(concat)

(***************************************************************************)
(* A list sorted in place: stable, as Python's sort is.                    *)
(***************************************************************************)
StableSort(s, Before(_, _)) ==
  LET First(i, j) == Before(s[i], s[j]) \/ (~Before(s[j], s[i]) /\ i < j)
      place == [i \in DOMAIN s |-> 1 + Cardinality({j \in DOMAIN s : First(j, i)})]
  IN [p \in DOMAIN s |-> s[CHOOSE i \in DOMAIN s : place[i] = p]]

(***************************************************************************)
(* _build_suffix_array: sort by the keys, then number the distinct keys.   *)
(***************************************************************************)
Less(a, b) == a[1] < b[1] \/ (a[1] = b[1] /\ a[2] < b[2])
Sorted(order, key) == StableSort(order, LAMBDA i, j : Less(key[i], key[j]))
Ranks(key) ==
  [i \in DOMAIN key |->
     1 + Cardinality({key[j] : j \in {x \in DOMAIN key : Less(key[x], key[i])}})]
FirstKey == [i \in 1..n |-> <<concat[i], 0>>]
Second(i) == IF i + width <= n THEN rank[i + width] ELSE 0
RoundKey == [i \in 1..n |-> <<rank[i], Second(i)>>]

Init ==
  /\ files \in Corpora
  /\ phase = "load" /\ streams = <<>> /\ origin = <<>>
  /\ concat = <<>> /\ streamOf = <<>>
  /\ sa = <<>> /\ rank = <<>> /\ width = 1
  /\ lcp = <<>> /\ h = 0 /\ at = 1
  /\ stack = <<>> /\ left = 1
  /\ candidates = <<>> /\ kept = <<>> /\ buckets = <<>> /\ result = <<>>

(***************************************************************************)
(* _load_from_traces and _load_from_raw_requests, file by file: what has   *)
(* no prompt is skipped.  A stream keeps the label of its file, which      *)
(* others may share, and not the file.                                     *)
(***************************************************************************)
LoadFile ==
  /\ phase = "load" /\ at <= Len(files)
  /\ IF files[at] = <<>>
       THEN UNCHANGED <<streams, origin>>
       ELSE streams' = Append(streams, files[at]) /\ origin' = Append(origin, Label[at])
  /\ at' = at + 1
  /\ UNCHANGED <<files, text, found, walk, phase, sa, rank, width, lcp, h>>

LoadEnd ==
  /\ phase = "load" /\ at > Len(files)
  /\ phase' = IF streams = <<>> \/ FrequencyFloor < 2 THEN "done" ELSE "join"
  /\ at' = 1
  /\ UNCHANGED <<loaded, text, found, walk, sa, rank, width, lcp, h>>

(***************************************************************************)
(* The streams are joined into one text, each with its sentinel behind it. *)
(***************************************************************************)
WithSentinel(sid) == Append(streams[sid], -sid)

Join ==
  /\ phase = "join" /\ at <= Len(streams)
  /\ concat' = concat \o WithSentinel(at)
  /\ streamOf' = streamOf \o [k \in DOMAIN WithSentinel(at) |-> at]
  /\ at' = at + 1
  /\ UNCHANGED <<loaded, found, walk, phase, sa, rank, width, lcp, h>>

(***************************************************************************)
(* A text that is long enough is sorted once by its first tokens.          *)
(***************************************************************************)
TooSmall == n < LengthFloor * FrequencyFloor

JoinEnd ==
  /\ phase = "join" /\ at > Len(streams)
  /\ IF TooSmall
       THEN phase' = "done" /\ UNCHANGED <<sa, rank>>
       ELSE /\ phase' = "sort"
            /\ sa' = Sorted([i \in 1..n |-> i], FirstKey)
            /\ rank' = Ranks(FirstKey)
  /\ UNCHANGED <<loaded, text, found, walk, width, lcp, h, at>>

(***************************************************************************)
(* One doubling round; the loop ends when all ranks differ, or when they   *)
(* compare whole suffixes.  Kasai's scan starts from the final positions.  *)
(***************************************************************************)
PositionIn(order) == [i \in 1..n |-> CHOOSE p \in 1..n : order[p] = i]
ToLcp(order) ==
  /\ phase' = "lcp" /\ sa' = order /\ rank' = PositionIn(order)
  /\ lcp' = [p \in 1..n |-> 0] /\ h' = 0 /\ at' = 1

RoundsDone(ranks, order) == ranks[order[n]] = n \/ 2 * width >= n

Round ==
  LET order == Sorted(sa, RoundKey) ranks == Ranks(RoundKey) IN
  /\ phase = "sort" /\ width < n
  /\ IF RoundsDone(ranks, order)
       THEN ToLcp(order) /\ UNCHANGED width
       ELSE /\ sa' = order /\ rank' = ranks /\ width' = 2 * width
            /\ UNCHANGED <<phase, lcp, h, at>>
  /\ UNCHANGED <<loaded, text, walk, found>>

(***************************************************************************)
(* Kasai: text order, so that h drops by one at most from suffix to        *)
(* suffix.  The code does not reset h where a suffix comes first in sa.    *)
(***************************************************************************)
Before(i) == sa[rank[i] - 1]
Agree(i, j) == i + h <= n /\ j + h <= n /\ concat[i + h] = concat[j + h]
Carried_Whole(m) == m
Carried_Unguarded(m) == m - 1
Carried(m) == IF m > 0 THEN m - 1 ELSE 0

KasaiExtend ==
  /\ phase = "lcp" /\ at <= n /\ rank[at] > 1 /\ Agree(at, Before(at))
  /\ h' = h + 1
  /\ UNCHANGED <<loaded, text, found, walk, phase, sa, rank, width, lcp, at>>

KasaiStore ==
  /\ phase = "lcp" /\ at <= n /\ rank[at] > 1 /\ ~Agree(at, Before(at))
  /\ lcp' = [lcp EXCEPT ![rank[at]] = h]
  /\ h' = Carried(h) /\ at' = at + 1
  /\ UNCHANGED <<loaded, text, found, walk, phase, sa, rank, width>>

KasaiFirst ==
  /\ phase = "lcp" /\ at <= n /\ rank[at] <= 1
  /\ at' = at + 1
  /\ UNCHANGED <<loaded, text, found, walk, phase, sa, rank, width, lcp, h>>

KasaiEnd ==
  /\ phase = "lcp" /\ at > n
  /\ phase' = "walk" /\ at' = 2
  /\ stack' = <<<<0, 1>>>> /\ left' = 2
  /\ UNCHANGED <<loaded, text, found, sa, rank, width, lcp, h>>

(***************************************************************************)
(* The walk: an interval [height, left] is closed, and emitted, when the   *)
(* common prefix drops below its height.                                   *)
(***************************************************************************)
Cur == IF at <= n THEN lcp[at] ELSE 0
Top == stack[Len(stack)]
Opened_Suffix(cur) == Append(stack, <<cur, left - 1>>)
Opened_AtCurrent(cur) == Append(stack, <<cur, at>>)
Opened(cur) == Append(stack, <<cur, left>>)

Span(tokens, sids) ==
  [tokens |-> tokens, sids |-> sids, frequency |-> Cardinality(sids)]
Interval(l, r) == (l - 1)..(r - 1)
StreamsIn(l, r) == {streamOf[sa[j]] : j \in Interval(l, r)}
TokensAt(p, m) == SubSeq(concat, p, p + m - 1)

Emits(m, l, r) ==
  LET tokens == TokensAt(sa[l - 1], m) IN
  /\ m >= LengthFloor
  /\ Cardinality(StreamsIn(l, r)) >= FrequencyFloor
  /\ \A k \in DOMAIN tokens : tokens[k] >= 0
  /\ \A c \in DOMAIN candidates : candidates[c].tokens # tokens

Pop ==
  /\ phase = "walk" /\ at <= n + 1 /\ Top[1] > Cur
  /\ candidates' = IF Emits(Top[1], Top[2], at)
                     THEN Append(candidates, Span(TokensAt(sa[Top[2] - 1], Top[1]),
                                                  StreamsIn(Top[2], at)))
                     ELSE candidates
  /\ stack' = Front(stack) /\ left' = Top[2]
  /\ UNCHANGED <<loaded, text, phase, sa, rank, width, lcp, h, at, kept, buckets, result>>

Advance ==
  /\ phase = "walk" /\ at <= n + 1 /\ Top[1] <= Cur
  /\ stack' = IF Top[1] < Cur THEN Opened(Cur) ELSE stack
  /\ at' = at + 1 /\ left' = at + 1
  /\ UNCHANGED <<loaded, text, found, phase, sa, rank, width, lcp, h>>

Longer(c, d) == Len(c.tokens) > Len(d.tokens)
WalkEnd ==
  /\ phase = "walk" /\ at > n + 1
  /\ candidates' = StableSort(candidates, Longer)
  /\ phase' = "prefix" /\ at' = 1
  /\ UNCHANGED <<loaded, text, walk, sa, rank, width, lcp, h, kept, buckets, result>>

(***************************************************************************)
(* Exact-prefix dedup, longest candidates first.                           *)
(***************************************************************************)
PrefixOfKept(c) == \E k \in DOMAIN kept : IsStrictPrefix(c.tokens, kept[k].tokens)

PrefixDedup ==
  /\ phase = "prefix" /\ at <= Len(candidates)
  /\ kept' = IF PrefixOfKept(candidates[at]) THEN kept ELSE Append(kept, candidates[at])
  /\ at' = at + 1
  /\ UNCHANGED <<loaded, text, walk, phase, sa, rank, width, lcp, h, candidates, buckets, result>>

PrefixEnd ==
  /\ phase = "prefix" /\ at > Len(candidates)
  /\ phase' = "near" /\ at' = 1
  /\ UNCHANGED <<loaded, text, found, walk, sa, rank, width, lcp, h>>

(***************************************************************************)
(* _minhash_dedup: a span joins the first bucket whose representative it   *)
(* resembles, or opens one.                                                *)
(***************************************************************************)
Shingles(t) ==
  IF Len(t) < ShingleWidth
    THEN {t}
    ELSE {SubSeq(t, i, i + ShingleWidth - 1) : i \in 1..(Len(t) - ShingleWidth + 1)}

SureMatch(s, t) == Shingles(s) = Shingles(t)
MayMatch(s, t)  == Shingles(s) \cap Shingles(t) # {}

Repr(b) == kept[buckets[b][1]].tokens
Similar(t, matches) ==
  /\ {b \in DOMAIN buckets : SureMatch(t, Repr(b))} \subseteq matches
  /\ matches \subseteq {b \in DOMAIN buckets : MayMatch(t, Repr(b))}

FirstOf(matches) == CHOOSE b \in matches : \A c \in matches : b <= c

Bucketed ==
  /\ phase = "near" /\ at <= Len(kept)
  /\ IF NearDedup
       THEN \E matches \in SUBSET DOMAIN buckets :
              /\ Similar(kept[at].tokens, matches)
              /\ buckets' = IF matches = {}
                              THEN Append(buckets, <<at>>)
                              ELSE [buckets EXCEPT ![FirstOf(matches)] = Append(@, at)]
       ELSE buckets' = Append(buckets, <<at>>)
  /\ at' = at + 1
  /\ UNCHANGED <<loaded, text, walk, phase, sa, rank, width, lcp, h, candidates, kept, result>>

(***************************************************************************)
(* Each bucket becomes its representative with the streams of all members; *)
(* the most frequent come first, and main writes them with their labels.   *)
(***************************************************************************)
Merged_Repr(b) == kept[buckets[b][1]]
Merged(b) == Span(Repr(b), UNION {kept[m].sids : m \in ToSet(buckets[b])})
Impact(c, d) ==
  \/ c.frequency > d.frequency
  \/ c.frequency = d.frequency /\ Longer(c, d)
Line(s) == [tokens |-> s.tokens, frequency |-> s.frequency, sids |-> s.sids,
            sources |-> {origin[sid] : sid \in s.sids}]

Finish ==
  LET spans == StableSort([b \in DOMAIN buckets |-> Merged(b)], Impact) IN
  /\ phase = "near" /\ at > Len(kept)
  /\ result' = [i \in DOMAIN spans |-> Line(spans[i])]
  /\ phase' = "done"
  /\ UNCHANGED <<loaded, text, walk, sa, rank, width, lcp, h, at, candidates, kept, buckets>>

Next ==
  \/ LoadFile \/ LoadEnd \/ Join \/ JoinEnd \/ Round
  \/ KasaiExtend \/ KasaiStore \/ KasaiFirst \/ KasaiEnd
  \/ Pop \/ Advance \/ WalkEnd
  \/ PrefixDedup \/ PrefixEnd \/ Bucketed \/ Finish

Spec == Init /\ [][Next]_vars

-----------------------------------------------------------------------------
TypeOK ==
  /\ phase \in {"load", "join", "sort", "lcp", "walk", "prefix", "near", "done"}
  /\ concat \in Seq(Int) /\ DOMAIN streamOf = 1..n
  /\ phase \in {"sort", "lcp", "walk"} => DOMAIN sa = 1..n /\ DOMAIN rank = 1..n
  /\ width \in Nat \ {0} /\ h \in Nat /\ at \in Nat \ {0} /\ left \in Nat \ {0}
  /\ phase = "walk" => lcp \in [1..n -> Nat] /\ stack \in Seq(Nat \X (Nat \ {0}))
  /\ phase \in {"sort", "lcp", "walk"} => {sa[p] : p \in DOMAIN sa} = 1..n

(***************************************************************************)
(* The reference definitions.                                              *)
(***************************************************************************)
CommonPrefix(i, j) ==
  CHOOSE m \in 0..n :
    /\ \A x \in 0..(m - 1) : i + x <= n /\ j + x <= n /\ concat[i + x] = concat[j + x]
    /\ ~(i + m <= n /\ j + m <= n /\ concat[i + m] = concat[j + m])

OccursIn(w, s) == \E p \in 1..(Len(s) - Len(w) + 1) : SubSeq(s, p, p + Len(w) - 1) = w
StreamsOf(w)   == {sid \in DOMAIN streams : OccursIn(w, streams[sid])}
Frequent(w)    == Len(w) >= LengthFloor /\ Cardinality(StreamsOf(w)) >= FrequencyFloor
Repeats ==
  UNION {{w \in {SubSeq(streams[sid], p, q) : p, q \in DOMAIN streams[sid]} : Frequent(w)}
         : sid \in DOMAIN streams}

(***************************************************************************)
(* The scan carries a prefix length from one suffix to the next and drops  *)
(* it nowhere else, not even where it finds no neighbour: that is right    *)
(* only if the length never exceeds the real one and is 0 there.           *)
(***************************************************************************)
KasaiNeverOvershoots ==
  phase = "lcp" /\ at <= n =>
    IF rank[at] > 1 THEN h <= CommonPrefix(at, Before(at)) ELSE h = 0

(***************************************************************************)
(* The comment on the stack: its bottom entry stays, so that it is never   *)
(* popped empty, heights grow towards the top, and everything from left to *)
(* the current position shares at least the entry's height.                *)
(***************************************************************************)
StackIntervals ==
  phase = "walk" =>
    /\ stack # <<>> /\ stack[1] = <<0, 1>>
    /\ \A e \in 2..Len(stack) :
         /\ stack[e - 1][1] < stack[e][1]
         /\ stack[e][2] \in 2..(at - 1)
         /\ \A p \in stack[e][2]..(at - 1) : lcp[p] >= stack[e][1]

(***************************************************************************)
(* The candidates are exact: each lists the streams that contain it and no *)
(* other, and every frequent sequence, also one nested in a longer and     *)
(* rarer one, is the beginning of a candidate with just its streams.       *)
(***************************************************************************)
CandidatesExact ==
  phase = "prefix" =>
    /\ \A c \in DOMAIN candidates :
         /\ Frequent(candidates[c].tokens)
         /\ candidates[c].sids = StreamsOf(candidates[c].tokens)
    /\ \A w \in Repeats : \E c \in DOMAIN candidates :
         IsPrefix(w, candidates[c].tokens) /\ candidates[c].sids = StreamsOf(w)

(***************************************************************************)
(* Nothing that repeats is lost on the way to the output, neither to the   *)
(* test for small corpora nor to a merge: every frequent sequence begins a *)
(* span that survives prefix dedup, and the line of that span's bucket     *)
(* counts the streams of that span and reports just the directories that   *)
(* have a file with a span of the bucket, whatever was skipped on loading. *)
(***************************************************************************)
Holders(b) == {f \in DOMAIN files : \E m \in ToSet(buckets[b]) : OccursIn(kept[m].tokens, files[f])}
EveryRepeatCovered ==
  phase = "done" /\ FrequencyFloor >= 2 =>
    \A w \in Repeats :
      \E k \in DOMAIN kept, b \in DOMAIN buckets, i \in DOMAIN result :
        /\ IsPrefix(w, kept[k].tokens) /\ k \in ToSet(buckets[b])
        /\ result[i].tokens = Repr(b)
        /\ kept[k].sids \subseteq result[i].sids
        /\ result[i].sources = {Label[f] : f \in Holders(b)}
=============================================================================
