----------------------------- MODULE QualityStudy -----------------------------
(***************************************************************************)
(* The quality study in its two programs.  `bench quality-eval` replays    *)
(* every usable turn of a corpus under one condition after the other       *)
(* (bench/cli.py, bench/quality_eval.py, bench/output_capture.py) and      *)
(* writes one parquet per condition; scripts/run_judge.py compares two of  *)
(* these files pair by pair with a judge model behind an API (judge/*.py,  *)
(* bench/output_compare.py) and writes a CSV.  They share the files only,  *)
(* either may be killed and started again, and both write at their end.    *)
(*                                                                         *)
(* A record is a place <<capture, index>> in the corpus, its key is        *)
(* <<capture_id, turn_index>>.  An output is abstracted to its canonical   *)
(* text; Alike holds the pairs of different texts that token_identity_rate *)
(* puts at 0.9999 or above.                                                *)
(***************************************************************************)
EXTENDS Integers, Sequences, FiniteSets

CONSTANTS
  NCaptures,     \* captures are 1..NCaptures, in the order of their files
  Corpora,       \* capture -> its directory, and of each of its records
                 \* whether the request body is well-formed; or instead of these:
  Unreadable,    \* the trace store is not there (FileNotFoundError, OSError)
  Corrupt,       \* or reading it raises anything else
  RootName,      \* the name of the corpus root itself
  EvalOptions,   \* the --conditions, --samples and --capture-filter of a session
  Text, Alike,
  JudgeOptions,  \* the --limit and --include-identical run_judge may have
  NoLimit,
  MaxRetries,    \* max_retries of call_judge_with_retry
  MaxSessions,   \* bound on launches of quality-eval
  MaxJudgings    \* bound on launches of run_judge

Capture == 1..NCaptures
Cond == {"no_cache", "prefix_cache", "cacheblend"}
Sides == {"no_cache", "cacheblend"}     \* the two that run_judge compares
RootDir == 0                            \* directories are numbers
Failed == "replay_error"
NoPrompt == <<0, 0>>
NoText == ""

(***************************************************************************)
(* A file is absent, cut off (its writer was stopped half way) or whole.   *)
(***************************************************************************)
NoOptions  == [conditions |-> <<>>, samples |-> 0, captures |-> {}]
NoFile     == [is |-> "absent", by |-> 0, options |-> NoOptions, rows |-> {}]
CutFile    == [NoFile EXCEPT !.is = "cut"]
Parquet(session, options, rows) ==
  [is |-> "whole", by |-> session, options |-> options, rows |-> rows]

ASSUME StudyAssumption ==
  /\ NCaptures \in Nat
  /\ \A corpora \in Corpora :
       /\ DOMAIN corpora = Capture
       /\ \A c \in Capture :
            /\ corpora[c].dir \in Nat
            /\ corpora[c].turns \in Seq(BOOLEAN) \cup {Unreadable, Corrupt}
            /\ \A d \in Capture : corpora[c].dir = corpora[d].dir => c = d
  /\ {Unreadable, Corrupt} \cap Seq(BOOLEAN) = {}
  /\ RootName \in Nat \ {RootDir}
  /\ \A o \in EvalOptions :
       /\ o.conditions \in Seq(Cond) \ {<<>>}
       /\ o.samples \in Nat \ {0} /\ o.captures \subseteq Nat
  /\ Failed \notin Text /\ NoText \notin Text
  /\ Alike \subseteq SUBSET Text
  /\ JudgeOptions \subseteq [limit : Nat \cup {NoLimit}, include_identical : BOOLEAN]
  /\ NoLimit \notin Nat
  /\ MaxRetries \in Nat \ {0}
  /\ MaxSessions \in Nat /\ MaxJudgings \in Nat

VARIABLES
  corpus,     \* the staged captures
  files,      \* condition -> its parquet
  \* quality-eval
  session,    \* how many were launched
  evalPc,     \* "idle", "enter", "replay", "writing" or "ended"
  options,    \* --conditions, --samples and --capture-filter of the session
  condAt,     \* position in its --conditions
  work,       \* the replays that are left under this condition
  rows,       \* the rows in memory
  \* run_judge
  judging,    \* how many were launched
  judgePc,    \* "idle", "next", "ask", "sleep", "save", "saving", "done", "failed"
  flags,      \* --limit and --include-identical
  input,      \* condition -> the rows _load_condition keeps
  prompts,    \* turn -> the record its task prompt was taken from
  todo,       \* shared keys that are left
  judged,     \* the counter --limit is compared with
  call,       \* the pair under judgement
  verdicts,   \* the rows in memory
  csv         \* judge_preferences.csv

evalVars  == <<session, evalPc, options, condAt, work, rows>>
judgeInput == <<judging, flags, input, prompts>>
judgeVars == <<judgeInput, judgePc, todo, judged, call, verdicts>>
setup == <<corpus, files, csv, evalVars, judgeInput>>
vars == <<corpus, files, csv, evalVars, judgeVars>>

-----------------------------------------------------------------------------
(***************************************************************************)
(* iter_replay_corpus: a capture outside the filter is not opened, one     *)
(* that cannot be read is skipped, and so is a malformed record, which     *)
(* still counts for the index of the turns behind it.                      *)
(*                                                                         *)
(* A capture's id is its path below the corpus root; a trace store that    *)
(* lies in the root itself has no such path and goes by the root's name.   *)
(***************************************************************************)
Readable(c) == corpus[c].turns \notin {Unreadable, Corrupt}
Usable(captures) ==
  UNION {{<<c, i>> : i \in {j \in DOMAIN corpus[c].turns : corpus[c].turns[j]}}
         : c \in {x \in captures : Readable(x)}}

IdOf(c) == IF corpus[c].dir = RootDir THEN RootName ELSE corpus[c].dir
Selected(ids) == {c \in Capture : IdOf(c) \in ids}

KeyOf_Usable(record) ==
  <<IdOf(record[1]), Cardinality({j \in 1..record[2] : corpus[record[1]].turns[j]})>>
KeyOf(record) == <<IdOf(record[1]), record[2]>>

Earlier(a, b) == a[1] < b[1] \/ (a[1] = b[1] /\ a[2] <= b[2])
Least(keys) == CHOOSE k \in keys : \A other \in keys : Earlier(k, other)

(***************************************************************************)
(* One session of quality-eval.  The programs are started one after the    *)
(* other: run_judge reads its input at its start and nothing later, so     *)
(* that a file in the middle of being written is one left cut off.         *)
(***************************************************************************)
JudgeRuns == judgePc \notin {"idle", "done", "failed"}

Launch(o) ==
  /\ evalPc \in {"idle", "ended"} /\ ~JudgeRuns
  /\ session < MaxSessions /\ judging < MaxJudgings   \* nothing reads a later file
  /\ session' = session + 1
  /\ options' = o
  /\ evalPc' = "enter" /\ condAt' = 1
  /\ UNCHANGED <<corpus, files, csv, work, rows, judgeVars>>

(***************************************************************************)
(* The condition's pod and proxy are up (ConditionLifecycle).              *)
(***************************************************************************)
Replays == Usable(Selected(options.captures)) \X (0..(options.samples - 1))
FreshRows_Kept == rows
FreshRows == {}

Enter ==
  /\ evalPc = "enter"
  /\ work' = Replays /\ rows' = FreshRows
  /\ evalPc' = "replay"
  /\ UNCHANGED <<corpus, files, csv, session, options, condAt, judgeVars>>

NextReplay ==
  CHOOSE w \in work : \A o \in work :
    IF w[1] = o[1] THEN w[2] <= o[2] ELSE Earlier(w[1], o[1])

Row(record, sample, out) ==
  [key |-> KeyOf(record), record |-> record, sample |-> sample, out |-> out]

(***************************************************************************)
(* One replay through the proxy; any exception of it becomes a row that    *)
(* says so.  The captures are opened as the walk comes to them, and a      *)
(* corrupt one ends the session there (EvalDies), rows and all.            *)
(***************************************************************************)
Opens(captures) == \A c \in captures : corpus[c].turns # Corrupt
WalkReaches(w) == Opens({c \in Selected(options.captures) : c <= w[1][1]})

Replay ==
  /\ evalPc = "replay" /\ work # {} /\ WalkReaches(NextReplay)
  /\ \E out \in Text :
       rows' = rows \cup {Row(NextReplay[1], NextReplay[2], out)}
  /\ work' = work \ {NextReplay}
  /\ UNCHANGED <<corpus, files, csv, session, evalPc, options, condAt, judgeVars>>

ReplayFails ==
  /\ evalPc = "replay" /\ work # {} /\ WalkReaches(NextReplay)
  /\ rows' = rows \cup {Row(NextReplay[1], NextReplay[2], Failed)}
  /\ work' = work \ {NextReplay}
  /\ UNCHANGED <<corpus, files, csv, session, evalPc, options, condAt, judgeVars>>

(***************************************************************************)
(* pq.write_table opens the file and fills it; without rows it is not      *)
(* called, and a file of an earlier session stays.                         *)
(***************************************************************************)
Current == options.conditions[condAt]
WalkEnded == evalPc = "replay" /\ work = {} /\ Opens(Selected(options.captures))

NextCondition ==
  /\ condAt' = condAt + 1
  /\ evalPc' = IF condAt < Len(options.conditions) THEN "enter" ELSE "ended"

OpenParquet ==
  /\ WalkEnded /\ rows # {}
  /\ files' = [files EXCEPT ![Current] = CutFile]
  /\ evalPc' = "writing"
  /\ UNCHANGED <<corpus, csv, session, options, condAt, work, rows, judgeVars>>

CloseParquet ==
  /\ evalPc = "writing"
  /\ files' = [files EXCEPT ![Current] = Parquet(session, options, rows)]
  /\ NextCondition
  /\ UNCHANGED <<corpus, csv, session, options, work, rows, judgeVars>>

NoRows ==
  /\ WalkEnded /\ rows = {}
  /\ NextCondition
  /\ UNCHANGED <<corpus, files, csv, session, options, work, rows, judgeVars>>

(***************************************************************************)
(* The process is killed, a condition does not come up or down, or a       *)
(* capture cannot be read in a way that is not caught: that ends the       *)
(* command.                                                                *)
(***************************************************************************)
EvalDies ==
  /\ evalPc \in {"enter", "replay", "writing"}
  /\ evalPc' = "idle"
  /\ UNCHANGED <<corpus, files, csv, session, options, condAt, work, rows, judgeVars>>

-----------------------------------------------------------------------------
(***************************************************************************)
(* run_judge: main loads both files and the task prompts.  Of several      *)
(* rows with one key (two captures of one id) the last one stays, and the  *)
(* prompts are looked for under root/capture_id, where a capture that lies *)
(* in the root is not.                                                     *)
(***************************************************************************)
LoadCondition(rs) ==
  LET loaded == {r \in rs : r.out # Failed /\ r.sample = 0} IN
  {r \in loaded : \A q \in loaded : q.key = r.key => Earlier(q.record, r.record)}
Keys(rs)  == {r.key : r \in rs}
Loadable(c) == files[c].is = "whole"
RowFor(c, k) == CHOOSE r \in input[c] : r.key = k

PromptKey(record) == <<corpus[record[1]].dir, record[2]>>
TaskPrompts(keys) ==
  LET ids == {k[1] : k \in keys}
      records == Usable({c \in Capture : corpus[c].dir \in ids}) IN
  [k \in {PromptKey(r) : r \in records} |-> CHOOSE r \in records : PromptKey(r) = k]
TaskPrompt(k) == IF k \in DOMAIN prompts THEN prompts[k] ELSE NoPrompt

StartJudge(given) ==
  /\ ~JudgeRuns /\ evalPc \in {"idle", "ended"} /\ judging < MaxJudgings
  /\ judging' = judging + 1
  /\ flags' = given
  /\ judged' = 0 /\ verdicts' = {} /\ call' = <<>>
  /\ IF \A c \in Sides : Loadable(c)
       THEN /\ input' = [c \in Sides |-> LoadCondition(files[c].rows)]
            /\ todo' = Keys(input'["no_cache"]) \cap Keys(input'["cacheblend"])
            /\ prompts' = TaskPrompts(todo')
            /\ judgePc' = "next"
       ELSE /\ judgePc' = "failed"
            /\ input' = [c \in Sides |-> {}] /\ todo' = {}
            /\ prompts' = [k \in {} |-> NoPrompt]
  /\ UNCHANGED <<corpus, files, csv, evalVars>>

(***************************************************************************)
(* The loop over the sorted shared keys.                                   *)
(***************************************************************************)
Identical(s, t) == s = t \/ {s, t} \in Alike
Skips(k) == ~flags.include_identical /\ Identical(RowFor("no_cache", k).out, RowFor("cacheblend", k).out)
LimitHit_Over == flags.limit # NoLimit /\ judged > flags.limit
LimitHit == flags.limit # NoLimit /\ judged >= flags.limit

Verdict(k, label, prefers, raw, shown, tries) ==
  [key |-> k, no_cache |-> RowFor("no_cache", k), cacheblend |-> RowFor("cacheblend", k),
   prompt |-> TaskPrompt(k), label |-> label, prefers |-> prefers, raw |-> raw,
   shown |-> shown, tries |-> tries]

SkipIdentical ==
  /\ judgePc = "next" /\ todo # {} /\ Skips(Least(todo))
  /\ verdicts' = verdicts \cup {Verdict(Least(todo), "SKIPPED_IDENTICAL",
                                        "equivalent_skipped", NoText, <<>>, 0)}
  /\ todo' = todo \ {Least(todo)}
  /\ UNCHANGED <<setup, judgePc, judged, call>>

(***************************************************************************)
(* render_call: a coin decides whose text is output A, and position_a      *)
(* keeps the outcome; `shown` is what the judge model gets to see, and     *)
(* `tries` counts the calls of call_judge for the pair (in each of them    *)
(* the SDK may repeat its request, which this code does not see).          *)
(***************************************************************************)
Other(c) == CHOOSE d \in Sides : d # c
Shown(a) == <<a, Other(a)>>
Rendered(k, a) ==
  [key |-> k, position_a |-> a, shown |-> Shown(a), attempt |-> 0, last |-> NoText,
   tries |-> 0]

RenderCall ==
  /\ judgePc = "next" /\ todo # {} /\ ~Skips(Least(todo)) /\ ~LimitHit
  /\ \E a \in Sides : call' = Rendered(Least(todo), a)
  /\ judgePc' = "ask"
  /\ UNCHANGED <<setup, todo, judged, verdicts>>

LoopEnds ==
  /\ judgePc = "next"
  /\ todo # {} => ~Skips(Least(todo)) /\ LimitHit
  /\ judgePc' = "save"
  /\ UNCHANGED <<setup, todo, judged, call, verdicts>>

(***************************************************************************)
(* parse_response: from the label back to the condition.                   *)
(***************************************************************************)
Labels == {"PREFER_A", "PREFER_B", "EQUIVALENT"}
Prefers_Fixed(label, a) ==
  CASE label = "PREFER_A" -> "cacheblend"
    [] label = "PREFER_B" -> "no_cache"
    [] label = "EQUIVALENT" -> "equivalent"
    [] OTHER -> "unparseable"
Prefers(label, a) ==
  CASE label = "PREFER_A" -> a
    [] label = "PREFER_B" -> Other(a)
    [] label = "EQUIVALENT" -> "equivalent"
    [] OTHER -> "unparseable"

Conclude(label, raw, tries) ==
  /\ verdicts' = verdicts \cup
       {Verdict(call.key, label, Prefers(label, call.position_a), raw, call.shown, tries)}
  /\ judged' = judged + 1
  /\ todo' = todo \ {call.key}
  /\ judgePc' = "next" /\ call' = <<>>

(***************************************************************************)
(* call_judge_with_retry.  A label ends it.  A text without one asks again *)
(* at once, a rate limit after a sleep, also on the last attempt, a server *)
(* error after a sleep while attempts are left.  When none are left the    *)
(* last text counts, and without any text the answer is unparseable too.   *)
(* Everything else is raised (JudgeDies).                                  *)
(***************************************************************************)
LastAttempt_Late == call.attempt = MaxRetries
LastAttempt == call.attempt = MaxRetries - 1
Heard(reply) ==
  [call EXCEPT !.attempt = @ + 1, !.tries = @ + 1,
               !.last = IF reply = "unparseable" THEN reply ELSE @]

Labelled ==
  /\ judgePc = "ask"
  /\ \E label \in Labels : Conclude(label, label, call.tries + 1)
  /\ UNCHANGED setup

Unlabelled ==
  /\ judgePc = "ask"
  /\ IF LastAttempt
       THEN Conclude("UNPARSEABLE", "unparseable", call.tries + 1)
       ELSE call' = Heard("unparseable") /\ UNCHANGED <<judgePc, todo, judged, verdicts>>
  /\ UNCHANGED setup

BacksOff(reply) ==
  /\ judgePc = "ask" /\ (reply = "server" => ~LastAttempt)
  /\ call' = Heard(reply) /\ judgePc' = "sleep"
  /\ UNCHANGED <<setup, todo, judged, verdicts>>

Wake ==
  /\ judgePc = "sleep"
  /\ IF call.attempt = MaxRetries
       THEN Conclude("UNPARSEABLE", call.last, call.tries)
       ELSE judgePc' = "ask" /\ UNCHANGED <<todo, judged, call, verdicts>>
  /\ UNCHANGED setup

(***************************************************************************)
(* The program ends without its CSV: an exception (another status, no      *)
(* connection, a server error on the last attempt) or a kill.              *)
(***************************************************************************)
JudgeDies ==
  /\ judgePc \in {"next", "ask", "sleep", "save", "saving"}
  /\ judgePc' = "failed"
  /\ UNCHANGED <<setup, todo, judged, call, verdicts>>

OpenCsv ==
  /\ judgePc = "save"
  /\ csv' = [csv EXCEPT !.is = "cut"] /\ judgePc' = "saving"
  /\ UNCHANGED <<corpus, files, evalVars, judgeInput, todo, judged, call, verdicts>>

(***************************************************************************)
(* _summary, over the rows that were not skipped.                          *)
(***************************************************************************)
With(rs, p) == Cardinality({v \in rs : v.prefers = p})
Summary(all) ==
  LET rs == {v \in all : v.prefers # "equivalent_skipped"}
      parseable == With(rs, "cacheblend") + With(rs, "no_cache") + With(rs, "equivalent")
  IN [n |-> Cardinality(rs), n_parseable |-> parseable,
      n_unparseable |-> With(rs, "unparseable"),
      non_inferior |-> With(rs, "cacheblend") + With(rs, "equivalent")]

CloseCsv ==
  /\ judgePc = "saving"
  /\ csv' = [is |-> "whole", rows |-> verdicts, summary |-> Summary(verdicts)] /\ judgePc' = "done"
  /\ UNCHANGED <<corpus, files, evalVars, judgeInput, todo, judged, call, verdicts>>

-----------------------------------------------------------------------------
Init ==
  /\ corpus \in Corpora
  /\ files = [c \in Cond |-> NoFile]
  /\ csv = [is |-> "absent", rows |-> {}, summary |-> Summary({})]
  /\ session = 0 /\ evalPc = "idle" /\ condAt = 1 /\ work = {} /\ rows = {}
  /\ options = NoOptions
  /\ judging = 0 /\ judgePc = "idle"
  /\ flags = [limit |-> NoLimit, include_identical |-> FALSE]
  /\ input = [c \in Sides |-> {}] /\ prompts = [k \in {} |-> NoPrompt]
  /\ todo = {} /\ judged = 0 /\ call = <<>> /\ verdicts = {}

EvalStep == Enter \/ Replay \/ ReplayFails \/ OpenParquet \/ CloseParquet \/ NoRows

JudgeStep ==
  \/ SkipIdentical \/ RenderCall \/ LoopEnds
  \/ Labelled \/ Unlabelled \/ (\E reply \in {"rate", "server"} : BacksOff(reply)) \/ Wake
  \/ OpenCsv \/ CloseCsv

Next ==
  \/ \E o \in EvalOptions : Launch(o)
  \/ EvalStep \/ EvalDies
  \/ \E given \in JudgeOptions : StartJudge(given)
  \/ JudgeStep \/ JudgeDies

Spec == Init /\ [][Next]_vars

-----------------------------------------------------------------------------
TypeOK ==
  /\ \A c \in Cond :
       /\ files[c].is \in {"absent", "cut", "whole"} /\ files[c].by \in 0..session
       /\ files[c].rows \subseteq [key : Nat \X Nat, record : Nat \X Nat, sample : Nat,
                                  out : Text \cup {Failed}]
  /\ evalPc \in {"idle", "enter", "replay", "writing", "ended"}
  /\ evalPc \in {"enter", "replay", "writing"} => condAt \in DOMAIN options.conditions
  /\ judgePc \in {"idle", "next", "ask", "sleep", "save", "saving", "done", "failed"}
  /\ judgePc = "ask" => call.attempt \in 0..(MaxRetries - 1)
  /\ judgePc \in {"ask", "sleep"} => call.key \in todo

(***************************************************************************)
(* A parquet is all or nothing: whatever was killed or failed, a file that *)
(* can be read holds one row for every usable turn and sample of the       *)
(* session that wrote it, failures included, and after a session that      *)
(* reached its end the file of every condition it was given is its own,    *)
(* unless it had no turn.                                                  *)
(***************************************************************************)
ParquetComplete ==
  /\ \A c \in Cond : Loadable(c) =>
       LET f == files[c] IN
       /\ {<<r.record, r.sample>> : r \in f.rows} =
            Usable(Selected(f.options.captures)) \X (0..(f.options.samples - 1))
       /\ \A r, q \in f.rows : r.record = q.record /\ r.sample = q.sample => r = q
  /\ evalPc = "ended" /\ Usable(Selected(options.captures)) # {} =>
       \A i \in DOMAIN options.conditions :
         LET c == options.conditions[i] IN Loadable(c) /\ files[c].by = session

(***************************************************************************)
(* Whatever is judged succeeded in both conditions, and where capture_id   *)
(* says which capture it is, it was asked of the same record in both, with *)
(* the task prompt of that record: the two programs find captures and      *)
(* count turns separately and meet only by the key.  The exception is a    *)
(* trace store in the corpus root itself: run_judge looks for it in a      *)
(* directory of the root's name, and its pairs are judged without the task *)
(* they answer.                                                            *)
(***************************************************************************)
Unambiguous(id) == Cardinality(Selected({id})) = 1
JudgedSameRequest ==
  \A v \in verdicts :
    /\ Failed \notin {v.no_cache.out, v.cacheblend.out}
    /\ Unambiguous(v.key[1]) =>
         /\ v.no_cache.record = v.cacheblend.record
         /\ v.prompt = IF corpus[v.no_cache.record[1]].dir = RootDir
                         THEN NoPrompt ELSE v.no_cache.record

(***************************************************************************)
(* A verdict is what the judge model said: a preference names the          *)
(* condition whose text stood in that place; a pair costs max_retries      *)
(* calls of call_judge at most, and "unparseable" is recorded, and the     *)
(* pair given up, only after all of them.                                  *)
(***************************************************************************)
VerdictIsReply ==
  /\ \A v \in verdicts :
       /\ v.label = "PREFER_A" => v.prefers = v.shown[1]
       /\ v.label = "PREFER_B" => v.prefers = v.shown[2]
       /\ v.label = "EQUIVALENT" => v.prefers = "equivalent"
       /\ v.label = "UNPARSEABLE" => v.prefers = "unparseable" /\ v.tries = MaxRetries
       /\ v.tries <= MaxRetries
  /\ judgePc \in {"ask", "sleep"} => call.tries <= MaxRetries

(***************************************************************************)
(* A complete CSV accounts for every shared pair: one row each, unless the *)
(* limit was hit, and its summary counts what was judged.                  *)
(***************************************************************************)
Shared == Keys(input["no_cache"]) \cap Keys(input["cacheblend"])
CsvAccountsForPairs ==
  judgePc = "done" =>
    /\ \A v, u \in csv.rows : v.key = u.key => v = u
    /\ {v.key : v \in csv.rows} \subseteq Shared
    /\ flags.limit # NoLimit => judged <= flags.limit
    /\ {v.key : v \in csv.rows} = Shared \/ judged = flags.limit
    /\ csv.summary.n = judged
    /\ csv.summary.n_parseable + csv.summary.n_unparseable = judged
=============================================================================
