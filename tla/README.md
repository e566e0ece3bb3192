# A TLA+ development of skillcacher

skillcacher is a proxy between Claude Code and a vLLM/LMCache engine on a rented
GPU pod, with a bench harness that provisions pods, replays traffic through the
proxy and reports cache hit rates. This directory models the parts of it that
keep state and whose steps interleave, fail or are interrupted; it checks them
with TLC and proves the central results with TLAPS. Source lines below are those
of `src/src/skillcacher/` unless another directory is named.

## 1. Inventory

| component | state | operations | hard behaviour | correct when |
|---|---|---|---|---|
| stream translation, `proxy/litellm_bridge.py` | the generator's locals: open blocks, next index, usage, finish reason | one step per `yield` | parallel tool calls interleaved by the backend; usage and finish in any chunk; backend fails or client leaves at any `yield` | the events obey Anthropic's grammar; every piece arrives on its own block |
| request handling, `proxy/server.py`, `proxy/runpod_logs.py` | per request: lookups, reply, hit total | startup, unary, stream, log tail, trace write | handlers interleave at every `await`; the log endpoint lags and mixes requests; the trace write fails; the proxy dies | whoever asks gets an answer; an answered request is traced once or its loss is logged; hit totals are its own; every request ends |
| registry, `registry/*.py` | sqlite rows of spans with counters | register, lookup selection, record, prune; two pre-seeds; pin | rows change between the selection and the recording; the file outlives the proxy | counters are exact; the seeds are there before the first request |
| trace store, `proxy/trace_store.py` | a token file, a lookups file, a row per request | `write`, `read_all` | killed between or inside the three writes; several writers | rows are readable and never change; a re-write changes nothing |
| condition lifecycle, `bench/conditions.py`, `scripts/dev/oneshot_pod.py` | pod, proxy process, port, main task | enter, health wait, spawn, preflight, body, cleanup | failure at every step; Ctrl-C delivered at the next `await`; several benches on one machine | no pod or proxy is forgotten unless its teardown itself failed; no stale proxy serves a workload; nobody else's pod is touched; every bench ends |
| bench run, `bench/cli.py`, `checkpoint.py`, `workload.py`, `log_metrics.py`, `replay.py` | record files, dumped logs, the report | replay, record, resume, dump, report | killed at any step and launched again; pods preempted | nothing skipped or done twice; the report covers the workload with whole records |
| segment parser, `proxy/cc_segment_parser.py` | the text, its matches, the kept segments, the output | normalisation of header values, search per pattern, overlap resolution, emission with separators, collapsing | eight lazy patterns that overlap; a recorded text is rewritten again on replay | segments are disjoint, chosen by precedence; header values apart, only separators are added; repeated rewriting settles |
| prompt assembly and prefix index, `proxy/assemble.py`, `tagging/skill_prefix_index.py` | token and tag arrays; skill prefixes | find skills, emit tokens with tags | overlapping anchors of several skills, dynamic markers | every token is emitted, once where skills do not overlap, with the right tag |
| miner, `tagging/statistical_miner.py`, `scripts/mine_corpus.py` | the loop variables of a suffix array, Kasai's scan and a stack of intervals | load and join streams, doubling rounds, scan, walk, two dedups | boundaries between streams, a length carried from one suffix to the next, a span nested in a longer and rarer one | the candidates are exactly the repeated sequences; no dedup loses one |
| quality evaluation, `bench/quality_eval.py`, `bench/output_capture.py` | rows in memory until the end, one parquet per condition | replay loop, write | failures and kills in the middle; files of an earlier session | a readable file is complete; nothing is lost silently |
| judge, `judge/*.py`, `scripts/run_judge.py`, `bench/output_compare.py` | rows in memory until the end, a CSV | align keys, skip identical pairs, ask, retry, parse, summarise | two files aligned by key only; retries after four kinds of answer | both texts answer the same request; a verdict is what the judge said; the figures add up |
| metrics and report rendering, permuted fixtures and gates, LMCache metrics, corpus and publication scripts, deployment, echo backend, paper | none, or files of one-shot batch jobs | | | not modelled |

Interactions. The bench (main task) spawns the oneshot subprocess, then the
proxy process, and talks to the proxy over HTTP; proxies of concurrent benches
share the port and the RunPod account. The proxy calls the engine, the cache
controller and the pod's log endpoint, and writes registry and traces, which the
bench reads when it writes its report. The miner reads traces and writes the seed
list of mined spans that a proxy registers at its start. Evaluation and judge
share two parquet files and nothing else. `PROJECT.json` lists every component with
its status and every hazard at its line.

## 2. Modules

| module | models | proofs |
|---|---|---|
| `AnthropicStream` | abstract: the event grammar a client relies on | |
| `StreamBridge` | the generator, one action per `yield` and per branch without one | `StreamBridge_proofs` |
| `ProxyServer` | the proxy process: startup and pre-seeds, concurrent handlers, registry, controller, log tail, restarts | `ProxyServer_proofs` |
| `TraceLog` | abstract: an append-only log of well-formed records | |
| `TraceStore` | `write` in its steps with crashes between and inside them, `read_all` | `TraceStore_proofs` |
| `ConditionLifecycle` | the lifecycle of one condition after another in several benches, with cancellation | `ConditionLifecycle_proofs` |
| `BenchRun` | launches of one bench over its conditions, checkpoints, dumps and report inputs | `BenchRun_proofs` |
| `SegmentParser` | `inject_separators` on a text, and its repetition on replay | in `PromptTags_proofs` |
| `PromptTags` | extends it with the prefix index and the emission of tagged tokens | `PromptTags_proofs` |
| `Miner` | `mine_spans` turn by turn of its loops, with the loading and writing around it | `Miner_proofs` |
| `QualityStudy` | `bench quality-eval` and `run_judge.py`, and the files between them | `QualityStudy_proofs` |
| `MC*` | values of the constants for TLC | |

Conventions. Names follow the source. Where an action splits at an `await` or a
`yield`, `pc` says where the code is suspended. A definition of the form
`Name_Variant` next to `Name` is a plausible bug of the code that `Name` models;
nothing uses it, it documents what the properties are sensitive to (section 8).
Variables marked *history* record what happened and influence no step.

### StreamBridge

`pc = "pull"` is the `async for`, `"delta"` the translation of one chunk with
`cur` as the position in it (0 the text, `j` the j-th tool call), `"closing"` the
loop over sorted open blocks. A chunk is a record with the fields the code looks
at; a usage record is "keyed" (it carries counts and is adopted) or not. `Abort`
stands for the two ways a generator ends early: the backend's iterator raises, or
the consumer closes it. Text and arguments are abstracted to present or absent.

### ProxyServer

One action is what a handler does between two awaits. `Arrive` contains
everything up to the lookup batch, `RecordLookups` the loop after `gather`;
`ArriveFails` and `RecordFails` are the same cut short by an exception of the body's
parser or of sqlite, which no `try` covers and the framework answers with a 500.
`WriteTrace`/`WriteFails` are the synchronous write and the answer. Engine, KV cache,
controller and log endpoint are the environment; a lookup answers with what the
cache holds at that moment or fails, which the code counts as zero hits. Tokens
of a span are abstracted to the content they are a prefix of and how much of it
they cover. Only a stream is cancelled when its client leaves; a unary handler
runs to its end. The trace write is one step here; `TraceStore` opens it up.

### ConditionLifecycle

The main task of a bench is `pc`; `ok` says whether an exception unwinds it,
`cancel` whether a cancellation is pending. `asyncio` delivers it at the next
await only, so that the actions of awaits require `~cancel` or are `Cancelled`,
`DumpCancelled`, `DeleteCancelled`, while synchronous code (the oneshot
subprocess, killing the proxy, a body without awaits) goes on. A pod name is the
pair of a condition and a bench, as the code builds it from condition and pid.
The spawned proxy binds the port some time after the spawn, which is what uvicorn
does once its startup handler has returned. Each condition of each bench has a process of
its own in `proxy`, so that one can outlive its condition. `Teardown` has three
outcomes for a proxy that runs: it ended within five seconds (`Terminated`), it got a
SIGKILL that nobody waits for (`Killed`, state "dying": it answers no request and may
hold the port until `ProxyExits`), or something raised, was logged, and it runs on
(`TeardownRaises`, remembered in `loose`).

### TraceStore

A file is first created and then filled, so that a kill can leave it cut off; the
row is inserted atomically by sqlite. `Given` lets a writer be given a record read
back from the store as well as a new one, each with a fresh id. `Accepted` and
`Checked` are the three invariants at the head of `write`.

### BenchRun

The lifecycle is folded into `Enter`, `EnterFails` and `Exit` (its own module has
the detail); here a pod is a log of hit lines. `OpenRecord` creates the checkpoint file,
`FillRecord` fills it, `WriteRaises` fails before or between, and what was created stays.
`Exit` dumps the log over the file of an earlier session: whole, its beginning, nothing,
or not at all (`DumpedLog`). `Kill` ends a session anywhere,
`Preempt` takes the pod away. `Warm` stands for the hit lines that warm-up and
preflight requests leave in the same log. `dumped` is the `vllm.log` in the results
directory and `report` what the figures of a condition are computed from.

### SegmentParser and PromptTags

A text is a sequence of atoms: the literals the patterns look for, newlines, the
separator, and other text. A pattern is a predicate on a start and an end;
`Matches` with `IsFirst` is `finditer` for lazy patterns (leftmost, then shortest,
from the end of the match before). `Find`/`NextKind` are the search, one match
per step, `Resolve` one turn of the loop over sorted matches, `Emit`/`EmitRest`
the concatenation, `Collapse` one replacement of a doubled separator. `Replay`
is a recorded body that comes in again. `Rewrite` is the entry of `inject_separators`,
with the normalisation at its head: each value of `cch=` or `cc_version=`, an atom of
`CchValues` or `VersionValues`, gives way to its placeholder, inside a header or not,
as in the code (`Normal`). `CommandTags` has two of the five command tags, whose openings
and closings must agree. `given` is the payload as it came in. `LeaveUnchanged` covers the switch and the test for Claude Code's header,
which looks at the other payloads of the request too. In `PromptTags` an atom
also stands for the tokens of its text, and the emission goes match by match.

### Miner

One action is one turn of one loop: `LoadFile`, `Join`, `Round` (a doubling round
of the suffix array), `KasaiExtend`/`KasaiStore`/`KasaiFirst`, `Pop`/`Advance` (the
walk over common prefixes with the stack of open intervals), `PrefixDedup`,
`Bucketed`; `phase` says which loop runs, and `...End` leaves it. Positions count
from 1 and the sentinel behind stream `sid` is `-sid`: the code's sentinels are
negative and distinct too, and nothing else about them is used. A MinHash signature
is abstracted to which comparisons can exceed the threshold: equal shingle sets
always do, disjoint ones never, any other pair may. A file's `Label` is what
`mine_corpus.py` keeps of its place: the first directory below the traces, or the root's
name for raw requests; many files share one. The reference definitions at
the module's end (`CommonPrefix`, `StreamsOf`, `Repeats`) compute the same things
by looking at all positions.

### QualityStudy

Two programs that share files. The evaluation is `Launch`, `Enter` (the condition
is up), `Replay`/`ReplayFails` for each usable turn and sample, `OpenParquet`/
`CloseParquet` or `NoRows` (without rows the file is not touched), and `EvalDies`.
The judge is `StartJudge` (all of its reading), one turn per shared key
(`SkipIdentical`, or `RenderCall` with the coin that places the texts and the retry
loop `Labelled`/`Unlabelled`/`BacksOff`/`Wake`), `OpenCsv`/`CloseCsv` and
`JudgeDies`. A capture is its directory below the corpus root, or the root itself
(`RootDir`), which `IdOf` gives the root's own name, as `quality_eval.py:51` does; the judge
looks for prompts in the directory of that name (`PromptKey`, `run_judge.py:86`). A capture
that is `Unreadable` is skipped, a `Corrupt` one raises what `quality_eval.py:57` does not
catch and ends the session where the walk reaches it. A turn is its capture and its index
among the capture's records, an output its canonical text, `tries` the calls of `call_judge`, and `Alike` the pairs of different texts that pass the
threshold of 0.9999. The programs are started one after the other, since the judge
reads its input at its start and nothing later.

## 3. Runs

| run | constants and bounds | shows |
|---|---|---|
| `stream` | three chunks out of six kinds, two tool calls | refinement of `AnthropicStream`; `OneBlockPerSource`, `PiecesDelivered` |
| `proxy` | two requests, one skill's anchor and one mined span, three settings, one incident (eviction, prune, restart) | `EngineTotalIsOwn`, `AnsweredMeansTraced`, `CountersExact`, `SeededBeforeServing`, `EveryRequestEnds` |
| `lifecycle` | two benches, one of them with two conditions and a log dump, one Ctrl-C, one repeated health poll | `PodLeftOnlyIfCut`, `NoOrphanProxy`, `NoStaleProxyServes`, `OnlyOwnerDeletes`, `EveryBenchEnds` |
| `store` | two writers, three ids, six records with every outcome of the checks | `RowsReadable`, `RewriteStable`, refinement of `TraceLog` |
| `prompt` | texts of up to three pieces out of 18 (each block, blocks left open, two skills one of which contains the other, parts of them in which they overlap, a header value outside a header, newline, separator), a few longer ones, among them one that three rewritings in a row change; three rewritings | `SegmentsDisjoint`, `DroppedForHigher`, `OnlySeparators`, `Settles`, `EachTokenOnce` |
| `bench` | two conditions (one that logs hit lines), two requests, three launches | `ReportCoversWorkload`, `NeverRedone`, `SessionEnds` |
| `miner` | all corpora of three files of up to three, four and three tokens out of two, of two files of up to four, a few longer; two directories; a span has two tokens and two streams, a shingle two tokens | `KasaiNeverOvershoots`, `StackIntervals`, `CandidatesExact`, `EveryRepeatCovered` |
| `quality` | five corpora of two captures (a malformed record before a usable one; a capture in the root, beside one of the same id or an unreadable one; a corrupt one behind a usable one; no usable turn), two texts, three sets of options for the evaluation (two of them without `no_cache`, one with two samples) and three for the judge, two attempts, two evaluations and a judging | `ParquetComplete`, `JudgedSameRequest`, `VerdictIsReply`, `CsvAccountsForPairs` |

Why the bounds are enough. Three chunks allow text before, between and after
interleaved calls and a trailing usage chunk; block indices depend on the order
of first appearances only. Two requests and two benches are the smallest number
at which anything can be mixed up, and the properties compare at most two of
them. One incident comes before, during or after either handler, or in the middle
of the pre-seed. One repeated poll visits both outcomes of the loop's test. Three ids let a record be
written, read back and written again beside another writer's. Three launches are
needed to fail once in each of two conditions and then finish. Overlaps are
between two segments, and a third piece is what follows or precedes them; the
longer texts are a real compaction and a real header with all their sections.
A third file lets an interval close while a shorter one goes on, and a span be
nested in a longer one that fewer streams have; a third token in it lets an interval
open after one was popped, which is when `left` matters; the longer corpora have
spans that overlap themselves and rounds up to width four. Two evaluations leave a
file of each of two sessions or options; with two attempts one answer is retried
and one is the last.
Three rewritings are what the longest text needs before it stays as it is. For the
properties named in section 5 the proofs remove the bounds.

Disagreements. Four runs check what a comment or docstring says and find that the
code does otherwise; `PROJECT.json` quotes each line.

| run | property | the code |
|---|---|---|
| `bench_partial` | `PartialIsRedone` | takes any file that exists for a finished request (`checkpoint.py:37`), a cut-off one too, where lines 33-34 call a partial write a gap that is redone |
| `prompt_idempotent` | `Idempotent` | a second rewriting can add a separator, since the first one hides the point where a lazy pattern ends (`cc_segment_parser.py:106`) |
| `lifecycle_leak` | `PodDeletedOnExit` | `except Exception` around the dump lets a cancellation skip the DELETE (`conditions.py:455`) |
| `lifecycle_port` | `WorkloadStartsOnOwnProxy` | the probe comes long before the bind, so two benches can both pass it (`conditions.py:297-311`) |

The passing run `lifecycle` states what does hold next to `PodDeletedOnExit`:
a cancellation that arrives before the teardown's own awaits never costs the DELETE. Next to
`WorkloadStartsOnOwnProxy` it has `NoStaleProxyServes`: the foreign proxy is never one of an
earlier session, and one of an earlier condition of the same bench only after that one's
teardown has raised and its DELETE has failed, or if both conditions are the same. `ReportCoversWorkload` is what holds next to `PartialIsRedone`: every request has a
file, and a launch that did not reach the report leaves one cut-off file at most.
`Settles` states what holds next to `Idempotent`: a change is a separator more, and
there is room for finitely many. No fixed number of rewritings is enough: with several
back-references that have no `.jsonl` and several lists of commits, each rewriting hides the
end of one more match (`Unfolding` in `MCPromptTags` changes three times, and so does
its text under `inject_separators` itself).

More were met while reading and have no run of their own, because a model adds
nothing to the lines:

* a mined row is registered under the skill id `_statistical`, and lookups are scoped to the
  skills the prompt matched (`server.py:103`): mined spans are never looked up, where
  span_registry.py:26-28 says that "Lookup never filters on source — both flavours
  participate equally" (`SpansReferencedBy` in `ProxyServer`);
* the values of `cch=` and `cc_version=` are replaced in every payload
  (`cc_segment_parser.py:196`, as lines 189-192 say), where line 16 says the parser "never
  edits the captured content"; `OnlySeparators` says so of everything else;
* where the anchors of two skills overlap, the cursor goes back to the end of the later one and
  tokens are emitted twice (`assemble.py:158-166`); if one lies inside the other, the rest of
  the outer one is emitted as `skill_body` and again with the base tag, where line 106 has a
  token tagged "skill_body inside a match, else" as the block is;
* a trace store in the corpus root itself is replayed under the root's name, and `run_judge`
  looks for its prompts in a directory of that name below the root (`run_judge.py:86`): its
  pairs are judged without their task, with a warning; if there is a capture of that name, both
  have one id and the last row wins (`run_judge.py:47`). `JudgedSameRequest` says exactly when;
* a capture whose sqlite or parquet file is damaged raises what `quality_eval.py:57` does not
  catch and ends the session with its rows, where lines 45-46 say that such captures "are logged
  + skipped; the eval continues";
* the SDK repeats requests by itself (`sonnet_judge.py:71-72`), so that `max_retries` bounds the
  calls of `call_judge` and not the requests; `VerdictIsReply` counts the calls;
* `fixture_sources` of a mined span are directory names, for raw requests one and the same
  (`mine_corpus.py:62`, `86`): they do not say in which file it was found;
* an exception of the registry is answered with the framework's 500 and not with an error of
  Anthropic's form, also for a stream (`server.py:103`, `109`);
* the poll's `except Exception: pass` swallows a failed preflight that
  conditions.py:394 says should "fail fast" (`conditions.py:379-382`);
* a resumed session's dump replaces the log of the earlier one (`conditions.py:176`);
* an error reply, such as a 502 of a preempted pod, is recorded as done and never
  sent again (`cli.py:146`), while checkpoint.py:1-2 speaks of surviving preemption;
* the lookups of nested anchors cover the same tokens and are added up
  (`replay.py:31-43`), while replay.py:3-5 speaks of a join by token range;
* near-duplicates are merged under the representative's text with the union of
  their streams (`statistical_miner.py:324-337`), so a stream of a mined span need not
  contain it, as the docstring of `MinedSpan` (46-49) has it;
* `while len(bodies) < N` does not end when the passages cannot give N distinct
  bodies (`permuted_fixture.py:170-181`, `permuted_extended.py:48-57`);
* a gate within 0.02 of its threshold is flagged borderline on the failed side
  only (`permuted_gates.py:13`);
* "identical" means a token identity of at least 0.9999 (`run_judge.py:176`), where
  the docstring says bit-identical;
* connection errors are not among the "transient errors" that are retried
  (`sonnet_judge.py:69`), and one generator is shared by all pairs (`run_judge.py:166`)
  where prompt.py:86-87 has one per pair;
* a session without any row leaves the parquet of an earlier one in place
  (`quality_eval.py:158`), which `ParquetComplete` excepts;
* the capture orchestrator does not redact a dump when the lifecycle raises.

## 4. Fairness

`ProxyServer`: weak fairness of startup and of each request's handler. The event
loop runs every ready task, and every call a handler awaits has a timeout (shim,
engine, log endpoint, thirty seconds for the tail). Nothing is assumed of clients,
log lines, evictions, pruning or restarts, and every call may fail.
`ConditionLifecycle`: weak fairness of each bench's main task, whose waits all
have deadlines; proxies, pods and interrupts are free to do nothing.
`BenchRun`: weak fairness of the launched bench; a launch, a kill and a preemption
may never come. `StreamBridge`, `TraceStore`, `SegmentParser`, `Miner` and
`QualityStudy` state safety only.

## 5. Proofs

All theorems hold for every value of the constants that satisfies the named
assumption of the module (`ChunksAssumption`, `LifecycleAssumption`,
`StoreAssumption`, `ParserAssumption`, `ProxyAssumption`, `BenchAssumption`,
`StudyAssumption`, `MinerAssumption`); each of them only says what kind of value a constant is, and
that the names of absent things differ from real ones.

`StreamBridge_proofs`. The inductive invariant adds to `TypeOK` and the two safety
properties what links the state to the abstract grammar: how many blocks have
been stopped against which are still open, that `open_indices` is a final segment
of the block numbers, and which pieces of the current chunk are out
(`PiecesDelivered` speaks of chunk boundaries only and is not inductive by
itself). `Refinement` shows that every step is a step of `AnthropicStream` or a
stutter under the mapping `PhaseOf`, `KindsOf`, `EventOf`.

`ConditionLifecycle_proofs`. `PodLeftOnlyIfCut` and `NoOrphanProxy` are inductive
only with `PortOwner` (a proxy that holds the port is bound or dying: without it, a
teardown that finds its proxy already gone would not know the port free), `NotYet` (no
condition ahead has a proxy) and `CutIsLast` (a bench whose teardown was cut enters no other
condition). `NoStaleProxyServes` follows from the same invariant: `LeftoverProbed` (a bench
past its probe excludes the leftover proxy) for the proxy of an earlier session,
`NoOrphanProxy` for that of an earlier condition, which only a teardown that raised leaves
running, and `PodLeftOnlyIfCut` for its pod, which is up only if its DELETE was lost. One
lemma states what a step of one bench leaves alone, so that each step is examined for
one bench. `OnlyOwnerDeletes` rests on pod names differing between benches and on
`KnownLate`: a bench knows its pod only when the subprocess is behind it, whose own
DELETE, when it gives up, could otherwise hit a pod that had come up.

`TraceStore_proofs`. A reader gets back exactly the record that was
written (`Faithful`); with it, the invariant says of every row that the files of
its record are complete, of every writer that the files of the steps behind it
are, and that active writers work on distinct ids without rows. `RowsReadable`,
`RewriteStable` and the refinement of `TraceLog` follow.

`PromptTags_proofs`. The code compares each match with the last kept segment
only. That this is enough rests on two facts the invariant `IInv` carries: matches of one
pattern never overlap (each search starts where the last match ended), so that
a tie of precedence never decides, and matches are resolved by their starts, so
that a segment that takes another's place starts no earlier. With both,
`SegmentsDisjoint` and `DroppedForHigher` are preserved by every turn of the loop.
`OnlySeparators` is stated by layouts: the layout of a text is the set of its atoms, each
with the number of atoms other than separators before it, so that a text is rewritten to
the layout of its normalised form and a separator at both ends of each segment. `LInv` says how much of
that is out: while segments are emitted, the layout of the text up to the cursor and the
ends of the segments behind it; collapsing a doubled separator leaves the layout alone.
`Settles` follows from two lemmas on texts without doubled separators: the layout
determines the text, and has as many elements as the text has atoms; a text with a header
value is another case, since after one rewriting it has none (a placeholder is no value). `TagsParse` shows
that tagging only adds steps, so that all of this holds of the payloads that are
tagged; `EachTokenOnce` then needs of the emission that it puts out a run of positions
per step (`TInv`), without a gap, and that what a step repeats lies in the match the cursor
comes from, which the one it goes to overlaps: matches of different skills may, and the
statement says that tokens are out of order or repeated there and nowhere else.

`ProxyServer_proofs`. `AnsweredMeansTraced` (with the answer that every handler that ran to
its end has given), `EngineTotalIsOwn` and `SeededBeforeServing`, for any number of handlers
and restarts. The invariant says of a row
that its lookups and its total are those of its request's handler (`RowsMatch`), of a
handler that the total it holds was read from a line of its own request
(`TotalsOwn`), and of the startup which seeds are registered (`SeedingProgress`).
`TypeOK` (`Typed`) needs that an answer's hits are those of a set of blocks the engine
holds. `CountersExact` (`Counters`) says that both counters of a span keep up with the
lookups recorded since it was registered; the sum over them is the community modules'
fold over a set, of which `SumExists` shows that its defining equation has a solution
and `SumOneMore` what an element adds.

`BenchRun_proofs`. `ReportCoversWorkload` and `NeverRedone` rest on one fact:
the files of a condition have no gaps (`NoGaps`), although the code only looks for
the first index without a file. With it a resumption starts exactly behind the
last file, the condition at work is in step with its files (`InStep`),
and those before it are full (`BehindFull`). `Spent` charges each cut-off file to a launch: one
that has cut nothing off (`Clean`) has its file, or its report, still to spend, and
`FillRecord` gives back what `OpenRecord` took.

`QualityStudy_proofs`. All properties of its run. The rows in memory are one for
each replay that is behind the loop and none that is ahead, and files are such sets
at the end of the loop; both programs derive a key from the same place of the
corpus, so that rows paired by a key whose id names one capture answer one record
(`JudgedSameRequest`), whose prompt the judge finds unless the capture is the root; and the
figures of the CSV partition the verdicts. That a set of keys has a least one follows from the order
of the natural numbers being well-founded.

`Miner_proofs`. All properties of its run, for any corpus, in four invariants.

* `IInv`, for `StackIntervals`: while an interval is open, every common prefix between
  its left end and the current position is at least its height, and those between an
  interval just closed and the current position are longer than the current one, so that
  the entry opened next may start at `left`. The bottom entry has height 0, below which
  no common prefix drops.
* `SInv`, for `TypeOK`, `KasaiNeverOvershoots` and `Exact`: in each round the suffix array is
  a permutation, and ranks compare the suffixes by their first `width` tokens. Doubling
  keeps that, since a pair of ranks compares twice the width, and whichever test ends the
  loop, the suffixes are then in order; none is the beginning of another, for the last
  sentinel is unlike every other token. Then the length carried over never exceeds what a suffix shares with
  the one before it: the neighbour's successor is an earlier suffix that shares one less.
* `FInv`, for `CandidatesExact`: the text consists of the streams with their sentinels
  (`Joined`); the candidates are exact, and each block of neighbours that share more than the
  prefixes on either side (`Tight`) and ends before the current position has a
  candidate with its tokens (`Found`). It needs to know which blocks the stack has still to
  close: each starts where an entry or `left` says (`Ends`), and an open entry is as high as the
  lowest prefix in it (`Heights`). A frequent sequence is in two places, hence in such a
  block, whose candidate it begins.
* `GInv`, for `EveryRepeatCovered`: each candidate behind the loop is the beginning of a kept
  span (`Keeping`: a span dropped as a prefix begins one that is never dropped), each kept
  span behind the loop is in a bucket (`Filing`), and each stream is that of some file and
  carries that file's label, while no file with tokens is without one (`Origins`): hence the
  labels of a line are those of the files that hold a span of its bucket. That a text below `LengthFloor * FrequencyFloor` tokens has no frequent
  sequence (`NothingLost`) is a matter of counting: different streams put their tokens in
  different places.

The proof says one thing more about the code: the test for sentinels in `Emits` never
fails. A block of two neighbours that share at least one token holds no sentinel, since every
sentinel is in the text once (`BlockTokens`).

Induction over numbers, where a loop's effect needs it, is by the least counterexample:
the order of the natural numbers is well-founded (`Least`, `Induct`).

Only model-checked: the liveness properties (`EveryRequestEnds`, `EveryBenchEnds`,
`SessionEnds`), which are out of the prover's reach. Every other property of a passing
run is a theorem. The four disagreements are counterexamples and stay with TLC.

## 6. What is abstracted or left out

* A bench gets at most one Ctrl-C, and is not itself killed with SIGKILL in
  `ConditionLifecycle` (no code runs after either; `BenchRun` has the kill). The proxy it
  spawned is.
* A pod creation that the API carries out after the call has failed is visible at
  once; one that appears after the cleanup's lookup is listed as a hazard only.
* `KEEP_POD=1` makes the oneshot script keep a failed pod; the lifecycle's own
  cleanup deletes it all the same.
* Time is abstracted to "a deadline passes at some point", the age threshold of
  `prune` to a choice of spans that have been looked up.
* The log line format that `runpod_logs.py` expects is taken as matching the
  engine's; it is not the one `log_metrics.py` documents for the cu12 image.
* A record that a kill or a full disk cuts off counts as done on resumption, which the run
  `bench_partial` shows; what of it can be parsed is left out.
* Whether the tags of a replayed prompt are the recorded ones is not claimed: a
  separator of a later rewriting can cut a skill's text in payloads with several
  summaries, which are longer than those of the run.
* Payloads that are not text, and `byte_range_to_token_range`.
* MinHash and the token identity rate: only which comparisons may succeed. The run
  `quality` takes no two different texts as alike; the proofs allow any.
* The corpus does not change between an evaluation and the judging of its files.
* The figures of `replay.py`, `metrics.py`, `log_metrics.py` and `report.py`: sums,
  ratios and HTML over the records that `BenchRun` says they are computed from.
* The permuted fixtures and gates: text construction from a seeded generator, and
  comparisons of finished figures with thresholds.
* Corpus, capture and publication scripts, deployment, LMCache metrics, the echo
  backend, the paper: no state that outlives a call, or one-shot batch jobs over
  files and HTTP.

## 7. Plan

Done: stream, proxy, lifecycle, store, bench, segment parser with tagging, miner,
quality study, in this order (the stream is the one thing every client sees; proxy
and lifecycle are where steps interleave), and the theorems of section 5.

1. `ProxyServer` writing through `TraceStore`: the composition of handlers,
   store and report.
2. The hit-rate decomposition of `replay.py` and `log_metrics.py` over the rows
   and lines `BenchRun` selects.
3. Theorems about what the runs do not ask: that the miner's output is in order of
   frequency (only that it is a reordering is proved), and that a resumed condition's
   figures are those of its records.

## 8. Sensitivity

Each property of a passing run is paired in `PROJECT.json` with one mutated
definition under which TLC finds it violated: an index that is not advanced, a
counter reset by an upsert, a cleanup missing from one error path, a pod name
without the pid, a file not awaited before the row, a resumption from zero, and
so on.

## 9. How to run

    tlc -workers 2 -config MCProxyServer.cfg MCProxyServer
    tlapm ConditionLifecycle_proofs.tla
