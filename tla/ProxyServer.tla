----------------------------- MODULE ProxyServer -----------------------------
(***************************************************************************)
(* The proxy process: proxy/server.py with the span registry it keeps      *)
(* (registry/span_registry.py), the pre-seed it runs at startup            *)
(* (registry/warmup.py), the cache controller it asks                      *)
(* (registry/lmcache_controller.py) and the engine-log tail it polls       *)
(* (proxy/runpod_logs.py).  Requests are handled concurrently on one event *)
(* loop: an action is what a handler does between two awaits.  The engine  *)
(* with its KV cache, the pod's log endpoint and the clients are the       *)
(* environment.                                                            *)
(*                                                                         *)
(* A span is an anchor of a skill body or a mined span.  Its tokens are    *)
(* abstracted to the content they come from and to how much of it they     *)
(* cover: anchors of one skill are nested prefixes of one body.            *)
(***************************************************************************)
EXTENDS Naturals, Integers, Sequences, FiniteSets, FiniteSetsExt

CONSTANTS
  Request,       \* client requests, each sent at most once
  Skill,         \* skills the prefix index can match
  Span,          \* spans a pre-seed may register
  ContentOf,     \* span -> the content its tokens are a prefix of
  Size,          \* span -> how much of that content
  SeedList,      \* the spans of the prefix index, then those of the mined file
  Configs,       \* the settings the proxy may be started with
  Prompts,       \* the sets of contents a request may carry
  MaxIncidents   \* bound on evictions, prunings and restarts together

Content == {ContentOf[s] : s \in Span}
NoTotal == -1    \* engine_total_hit_tokens = None

ASSUME ProxyAssumption ==
  /\ ContentOf \in [Span -> Content] /\ Skill \subseteq Content
  /\ IsFiniteSet(Span) /\ Size \in [Span -> Nat \ {0}]
  /\ SeedList \in Seq(Span)
  /\ Configs \subseteq [lookup : BOOLEAN, tail : BOOLEAN, pre_seed : BOOLEAN]
  /\ Prompts \subseteq SUBSET Content
  /\ MaxIncidents \in Nat

VARIABLES
  cfg,        \* settings read at startup: [lookup, tail, pre_seed]
  phase,      \* "down", "seeding" or "serving"
  seedAt,     \* position in SeedList
  seedPc,     \* "register", "warmup", "pin"
  registry,   \* registered span -> [hits, total] counters (sqlite, survives restarts)
  kv,         \* content -> how much of it the engine holds   (environment)
  pinned,     \* contents the controller pinned               (environment)
  pc,         \* request -> where its handler is
  stream,     \* request -> is it a streaming request
  prompt,     \* request -> contents its text carries
  waiting,    \* request -> lookups not answered yet
  res,        \* request -> span -> hit tokens, for the answered ones
  engine,     \* request -> the engine's own hit count, or NoTotal
  visible,    \* requests whose log line the pod's endpoint shows (environment)
  total,      \* request -> engine_total_hit_tokens
  reply,      \* request -> what its client got
  trace,      \* request -> its row in the trace store
  lost,       \* requests whose trace write failed and was logged
  counted,    \* history: <<request, span>> lookups recorded since span's row exists
  pruned,     \* history: spans pruned since the last start
  incidents   \* how many evictions, prunings and restarts happened

regVars  == <<registry, counted, pruned>>
seedVars == <<seedAt, seedPc>>
envVars  == <<kv, pinned, visible, incidents>>
reqVars  == <<pc, stream, prompt, waiting, res, engine, total, reply, trace, lost>>
vars     == <<cfg, phase, seedVars, regVars, envVars, reqVars>>

Active == {"lookup", "call", "served", "tail", "write"}

(***************************************************************************)
(* SpanRegistry.register: insert, or update in place and keep the          *)
(* counters of the row.                                                    *)
(***************************************************************************)
Fresh == [hits |-> 0, total |-> 0]
Registered_Replaced(s) == [x \in DOMAIN registry \cup {s} |-> IF x = s THEN Fresh ELSE registry[x]]
Registered(s) == [x \in DOMAIN registry \cup {s} |->
                    IF x \in DOMAIN registry THEN registry[x] ELSE Fresh]

(***************************************************************************)
(* spans_referenced_by: the rows whose skill_id is among the ones the      *)
(* prefix index matched.  Mined rows carry the skill_id "_statistical".    *)
(***************************************************************************)
SkillIds(p) == p \cap Skill
SpansReferencedBy(ids) == {s \in DOMAIN registry : ContentOf[s] \in ids}

(***************************************************************************)
(* record_lookup_result for some of the answered lookups: an UPDATE that   *)
(* matches no row when the span has been pruned meanwhile.                 *)
(***************************************************************************)
Recorded(r, S) ==
  [s \in DOMAIN registry |->
     IF s \in S
       THEN [hits |-> registry[s].hits + res[r][s], total |-> registry[s].total + 1]
       ELSE registry[s]]

(***************************************************************************)
(* The engine reuses what it holds of every content of the prompt.         *)
(***************************************************************************)
SumOver(f, S) == MapThenSumSet(LAMBDA x : f[x], S)
EngineHits(r) == SumOver(kv, prompt[r])
LookupSum(r)  == SumOver(res[r], DOMAIN res[r])
FullSize(c)   == Max({Size[s] : s \in {x \in Span : ContentOf[x] = c}})

Hold(c, n) == [kv EXCEPT ![c] = Max({@, n})]

Init ==
  /\ cfg \in Configs
  /\ phase = "down"
  /\ seedAt = 1 /\ seedPc = "register"
  /\ registry = [s \in {} |-> Fresh]
  /\ kv = [c \in Content |-> 0]
  /\ pinned = {}
  /\ pc = [r \in Request |-> "idle"]
  /\ stream = [r \in Request |-> FALSE]
  /\ prompt = [r \in Request |-> {}]
  /\ waiting = [r \in Request |-> {}]
  /\ res = [r \in Request |-> [s \in {} |-> 0]]
  /\ engine = [r \in Request |-> NoTotal]
  /\ visible = {}
  /\ total = [r \in Request |-> NoTotal]
  /\ reply = [r \in Request |-> "none"]
  /\ trace = [r \in {} |-> {}]
  /\ lost = {}
  /\ counted = {}
  /\ pruned = {}
  /\ incidents = 0

-----------------------------------------------------------------------------
(***************************************************************************)
(* Startup.  The port answers only once the startup handler has returned,  *)
(* so no request is handled while the pre-seed runs.                       *)
(***************************************************************************)
AfterStart_Background == "serving"
AfterStart == IF cfg.pre_seed /\ SeedList # <<>> THEN "seeding" ELSE "serving"

Start ==
  /\ phase = "down"
  /\ phase' = AfterStart
  /\ seedAt' = 1 /\ seedPc' = "register"
  /\ pruned' = {}
  /\ UNCHANGED <<cfg, registry, counted, envVars, reqVars>>

Seed == SeedList[seedAt]

(***************************************************************************)
(* The end of one iteration of a pre-seed loop.                            *)
(***************************************************************************)
LastSeed_Late == seedAt > Len(SeedList)
LastSeed == seedAt = Len(SeedList)

NextSeed ==
  /\ seedPc' = "register"
  /\ seedAt' = seedAt + 1
  /\ phase' = IF LastSeed THEN "serving" ELSE "seeding"

SeedRegister ==
  /\ phase = "seeding" /\ seedPc = "register"
  /\ registry' = Registered(Seed)
  /\ seedPc' = "warmup"
  /\ UNCHANGED <<cfg, phase, seedAt, counted, pruned, envVars, reqVars>>

(***************************************************************************)
(* The warm-up prefill is answered or fails; a failure is only logged.     *)
(* Without a controller there is no pin step.                              *)
(***************************************************************************)
SeedWarmup ==
  /\ phase = "seeding" /\ seedPc = "warmup"
  /\ \/ kv' = Hold(ContentOf[Seed], Size[Seed])
     \/ UNCHANGED kv
  /\ IF cfg.lookup THEN seedPc' = "pin" /\ UNCHANGED <<seedAt, phase>> ELSE NextSeed
  /\ UNCHANGED <<cfg, regVars, pinned, visible, incidents, reqVars>>

SeedPin ==
  /\ phase = "seeding" /\ seedPc = "pin"
  /\ \/ pinned' = pinned \cup {ContentOf[Seed]}
     \/ UNCHANGED pinned
  /\ NextSeed
  /\ UNCHANGED <<cfg, regVars, kv, visible, incidents, reqVars>>

-----------------------------------------------------------------------------
(***************************************************************************)
(* A request arrives.  Up to the first await the handler tags the prompt,  *)
(* finds the skills it carries and reads their spans from the registry;    *)
(* with no controller or no span there is nothing to look up.              *)
(***************************************************************************)
Spans(p) == IF cfg.lookup THEN SpansReferencedBy(SkillIds(p)) ELSE {}

Request500(r) ==
  /\ pc' = [pc EXCEPT ![r] = "done"]
  /\ reply' = [reply EXCEPT ![r] = "500"]

Accept(r, p, s) ==
  /\ phase = "serving"
  /\ pc[r] = "idle"
  /\ stream' = [stream EXCEPT ![r] = s]
  /\ prompt' = [prompt EXCEPT ![r] = p]
  /\ UNCHANGED <<cfg, phase, seedVars, regVars, envVars, res, engine, total, trace, lost>>

Arrive(r, p, s) ==
  /\ Accept(r, p, s)
  /\ waiting' = [waiting EXCEPT ![r] = Spans(p)]
  /\ pc' = [pc EXCEPT ![r] = IF Spans(p) = {} THEN "call" ELSE "lookup"]
  /\ UNCHANGED reply

(***************************************************************************)
(* No try covers the reading of the body or of the registry: what raises   *)
(* there is answered 500 by the framework, a streaming request too.        *)
(***************************************************************************)
ArriveFails(r, p, s) ==
  /\ Accept(r, p, s)
  /\ Request500(r)
  /\ UNCHANGED waiting

(***************************************************************************)
(* LMCacheController.lookup answers with what the cache holds now; an      *)
(* error of the controller counts as no hit.                               *)
(***************************************************************************)
LookupReply(r, s) ==
  /\ pc[r] = "lookup"
  /\ s \in waiting[r]
  /\ waiting' = [waiting EXCEPT ![r] = @ \ {s}]
  /\ \E h \in {0, Min({kv[ContentOf[s]], Size[s]})} :
       res' = [res EXCEPT ![r] = [x \in DOMAIN @ \cup {s} |-> IF x = s THEN h ELSE @[x]]]
  /\ UNCHANGED <<cfg, phase, seedVars, regVars, envVars, pc, stream, prompt,
                 engine, total, reply, trace, lost>>

(***************************************************************************)
(* gather() returned: every result is recorded, without an await between.  *)
(* An UPDATE that raises (a locked database) ends the request with a 500;  *)
(* those before it stay.                                                   *)
(***************************************************************************)
Record(r, S) ==
  /\ pc[r] = "lookup"
  /\ waiting[r] = {}
  /\ registry' = Recorded(r, S)
  /\ counted' = counted \cup {<<r, s>> : s \in S \cap DOMAIN registry}
  /\ UNCHANGED <<cfg, phase, seedVars, pruned, envVars, stream, prompt, waiting,
                 res, engine, total, trace, lost>>

RecordLookups(r) ==
  /\ Record(r, DOMAIN res[r])
  /\ pc' = [pc EXCEPT ![r] = "call"]
  /\ UNCHANGED reply

RecordFails(r) ==
  /\ \E S \in SUBSET DOMAIN res[r] \ {DOMAIN res[r]} : Record(r, S)
  /\ Request500(r)

(***************************************************************************)
(* The engine handles the forwarded request: it reuses what it holds, then *)
(* holds all of the prompt, and logs the hit count under its own id.       *)
(***************************************************************************)
EngineServe(r) ==
  /\ pc[r] = "call"
  /\ engine' = [engine EXCEPT ![r] = EngineHits(r)]
  /\ kv' = [c \in Content |-> IF c \in prompt[r] THEN FullSize(c) ELSE kv[c]]
  /\ pc' = [pc EXCEPT ![r] = "served"]
  /\ UNCHANGED <<cfg, phase, seedVars, regVars, pinned, visible, incidents, stream,
                 prompt, waiting, res, total, reply, trace, lost>>

(***************************************************************************)
(* The reply came through: the response of call_unary, or every event of   *)
(* the stream up to message_stop, has been produced.                       *)
(***************************************************************************)
BackendReply(r) ==
  /\ pc[r] = "served"
  /\ reply' = IF stream[r] THEN [reply EXCEPT ![r] = "ok"] ELSE reply
  /\ pc' = [pc EXCEPT ![r] = IF cfg.tail THEN "tail" ELSE "write"]
  /\ UNCHANGED <<cfg, phase, seedVars, regVars, envVars, stream, prompt, waiting,
                 res, engine, total, trace, lost>>

(***************************************************************************)
(* The backend call raises, before or after the engine did its work.  A    *)
(* unary request is answered 502; a stream just ends.  No row either way.  *)
(***************************************************************************)
BackendFail(r) ==
  /\ pc[r] \in {"call", "served"}
  /\ reply' = [reply EXCEPT ![r] = IF stream[r] THEN "cut" ELSE "502"]
  /\ pc' = [pc EXCEPT ![r] = "done"]
  /\ UNCHANGED <<cfg, phase, seedVars, regVars, envVars, stream, prompt, waiting,
                 res, engine, total, trace, lost>>

(***************************************************************************)
(* The client of a stream goes away: the response task is cancelled at the *)
(* await the generator is in, and what follows it never runs.              *)
(***************************************************************************)
Disconnect(r) ==
  /\ stream[r]
  /\ pc[r] \in {"call", "served", "tail"}
  /\ reply' = [reply EXCEPT ![r] = IF @ = "ok" THEN @ ELSE "cut"]
  /\ pc' = [pc EXCEPT ![r] = "cancelled"]
  /\ UNCHANGED <<cfg, phase, seedVars, regVars, envVars, stream, prompt, waiting,
                 res, engine, total, trace, lost>>

-----------------------------------------------------------------------------
(***************************************************************************)
(* tail_for_reqid.  The engine logs a request under the id of its own      *)
(* completion; a unary handler asks for that id, a stream for the id of    *)
(* the message_start event, which the bridge made up.                      *)
(***************************************************************************)
EngineId(q) == <<"chatcmpl", q>>
TargetId(r) == IF stream[r] THEN <<"msg", r>> ELSE EngineId(r)

IsTarget_AnyLine(q, r) == TRUE
IsTarget(q, r) == EngineId(q) = TargetId(r)

TailFound(r) ==
  /\ pc[r] = "tail"
  /\ \E q \in visible :
       /\ IsTarget(q, r)
       /\ total' = [total EXCEPT ![r] = engine[q]]
  /\ pc' = [pc EXCEPT ![r] = "write"]
  /\ UNCHANGED <<cfg, phase, seedVars, regVars, envVars, stream, prompt, waiting,
                 res, engine, reply, trace, lost>>

(***************************************************************************)
(* Thirty seconds passed without a match (the endpoint may lag or fail).   *)
(***************************************************************************)
GivesUp_Never == FALSE
GivesUp == TRUE

AfterTimeout_Raises == "done"
AfterTimeout == "write"

TailTimeout(r) ==
  /\ pc[r] = "tail"
  /\ GivesUp
  /\ pc' = [pc EXCEPT ![r] = AfterTimeout]
  /\ UNCHANGED <<cfg, phase, seedVars, regVars, envVars, stream, prompt, waiting,
                 res, engine, total, reply, trace, lost>>

(***************************************************************************)
(* TraceStore.write, and the answer of a unary request.  A write that      *)
(* raises is logged and the request answered all the same.                 *)
(***************************************************************************)
RowOf(r) ==
  [lookups |-> DOMAIN res[r],
   total   |-> total[r],
   flagged |-> total[r] # NoTotal /\ LookupSum(r) > total[r]]

Finish(r) ==
  /\ pc[r] = "write"
  /\ reply' = [reply EXCEPT ![r] = "ok"]
  /\ pc' = [pc EXCEPT ![r] = "done"]
  /\ UNCHANGED <<cfg, phase, seedVars, regVars, envVars, stream, prompt, waiting,
                 res, engine, total>>

WriteTrace(r) ==
  /\ Finish(r)
  /\ trace' = [q \in DOMAIN trace \cup {r} |-> IF q = r THEN RowOf(r) ELSE trace[q]]
  /\ UNCHANGED lost

WriteFails(r) ==
  /\ Finish(r)
  /\ lost' = lost \cup {r}
  /\ UNCHANGED trace

-----------------------------------------------------------------------------
(***************************************************************************)
(* The environment: eviction, log lines reaching the pod's endpoint, an    *)
(* operator pruning spans that have been looked up and have aged (which    *)
(* ones depends on a threshold and on the order of their last lookups,     *)
(* both abstracted), and the death of the proxy with all its handlers.     *)
(***************************************************************************)
Incident == incidents < MaxIncidents /\ incidents' = incidents + 1

Evict(c) ==
  /\ Incident
  /\ kv[c] > 0 /\ c \notin pinned
  /\ kv' = [kv EXCEPT ![c] = 0]
  /\ UNCHANGED <<cfg, phase, seedVars, regVars, pinned, visible, reqVars>>

LineVisible(r) ==
  /\ engine[r] # NoTotal
  /\ r \notin visible
  /\ visible' = visible \cup {r}
  /\ UNCHANGED <<cfg, phase, seedVars, regVars, kv, pinned, incidents, reqVars>>

Prune ==
  /\ Incident
  /\ \E old \in SUBSET {s \in DOMAIN registry : registry[s].total > 0} \ {{}} :
       /\ registry' = [s \in DOMAIN registry \ old |-> registry[s]]
       /\ counted' = {x \in counted : x[2] \notin old}
       /\ pruned' = pruned \cup old
  /\ UNCHANGED <<cfg, phase, seedVars, kv, pinned, visible, reqVars>>

Die ==
  /\ phase # "down"
  /\ Incident
  /\ phase' = "down"
  /\ pc' = [r \in Request |-> IF pc[r] \in Active THEN "cancelled" ELSE pc[r]]
  /\ reply' = [r \in Request |->
                 IF pc[r] \in Active /\ reply[r] # "ok" THEN "cut" ELSE reply[r]]
  /\ UNCHANGED <<cfg, seedVars, regVars, kv, pinned, visible, stream, prompt,
                 waiting, res, engine, total, trace, lost>>

-----------------------------------------------------------------------------
Startup == Start \/ SeedRegister \/ SeedWarmup \/ SeedPin

Handle(r) ==
  \/ \E s \in Span : LookupReply(r, s)
  \/ RecordLookups(r) \/ RecordFails(r)
  \/ EngineServe(r) \/ BackendReply(r) \/ BackendFail(r)
  \/ TailFound(r) \/ TailTimeout(r)
  \/ WriteTrace(r) \/ WriteFails(r)

Environment ==
  \/ \E r \in Request : Disconnect(r) \/ LineVisible(r)
  \/ \E c \in Content : Evict(c)
  \/ Prune \/ Die

Next ==
  \/ Startup
  \/ \E r \in Request : \E p \in Prompts : \E s \in BOOLEAN :
       Arrive(r, p, s) \/ ArriveFails(r, p, s)
  \/ \E r \in Request : Handle(r)
  \/ Environment

(***************************************************************************)
(* The event loop keeps running every handler, the shim, the engine and    *)
(* the log endpoint are called with a timeout, and a started process gets  *)
(* through its startup.  Nothing is assumed of clients, evictions, pruning *)
(* or restarts, and no call is assumed to succeed.                         *)
(***************************************************************************)
Fairness ==
  /\ WF_vars(Startup)
  /\ \A r \in Request : WF_vars(Handle(r))

Spec == Init /\ [][Next]_vars /\ Fairness

-----------------------------------------------------------------------------
TypeOK ==
  /\ phase \in {"down", "seeding", "serving"}
  /\ phase = "seeding" => seedAt \in DOMAIN SeedList
  /\ seedPc \in {"register", "warmup", "pin"}
  /\ DOMAIN registry \subseteq Span
  /\ \A s \in DOMAIN registry : registry[s] \in [hits : Nat, total : Nat]
  /\ kv \in [Content -> Nat]
  /\ pinned \subseteq Content
  /\ pc \in [Request -> {"idle", "done", "cancelled"} \cup Active]
  /\ stream \in [Request -> BOOLEAN]
  /\ prompt \in [Request -> SUBSET Content]
  /\ waiting \in [Request -> SUBSET Span]
  /\ \A r \in Request : DOMAIN res[r] \subseteq Span
  /\ engine \in [Request -> Nat \cup {NoTotal}]
  /\ total \in [Request -> Nat \cup {NoTotal}]
  /\ reply \in [Request -> {"none", "ok", "500", "502", "cut"}]
  /\ visible \subseteq Request
  /\ DOMAIN trace \subseteq Request
  /\ lost \subseteq Request

(***************************************************************************)
(* A hit count in a row is the engine's count for that very request, never *)
(* the count of another one whose log line was in the same chunk, however  *)
(* the tails of concurrent requests interleave.                            *)
(***************************************************************************)
EngineTotalIsOwn ==
  \A r \in DOMAIN trace : trace[r].total # NoTotal => trace[r].total = engine[r]

(***************************************************************************)
(* A handler that ran to its end gave its client an answer, whatever       *)
(* failed on the way: a stream alone may end without its last event, and a *)
(* 500 means that the engine never saw the request.  The requests with a   *)
(* row or a logged loss, and never both, are those answered in full by a   *)
(* handler that was not cancelled.                                         *)
(***************************************************************************)
AnsweredMeansTraced ==
  \A r \in Request :
    /\ pc[r] = "done" =>
         /\ reply[r] # "none" /\ (reply[r] = "cut" => stream[r])
         /\ reply[r] = "500" => engine[r] = NoTotal
    /\ r \in DOMAIN trace \cup lost <=> pc[r] = "done" /\ reply[r] = "ok"
    /\ r \notin DOMAIN trace \cap lost

(***************************************************************************)
(* The counters of a span count every lookup recorded since its row was    *)
(* inserted, once each: concurrent requests, later pre-seeds of the same   *)
(* span and restarts of the proxy neither lose nor repeat one.             *)
(***************************************************************************)
Counted(s) == {x \in counted : x[2] = s}
LookupsCounted ==
  \A s \in DOMAIN registry : registry[s].total = Cardinality(Counted(s))
HitsOf(s) == [x \in Counted(s) |-> res[x[1]][s]]
HitsSummed ==
  \A s \in DOMAIN registry :
    registry[s].hits = SumOver(HitsOf(s), Counted(s))
CountersExact == LookupsCounted /\ HitsSummed

(***************************************************************************)
(* While the proxy serves, every span of its seed lists is registered, so  *)
(* the first request already looks it up, unless it was pruned since the   *)
(* start.                                                                  *)
(***************************************************************************)
SeededBeforeServing ==
  phase = "serving" /\ cfg.pre_seed
    => \A i \in DOMAIN SeedList : SeedList[i] \in DOMAIN registry \cup pruned

(***************************************************************************)
(* A failing warm-up, pin, lookup, backend or log endpoint delays a        *)
(* request but never strands it.                                           *)
(***************************************************************************)
EveryRequestEnds ==
  \A r \in Request : pc[r] \in Active ~> pc[r] \in {"done", "cancelled"}
=============================================================================
