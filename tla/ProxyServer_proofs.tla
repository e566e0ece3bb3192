-------------------------- MODULE ProxyServer_proofs --------------------------
(***************************************************************************)
(* What holds of the proxy for any number of requests, spans, seed lists   *)
(* and settings, and any number of evictions, prunings and restarts.       *)
(***************************************************************************)
EXTENDS ProxyServer, FiniteSetTheorems, WellFoundedInduction, TLAPS

Where == {"idle", "done", "cancelled"} \cup Active

Domains ==
  /\ pc \in [Request -> Where]
  /\ DOMAIN reply = Request
  /\ DOMAIN total = Request
  /\ DOMAIN engine = Request
  /\ stream \in [Request -> BOOLEAN]
  /\ DOMAIN trace \subseteq Request
  /\ lost \subseteq Request

(***************************************************************************)
(* A row or a logged loss exists exactly for the handlers that came to     *)
(* their end with an answer, and never both; no other has come to its end  *)
(* without an answer, and none had the engine at work before its call.     *)
(***************************************************************************)
RowsMatch ==
  \A r \in Request :
    /\ r \in DOMAIN trace \/ r \in lost => pc[r] = "done" /\ reply[r] = "ok"
    /\ ~(r \in DOMAIN trace /\ r \in lost)
    /\ pc[r] = "done" /\ reply[r] = "ok" => r \in DOMAIN trace \/ r \in lost
    /\ pc[r] = "done" => reply[r] # "none" /\ (reply[r] = "cut" => stream[r])
    /\ pc[r] = "done" /\ reply[r] = "500" => engine[r] = NoTotal
    /\ pc[r] \in {"idle", "lookup", "call"} => engine[r] = NoTotal

(***************************************************************************)
(* No handler has a hit count before it tails the log, and the one it has  *)
(* then, and in its row, is the engine's for this request.                 *)
(***************************************************************************)
TotalsOwn ==
  \A r \in Request :
    /\ pc[r] \in {"idle", "lookup", "call"} => total[r] = NoTotal
    /\ total[r] # NoTotal => total[r] = engine[r]
    /\ r \in DOMAIN trace => trace[r].total = total[r]

RInv == Domains /\ RowsMatch /\ TotalsOwn

LEMMA RowsInit == Init => RInv
  BY DEF Init, RInv, Domains, RowsMatch, TotalsOwn, Where

(***************************************************************************)
(* The ids of two completions differ, and none is an id the bridge made.   *)
(***************************************************************************)
LEMMA OnlyOwnLine == ASSUME NEW q, NEW r, IsTarget(q, r) PROVE q = r
  BY DEF IsTarget, EngineId, TargetId

LEMMA ArriveRows ==
  ASSUME NEW r \in Request, NEW p, NEW s \in BOOLEAN, RInv,
         Arrive(r, p, s) \/ ArriveFails(r, p, s)
  PROVE  RInv'
  BY DEF Arrive, ArriveFails, Accept, Request500, RInv, Domains, RowsMatch, TotalsOwn, Where, Active

LEMMA HandleRows == ASSUME NEW r \in Request, RInv, Handle(r) PROVE RInv'
<1> USE DEF RInv, Domains, RowsMatch, TotalsOwn, Where, Active
<1>1. ASSUME NEW s \in Span, LookupReply(r, s) PROVE RInv'
  BY <1>1 DEF LookupReply
<1>2. CASE RecordLookups(r)
  BY <1>2 DEF RecordLookups, Record
<1>10. CASE RecordFails(r)
  BY <1>10 DEF RecordFails, Record, Request500
<1>3. CASE EngineServe(r)
  BY <1>3 DEF EngineServe
<1>4. CASE BackendReply(r)
  BY <1>4 DEF BackendReply
<1>5. CASE BackendFail(r)
  BY <1>5 DEF BackendFail
<1>6. CASE TailFound(r)
  <2>1. PICK q \in visible : IsTarget(q, r) /\ total' = [total EXCEPT ![r] = engine[q]]
    BY <1>6 DEF TailFound
  <2>2. total' = [total EXCEPT ![r] = engine[r]]
    BY <2>1, OnlyOwnLine
  <2> QED BY <1>6, <2>2 DEF TailFound
<1>7. CASE TailTimeout(r)
  BY <1>7 DEF TailTimeout, AfterTimeout
<1>8. CASE WriteTrace(r)
  BY <1>8 DEF WriteTrace, Finish, RowOf
<1>9. CASE WriteFails(r)
  BY <1>9 DEF WriteFails, Finish
<1> QED BY <1>1, <1>2, <1>3, <1>4, <1>5, <1>6, <1>7, <1>8, <1>9, <1>10 DEF Handle

LEMMA EnvironmentRows == ASSUME RInv, Environment PROVE RInv'
<1> USE DEF RInv, Domains, RowsMatch, TotalsOwn, Where, Active
<1>1. ASSUME NEW r \in Request, Disconnect(r) PROVE RInv'
  BY <1>1 DEF Disconnect
<1>2. ASSUME NEW r \in Request, LineVisible(r) PROVE RInv'
  BY <1>2 DEF LineVisible, reqVars
<1>3. ASSUME NEW c \in Content, Evict(c) PROVE RInv'
  BY <1>3 DEF Evict, reqVars
<1>4. CASE Prune
  BY <1>4 DEF Prune, reqVars
<1>5. CASE Die
  BY <1>5 DEF Die
<1> QED BY <1>1, <1>2, <1>3, <1>4, <1>5 DEF Environment

LEMMA RowsStep == RInv /\ [Next]_vars => RInv'
<1> SUFFICES ASSUME RInv, [Next]_vars PROVE RInv' OBVIOUS
<1>1. CASE Startup
  BY <1>1 DEF Startup, Start, SeedRegister, SeedWarmup, SeedPin, reqVars,
              RInv, Domains, RowsMatch, TotalsOwn
<1>2. ASSUME NEW r \in Request, NEW p \in Prompts, NEW s \in BOOLEAN,
             Arrive(r, p, s) \/ ArriveFails(r, p, s)
      PROVE RInv'
  BY <1>2, ArriveRows
<1>3. ASSUME NEW r \in Request, Handle(r) PROVE RInv'
  BY <1>3, HandleRows
<1>4. CASE Environment
  BY <1>4, EnvironmentRows
<1>5. CASE UNCHANGED vars
  BY <1>5 DEF vars, reqVars, RInv, Domains, RowsMatch, TotalsOwn
<1> QED BY <1>1, <1>2, <1>3, <1>4, <1>5 DEF Next

(***************************************************************************)
(* A handler that ran to its end answered its client, and one row or one   *)
(* logged loss stands for every full answer of one that was not cancelled, *)
(* for any number of concurrent requests, failures, restarts and prunings. *)
(***************************************************************************)
THEOREM Traced == Spec => []AnsweredMeansTraced
<1>1. RInv => AnsweredMeansTraced
  BY DEF RInv, Domains, RowsMatch, AnsweredMeansTraced
<1> QED BY RowsInit, RowsStep, <1>1, PTL DEF Spec

(***************************************************************************)
(* A row's hit count is the engine's count for that very request.          *)
(***************************************************************************)
THEOREM OwnTotal == Spec => []EngineTotalIsOwn
<1>1. RInv => EngineTotalIsOwn
  BY DEF RInv, Domains, TotalsOwn, EngineTotalIsOwn
<1> QED BY RowsInit, RowsStep, <1>1, PTL DEF Spec

-----------------------------------------------------------------------------
(***************************************************************************)
(* The seeding loop has registered what lies behind it, unless it was      *)
(* pruned since; after a start nothing else can serve.                     *)
(***************************************************************************)
Seeded(i) == SeedList[i] \in DOMAIN registry \cup pruned

SeedingProgress ==
  /\ phase \in {"down", "seeding", "serving"}
  /\ phase = "seeding" =>
       /\ seedAt \in DOMAIN SeedList
       /\ \A i \in 1..(seedAt - 1) : Seeded(i)
       /\ seedPc # "register" => Seeded(seedAt)
SInv == SeedingProgress /\ SeededBeforeServing

LEMMA ListIsSequence == /\ Len(SeedList) \in Nat
                        /\ DOMAIN SeedList = 1..Len(SeedList)
                        /\ SeedList # <<>> => Len(SeedList) > 0
  BY ProxyAssumption

LEMMA SeedInit == Init => SInv
  BY DEF Init, SInv, SeedingProgress, SeededBeforeServing

LEMMA IterationEnds ==
  ASSUME SInv, phase = "seeding", seedPc # "register", NextSeed,
         UNCHANGED <<cfg, registry, pruned>>
  PROVE  SInv'
<1>1. PICK L \in Nat : L = Len(SeedList) /\ DOMAIN SeedList = 1..L
  BY ListIsSequence
<1>2. seedAt \in 1..L /\ \A i \in 1..seedAt : Seeded(i)
  BY <1>1 DEF SInv, SeedingProgress
<1>3. \A i \in 1..seedAt : Seeded(i)'
  BY <1>2 DEF Seeded
<1>4. CASE LastSeed
  BY <1>1, <1>2, <1>3, <1>4
     DEF LastSeed, NextSeed, SInv, SeedingProgress, SeededBeforeServing, Seeded
<1>5. CASE ~LastSeed
  <2>1. seedAt < L /\ seedAt' = seedAt + 1 /\ seedPc' = "register" /\ phase' = "seeding"
    BY <1>1, <1>2, <1>5 DEF LastSeed, NextSeed
  <2>2. seedAt' \in 1..L /\ 1..(seedAt' - 1) = 1..seedAt
    BY <1>2, <2>1
  <2> QED BY <1>1, <1>3, <2>1, <2>2 DEF SInv, SeedingProgress, SeededBeforeServing
<1> QED BY SMTT(40), <1>4, <1>5

LEMMA SeedStart == ASSUME SInv, Start PROVE SInv'
  BY ListIsSequence DEF SInv, SeedingProgress, SeededBeforeServing, Start, AfterStart, Seeded

LEMMA SeedRegisters == ASSUME SInv, SeedRegister PROVE SInv'
<1>1. DOMAIN registry' = DOMAIN registry \cup {Seed}
  BY DEF SeedRegister, Registered
<1> QED
  BY <1>1 DEF SInv, SeedingProgress, SeededBeforeServing, SeedRegister, Seed, Seeded

LEMMA SeedWarms == ASSUME SInv, SeedWarmup PROVE SInv'
<1>1. CASE cfg.lookup
  BY <1>1 DEF SInv, SeedingProgress, SeededBeforeServing, SeedWarmup, regVars, Seeded
<1>2. CASE ~cfg.lookup
  BY <1>2, IterationEnds DEF SeedWarmup, regVars
<1> QED BY <1>1, <1>2

LEMMA SeedPins == ASSUME SInv, SeedPin PROVE SInv'
  BY IterationEnds DEF SeedPin, regVars

(***************************************************************************)
(* No handler and no incident takes a span away but a pruning, which says  *)
(* so.                                                                     *)
(***************************************************************************)
LEMMA SeedKept ==
  ASSUME SInv, UNCHANGED <<cfg, seedVars>>, phase' \in {phase, "down"},
         DOMAIN registry \cup pruned \subseteq DOMAIN registry' \cup pruned'
  PROVE  SInv'
  BY DEF SInv, SeedingProgress, SeededBeforeServing, seedVars, Seeded

LEMMA SeedStep == SInv /\ [Next]_vars => SInv'
<1> SUFFICES ASSUME SInv, [Next]_vars PROVE SInv' OBVIOUS
<1>1. CASE Startup
  BY <1>1, SeedStart, SeedRegisters, SeedWarms, SeedPins DEF Startup
<1>2. ASSUME NEW r \in Request, NEW p \in Prompts, NEW s \in BOOLEAN,
             Arrive(r, p, s) \/ ArriveFails(r, p, s)
      PROVE SInv'
  BY <1>2, SeedKept DEF Arrive, ArriveFails, Accept, regVars
<1>3. ASSUME NEW r \in Request, Handle(r) PROVE SInv'
  <2>1. UNCHANGED <<cfg, phase, seedVars, pruned>> /\ DOMAIN registry' = DOMAIN registry
    BY <1>3 DEF Handle, LookupReply, RecordLookups, RecordFails, Record, Recorded, EngineServe, BackendReply,
       BackendFail, TailFound, TailTimeout, WriteTrace, WriteFails, Finish, regVars
  <2> QED BY <2>1, SeedKept
<1>4. CASE Environment
  <2>1. CASE Prune
    BY <2>1, SeedKept DEF Prune
  <2>2. CASE ~Prune
    <3>1. UNCHANGED <<cfg, seedVars, registry, pruned>> /\ phase' \in {phase, "down"}
      BY <1>4, <2>2 DEF Environment, Disconnect, LineVisible, Evict, Die, regVars
    <3> QED BY <3>1, SeedKept
  <2> QED BY <2>1, <2>2
<1>5. CASE UNCHANGED vars
  BY <1>5, SeedKept DEF vars, regVars, seedVars
<1> QED BY <1>1, <1>2, <1>3, <1>4, <1>5 DEF Next

(***************************************************************************)
(* Nothing is served before the seed lists are registered, whatever fails  *)
(* during a pre-seed and however often it is started again.                *)
(***************************************************************************)
THEOREM SeededFirst == Spec => []SeededBeforeServing
<1>1. SInv => SeededBeforeServing
  BY DEF SInv
<1> QED BY SeedInit, SeedStep, <1>1, PTL DEF Spec

-----------------------------------------------------------------------------
(***************************************************************************)
(* Induction over the natural numbers, for a set of them: without a least  *)
(* element outside, nothing is outside.                                    *)
(***************************************************************************)
LessThan == {p \in Nat \X Nat : p[1] < p[2]}

LEMMA Induct ==
  ASSUME NEW T \in SUBSET Nat, 0 \in T, \A k \in T : k + 1 \in T
  PROVE  T = Nat
<1> SUFFICES ASSUME Nat \ T # {} PROVE FALSE
  OBVIOUS
<1>1. IsWellFoundedOn(LessThan, Nat)
  BY NatLessThanWellFounded, Zenon DEF LessThan, OpToRel
<1>2. PICK n \in Nat \ T : \A m \in Nat \ T : ~(<<m, n>> \in LessThan)
  BY <1>1, WFMin
<1>3. n - 1 \in Nat /\ n - 1 < n
  BY <1>2
<1>4. n - 1 \in T
  BY <1>2, <1>3 DEF LessThan
<1> QED BY <1>2, <1>3, <1>4

-----------------------------------------------------------------------------
(***************************************************************************)
(* MapThenSumSet takes an element away and adds up the rest.  Its equation *)
(* has a solution for a finite set, and it does not matter which element   *)
(* is taken first.                                                         *)
(***************************************************************************)
Pick(s) == CHOOSE x \in s : TRUE
Rest(s) == s \ {Pick(s)}
Summand(g, f, s) == IF s = {} THEN 0 ELSE f[Pick(s)] + g[Rest(s)]
Adds(g, f, S) == \A s \in SUBSET S : g[s] = Summand(g, f, s)

LEMMA RestSmaller ==
  ASSUME NEW S, IsFiniteSet(S), NEW s \in SUBSET S, s # {}
  PROVE  /\ Pick(s) \in s /\ Rest(s) \in SUBSET S
         /\ Cardinality(s) \in Nat \ {0} /\ Cardinality(Rest(s)) = Cardinality(s) - 1
<1>1. Pick(s) \in s
  BY DEF Pick
<1>2. IsFiniteSet(s)
  BY FS_Subset
<1> QED BY <1>1, <1>2, FS_RemoveElement, FS_CardinalityType, FS_EmptySet DEF Rest

LEMMA SumExists ==
  ASSUME NEW f, NEW S, IsFiniteSet(S)
  PROVE  \E g : g = [s \in SUBSET S |-> Summand(g, f, s)]
<1> DEFINE Upto(g, k) ==
             /\ g = [s \in SUBSET S |-> g[s]]
             /\ \A s \in SUBSET S : Cardinality(s) <= k => g[s] = Summand(g, f, s)
           T == {k \in Nat : \E g : Upto(g, k)}
<1>0. \A s \in SUBSET S : IsFiniteSet(s) /\ Cardinality(s) \in Nat
  BY FS_Subset, FS_CardinalityType
<1>1. 0 \in T
  <2> DEFINE g == [s \in SUBSET S |-> 0]
  <2>1. \A s \in SUBSET S : Cardinality(s) <= 0 => s = {}
    BY <1>0, FS_EmptySet
  <2>2. Upto(g, 0)
    BY <2>1 DEF Summand
  <2> QED BY <2>2
<1>2. ASSUME NEW k \in T PROVE k + 1 \in T
  <2>1. PICK g : Upto(g, k)
    OBVIOUS
  <2> DEFINE g2 == [s \in SUBSET S |-> IF Cardinality(s) <= k THEN g[s] ELSE Summand(g, f, s)]
  <2>2. ASSUME NEW s \in SUBSET S, Cardinality(s) <= k + 1 PROVE g2[s] = Summand(g2, f, s)
    <3>1. CASE s = {}
      <4>1. Cardinality(s) <= k
        BY <3>1, FS_EmptySet
      <4> QED BY <2>1, <3>1, <4>1 DEF Summand
    <3>2. CASE s # {}
      <4>1. Rest(s) \in SUBSET S /\ Cardinality(Rest(s)) <= k
        BY <1>0, <2>2, <3>2, RestSmaller
      <4>2. g2[Rest(s)] = g[Rest(s)]
        BY <4>1
      <4>3. g2[s] = Summand(g, f, s)
        BY <2>1
      <4> QED BY <4>2, <4>3 DEF Summand
    <3> QED BY <3>1, <3>2
  <2>3. Upto(g2, k + 1)
    BY <2>2
  <2>4. k + 1 \in Nat
    OBVIOUS
  <2> HIDE DEF g2
  <2> QED BY <2>3, <2>4
<1>3. T = Nat
  <2>1. T \in SUBSET Nat
    OBVIOUS
  <2> HIDE DEF T
  <2> QED BY <1>1, <1>2, <2>1, Induct
<1>4. PICK g : Upto(g, Cardinality(S))
  BY <1>0, <1>3
<1>5. \A s \in SUBSET S : Cardinality(s) <= Cardinality(S)
  BY FS_Subset
<1>6. g = [s \in SUBSET S |-> Summand(g, f, s)]
  BY <1>4, <1>5
<1> QED BY <1>6

LEMMA SumAdds ==
  ASSUME NEW f, NEW S, IsFiniteSet(S)
  PROVE  \E g : Adds(g, f, S) /\ SumOver(f, S) = g[S]
<1> DEFINE iter == CHOOSE g : g = [s \in SUBSET S |-> Summand(g, f, s)]
<1>1. SumOver(f, S) = iter[S]
  BY DEF SumOver, MapThenSumSet, MapThenFoldSet, Summand, Pick, Rest
<1>2. iter = [s \in SUBSET S |-> Summand(iter, f, s)]
  BY SumExists
<1>3. Adds(iter, f, S)
  BY <1>2 DEF Adds
<1> QED BY <1>1, <1>3

LEMMA AnyFirst ==
  ASSUME NEW g, NEW f, NEW S, IsFiniteSet(S), Adds(g, f, S), \A x \in S : f[x] \in Nat
  PROVE  \A s \in SUBSET S : g[s] \in Nat /\ \A y \in s : g[s] = f[y] + g[s \ {y}]
<1> DEFINE Good(s) == g[s] \in Nat /\ \A y \in s : g[s] = f[y] + g[s \ {y}]
           T == {k \in Nat : \A s \in SUBSET S : Cardinality(s) <= k => Good(s)}
<1>0. \A s \in SUBSET S : IsFiniteSet(s) /\ Cardinality(s) \in Nat
  BY FS_Subset, FS_CardinalityType
<1>1. 0 \in T
  <2>1. ASSUME NEW s \in SUBSET S, Cardinality(s) <= 0 PROVE Good(s)
    <3>1. s = {}
      BY <1>0, <2>1, FS_EmptySet
    <3> QED BY <3>1 DEF Adds, Summand
  <2> QED BY <2>1
<1>2. ASSUME NEW k \in T PROVE k + 1 \in T
  <2>0. k \in Nat
    OBVIOUS
  <2>1. ASSUME NEW s \in SUBSET S, Cardinality(s) <= k + 1 PROVE Good(s)
    <3> DEFINE x == Pick(s)
    <3>1. CASE s = {}
      <4>1. s = {} /\ g[s] = Summand(g, f, s)
        BY <3>1 DEF Adds
      <4> HIDE DEF T
      <4> QED BY <4>1 DEF Summand
    <3>2. CASE s # {}
      <4>1. x \in s
        BY <3>2, RestSmaller
      <4>2. ASSUME NEW y \in s
            PROVE  s \ {y} \in SUBSET S /\ Cardinality(s \ {y}) \in Nat /\ Cardinality(s \ {y}) <= k
        <5>1. Cardinality(s \ {y}) = Cardinality(s) - 1
          BY <1>0, FS_RemoveElement
        <5> QED BY <1>0, <2>0, <2>1, <5>1
      <4>3. ASSUME NEW y \in s, NEW z \in s
            PROVE  (s \ {y}) \ {z} \in SUBSET S /\ Cardinality((s \ {y}) \ {z}) <= k
        <5>1. Cardinality((s \ {y}) \ {z}) \in Nat
              /\ Cardinality((s \ {y}) \ {z}) <= Cardinality(s \ {y})
          BY <1>0, <4>2, FS_Subset, FS_CardinalityType
        <5> QED BY <2>0, <4>2, <5>1
      <4>4. \A u \in SUBSET S : Cardinality(u) <= k => Good(u)
        OBVIOUS
      <4> HIDE DEF T
      <4>5. g[s] = f[x] + g[s \ {x}]
        BY <3>2 DEF Adds, Summand, Rest
      <4>6. \A y \in s : f[y] \in Nat /\ g[s \ {y}] \in Nat
        BY <4>2, <4>4
      <4>7. g[s] \in Nat
        BY <4>1, <4>5, <4>6
      <4>8. ASSUME NEW y \in s, y # x PROVE g[s] = f[y] + g[s \ {y}]
        <5> DEFINE u == (s \ {x}) \ {y}
        <5>1. g[s \ {x}] = f[y] + g[u]
          BY <4>1, <4>2, <4>4, <4>8
        <5>2. u = (s \ {y}) \ {x}
          OBVIOUS
        <5>3. g[s \ {y}] = f[x] + g[u]
          BY <4>1, <4>2, <4>4, <4>8, <5>2
        <5>4. g[u] \in Nat
          BY <4>1, <4>3, <4>4
        <5> HIDE DEF u
        <5> QED BY <4>1, <4>5, <4>6, <5>1, <5>3, <5>4
      <4> QED BY <4>5, <4>7, <4>8
    <3> QED BY <3>1, <3>2
  <2> QED BY <2>0, <2>1
<1>3. T \in SUBSET Nat
  OBVIOUS
<1>4. T = Nat
  <2> HIDE DEF T
  <2> QED BY <1>1, <1>2, <1>3, Induct
<1>5. ASSUME NEW s \in SUBSET S PROVE Good(s)
  BY <1>0, <1>4
<1> QED BY <1>5

LEMMA TakeOut ==
  ASSUME NEW g, NEW f, NEW S, IsFiniteSet(S), Adds(g, f, S), \A y \in S : f[y] \in Nat,
         NEW x \in S
  PROVE  g[S] = f[x] + g[S \ {x}] /\ g[S] \in Nat /\ g[S \ {x}] \in Nat
<1>1. \A s \in SUBSET S : g[s] \in Nat /\ \A y \in s : g[s] = f[y] + g[s \ {y}]
  BY AnyFirst
<1>2. S \in SUBSET S /\ S \ {x} \in SUBSET S
  OBVIOUS
<1> QED BY <1>1, <1>2

LEMMA SameSum ==
  ASSUME NEW f, NEW g, NEW e, NEW d, NEW S, NEW U, S \subseteq U, IsFiniteSet(S),
         Adds(g, f, S), Adds(d, e, U), \A x \in S : f[x] = e[x]
  PROVE  g[S] = d[S]
<1> DEFINE T == {k \in Nat : \A s \in SUBSET S : Cardinality(s) = k => g[s] = d[s]}
<1>0. \A s \in SUBSET S : IsFiniteSet(s) /\ Cardinality(s) \in Nat
  BY FS_Subset, FS_CardinalityType
<1>1. 0 \in T
  <2>1. \A s \in SUBSET S : Cardinality(s) = 0 => s = {}
    BY <1>0, FS_EmptySet
  <2> QED BY <2>1 DEF Adds, Summand
<1>2. ASSUME NEW k \in T PROVE k + 1 \in T
  <2>1. ASSUME NEW s \in SUBSET S, Cardinality(s) = k + 1 PROVE g[s] = d[s]
    <3>1. s # {}
      BY <2>1, FS_EmptySet
    <3>2. Pick(s) \in S /\ Rest(s) \in SUBSET S /\ Cardinality(Rest(s)) = k
      BY <2>1, <3>1, RestSmaller
    <3>3. g[Rest(s)] = d[Rest(s)]
      BY <3>2
    <3>4. s \in SUBSET U
      OBVIOUS
    <3> QED BY <3>1, <3>2, <3>3, <3>4 DEF Adds, Summand
  <2> QED BY <2>1
<1>3. T = Nat
  <2>1. T \in SUBSET Nat
    OBVIOUS
  <2> HIDE DEF T
  <2> QED BY <1>1, <1>2, <2>1, Induct
<1> QED BY <1>0, <1>3

LEMMA SumEmpty == ASSUME NEW f PROVE SumOver(f, {}) = 0
<1>1. PICK g : Adds(g, f, {}) /\ SumOver(f, {}) = g[{}]
  BY SumAdds, FS_EmptySet
<1> QED BY <1>1 DEF Adds, Summand

LEMMA SumNat ==
  ASSUME NEW f, NEW S, IsFiniteSet(S), \A x \in S : f[x] \in Nat
  PROVE  SumOver(f, S) \in Nat
<1>1. PICK g : Adds(g, f, S) /\ SumOver(f, S) = g[S]
  BY SumAdds
<1> QED BY <1>1, AnyFirst

LEMMA SumOneMore ==
  ASSUME NEW f, NEW e, NEW S, IsFiniteSet(S), NEW x, x \notin S,
         \A y \in S \cup {x} : f[y] \in Nat, \A y \in S : f[y] = e[y]
  PROVE  SumOver(f, S \cup {x}) = SumOver(e, S) + f[x]
<1> DEFINE U == S \cup {x}
<1>1. IsFiniteSet(U) /\ S \subseteq U /\ U \ {x} = S /\ x \in U
  BY FS_AddElement
<1> HIDE DEF U
<1>2. PICK g : Adds(g, f, U) /\ SumOver(f, U) = g[U]
  BY <1>1, SumAdds
<1>3. PICK d : Adds(d, e, S) /\ SumOver(e, S) = d[S]
  BY SumAdds
<1>4. \A y \in U : f[y] \in Nat
  BY DEF U
<1>5. g[U] = f[x] + g[S] /\ g[S] \in Nat
  BY <1>1, <1>2, <1>4, TakeOut
<1>6. g[S] = d[S]
  BY <1>1, <1>2, <1>3, SameSum
<1>7. SumOver(f, U) = SumOver(e, S) + f[x]
  BY <1>1, <1>2, <1>3, <1>4, <1>5, <1>6
<1> QED BY <1>7 DEF U

LEMMA SumEqual ==
  ASSUME NEW f, NEW e, NEW S, IsFiniteSet(S), \A y \in S : f[y] = e[y]
  PROVE  SumOver(f, S) = SumOver(e, S)
<1>1. PICK g : Adds(g, f, S) /\ SumOver(f, S) = g[S]
  BY SumAdds
<1>2. PICK d : Adds(d, e, S) /\ SumOver(e, S) = d[S]
  BY SumAdds
<1> QED BY <1>1, <1>2, SameSum
-----------------------------------------------------------------------------
(***************************************************************************)
(* Max of a finite set of numbers is one of them.                          *)
(***************************************************************************)
LEMMA MaxOfFinite ==
  ASSUME NEW S \in SUBSET Nat, IsFiniteSet(S), S # {}
  PROVE  Max(S) \in Nat /\ Max(S) \in S
<1> DEFINE Top(s) == \E m \in s : \A y \in s : m >= y
           T == {k \in Nat : \A s \in SUBSET S : s # {} /\ Cardinality(s) <= k => Top(s)}
<1>0. \A s \in SUBSET S : IsFiniteSet(s) /\ Cardinality(s) \in Nat
  BY FS_Subset, FS_CardinalityType
<1>1. 0 \in T
  BY <1>0, FS_EmptySet
<1>2. ASSUME NEW k \in T PROVE k + 1 \in T
  <2>1. ASSUME NEW s \in SUBSET S, s # {}, Cardinality(s) <= k + 1 PROVE Top(s)
    <3>1. PICK x \in s : TRUE
      BY <2>1
    <3>2. s \ {x} \in SUBSET S /\ Cardinality(s \ {x}) <= k
      BY <1>0, <2>1, FS_RemoveElement
    <3>3. CASE s \ {x} = {}
      <4>1. \A y \in s : x >= y
        BY <3>3
      <4> QED BY <4>1
    <3>4. CASE s \ {x} # {}
      <4>1. PICK m \in s \ {x} : \A y \in s \ {x} : m >= y
        BY <3>2, <3>4
      <4>2. m \in Nat /\ x \in Nat /\ \A y \in s : y = x \/ m >= y
        BY <4>1
      <4>3. CASE m >= x
        BY <4>1, <4>2, <4>3
      <4>4. CASE x > m
        <5>1. \A y \in s : x >= y
          BY <4>2, <4>4
        <5> QED BY <5>1
      <4> QED BY <4>2, <4>3, <4>4
    <3> QED BY <3>3, <3>4
  <2> QED BY <2>1
<1>3. T = Nat
  <2>1. T \in SUBSET Nat
    OBVIOUS
  <2> HIDE DEF T
  <2> QED BY <1>1, <1>2, <2>1, Induct
<1>4. Top(S)
  BY <1>0, <1>3
<1> QED BY <1>4 DEF Max

LEMMA LeastOfPair == ASSUME NEW a \in Nat, NEW b \in Nat PROVE Min({a, b}) \in Nat
<1>1. \E x \in {a, b} : \A y \in {a, b} : x =< y
  OBVIOUS
<1> QED BY <1>1 DEF Min

LEMMA MaxOfPair == ASSUME NEW a \in Nat, NEW b \in Nat PROVE Max({a, b}) \in Nat
<1>1. \E x \in {a, b} : \A y \in {a, b} : x >= y
  OBVIOUS
<1> QED BY <1>1 DEF Max

(***************************************************************************)
(* There are finitely many contents, and each has a whole that some span   *)
(* covers.                                                                 *)
(***************************************************************************)
LEMMA ContentFinite == IsFiniteSet(Content)
<1>1. ContentOf \in Surjection(Span, Content)
  BY ProxyAssumption DEF Surjection, Content
<1> QED BY <1>1, ProxyAssumption, FS_Surjection

LEMMA FullSizeNat == ASSUME NEW c \in Content PROVE FullSize(c) \in Nat
<1> DEFINE P == {x \in Span : ContentOf[x] = c}
           Z == {Size[s] : s \in P}
           f == [s \in P |-> Size[s]]
<1>1. IsFiniteSet(P)
  BY ProxyAssumption, FS_Subset
<1>2. f \in Surjection(P, Z)
  BY DEF Surjection
<1>3. IsFiniteSet(Z)
  BY <1>1, <1>2, FS_Surjection
<1>4. Z \in SUBSET Nat /\ Z # {}
  <2>1. PICK s \in Span : c = ContentOf[s]
    BY DEF Content
  <2>2. s \in P
    BY <2>1
  <2> QED BY ZenonT(60), <2>2, ProxyAssumption
<1> HIDE DEF Z
<1>5. Max(Z) \in Nat
  BY <1>3, <1>4, MaxOfFinite
<1> QED BY <1>5 DEF FullSize, Z

-----------------------------------------------------------------------------
(***************************************************************************)
(* Every answered lookup has a number of hit tokens.                       *)
(***************************************************************************)
Answers ==
  /\ DOMAIN res = Request
  /\ \A r \in Request : \A s \in DOMAIN res[r] : res[r][s] \in Nat

TInv == TypeOK /\ Answers

LEMMA TypeInit == Init => TInv
  BY ListIsSequence DEF Init, TInv, TypeOK, Answers, Active, NoTotal

LEMMA TypeArrive ==
  ASSUME NEW r \in Request, NEW p \in Prompts, NEW s \in BOOLEAN, TInv,
         Arrive(r, p, s) \/ ArriveFails(r, p, s)
  PROVE  TInv'
<1>1. p \in SUBSET Content
  BY ProxyAssumption
<1>2. Spans(p) \in SUBSET Span
  BY DEF TInv, TypeOK, Spans, SpansReferencedBy
<1> QED
  BY <1>1, <1>2 DEF TInv, TypeOK, Answers, Arrive, ArriveFails, Accept, Request500, Active, seedVars, regVars, envVars

LEMMA TypeSeed == ASSUME TInv, Startup, SInv' PROVE TInv'
<1>1. phase' \in {"down", "seeding", "serving"} /\ (phase' = "seeding" => seedAt' \in DOMAIN SeedList)
  BY DEF SInv, SeedingProgress
<1>2. CASE Start
  BY <1>1, <1>2 DEF Start, TInv, TypeOK, Answers, envVars, reqVars
<1>3. ASSUME phase = "seeding" PROVE Seed \in Span /\ ContentOf[Seed] \in Content /\ Size[Seed] \in Nat
  BY <1>3, ProxyAssumption, ListIsSequence DEF TInv, TypeOK, Seed, Content
<1>4. CASE SeedRegister
  <2>1. /\ registry' = Registered(Seed) /\ seedPc' = "warmup" /\ Seed \in Span
        /\ UNCHANGED <<envVars, reqVars>>
    BY <1>3, <1>4 DEF SeedRegister
  <2>2. /\ DOMAIN registry' \subseteq Span
        /\ \A s \in DOMAIN registry' : registry'[s] \in [hits : Nat, total : Nat]
    BY <2>1 DEF TInv, TypeOK, Registered, Fresh
  <2> QED BY <1>1, <2>1, <2>2 DEF TInv, TypeOK, Answers, envVars, reqVars
<1>5. CASE SeedWarmup
  <2>1. Hold(ContentOf[Seed], Size[Seed]) \in [Content -> Nat]
    BY <1>3, <1>5, MaxOfPair DEF SeedWarmup, Hold, TInv, TypeOK
  <2>2. /\ kv' \in [Content -> Nat] /\ seedPc' \in {"register", "warmup", "pin"}
        /\ UNCHANGED <<regVars, pinned, visible, reqVars>>
    BY <1>5, <2>1 DEF SeedWarmup, NextSeed, TInv, TypeOK
  <2> QED BY <1>1, <2>2 DEF TInv, TypeOK, Answers, regVars, reqVars
<1>6. CASE SeedPin
  <2>1. /\ pinned' \subseteq Content /\ seedPc' \in {"register", "warmup", "pin"}
        /\ UNCHANGED <<regVars, kv, visible, reqVars>>
    BY <1>3, <1>6 DEF SeedPin, NextSeed, TInv, TypeOK
  <2> QED BY <1>1, <2>1 DEF TInv, TypeOK, Answers, regVars, reqVars
<1> QED BY <1>2, <1>4, <1>5, <1>6 DEF Startup

(***************************************************************************)
(* The steps of a handler that leave the span registry and the cache alone *)
(* change one field of one request.                                        *)
(***************************************************************************)
LEMMA TypeHandle == ASSUME NEW r \in Request, TInv, Handle(r) PROVE TInv'
<1>1. ASSUME NEW s \in Span, LookupReply(r, s) PROVE TInv'
  <2>1. s \in Span /\ kv[ContentOf[s]] \in Nat /\ Size[s] \in Nat
    BY ProxyAssumption DEF TInv, TypeOK, Content
  <2>2. PICK h \in {0, Min({kv[ContentOf[s]], Size[s]})} :
          res' = [res EXCEPT ![r] = [x \in DOMAIN @ \cup {s} |-> IF x = s THEN h ELSE @[x]]]
    BY <1>1 DEF LookupReply
  <2>3. h \in Nat
    BY <2>1, LeastOfPair
  <2>4. Answers' /\ \A q \in Request : DOMAIN res'[q] \subseteq Span
    BY <2>2, <2>3 DEF TInv, TypeOK, Answers
  <2>5. waiting' \in [Request -> SUBSET Span]
    BY <1>1 DEF LookupReply, TInv, TypeOK
  <2> QED BY <1>1, <2>4, <2>5 DEF LookupReply, TInv, TypeOK, seedVars, regVars, envVars
<1>2. ASSUME NEW S \in SUBSET DOMAIN res[r], Record(r, S)
      PROVE  /\ DOMAIN registry' \subseteq Span
             /\ \A s \in DOMAIN registry' : registry'[s] \in [hits : Nat, total : Nat]
  <2>1. registry' = Recorded(r, S) /\ DOMAIN registry' = DOMAIN registry
    BY <1>2 DEF Record, Recorded
  <2>2. ASSUME NEW s \in DOMAIN registry PROVE registry'[s] \in [hits : Nat, total : Nat]
    <3>1. registry[s] \in [hits : Nat, total : Nat]
      BY DEF TInv, TypeOK
    <3>2. s \in S => res[r][s] \in Nat
      BY DEF TInv, Answers
    <3> QED BY <2>1, <3>1, <3>2 DEF Recorded
  <2> QED BY <2>1, <2>2 DEF TInv, TypeOK
<1>11. CASE RecordLookups(r)
  <2>1. Record(r, DOMAIN res[r])
    BY <1>11 DEF RecordLookups
  <2> QED BY <1>2, <1>11, <2>1
          DEF RecordLookups, Record, TInv, TypeOK, Answers, Active, seedVars, envVars
<1>10. CASE RecordFails(r)
  <2>1. PICK S \in SUBSET DOMAIN res[r] : Record(r, S)
    BY <1>10 DEF RecordFails
  <2> QED BY <1>2, <1>10, <2>1
          DEF RecordFails, Request500, Record, TInv, TypeOK, Answers, Active, seedVars, envVars
<1>3. CASE EngineServe(r)
  <2>1. prompt[r] \subseteq Content /\ IsFiniteSet(prompt[r])
    BY ContentFinite, FS_Subset DEF TInv, TypeOK
  <2>2. EngineHits(r) \in Nat
    BY <2>1, SumNat DEF EngineHits, TInv, TypeOK
  <2>3. kv' \in [Content -> Nat]
    BY <1>3, FullSizeNat DEF EngineServe, TInv, TypeOK
  <2>4. engine' \in [Request -> Nat \cup {NoTotal}]
    BY <1>3, <2>2 DEF EngineServe, TInv, TypeOK
  <2> QED BY <1>3, <2>3, <2>4 DEF EngineServe, TInv, TypeOK, Answers, Active, seedVars, regVars
<1>4. CASE BackendReply(r)
  BY <1>4 DEF BackendReply, TInv, TypeOK, Answers, Active, seedVars, regVars, envVars
<1>5. CASE BackendFail(r)
  BY <1>5 DEF BackendFail, TInv, TypeOK, Answers, Active, seedVars, regVars, envVars
<1>6. CASE TailFound(r)
  <2>1. total' \in [Request -> Nat \cup {NoTotal}]
    BY <1>6 DEF TailFound, TInv, TypeOK
  <2> QED BY <1>6, <2>1 DEF TailFound, TInv, TypeOK, Answers, Active, seedVars, regVars, envVars
<1>7. CASE TailTimeout(r)
  BY <1>7 DEF TailTimeout, AfterTimeout, TInv, TypeOK, Answers, Active, seedVars, regVars, envVars
<1>8. CASE WriteTrace(r)
  BY <1>8 DEF WriteTrace, Finish, TInv, TypeOK, Answers, Active, seedVars, regVars, envVars
<1>9. CASE WriteFails(r)
  BY <1>9 DEF WriteFails, Finish, TInv, TypeOK, Answers, Active, seedVars, regVars, envVars
<1> QED BY <1>1, <1>11, <1>3, <1>4, <1>5, <1>6, <1>7, <1>8, <1>9, <1>10 DEF Handle

LEMMA TypeEnvironment == ASSUME TInv, Environment PROVE TInv'
<1>1. ASSUME NEW r \in Request, Disconnect(r) PROVE TInv'
  BY <1>1 DEF Disconnect, TInv, TypeOK, Answers, Active, seedVars, regVars, envVars
<1>2. ASSUME NEW r \in Request, LineVisible(r) PROVE TInv'
  BY <1>2 DEF LineVisible, TInv, TypeOK, Answers, seedVars, regVars, reqVars
<1>3. ASSUME NEW c \in Content, Evict(c) PROVE TInv'
  BY <1>3 DEF Evict, TInv, TypeOK, Answers, seedVars, regVars, reqVars
<1>4. CASE Prune
  BY <1>4 DEF Prune, TInv, TypeOK, Answers, seedVars, reqVars
<1>5. CASE Die
  BY <1>5 DEF Die, TInv, TypeOK, Answers, Active, seedVars, regVars
<1> QED BY <1>1, <1>2, <1>3, <1>4, <1>5 DEF Environment

LEMMA TypeStep == TInv /\ SInv' /\ [Next]_vars => TInv'
<1> SUFFICES ASSUME TInv, SInv', [Next]_vars PROVE TInv' OBVIOUS
<1>1. CASE Startup
  BY <1>1, TypeSeed
<1>2. ASSUME NEW r \in Request, NEW p \in Prompts, NEW s \in BOOLEAN,
             Arrive(r, p, s) \/ ArriveFails(r, p, s)
      PROVE TInv'
  BY <1>2, TypeArrive
<1>3. ASSUME NEW r \in Request, Handle(r) PROVE TInv'
  BY <1>3, TypeHandle
<1>4. CASE Environment
  BY <1>4, TypeEnvironment
<1>5. CASE UNCHANGED vars
  BY <1>5 DEF vars, seedVars, regVars, envVars, reqVars, TInv, TypeOK, Answers
<1> QED BY <1>1, <1>2, <1>3, <1>4, <1>5 DEF Next

(***************************************************************************)
(* The types of the proxy's state, for any number of requests and spans:   *)
(* what the engine holds and reports and what the counters add up to are   *)
(* numbers, and the seeding loop never runs past its list.                 *)
(***************************************************************************)
THEOREM Typed == Spec => []TypeOK
<1>1. TInv => TypeOK
  BY DEF TInv
<1> QED BY SeedInit, SeedStep, TypeInit, TypeStep, <1>1, PTL DEF Spec

-----------------------------------------------------------------------------
(***************************************************************************)
(* A recorded lookup belongs to a registered span and to a handler that    *)
(* has the answer and is past its lookups, so that it cannot be recorded a *)
(* second time and its answer no longer changes.                           *)
(***************************************************************************)
RecordedOnce ==
  \A x \in counted :
    /\ x[1] \in Request /\ x[2] \in DOMAIN registry
    /\ x[2] \in DOMAIN res[x[1]]
    /\ pc[x[1]] \notin {"idle", "lookup"}

FinitelyCounted == \A s \in DOMAIN registry : IsFiniteSet(Counted(s))

CInv == RecordedOnce /\ FinitelyCounted /\ CountersExact

LEMMA CountInit == Init => CInv
  BY DEF Init, CInv, RecordedOnce, FinitelyCounted, CountersExact, LookupsCounted, HitsSummed

(***************************************************************************)
(* The hits of the lookups counted for a span.                             *)
(***************************************************************************)
LEMMA HitsNat ==
  ASSUME TInv, CInv, NEW s \in DOMAIN registry
  PROVE  \A x \in Counted(s) : HitsOf(s)[x] \in Nat
  BY DEF TInv, Answers, CInv, RecordedOnce, HitsOf, Counted

(***************************************************************************)
(* A step that leaves the counters alone, lets no handler go back and      *)
(* changes no answer of a handler past its lookups.                        *)
(***************************************************************************)
LEMMA CountKept ==
  ASSUME CInv, UNCHANGED <<registry, counted>>,
         \A r \in Request : pc[r] \notin {"idle", "lookup"} =>
                              pc'[r] \notin {"idle", "lookup"} /\ res'[r] = res[r]
  PROVE  CInv'
<1>1. \A x \in counted : x[1] \in Request /\ res'[x[1]] = res[x[1]]
  BY DEF CInv, RecordedOnce
<1>2. \A s \in DOMAIN registry : Counted(s)' = Counted(s) /\ HitsOf(s)' = HitsOf(s)
  BY <1>1 DEF Counted, HitsOf
<1>3. RecordedOnce'
  BY <1>1 DEF CInv, RecordedOnce
<1> QED
  BY <1>2, <1>3 DEF CInv, FinitelyCounted, CountersExact, LookupsCounted, HitsSummed

LEMMA CountSeed == ASSUME CInv, Startup PROVE CInv'
<1>1. CASE SeedRegister
  <2>1. UNCHANGED <<pc, res, counted>> /\ registry' = Registered(Seed)
    BY <1>1 DEF SeedRegister, reqVars
  <2>2. ASSUME NEW s \in DOMAIN registry'
        PROVE  /\ IsFiniteSet(Counted(s)')
               /\ registry'[s].total = Cardinality(Counted(s)')
               /\ registry'[s].hits = SumOver(HitsOf(s)', Counted(s)')
    <3>1. Counted(s)' = Counted(s) /\ HitsOf(s)' = HitsOf(s)
      BY <2>1 DEF Counted, HitsOf
    <3>2. CASE s \in DOMAIN registry
      BY <2>1, <3>1, <3>2
         DEF Registered, CInv, FinitelyCounted, CountersExact, LookupsCounted, HitsSummed
    <3>3. CASE s \notin DOMAIN registry
      <4>1. Counted(s) = {}
        BY <3>3 DEF CInv, RecordedOnce, Counted
      <4>2. registry'[s] = Fresh
        BY <2>1, <3>3 DEF Registered
      <4> QED BY <3>1, <4>1, <4>2, FS_EmptySet, SumEmpty DEF Fresh
    <3> QED BY <3>2, <3>3
  <2>3. RecordedOnce'
    BY <2>1 DEF CInv, RecordedOnce, Registered
  <2> QED
    BY <2>2, <2>3 DEF CInv, FinitelyCounted, CountersExact, LookupsCounted, HitsSummed
<1>2. CASE ~SeedRegister
  <2>1. UNCHANGED <<pc, res, registry, counted>>
    BY <1>2 DEF Startup, Start, SeedWarmup, SeedPin, reqVars, regVars
  <2> QED BY <2>1, CountKept DEF CInv
<1> QED BY <1>1, <1>2

LEMMA CountRecord ==
  ASSUME NEW r \in Request, TInv, CInv, NEW S \in SUBSET DOMAIN res[r], Record(r, S),
         NEW place \in {"call", "done"}, pc' = [pc EXCEPT ![r] = place]
  PROVE  CInv'
<1> DEFINE N == S \cap DOMAIN registry
<1>1. /\ pc[r] = "lookup" /\ UNCHANGED res
      /\ registry' = Recorded(r, S) /\ DOMAIN registry' = DOMAIN registry
      /\ counted' = counted \cup {<<r, s>> : s \in N}
  BY DEF Record, Recorded
<1>2. ASSUME NEW s \in DOMAIN registry
      PROVE  /\ IsFiniteSet(Counted(s)')
             /\ registry'[s].total = Cardinality(Counted(s)')
             /\ registry'[s].hits = SumOver(HitsOf(s)', Counted(s)')
  <2>1. /\ IsFiniteSet(Counted(s)) /\ registry[s].total = Cardinality(Counted(s))
        /\ registry[s].hits = SumOver(HitsOf(s), Counted(s))
    BY DEF CInv, FinitelyCounted, CountersExact, LookupsCounted, HitsSummed
  <2>2. CASE s \in N
    <3>1. Counted(s)' = Counted(s) \cup {<<r, s>>}
      BY <1>1, <2>2 DEF Counted
    <3>2. <<r, s>> \notin Counted(s)
      BY <1>1 DEF CInv, RecordedOnce, Counted
    <3>3. /\ registry'[s].total = registry[s].total + 1
          /\ registry'[s].hits = registry[s].hits + res[r][s]
      BY <1>1, <2>2 DEF Recorded
    <3>4. HitsOf(s)' = [x \in Counted(s) \cup {<<r, s>>} |-> res[x[1]][s]]
      BY <1>1, <3>1 DEF HitsOf
    <3>5. HitsOf(s)'[<<r, s>>] = res[r][s] /\ res[r][s] \in Nat
      BY <2>2, <3>4 DEF TInv, Answers
    <3>6. \A x \in Counted(s) : HitsOf(s)'[x] = HitsOf(s)[x]
      BY <3>4 DEF HitsOf
    <3>7. \A x \in Counted(s) \cup {<<r, s>>} : HitsOf(s)'[x] \in Nat
      BY <3>5, <3>6, HitsNat
    <3>8. SumOver(HitsOf(s)', Counted(s)') = SumOver(HitsOf(s), Counted(s)) + res[r][s]
      BY <2>1, <3>1, <3>2, <3>5, <3>6, <3>7, SumOneMore
    <3>9. IsFiniteSet(Counted(s)') /\ Cardinality(Counted(s)') = Cardinality(Counted(s)) + 1
      BY SMTT(40), <2>1, <3>1, <3>2, FS_AddElement
    <3> QED BY <2>1, <3>3, <3>8, <3>9
  <2>3. CASE s \notin N
    <3>1. Counted(s)' = Counted(s) /\ HitsOf(s)' = HitsOf(s)
      BY <1>1, <2>3 DEF Counted, HitsOf
    <3>2. registry'[s] = registry[s]
      BY <1>1, <2>3 DEF Recorded
    <3> QED BY <2>1, <3>1, <3>2
  <2> QED BY <2>2, <2>3
<1>3. RecordedOnce'
  BY <1>1 DEF CInv, RecordedOnce, TInv, TypeOK
<1> QED
  BY <1>1, <1>2, <1>3 DEF CInv, FinitelyCounted, CountersExact, LookupsCounted, HitsSummed

LEMMA CountPrune == ASSUME CInv, Prune PROVE CInv'
<1>1. PICK old \in SUBSET DOMAIN registry :
        /\ registry' = [s \in DOMAIN registry \ old |-> registry[s]]
        /\ counted' = {x \in counted : x[2] \notin old}
  BY DEF Prune
<1>2. UNCHANGED <<pc, res>>
  BY DEF Prune, reqVars
<1>3. \A s \in DOMAIN registry' :
        Counted(s)' = Counted(s) /\ HitsOf(s)' = HitsOf(s) /\ registry'[s] = registry[s]
  BY <1>1, <1>2 DEF Counted, HitsOf
<1>4. RecordedOnce'
  BY <1>1, <1>2 DEF CInv, RecordedOnce
<1> QED
  BY <1>1, <1>3, <1>4 DEF CInv, FinitelyCounted, CountersExact, LookupsCounted, HitsSummed

LEMMA CountStep == TInv /\ CInv /\ [Next]_vars => CInv'
<1> SUFFICES ASSUME TInv, CInv, [Next]_vars PROVE CInv' OBVIOUS
<1>0. pc \in [Request -> Where]
  BY DEF TInv, TypeOK, Where
<1>1. CASE Startup
  BY <1>1, CountSeed
<1>2. ASSUME NEW r \in Request, NEW p \in Prompts, NEW s \in BOOLEAN,
             Arrive(r, p, s) \/ ArriveFails(r, p, s)
      PROVE CInv'
  BY <1>0, <1>2, CountKept DEF Arrive, ArriveFails, Accept, Request500, regVars
<1>3. ASSUME NEW r \in Request, Handle(r) PROVE CInv'
  <2>1. CASE RecordLookups(r)
    BY <2>1, CountRecord DEF RecordLookups
  <2>4. CASE RecordFails(r)
    BY <2>4, CountRecord DEF RecordFails, Request500
  <2>2. ASSUME NEW s \in Span, LookupReply(r, s) PROVE CInv'
    <3>1. UNCHANGED <<registry, counted, pc>> /\ pc[r] = "lookup"
      BY <2>2 DEF LookupReply, regVars
    <3>2. \A q \in Request : q # r => res'[q] = res[q]
      BY <2>2 DEF LookupReply, TInv, Answers
    <3> QED BY <3>1, <3>2, CountKept
  <2>3. CASE ~RecordLookups(r) /\ ~RecordFails(r) /\ ~\E s \in Span : LookupReply(r, s)
    <3>1. UNCHANGED <<registry, counted, res>>
      BY <1>3, <2>3 DEF Handle, EngineServe, BackendReply, BackendFail,
         TailFound, TailTimeout, WriteTrace, WriteFails, Finish, regVars
    <3>2. \E place \in {"served", "tail", "write", "done"} : pc' = [pc EXCEPT ![r] = place]
      BY <1>3, <2>3 DEF Handle, EngineServe, BackendReply, BackendFail,
         TailFound, TailTimeout, AfterTimeout, WriteTrace, WriteFails, Finish
    <3> QED BY <1>0, <3>1, <3>2, CountKept
  <2> QED BY <2>1, <2>2, <2>3, <2>4
<1>4. CASE Environment
  <2>1. CASE Prune
    BY <2>1, CountPrune
  <2>2. CASE Die
    BY <1>0, <2>2, CountKept DEF Die, regVars, Active
  <2>3. CASE ~Prune /\ ~Die
    <3>1. /\ UNCHANGED <<registry, counted, res>>
          /\ \/ UNCHANGED pc
             \/ \E r \in Request : pc' = [pc EXCEPT ![r] = "cancelled"]
      BY <1>4, <2>3 DEF Environment, Disconnect, LineVisible, Evict, regVars, reqVars
    <3> QED BY <1>0, <3>1, CountKept
  <2> QED BY <2>1, <2>2, <2>3
<1>5. CASE UNCHANGED vars
  BY <1>5, CountKept DEF vars, regVars, reqVars
<1> QED BY <1>1, <1>2, <1>3, <1>4, <1>5 DEF Next

(***************************************************************************)
(* A span's row counts the lookups recorded since it was inserted, once    *)
(* each, and adds up the hits they were answered with, for any number of   *)
(* requests and spans, of pre-seeds, restarts and prunings.                *)
(***************************************************************************)
THEOREM Counters == Spec => []CountersExact
<1>1. CInv => CountersExact
  BY DEF CInv
<1> QED BY SeedInit, SeedStep, TypeInit, TypeStep, CountInit, CountStep, <1>1, PTL DEF Spec
=============================================================================
