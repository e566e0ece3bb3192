------------------------- MODULE QualityStudy_proofs -------------------------
(***************************************************************************)
(* What holds of the quality study for any corpus, any options, any number *)
(* of attempts and any number of sessions of either program.               *)
(***************************************************************************)
EXTENDS QualityStudy, FiniteSetTheorems, WellFoundedInduction, TLAPS

-----------------------------------------------------------------------------
(***************************************************************************)
(* The loops go through sorted keys: a least one exists.                   *)
(***************************************************************************)
LessThan == {p \in Nat \X Nat : p[1] < p[2]}

LEMMA LessThanWellFounded == IsWellFoundedOn(LessThan, Nat)
  BY NatLessThanWellFounded, Zenon DEF LessThan, OpToRel

LEMMA LeastNat ==
  ASSUME NEW S \in SUBSET Nat, S # {} PROVE \E n \in S : \A m \in S : n <= m
<1>1. PICK n \in S : \A m \in S : ~(<<m, n>> \in LessThan)
  BY LessThanWellFounded, WFMin
<1>2. \A m \in S : ~(m < n)
  BY <1>1 DEF LessThan
<1> QED BY <1>2

LEMMA LeastPair ==
  ASSUME NEW T \in SUBSET (Nat \X Nat), T # {}
  PROVE  \E k \in T : \A o \in T : Earlier(k, o)
<1> DEFINE A == {k[1] : k \in T}
<1>1. PICK a \in A : \A m \in A : a <= m
  <2>1. A \in SUBSET Nat /\ A # {}
    OBVIOUS
  <2> HIDE DEF A
  <2> QED BY <2>1, LeastNat
<1> DEFINE B == {k[2] : k \in {x \in T : x[1] = a}}
<1>2. PICK b \in B : \A m \in B : b <= m
  <2>1. B \in SUBSET Nat /\ B # {}
    BY <1>1
  <2> HIDE DEF B
  <2> QED BY <2>1, LeastNat
<1>3. <<a, b>> \in T
  BY <1>2
<1>4. ASSUME NEW o \in T PROVE Earlier(<<a, b>>, o)
  <2>1. o[1] \in A /\ o[1] \in Nat /\ a \in Nat /\ a <= o[1]
    BY <1>1
  <2>2. o[1] = a => o[2] \in B
    OBVIOUS
  <2> QED BY <1>2, <2>1, <2>2 DEF Earlier
<1> QED BY <1>3, <1>4

LEMMA LeastIn == ASSUME NEW T \in SUBSET (Nat \X Nat), T # {} PROVE Least(T) \in T
  BY LeastPair DEF Least

LEMMA NextIsLeft ==
  ASSUME work \in SUBSET ((Nat \X Nat) \X Nat), work # {} PROVE NextReplay \in work
<1> DEFINE K == {w[1] : w \in work}
<1>1. PICK k \in K : \A o \in K : Earlier(k, o)
  <2>1. K \in SUBSET (Nat \X Nat) /\ K # {}
    OBVIOUS
  <2> HIDE DEF K
  <2> QED BY <2>1, LeastPair
<1> DEFINE S == {w[2] : w \in {x \in work : x[1] = k}}
<1>2. PICK s \in S : \A m \in S : s <= m
  <2>1. S \in SUBSET Nat /\ S # {}
    BY <1>1
  <2> HIDE DEF S
  <2> QED BY <2>1, LeastNat
<1>3. <<k, s>> \in work
  BY <1>2
<1>4. ASSUME NEW o \in work
      PROVE  IF k = o[1] THEN s <= o[2] ELSE Earlier(k, o[1])
  BY <1>1, <1>2
<1> DEFINE w0 == <<k, s>>
<1>5. w0 \in work /\ \A o \in work : IF w0[1] = o[1] THEN w0[2] <= o[2] ELSE Earlier(w0[1], o[1])
  BY <1>3, <1>4
<1> HIDE DEF w0
<1> QED BY <1>5 DEF NextReplay

-----------------------------------------------------------------------------
(***************************************************************************)
(* quality-eval: what is on disk and in memory is one row per replay.      *)
(***************************************************************************)
RowSet == [key : Nat \X Nat, record : Nat \X Nat, sample : Nat, out : Text \cup {Failed}]

ReplaysOf(o) == Usable(Selected(o.captures)) \X (0..(o.samples - 1))

OneEach(rs, replays) ==
  /\ \A r \in rs : r \in RowSet /\ <<r.record, r.sample>> \in replays /\ r.key = KeyOf(r.record)
  /\ \A w \in replays : \E r \in rs : <<r.record, r.sample>> = w
  /\ \A r, q \in rs : r.record = q.record /\ r.sample = q.sample => r = q

Evaluating == evalPc \in {"enter", "replay", "writing"}

EvalTypes ==
  /\ corpus \in Corpora /\ session \in Nat
  /\ evalPc \in {"idle", "enter", "replay", "writing", "ended"}
  /\ Evaluating => condAt \in DOMAIN options.conditions
  /\ evalPc = "ended" => condAt = Len(options.conditions) + 1
  /\ Evaluating \/ evalPc = "ended" => options \in EvalOptions
  /\ DOMAIN files = Cond

RowsSoFar ==
  /\ evalPc \in {"replay", "writing"} =>
       work \subseteq Replays /\ OneEach(rows, Replays \ work)
  /\ evalPc = "writing" => work = {}

FileOk(f) ==
  /\ f.is \in {"absent", "cut", "whole"} /\ f.by \in 0..session
  /\ f.rows \subseteq RowSet
  /\ f.is = "whole" => OneEach(f.rows, ReplaysOf(f.options))

FilesOk == \A c \in Cond : FileOk(files[c])

(***************************************************************************)
(* The files of the conditions that this session has behind it are its     *)
(* own; one that is given twice may be open again.                         *)
(***************************************************************************)
OwnFile(c) == Loadable(c) /\ files[c].by = session
BehindOwn ==
  (Evaluating \/ evalPc = "ended") /\ Usable(Selected(options.captures)) # {} =>
    \A j \in 1..(condAt - 1) :
      \/ OwnFile(options.conditions[j])
      \/ evalPc = "writing" /\ options.conditions[j] = Current

EvalInv == EvalTypes /\ RowsSoFar /\ FilesOk /\ BehindOwn

LEMMA GivenConditions ==
  ASSUME NEW o \in EvalOptions
  PROVE  /\ Len(o.conditions) \in Nat \ {0} /\ DOMAIN o.conditions = 1..Len(o.conditions)
         /\ \A j \in 1..Len(o.conditions) : o.conditions[j] \in Cond
<1>1. o.conditions \in Seq(Cond) /\ o.conditions # <<>>
  BY StudyAssumption
<1>2. Len(o.conditions) \in Nat /\ DOMAIN o.conditions = 1..Len(o.conditions)
  BY <1>1
<1>3. Len(o.conditions) # 0
  BY <1>1, <1>2
<1> QED BY <1>1, <1>2, <1>3

LEMMA InCorpus ==
  ASSUME corpus \in Corpora, NEW c \in Capture
  PROVE  /\ corpus[c].dir \in Nat /\ IdOf(c) \in Nat
         /\ Readable(c) => corpus[c].turns \in Seq(BOOLEAN)
         /\ \A d \in Capture : corpus[c].dir = corpus[d].dir => c = d
<1>1. PICK corpora \in Corpora : corpora = corpus
  OBVIOUS
<1>2. /\ corpora[c].dir \in Nat
      /\ corpora[c].turns \in Seq(BOOLEAN) \cup {Unreadable, Corrupt}
      /\ \A d \in Capture : corpora[c].dir = corpora[d].dir => c = d
  BY StudyAssumption
<1>3. RootName \in Nat
  BY StudyAssumption
<1> QED BY <1>1, <1>2, <1>3 DEF IdOf, Readable

LEMMA UsableType ==
  ASSUME corpus \in Corpora, NEW captures \in SUBSET Capture
  PROVE  Usable(captures) \in SUBSET (Nat \X Nat)
<1>1. ASSUME NEW c \in captures, Readable(c), NEW i \in DOMAIN corpus[c].turns
      PROVE  <<c, i>> \in Nat \X Nat
  <2>1. corpus[c].turns \in Seq(BOOLEAN)
    BY <1>1, InCorpus
  <2>2. DOMAIN corpus[c].turns = 1..Len(corpus[c].turns) /\ Len(corpus[c].turns) \in Nat
    BY <2>1
  <2> QED BY <1>1, <2>2, StudyAssumption DEF Capture
<1> QED BY <1>1 DEF Usable

LEMMA ReplaysType ==
  ASSUME EvalTypes, NEW o \in EvalOptions
  PROVE  /\ ReplaysOf(o) \in SUBSET ((Nat \X Nat) \X Nat)
         /\ Usable(Selected(o.captures)) # {} => ReplaysOf(o) # {}
<1>1. o.samples \in Nat \ {0} /\ Selected(o.captures) \in SUBSET Capture
  BY StudyAssumption DEF Selected
<1>2. Usable(Selected(o.captures)) \in SUBSET (Nat \X Nat)
  BY <1>1, UsableType DEF EvalTypes
<1>3. 0 \in 0..(o.samples - 1) /\ 0..(o.samples - 1) \subseteq Nat
  BY <1>1
<1>4. ASSUME NEW U \in SUBSET (Nat \X Nat), NEW V \in SUBSET Nat, 0 \in V
      PROVE  /\ U \X V \subseteq (Nat \X Nat) \X Nat
             /\ U # {} => U \X V # {}
  <2>1. U # {} => \E u \in U : <<u, 0>> \in U \X V
    BY <1>4
  <2> QED BY <1>4, <2>1
<1> QED BY <1>2, <1>3, <1>4 DEF ReplaysOf

LEMMA EvalInit == Init => EvalInv
<1> SUFFICES ASSUME Init PROVE EvalInv OBVIOUS
<1>1. EvalTypes /\ RowsSoFar /\ BehindOwn
  BY DEF Init, EvalTypes, RowsSoFar, BehindOwn, Evaluating
<1>2. FilesOk
  BY DEF Init, FilesOk, FileOk, NoFile
<1> QED BY <1>1, <1>2 DEF EvalInv

LEMMA SameTurns ==
  ASSUME UNCHANGED corpus
  PROVE  /\ \A captures : Usable(captures)' = Usable(captures)
         /\ \A ids : Selected(ids)' = Selected(ids)
         /\ \A o : ReplaysOf(o)' = ReplaysOf(o)
         /\ \A record : KeyOf(record)' = KeyOf(record)
         /\ \A record : PromptKey(record)' = PromptKey(record)
         /\ \A rs, replays : OneEach(rs, replays)' <=> OneEach(rs, replays)
<1>1. /\ \A captures : Usable(captures)' = Usable(captures)
      /\ \A ids : Selected(ids)' = Selected(ids)
      /\ \A record : KeyOf(record)' = KeyOf(record)
      /\ \A record : PromptKey(record)' = PromptKey(record)
  BY DEF Usable, Readable, Selected, IdOf, KeyOf, PromptKey
<1>2. ASSUME NEW o PROVE ReplaysOf(o)' = ReplaysOf(o)
  BY <1>1 DEF ReplaysOf
<1>3. ASSUME NEW rs, NEW replays PROVE OneEach(rs, replays)' <=> OneEach(rs, replays)
  BY <1>1 DEF OneEach
<1> QED BY <1>1, <1>2, <1>3

LEMMA FilesKept ==
  ASSUME EvalInv, UNCHANGED <<corpus, files>>, session' \in Nat, session <= session'
  PROVE  FilesOk'
<1>1. ASSUME NEW c \in Cond PROVE FileOk(files[c])'
  <2>1. FileOk(files[c])
    BY DEF EvalInv, FilesOk
  <2>2. session \in Nat
    BY DEF EvalInv, EvalTypes
  <2> QED BY <2>1, <2>2, SameTurns DEF FileOk
<1> QED BY <1>1 DEF FilesOk

(***************************************************************************)
(* One more replay, with whatever came back.                               *)
(***************************************************************************)
LEMMA ReplayStep ==
  ASSUME EvalInv, Replay \/ ReplayFails PROVE EvalInv'
<1>1. PICK out \in Text \cup {Failed} :
        /\ rows' = rows \cup {Row(NextReplay[1], NextReplay[2], out)}
        /\ work' = work \ {NextReplay}
        /\ evalPc = "replay" /\ work # {}
        /\ UNCHANGED <<corpus, files, session, evalPc, options, condAt>>
  BY DEF Replay, ReplayFails
<1>2. /\ Replays = ReplaysOf(options) /\ Replays' = Replays
      /\ Replays \in SUBSET ((Nat \X Nat) \X Nat)
      /\ \A w \in Replays : w[1][1] \in Capture
  <2>1. options \in EvalOptions /\ Replays = ReplaysOf(options) /\ Replays' = ReplaysOf(options)'
    BY <1>1 DEF EvalInv, EvalTypes, Evaluating, Replays, ReplaysOf
  <2>2. \A u \in Usable(Selected(options.captures)) : u[1] \in Capture
    BY DEF Usable, Selected
  <2> QED BY <1>1, <2>1, <2>2, ReplaysType, SameTurns DEF EvalInv, ReplaysOf
<1>3. NextReplay \in work /\ work \subseteq Replays
  BY <1>1, <1>2, NextIsLeft DEF EvalInv, RowsSoFar
<1> DEFINE n == NextReplay
           r == Row(n[1], n[2], out)
<1>4. r \in RowSet /\ r.record = n[1] /\ r.sample = n[2] /\ r.key = KeyOf(n[1])
  <2>1. n[1] \in Nat \X Nat /\ n[2] \in Nat /\ n[1][1] \in Capture
    BY <1>2, <1>3
  <2>2. KeyOf(n[1]) \in Nat \X Nat
    BY <2>1, InCorpus DEF KeyOf, EvalInv, EvalTypes
  <2> HIDE DEF n
  <2> QED BY <2>1, <2>2 DEF Row, RowSet
<1>5. n = <<n[1], n[2]>>
  BY <1>2, <1>3
<1>6. OneEach(rows', Replays \ work')
  <2> HIDE DEF n, r
  <2>1. OneEach(rows, Replays \ work) /\ rows' = rows \cup {r} /\ work' = work \ {n}
        /\ n \in work /\ work \subseteq Replays
    BY <1>1, <1>3 DEF EvalInv, RowsSoFar, n, r
  <2>2. n \notin Replays \ work /\ Replays \ work' = (Replays \ work) \cup {n}
    BY <2>1
  <2>3. \A q \in rows : <<q.record, q.sample>> # n
    BY <2>1, <2>2 DEF OneEach
  <2>4. \A q \in rows' : q \in RowSet /\ <<q.record, q.sample>> \in Replays \ work'
                          /\ q.key = KeyOf(q.record)
    BY <2>1, <2>2, <1>4, <1>5 DEF OneEach
  <2>5. \A w \in Replays \ work' : \E q \in rows' : <<q.record, q.sample>> = w
    BY <2>1, <2>2, <1>4, <1>5 DEF OneEach
  <2>6. \A p, q \in rows' : p.record = q.record /\ p.sample = q.sample => p = q
    BY <2>1, <2>3, <1>4, <1>5 DEF OneEach
  <2> QED BY <2>4, <2>5, <2>6 DEF OneEach
<1>7. RowsSoFar'
  BY <1>1, <1>2, <1>3, <1>6, SameTurns DEF RowsSoFar
<1>8. FilesOk'
  BY <1>1, FilesKept DEF EvalInv, EvalTypes
<1> QED BY <1>1, <1>7, <1>8, SameTurns DEF EvalInv, EvalTypes, BehindOwn, Evaluating,
           OwnFile, Loadable, Current

(***************************************************************************)
(* The steps around the replays.                                           *)
(***************************************************************************)

LEMMA AroundStep ==
  ASSUME EvalInv, Enter \/ NoRows \/ EvalDies \/ (\E o \in EvalOptions : Launch(o))
  PROVE  EvalInv'
<1>1. UNCHANGED <<corpus, files>> /\ session' \in Nat /\ session <= session'
  BY DEF Enter, NoRows, EvalDies, Launch, EvalInv, EvalTypes
<1>2. FilesOk'
  BY <1>1, FilesKept
<1>3. CASE Enter
  <2>1. EvalTypes' /\ BehindOwn'
    BY <1>3, SameTurns
       DEF Enter, EvalInv, EvalTypes, BehindOwn, Evaluating, OwnFile, Loadable, Current
  <2>2. Replays' = Replays /\ work' = Replays /\ rows' = {}
    BY <1>3, SameTurns DEF Enter, Replays, FreshRows
  <2>3. RowsSoFar'
    BY <1>3, <2>2 DEF Enter, RowsSoFar, OneEach
  <2> QED BY <1>2, <2>1, <2>3 DEF EvalInv
<1>4. CASE NoRows
  <2>0. /\ options \in EvalOptions /\ condAt \in 1..Len(options.conditions)
        /\ Len(options.conditions) \in Nat
    BY <1>4, GivenConditions DEF NoRows, WalkEnded, EvalInv, EvalTypes, Evaluating
  <2>1. evalPc' \in {"enter", "ended"} /\ EvalTypes'
    BY <1>4, <2>0, GivenConditions
       DEF NoRows, WalkEnded, NextCondition, EvalInv, EvalTypes, Evaluating
  <2>2. Usable(Selected(options.captures)) = {}
    <3>1. OneEach({}, ReplaysOf(options))
      BY <1>4 DEF NoRows, WalkEnded, EvalInv, RowsSoFar, Replays, ReplaysOf
    <3> QED BY <3>1, <2>0, ReplaysType DEF OneEach, EvalInv
  <2>3. BehindOwn'
    BY <1>4, <2>2, SameTurns DEF NoRows, BehindOwn
  <2> QED BY <1>2, <2>1, <2>3 DEF EvalInv, RowsSoFar
<1>5. CASE EvalDies
  BY <1>2, <1>5 DEF EvalDies, EvalInv, EvalTypes, RowsSoFar, BehindOwn, Evaluating
<1>6. ASSUME NEW o \in EvalOptions, Launch(o) PROVE EvalInv'
  <2>1. 1 \in DOMAIN o.conditions
    BY <1>6, GivenConditions
  <2> QED BY <1>2, <1>6, <2>1
          DEF Launch, EvalInv, EvalTypes, RowsSoFar, BehindOwn, Evaluating
<1> QED BY <1>3, <1>4, <1>5, <1>6

LEMMA ParquetStep ==
  ASSUME EvalInv, OpenParquet \/ CloseParquet PROVE EvalInv'
<1> DEFINE conds == options.conditions
<1>1. /\ UNCHANGED <<corpus, session, options, work, rows>>
      /\ evalPc \in {"replay", "writing"} /\ options \in EvalOptions /\ session \in Nat
      /\ condAt \in 1..Len(conds) /\ Len(conds) \in Nat
  BY GivenConditions
     DEF OpenParquet, WalkEnded, CloseParquet, EvalInv, EvalTypes, Evaluating
<1>2. PICK k \in Cond : k = Current
  BY <1>1, GivenConditions DEF Current
<1>3. CASE OpenParquet
  <2>1. FileOk(CutFile)'
    BY <1>1 DEF FileOk, CutFile, NoFile, EvalInv, EvalTypes
  <2>2. /\ files' = [files EXCEPT ![k] = CutFile]
        /\ evalPc' = "writing" /\ work = {} /\ evalPc = "replay" /\ condAt' = condAt
    BY <1>2, <1>3 DEF OpenParquet, WalkEnded
  <2>3. \A c \in Cond : c # k => FileOk(files[c])'
    BY <1>1, <2>2, SameTurns DEF FileOk, FilesOk, EvalInv, EvalTypes
  <2>4. FilesOk'
    BY <2>1, <2>2, <2>3 DEF FilesOk, EvalInv, EvalTypes
  <2>5. EvalTypes' /\ RowsSoFar'
    BY <1>1, <2>2, SameTurns DEF EvalInv, EvalTypes, RowsSoFar, Evaluating, Replays
  <2>6. BehindOwn'
    <3>1. Current' = k
      BY <1>1, <1>2, <2>2 DEF Current
    <3>2. \A j \in 1..(condAt - 1) : conds[j] # k /\ OwnFile(conds[j]) => OwnFile(conds[j])'
      BY <1>1, <2>2 DEF OwnFile, Loadable
    <3> QED BY <1>1, <2>2, <3>1, <3>2, SameTurns DEF EvalInv, BehindOwn, Evaluating
  <2> QED BY <2>4, <2>5, <2>6 DEF EvalInv
<1>4. CASE CloseParquet
  <2>1. /\ files' = [files EXCEPT ![k] = Parquet(session, options, rows)]
        /\ condAt' = condAt + 1
        /\ evalPc = "writing"
        /\ evalPc' = (IF condAt < Len(conds) THEN "enter" ELSE "ended")
    BY <1>2, <1>4 DEF CloseParquet, NextCondition
  <2>2. OneEach(rows, ReplaysOf(options))
    BY <2>1 DEF EvalInv, RowsSoFar, Replays, ReplaysOf
  <2>9. PICK f : f = Parquet(session, options, rows)
    OBVIOUS
  <2>3. /\ f = Parquet(session, options, rows)
        /\ f.is = "whole" /\ f.by = session /\ f.options = options /\ f.rows = rows
    BY <2>9 DEF Parquet
  <2>4. FileOk(f)'
    <3>1. OneEach(f.rows, ReplaysOf(f.options)) /\ session \in 0..session
      BY <1>1, <2>2, <2>3
    <3>2. f.rows \subseteq RowSet
      BY <3>1 DEF OneEach
    <3>3. OneEach(f.rows, ReplaysOf(f.options))'
      BY <1>1, <3>1, SameTurns
    <3> QED BY <1>1, <2>3, <3>1, <3>2, <3>3 DEF FileOk
  <2>5. \A c \in Cond : c # k => FileOk(files[c])'
    BY <1>1, <2>1, SameTurns DEF FileOk, FilesOk, EvalInv, EvalTypes
  <2>6. FilesOk'
    BY <2>1, <2>3, <2>4, <2>5 DEF FilesOk, EvalInv, EvalTypes
  <2>7. EvalTypes' /\ RowsSoFar'
    <3>1. DOMAIN conds = 1..Len(conds)
      BY <1>1, GivenConditions
    <3> QED BY <1>1, <2>1, <3>1 DEF EvalInv, EvalTypes, RowsSoFar, Evaluating
  <2>8. BehindOwn'
    <3>1. OwnFile(k)'
      BY <1>1, <2>1, <2>3 DEF OwnFile, Loadable, EvalInv, EvalTypes
    <3>2. \A j \in 1..(condAt - 1) : conds[j] # k /\ OwnFile(conds[j]) => OwnFile(conds[j])'
      BY <1>1, <2>1 DEF OwnFile, Loadable
    <3>3. \A j \in 1..condAt : (j = condAt /\ conds[j] = k) \/ j \in 1..(condAt - 1)
      BY <1>1, <1>2 DEF Current
    <3>4. Usable(Selected(options.captures)) # {} =>
            \A j \in 1..(condAt - 1) : conds[j] = k \/ OwnFile(conds[j])
      BY <1>2, <2>1 DEF EvalInv, BehindOwn, Evaluating
    <3> QED BY <1>1, <2>1, <3>1, <3>2, <3>3, <3>4, SameTurns DEF BehindOwn
  <2> QED BY <2>6, <2>7, <2>8 DEF EvalInv
<1> QED BY <1>3, <1>4

LEMMA EvalStays == ASSUME EvalInv, UNCHANGED <<corpus, files, evalVars>> PROVE EvalInv'
  BY SameTurns DEF evalVars, EvalInv, EvalTypes, RowsSoFar, FilesOk, FileOk, BehindOwn,
     Evaluating, OwnFile, Loadable, Replays, Current

LEMMA JudgeLeavesFiles ==
  ASSUME JudgeStep \/ JudgeDies \/ (\E given \in JudgeOptions : StartJudge(given))
  PROVE  UNCHANGED <<corpus, files, evalVars>>
  BY DEF JudgeStep, JudgeDies, StartJudge, SkipIdentical, RenderCall, LoopEnds, Labelled,
     Unlabelled, BacksOff, Wake, OpenCsv, CloseCsv, setup

LEMMA EvalNext == EvalInv /\ [Next]_vars => EvalInv'
<1> SUFFICES ASSUME EvalInv, [Next]_vars PROVE EvalInv' OBVIOUS
<1>1. CASE UNCHANGED vars
  BY <1>1, EvalStays DEF vars
<1> QED BY <1>1, ReplayStep, AroundStep, ParquetStep, JudgeLeavesFiles, EvalStays
        DEF Next, EvalStep

LEMMA Evaluated == Spec => []EvalInv
  BY EvalInit, EvalNext, PTL DEF Spec

(***************************************************************************)
(* A file that can be read is complete, for any corpus and any history of  *)
(* sessions, and after one that ended it is that session's.                *)
(***************************************************************************)
THEOREM Complete == Spec => []ParquetComplete
<1>1. EvalInv => ParquetComplete
  <2> SUFFICES ASSUME EvalInv PROVE ParquetComplete OBVIOUS
  <2>1. ASSUME NEW c \in Cond, Loadable(c), NEW f, f = files[c]
        PROVE  /\ {<<r.record, r.sample>> : r \in f.rows} =
                    Usable(Selected(f.options.captures)) \X (0..(f.options.samples - 1))
               /\ \A r, q \in f.rows : r.record = q.record /\ r.sample = q.sample => r = q
    <3>1. OneEach(f.rows, ReplaysOf(f.options))
      BY <2>1 DEF EvalInv, FilesOk, FileOk, Loadable
    <3>2. {<<r.record, r.sample>> : r \in f.rows} = ReplaysOf(f.options)
      BY <3>1 DEF OneEach
    <3> QED BY <3>1, <3>2 DEF OneEach, ReplaysOf
  <2>2. evalPc = "ended" /\ Usable(Selected(options.captures)) # {} =>
          \A i \in DOMAIN options.conditions : OwnFile(options.conditions[i])
    <3> SUFFICES ASSUME evalPc = "ended", Usable(Selected(options.captures)) # {}
                 PROVE  \A i \in DOMAIN options.conditions : OwnFile(options.conditions[i])
      OBVIOUS
    <3>1. options \in EvalOptions /\ condAt = Len(options.conditions) + 1
      BY DEF EvalInv, EvalTypes
    <3>2. DOMAIN options.conditions = 1..(condAt - 1)
      BY <3>1, GivenConditions
    <3> QED BY <3>2 DEF EvalInv, BehindOwn
  <2> QED BY <2>1, <2>2 DEF ParquetComplete, OwnFile
<1> QED BY Evaluated, <1>1, PTL

-----------------------------------------------------------------------------
(***************************************************************************)
(* run_judge: the rows it keeps of each file have a key each, which is     *)
(* that of their record, and a prompt is that of a record found at the     *)
(* path the key names; it is there if the corpus has such a record.        *)
(***************************************************************************)
RecordOf(record) == record \in Usable(Capture)

RowOk(r) == /\ r \in RowSet /\ RecordOf(r.record)
            /\ r.key = KeyOf(r.record) /\ r.out # Failed

InputOk ==
  /\ DOMAIN input = Sides
  /\ \A c \in Sides :
       /\ \A r \in input[c] : RowOk(r)
       /\ \A r, q \in input[c] : r.key = q.key => r = q

PromptsOk ==
  /\ \A k \in DOMAIN prompts : RecordOf(prompts[k]) /\ PromptKey(prompts[k]) = k
  /\ \A record \in Usable(Capture) :
       PromptKey(record) \in Shared => PromptKey(record) \in DOMAIN prompts

(***************************************************************************)
(* Every shared key is judged, or left to do, and never both.              *)
(***************************************************************************)
Judged == {v.key : v \in verdicts}

KeysSplit ==
  /\ todo \subseteq Shared
  /\ Judged = Shared \ todo
  /\ \A v, u \in verdicts : v.key = u.key => v = u

CallOk ==
  /\ judgePc \in {"ask", "sleep"} =>
       /\ call.key \in todo /\ call.position_a \in Sides
       /\ call.shown = Shown(call.position_a)
       /\ call.attempt \in 0..MaxRetries /\ call.tries = call.attempt
  /\ judgePc = "ask" => call.attempt < MaxRetries

Preferences == {"no_cache", "cacheblend", "equivalent", "unparseable", "equivalent_skipped"}

VerdictOk(v) ==
  /\ v.key \in Shared
  /\ \A c \in Sides : RowFor(c, v.key) \in input[c] /\ RowFor(c, v.key).key = v.key
  /\ v.no_cache = RowFor("no_cache", v.key) /\ v.cacheblend = RowFor("cacheblend", v.key)
  /\ v.prompt = TaskPrompt(v.key)
  /\ v.prefers \in Preferences
  /\ v.label = "PREFER_A" => v.prefers = v.shown[1]
  /\ v.label = "PREFER_B" => v.prefers = v.shown[2]
  /\ v.label = "EQUIVALENT" => v.prefers = "equivalent"
  /\ v.label = "UNPARSEABLE" => v.prefers = "unparseable" /\ v.tries = MaxRetries
  /\ v.tries <= MaxRetries

JudgeTypes ==
  /\ judging \in Nat
  /\ judgePc \in {"idle", "next", "ask", "sleep", "save", "saving", "done", "failed"}
  /\ flags \in JudgeOptions \cup {[limit |-> NoLimit, include_identical |-> FALSE]}

PairInv ==
  /\ corpus \in Corpora
  /\ JudgeTypes /\ InputOk /\ PromptsOk /\ KeysSplit /\ CallOk
  /\ \A v \in verdicts : VerdictOk(v)

LEMMA PairInit == Init => PairInv
<1> SUFFICES ASSUME Init PROVE PairInv OBVIOUS
<1>1. Shared = {}
  BY DEF Init, Shared, Keys, Sides
<1> QED BY <1>1 DEF Init, PairInv, JudgeTypes, InputOk, PromptsOk, KeysSplit, Judged, CallOk

(***************************************************************************)
(* What main loads: it relies on how quality-eval numbers the turns.       *)
(***************************************************************************)
LEMMA UsableIn ==
  ASSUME NEW record, NEW captures
  PROVE  record \in Usable(captures) <=>
           record \in Usable({record[1]}) /\ record[1] \in captures
  BY DEF Usable

LEMMA RecordPair ==
  ASSUME corpus \in Corpora, NEW record \in Usable(Capture)
  PROVE  \E c \in Capture : \E i \in Nat : record = <<c, i>>
<1>1. record \in Nat \X Nat
  BY UsableType
<1>2. record[1] \in Capture
  BY UsableIn
<1> QED BY <1>1, <1>2

LEMMA LoadsOne ==
  ASSUME corpus \in Corpora, NEW o, NEW rs, OneEach(rs, ReplaysOf(o))
  PROVE  /\ \A r \in LoadCondition(rs) : RowOk(r)
         /\ \A r, q \in LoadCondition(rs) : r.key = q.key => r = q
<1>1. ASSUME NEW r \in LoadCondition(rs) PROVE RowOk(r) /\ r \in rs /\ r.sample = 0
  <2>1. r \in RowSet /\ r.record \in Usable(Selected(o.captures)) /\ r.key = KeyOf(r.record)
        /\ r.out # Failed /\ r \in rs /\ r.sample = 0
    BY DEF LoadCondition, OneEach, ReplaysOf
  <2>2. r.record \in Usable(Capture)
    BY <2>1, UsableIn DEF Selected
  <2> QED BY <2>1, <2>2 DEF RowOk, RecordOf
<1>2. ASSUME NEW r \in LoadCondition(rs), NEW q \in LoadCondition(rs), r.key = q.key
      PROVE  r = q
  <2>1. Earlier(q.record, r.record) /\ Earlier(r.record, q.record)
    BY <1>2 DEF LoadCondition
  <2>2. r.record \in Nat \X Nat /\ q.record \in Nat \X Nat
    BY <1>1 DEF RowOk, RowSet
  <2>3. r.record = q.record
    BY <2>1, <2>2 DEF Earlier
  <2> QED BY <1>1, <2>3 DEF OneEach
<1> QED BY <1>1, <1>2

LEMMA PromptsFound ==
  ASSUME corpus \in Corpora, NEW keys, NEW ps, ps = TaskPrompts(keys)
  PROVE  /\ \A k \in DOMAIN ps : RecordOf(ps[k]) /\ PromptKey(ps[k]) = k
         /\ \A record \in Usable(Capture) :
              PromptKey(record) \in keys => PromptKey(record) \in DOMAIN ps
<1> DEFINE found == {c \in Capture : corpus[c].dir \in {k[1] : k \in keys}}
           records == Usable(found)
<1>1. ps = [k \in {PromptKey(r) : r \in records} |-> CHOOSE r \in records : PromptKey(r) = k]
  BY DEF TaskPrompts
<1>2. records \subseteq Usable(Capture)
  BY UsableIn
<1>3. ASSUME NEW record \in Usable(Capture), PromptKey(record) \in keys
      PROVE  record \in records
  <2>1. record[1] \in Capture
    BY UsableIn
  <2>2. PromptKey(record)[1] = corpus[record[1]].dir
    BY DEF PromptKey
  <2>3. record[1] \in found
    BY <1>3, <2>1, <2>2
  <2> HIDE DEF found
  <2> QED BY <2>3, UsableIn
<1> HIDE DEF records
<1>4. DOMAIN ps = {PromptKey(r) : r \in records}
  BY <1>1
<1>5. ASSUME NEW k \in DOMAIN ps PROVE ps[k] \in records /\ PromptKey(ps[k]) = k
  <2>1. \E r \in records : PromptKey(r) = k
    BY <1>4
  <2> QED BY <1>1, <2>1
<1> QED BY <1>2, <1>3, <1>4, <1>5 DEF RecordOf

LEMMA StartStep ==
  ASSUME PairInv, EvalInv, NEW given \in JudgeOptions, StartJudge(given)
  PROVE  PairInv'
<1>1. /\ judging' \in Nat /\ flags' \in JudgeOptions /\ verdicts' = {}
      /\ UNCHANGED <<corpus, files>> /\ corpus \in Corpora
  BY DEF StartJudge, PairInv, JudgeTypes
<1>2. CASE ~(\A c \in Sides : Loadable(c))
  <2>1. /\ judgePc' = "failed" /\ todo' = {} /\ DOMAIN prompts' = {}
        /\ input' = [c \in Sides |-> {}]
    BY <1>2 DEF StartJudge
  <2>2. Shared' = {}
    BY <2>1 DEF Shared, Keys, Sides
  <2> QED BY <1>1, <2>1, <2>2
          DEF PairInv, JudgeTypes, InputOk, PromptsOk, KeysSplit, Judged, CallOk
<1>3. CASE \A c \in Sides : Loadable(c)
  <2>1. /\ judgePc' = "next"
        /\ input' = [c \in Sides |-> LoadCondition(files[c].rows)]
        /\ todo' = Shared' /\ prompts' = TaskPrompts(Shared')
    BY <1>3 DEF StartJudge, Shared
  <2>2. ASSUME NEW c \in Sides
        PROVE  /\ \A r \in LoadCondition(files[c].rows) : RowOk(r)
               /\ \A r, q \in LoadCondition(files[c].rows) : r.key = q.key => r = q
    <3>1. OneEach(files[c].rows, ReplaysOf(files[c].options))
      BY <1>3 DEF EvalInv, FilesOk, FileOk, Loadable, Sides, Cond
    <3> QED BY <1>1, <3>1, LoadsOne
  <2>3. \A r : RowOk(r) => RowOk(r)'
    BY <1>1, SameTurns DEF RowOk, RecordOf
  <2>4. InputOk'
    BY <2>1, <2>2, <2>3 DEF InputOk
  <2>5. PromptsOk'
    <3>1. PICK keys : keys = Shared'
      OBVIOUS
    <3>2. PICK ps : ps = TaskPrompts(keys)
      OBVIOUS
    <3>3. prompts' = ps
      BY <2>1, <3>1, <3>2
    <3> QED BY <1>1, <3>1, <3>2, <3>3, PromptsFound, SameTurns DEF PromptsOk, RecordOf
  <2>6. KeysSplit'
    BY <1>1, <2>1 DEF KeysSplit, Judged
  <2> QED BY <1>1, <2>1, <2>4, <2>5, <2>6 DEF PairInv, JudgeTypes, CallOk
<1> QED BY <1>2, <1>3

LEMMA SharedPairs ==
  ASSUME InputOk
  PROVE  Shared \in SUBSET (Nat \X Nat)
  BY DEF InputOk, Shared, Keys, Sides, RowOk, RowSet

LEMMA RowFound ==
  ASSUME InputOk, NEW k \in Shared, NEW c \in Sides
  PROVE  RowFor(c, k) \in input[c] /\ RowFor(c, k).key = k
<1>1. \E r \in input[c] : r.key = k
  BY DEF Shared, Keys, Sides
<1> QED BY <1>1 DEF RowFor

LEMMA SameInput ==
  ASSUME UNCHANGED <<corpus, input, prompts>>
  PROVE  /\ Shared' = Shared /\ (InputOk' <=> InputOk) /\ (PromptsOk' <=> PromptsOk)
         /\ \A v : VerdictOk(v)' <=> VerdictOk(v)
<1>1. Shared' = Shared
  BY DEF Shared, Keys
<1>2. \A r : RowOk(r)' <=> RowOk(r)
  BY SameTurns DEF RowOk, RecordOf
<1>3. InputOk' <=> InputOk
  BY <1>2 DEF InputOk
<1>4. PromptsOk' <=> PromptsOk
  BY <1>1, SameTurns DEF PromptsOk, RecordOf
<1>5. ASSUME NEW v PROVE VerdictOk(v)' <=> VerdictOk(v)
  BY <1>1 DEF VerdictOk, RowFor, TaskPrompt
<1> QED BY <1>1, <1>3, <1>4, <1>5

(***************************************************************************)
(* One pair gets its row.                                                  *)
(***************************************************************************)
LEMMA VerdictAdded ==
  ASSUME PairInv, NEW k \in todo, NEW label, NEW prefers \in Preferences, NEW raw,
         NEW shown, NEW tries \in Nat, tries <= MaxRetries,
         label = "PREFER_A" => prefers = shown[1],
         label = "PREFER_B" => prefers = shown[2],
         label = "EQUIVALENT" => prefers = "equivalent",
         label = "UNPARSEABLE" => prefers = "unparseable" /\ tries = MaxRetries,
         NEW v, v = Verdict(k, label, prefers, raw, shown, tries),
         verdicts' = verdicts \cup {v},
         todo' = todo \ {k}, UNCHANGED <<corpus, input, prompts>>
  PROVE  /\ KeysSplit' /\ (\A u \in verdicts' : VerdictOk(u)')
         /\ v \notin verdicts /\ v.prefers = prefers
<1>1. k \in Shared /\ InputOk /\ PromptsOk
  BY DEF PairInv, KeysSplit
<1>2. \A c \in Sides : RowFor(c, k) \in input[c] /\ RowFor(c, k).key = k
  BY <1>1, RowFound
<1>4. /\ v.key = k /\ v.no_cache = RowFor("no_cache", k) /\ v.cacheblend = RowFor("cacheblend", k)
      /\ v.prompt = TaskPrompt(k) /\ v.label = label /\ v.prefers = prefers
      /\ v.shown = shown /\ v.tries = tries
  BY DEF Verdict
<1>5. VerdictOk(v)
  BY <1>1, <1>2, <1>4 DEF VerdictOk
<1>6. k \notin Judged
  BY DEF PairInv, KeysSplit
<1>7. KeysSplit'
  <2>1. Judged' = Judged \cup {k}
    BY <1>4 DEF Judged
  <2>2. \A u \in verdicts : u.key # k
    BY <1>6 DEF Judged
  <2> QED BY <1>1, <1>4, <2>1, <2>2, SameInput DEF PairInv, KeysSplit
<1>8. v \notin verdicts
  BY <1>4, <1>6 DEF Judged
<1> QED BY <1>4, <1>5, <1>7, <1>8, SameInput DEF PairInv

LEMMA ConcludeStep ==
  ASSUME PairInv, judgePc \in {"ask", "sleep"}, NEW label \in Labels \cup {"UNPARSEABLE"},
         NEW raw, NEW tries \in Nat, tries <= MaxRetries,
         label = "UNPARSEABLE" => tries = MaxRetries,
         Conclude(label, raw, tries), UNCHANGED setup
  PROVE  /\ PairInv'
         /\ \E v : /\ v \notin verdicts /\ verdicts' = verdicts \cup {v}
                   /\ v.prefers \in Preferences \ {"equivalent_skipped"}
<1>1. /\ call.key \in todo /\ call.position_a \in Sides /\ call.shown = Shown(call.position_a)
      /\ UNCHANGED <<corpus, judging, flags, input, prompts>>
  BY DEF PairInv, CallOk, setup, judgeInput
<1>2. PICK a \in Sides : a = call.position_a /\ Shown(a) = call.shown
  BY <1>1
<1>3. Other(a) \in Sides /\ Shown(a)[1] = a /\ Shown(a)[2] = Other(a)
  <2>1. \E d \in Sides : d # a
    BY DEF Sides
  <2> QED BY <2>1 DEF Other, Shown
<1>4. PICK p : p = Prefers(label, a)
  OBVIOUS
<1>5. /\ p \in Preferences \ {"equivalent_skipped"}
      /\ label = "PREFER_A" => p = Shown(a)[1]
      /\ label = "PREFER_B" => p = Shown(a)[2]
      /\ label = "EQUIVALENT" => p = "equivalent"
      /\ label = "UNPARSEABLE" => p = "unparseable"
  BY <1>3, <1>4 DEF Prefers, Labels, Sides, Preferences
<1>6. PICK v : v = Verdict(call.key, label, p, raw, call.shown, tries)
  OBVIOUS
<1>7. verdicts' = verdicts \cup {v} /\ todo' = todo \ {call.key} /\ judgePc' = "next"
  BY <1>2, <1>4, <1>6 DEF Conclude
<1>8. /\ KeysSplit' /\ (\A u \in verdicts' : VerdictOk(u)')
      /\ v \notin verdicts /\ v.prefers = p
  <2>0. PICK k \in todo : k = call.key
    BY <1>1
  <2>1. PICK shown : shown = call.shown
    OBVIOUS
  <2>2. /\ p \in Preferences
        /\ label = "PREFER_A" => p = shown[1]
        /\ label = "PREFER_B" => p = shown[2]
        /\ label = "EQUIVALENT" => p = "equivalent"
        /\ label = "UNPARSEABLE" => p = "unparseable" /\ tries = MaxRetries
    BY <1>2, <1>5, <2>1
  <2>3. /\ v = Verdict(k, label, p, raw, shown, tries)
        /\ verdicts' = verdicts \cup {v} /\ todo' = todo \ {k}
    BY <1>6, <1>7, <2>0, <2>1
  <2>4. UNCHANGED <<corpus, input, prompts>>
    BY <1>1
  <2> QED BY SMTT(40), <2>2, <2>3, <2>4, VerdictAdded
<1>9. PairInv'
  <2>1. (corpus \in Corpora)' /\ InputOk' /\ PromptsOk'
    BY <1>1, SameInput DEF PairInv
  <2>2. JudgeTypes' /\ CallOk'
    BY <1>1, <1>7 DEF PairInv, JudgeTypes, CallOk
  <2> QED BY <1>8, <2>1, <2>2 DEF PairInv
<1> QED BY <1>5, <1>7, <1>8, <1>9

LEMMA AnswerStep ==
  ASSUME PairInv, Labelled \/ Unlabelled \/ Wake
  PROVE  /\ PairInv'
         /\ \/ UNCHANGED <<verdicts, todo, judged>> /\ judgePc' = "ask"
            \/ /\ judgePc' = "next" /\ judged' = judged + 1
               /\ \E v : /\ v \notin verdicts /\ verdicts' = verdicts \cup {v}
                         /\ v.prefers \in Preferences \ {"equivalent_skipped"}
         /\ judgePc \in {"ask", "sleep"} /\ UNCHANGED flags
<1> USE StudyAssumption
<1>0. UNCHANGED setup /\ UNCHANGED <<corpus, input, prompts, judging, flags>>
  BY DEF Labelled, Unlabelled, Wake, setup, judgeInput
<1>1. CASE Labelled
  <2>1. PICK label \in Labels : Conclude(label, label, call.tries + 1)
    BY <1>1 DEF Labelled
  <2>2. judgePc = "ask" /\ call.tries + 1 \in Nat /\ call.tries + 1 <= MaxRetries
    BY <1>1 DEF Labelled, PairInv, CallOk
  <2>3. label # "UNPARSEABLE"
    BY DEF Labels
  <2> QED BY <1>0, <2>1, <2>2, <2>3, ConcludeStep DEF Conclude
<1>2. CASE Unlabelled
  <2>1. judgePc = "ask" /\ call.tries = call.attempt /\ call.attempt \in 0..(MaxRetries - 1)
    BY <1>2 DEF Unlabelled, PairInv, CallOk
  <2>2. CASE LastAttempt
    <3>1. call.tries + 1 = MaxRetries /\ MaxRetries \in Nat
      BY <2>1, <2>2 DEF LastAttempt
    <3>2. Conclude("UNPARSEABLE", "unparseable", MaxRetries)
      BY <1>2, <2>2, <3>1 DEF Unlabelled
    <3>3. PairInv' /\ \E v : /\ v \notin verdicts /\ verdicts' = verdicts \cup {v}
                             /\ v.prefers \in Preferences \ {"equivalent_skipped"}
      BY <1>0, <2>1, <3>1, <3>2, ConcludeStep
    <3> QED BY <1>0, <2>1, <3>2, <3>3 DEF Conclude
  <2>3. CASE ~LastAttempt
    <3>1. call' = Heard("unparseable") /\ UNCHANGED <<judgePc, todo, judged, verdicts>>
      BY <1>2, <2>3 DEF Unlabelled
    <3>2. CallOk'
      BY <2>1, <2>3, <3>1 DEF PairInv, CallOk, Heard, LastAttempt
    <3> QED BY <1>0, <2>1, <3>1, <3>2, SameInput DEF PairInv, JudgeTypes, KeysSplit, Judged
  <2> QED BY <2>2, <2>3
<1>3. CASE Wake
  <2>1. judgePc = "sleep" /\ call.tries = call.attempt /\ call.attempt \in 0..MaxRetries
    BY <1>3 DEF Wake, PairInv, CallOk
  <2>2. CASE call.attempt = MaxRetries
    BY <1>0, <1>3, <2>1, <2>2, ConcludeStep DEF Wake, Conclude
  <2>3. CASE call.attempt # MaxRetries
    <3>1. judgePc' = "ask" /\ UNCHANGED <<todo, judged, call, verdicts>>
      BY <1>3, <2>3 DEF Wake
    <3>2. CallOk'
      BY <2>1, <2>3, <3>1 DEF PairInv, CallOk
    <3> QED BY <1>0, <2>1, <3>1, <3>2, SameInput DEF PairInv, JudgeTypes, KeysSplit, Judged
  <2> QED BY <2>2, <2>3
<1> QED BY <1>1, <1>2, <1>3

LEMMA SkipStep ==
  ASSUME PairInv, SkipIdentical
  PROVE  /\ PairInv'
         /\ \E v : /\ v \notin verdicts /\ verdicts' = verdicts \cup {v}
                   /\ v.prefers = "equivalent_skipped"
<1>1. PICK k \in todo : k = Least(todo)
  BY SharedPairs, LeastIn DEF SkipIdentical, PairInv, KeysSplit
<1>2. PICK v : v = Verdict(k, "SKIPPED_IDENTICAL", "equivalent_skipped", NoText, <<>>, 0)
  OBVIOUS
<1>3. /\ verdicts' = verdicts \cup {v} /\ todo' = todo \ {k} /\ judgePc = "next"
      /\ UNCHANGED <<corpus, judging, flags, input, prompts, judgePc>>
  BY <1>1, <1>2 DEF SkipIdentical, setup, judgeInput
<1>4. /\ KeysSplit' /\ (\A u \in verdicts' : VerdictOk(u)')
      /\ v \notin verdicts /\ v.prefers = "equivalent_skipped"
  <2>1. "equivalent_skipped" \in Preferences /\ 0 \in Nat /\ 0 <= MaxRetries
    BY StudyAssumption DEF Preferences
  <2>2. PICK label, raw, shown, tries :
          label = "SKIPPED_IDENTICAL" /\ raw = NoText /\ shown = <<>> /\ tries = 0
    OBVIOUS
  <2>3. label \notin {"PREFER_A", "PREFER_B", "EQUIVALENT", "UNPARSEABLE"}
        /\ tries \in Nat /\ tries <= MaxRetries
    BY <2>1, <2>2
  <2>4. v = Verdict(k, label, "equivalent_skipped", raw, shown, tries)
    BY <1>2, <2>2
  <2> QED BY ZenonT(60), <1>3, <2>1, <2>3, <2>4, VerdictAdded
<1>5. PairInv'
  BY <1>3, <1>4, SameInput DEF PairInv, JudgeTypes, CallOk
<1> QED BY <1>3, <1>4, <1>5

LEMMA QuietStep ==
  ASSUME PairInv,
         \/ RenderCall \/ LoopEnds \/ (\E reply \in {"rate", "server"} : BacksOff(reply))
         \/ OpenCsv \/ CloseCsv \/ JudgeDies \/ UNCHANGED <<corpus, judgeVars>>
  PROVE  /\ PairInv'
         /\ UNCHANGED <<verdicts, todo, judged, flags>>
<1>1. UNCHANGED <<corpus, judging, flags, input, prompts, verdicts, todo, judged>>
  BY DEF RenderCall, LoopEnds, BacksOff, OpenCsv, CloseCsv, JudgeDies, judgeVars, setup,
         judgeInput
<1>2. JudgeTypes'
  BY <1>1 DEF RenderCall, LoopEnds, BacksOff, OpenCsv, CloseCsv, JudgeDies, judgeVars,
         PairInv, JudgeTypes
<1>3. CallOk'
  <2>1. CASE RenderCall
    <3>1. Least(todo) \in todo
      BY <2>1, SharedPairs, LeastIn DEF RenderCall, PairInv, KeysSplit
    <3> QED BY <1>1, <2>1, <3>1, StudyAssumption DEF RenderCall, Rendered, CallOk
  <2>2. ASSUME NEW reply \in {"rate", "server"}, BacksOff(reply) PROVE CallOk'
    BY <1>1, <2>2, StudyAssumption DEF BacksOff, Heard, PairInv, CallOk
  <2>3. CASE LoopEnds \/ OpenCsv \/ CloseCsv \/ JudgeDies
    BY <2>3 DEF LoopEnds, OpenCsv, CloseCsv, JudgeDies, CallOk
  <2>4. CASE UNCHANGED judgeVars
    BY <2>4 DEF judgeVars, PairInv, CallOk
  <2> QED BY <2>1, <2>2, <2>3, <2>4
<1> QED BY <1>1, <1>2, <1>3, SameInput DEF PairInv, KeysSplit, Judged

LEMMA PairNext == EvalInv /\ PairInv /\ [Next]_vars => PairInv'
<1> SUFFICES ASSUME EvalInv, PairInv, [Next]_vars PROVE PairInv' OBVIOUS
<1>1. CASE EvalStep \/ EvalDies \/ (\E o \in EvalOptions : Launch(o)) \/ UNCHANGED vars
  <2>1. UNCHANGED <<corpus, judgeVars>>
    BY <1>1 DEF EvalStep, EvalDies, Launch, Enter, Replay, ReplayFails, OpenParquet,
       CloseParquet, NoRows, vars
  <2> QED BY <2>1, QuietStep
<1>2. CASE JudgeStep
  BY <1>2, AnswerStep, SkipStep, QuietStep DEF JudgeStep
<1>3. CASE JudgeDies
  BY <1>3, QuietStep
<1> QED BY <1>1, <1>2, <1>3, StartStep DEF Next

LEMMA Paired == Spec => []PairInv
  BY PairInit, PairNext, Evaluated, PTL DEF Spec

(***************************************************************************)
(* What a key that names one capture leads to.                             *)
(***************************************************************************)
LEMMA NamedOnce ==
  ASSUME corpus \in Corpora, NEW c \in Capture, NEW d \in Capture,
         IdOf(c) = IdOf(d), Unambiguous(IdOf(c))
  PROVE  c = d
<1>1. PICK S : S = Selected({IdOf(c)})
  OBVIOUS
<1>2. c \in S /\ d \in S
  BY <1>1 DEF Selected
<1>3. IsFiniteSet(S)
  <2>1. IsFiniteSet(Capture)
    BY FS_Interval, StudyAssumption DEF Capture
  <2> QED BY <1>1, <2>1, FS_Subset DEF Selected
<1>4. \E x : S = {x}
  BY <1>1, <1>3, FS_Singleton DEF Unambiguous
<1> QED BY <1>2, <1>4

LEMMA PromptOfRecord ==
  ASSUME corpus \in Corpora, PromptsOk, NEW record \in Usable(Capture),
         KeyOf(record) \in Shared, Unambiguous(KeyOf(record)[1])
  PROVE  TaskPrompt(KeyOf(record)) =
           IF corpus[record[1]].dir = RootDir THEN NoPrompt ELSE record
<1>1. PICK c \in Capture, i \in Nat : record = <<c, i>>
  BY RecordPair
<1>2. PICK k : k = KeyOf(record)
  OBVIOUS
<1>3. k = <<IdOf(c), i>> /\ k \in Shared /\ Unambiguous(IdOf(c))
  BY <1>1, <1>2 DEF KeyOf
<1>4. ASSUME NEW r \in Usable(Capture), PromptKey(r) = k
      PROVE  r = record /\ corpus[c].dir # RootDir
  <2>1. PICK d \in Capture, j \in Nat : r = <<d, j>>
    BY RecordPair
  <2>2. corpus[d].dir = IdOf(c) /\ j = i
    BY <1>3, <1>4, <2>1 DEF PromptKey
  <2>3. IdOf(c) # RootDir
    BY StudyAssumption DEF IdOf
  <2>4. IdOf(d) = IdOf(c)
    BY <2>2, <2>3 DEF IdOf
  <2>5. d = c
    BY <1>3, <2>4, NamedOnce
  <2> QED BY <1>1, <2>1, <2>2, <2>3, <2>5
<1>5. CASE corpus[c].dir = RootDir
  <2>1. k \notin DOMAIN prompts
    BY <1>4, <1>5 DEF PromptsOk, RecordOf
  <2> QED BY <1>1, <1>2, <1>5, <2>1 DEF TaskPrompt
<1>6. CASE corpus[c].dir # RootDir
  <2>1. PromptKey(record) = k
    BY <1>1, <1>3, <1>6 DEF PromptKey, IdOf
  <2>2. k \in DOMAIN prompts
    BY <1>3, <2>1 DEF PromptsOk
  <2>3. prompts[k] = record
    BY <1>4, <2>2 DEF PromptsOk, RecordOf
  <2> QED BY <1>1, <1>2, <1>6, <2>2, <2>3 DEF TaskPrompt
<1> QED BY <1>5, <1>6

(***************************************************************************)
(* Where capture_id names one capture, both texts under judgement answer   *)
(* the same recorded request, and it is the one shown to the judge, unless *)
(* the capture lies in the corpus root: then no request is shown.  This    *)
(* for any layout of the corpus, any filter and any failures.              *)
(***************************************************************************)
THEOREM SameRequest == Spec => []JudgedSameRequest
<1>1. PairInv => JudgedSameRequest
  <2> SUFFICES ASSUME PairInv, NEW v \in verdicts
               PROVE  /\ Failed \notin {v.no_cache.out, v.cacheblend.out}
                      /\ Unambiguous(v.key[1]) =>
                           /\ v.no_cache.record = v.cacheblend.record
                           /\ v.prompt = IF corpus[v.no_cache.record[1]].dir = RootDir
                                           THEN NoPrompt ELSE v.no_cache.record
    BY DEF JudgedSameRequest
  <2>1. PICK n, b : n = v.no_cache /\ b = v.cacheblend
    OBVIOUS
  <2>2. /\ RowOk(n) /\ RowOk(b) /\ n.key = v.key /\ b.key = v.key
        /\ v.prompt = TaskPrompt(v.key) /\ v.key \in Shared
        /\ corpus \in Corpora /\ PromptsOk
    BY <2>1 DEF PairInv, InputOk, VerdictOk, Sides
  <2>3. /\ n.record \in Usable(Capture) /\ b.record \in Usable(Capture)
        /\ KeyOf(n.record) = v.key /\ KeyOf(b.record) = v.key
        /\ n.out # Failed /\ b.out # Failed
    BY <2>2 DEF RowOk, RecordOf
  <2>4. ASSUME Unambiguous(v.key[1]) PROVE n.record = b.record
    <3>1. PICK c \in Capture, i \in Nat : n.record = <<c, i>>
      BY <2>2, <2>3, RecordPair
    <3>2. PICK d \in Capture, j \in Nat : b.record = <<d, j>>
      BY <2>2, <2>3, RecordPair
    <3>3. v.key = <<IdOf(c), i>> /\ v.key = <<IdOf(d), j>>
      BY <2>3, <3>1, <3>2 DEF KeyOf
    <3>4. c = d
      BY <2>2, <2>4, <3>3, NamedOnce
    <3> QED BY <3>1, <3>2, <3>3, <3>4
  <2>5. ASSUME Unambiguous(v.key[1])
        PROVE  v.prompt = IF corpus[n.record[1]].dir = RootDir THEN NoPrompt ELSE n.record
    BY <2>2, <2>3, <2>5, PromptOfRecord
  <2> QED BY <2>1, <2>3, <2>4, <2>5
<1> QED BY Paired, <1>1, PTL

(***************************************************************************)
(* A recorded verdict is what the judge model said of the text in that     *)
(* place, and a pair is given up only after max_retries calls.             *)
(***************************************************************************)
THEOREM VerdictsMeant == Spec => []VerdictIsReply
<1>1. PairInv => VerdictIsReply
  BY StudyAssumption DEF PairInv, VerdictOk, CallOk, VerdictIsReply
<1> QED BY Paired, <1>1, PTL

-----------------------------------------------------------------------------
(***************************************************************************)
(* The figures of the CSV: every judged row is in exactly one of the four  *)
(* classes that _summary counts.                                           *)
(***************************************************************************)
Rated(vs) == {v \in vs : v.prefers # "equivalent_skipped"}
Classes == {"cacheblend", "no_cache", "equivalent", "unparseable"}

Tally(vs, n) ==
  /\ IsFiniteSet(vs) /\ n \in Nat
  /\ Cardinality(Rated(vs)) = n
  /\ \A p \in Classes : With(Rated(vs), p) \in Nat
  /\ With(Rated(vs), "cacheblend") + With(Rated(vs), "no_cache")
       + With(Rated(vs), "equivalent") + With(Rated(vs), "unparseable") = n

LEMMA TallyEmpty == Tally({}, 0)
<1>1. Rated({}) = {} /\ \A p : {v \in {} : v.prefers = p} = {}
  BY DEF Rated
<1>2. IsFiniteSet({}) /\ Cardinality({}) = 0
  BY FS_EmptySet
<1>3. \A p : With({}, p) = 0
  BY <1>1, <1>2 DEF With
<1> QED BY <1>1, <1>2, <1>3 DEF Tally, Classes

LEMMA TallySkipped ==
  ASSUME NEW vs, NEW n, Tally(vs, n), NEW v, v.prefers = "equivalent_skipped"
  PROVE  Tally(vs \cup {v}, n)
<1>1. Rated(vs \cup {v}) = Rated(vs)
  BY DEF Rated
<1>2. IsFiniteSet(vs \cup {v})
  BY FS_AddElement DEF Tally
<1> QED BY <1>1, <1>2 DEF Tally

LEMMA TallyRated ==
  ASSUME NEW vs, NEW n, Tally(vs, n), NEW v, v \notin vs, v.prefers \in Classes
  PROVE  Tally(vs \cup {v}, n + 1)
<1>1. Rated(vs \cup {v}) = Rated(vs) \cup {v} /\ v \notin Rated(vs)
  BY DEF Rated, Classes
<1>2. IsFiniteSet(vs \cup {v}) /\ IsFiniteSet(Rated(vs))
  <2>1. Rated(vs) \subseteq vs
    BY DEF Rated
  <2> QED BY <2>1, FS_AddElement, FS_Subset DEF Tally
<1>3. Cardinality(Rated(vs) \cup {v}) = n + 1
  BY <1>1, <1>2, FS_AddElement DEF Tally
<1>4. ASSUME NEW p \in Classes
      PROVE  With(Rated(vs) \cup {v}, p) =
               (IF v.prefers = p THEN With(Rated(vs), p) + 1 ELSE With(Rated(vs), p))
  <2> DEFINE A == {u \in Rated(vs) : u.prefers = p}
             B == {u \in Rated(vs) \cup {v} : u.prefers = p}
  <2>1. IsFiniteSet(A) /\ v \notin A
    BY <1>1, <1>2, FS_Subset
  <2>2. v.prefers = p => B = A \cup {v}
    OBVIOUS
  <2>3. v.prefers # p => B = A
    OBVIOUS
  <2>4. Cardinality(A \cup {v}) = Cardinality(A) + 1
    BY <2>1, FS_AddElement
  <2> QED BY <2>2, <2>3, <2>4 DEF With
<1>5. "cacheblend" \in Classes /\ "no_cache" \in Classes /\ "equivalent" \in Classes
      /\ "unparseable" \in Classes
  BY DEF Classes
<1> DEFINE W(p) == With(Rated(vs), p)
           X(p) == With(Rated(vs) \cup {v}, p)
<1>6. /\ W("cacheblend") \in Nat /\ W("no_cache") \in Nat /\ W("equivalent") \in Nat
      /\ W("unparseable") \in Nat /\ n \in Nat
      /\ W("cacheblend") + W("no_cache") + W("equivalent") + W("unparseable") = n
  BY <1>5 DEF Tally
<1>7. \A p \in Classes : X(p) = IF v.prefers = p THEN W(p) + 1 ELSE W(p)
  BY <1>4
<1>8. \A p \in Classes : W(p) \in Nat
  BY DEF Tally
<1> HIDE DEF W, X
<1>9. /\ \A p \in Classes : X(p) \in Nat
      /\ X("cacheblend") + X("no_cache") + X("equivalent") + X("unparseable") = n + 1
  BY <1>5, <1>6, <1>7, <1>8 DEF Classes
<1> QED BY <1>1, <1>2, <1>3, <1>6, <1>9 DEF Tally, X

(***************************************************************************)
(* --limit bounds what is judged, and the loop stops early for it only.    *)
(***************************************************************************)
LimitKept ==
  /\ flags.limit # NoLimit =>
       /\ flags.limit \in Nat /\ judged <= flags.limit
       /\ judgePc \in {"ask", "sleep"} => judged < flags.limit
  /\ judgePc \in {"save", "saving", "done"} => todo = {} \/ judged = flags.limit

CsvOk == judgePc = "done" => csv.rows = verdicts /\ csv.summary = Summary(verdicts)

CountInv == Tally(verdicts, judged) /\ LimitKept /\ CsvOk

LEMMA CountInit == Init => CountInv
  BY TallyEmpty DEF Init, CountInv, LimitKept, CsvOk

LEMMA CountNext == PairInv /\ CountInv /\ [Next]_vars => CountInv'
<1> SUFFICES ASSUME PairInv, CountInv, [Next]_vars PROVE CountInv' OBVIOUS
<1> USE DEF CountInv, LimitKept, CsvOk
<1>1. CASE EvalStep \/ EvalDies \/ (\E o \in EvalOptions : Launch(o)) \/ UNCHANGED vars
  <2>1. UNCHANGED <<judgeVars, csv>>
    BY <1>1 DEF EvalStep, EvalDies, Launch, Enter, Replay, ReplayFails, OpenParquet,
       CloseParquet, NoRows, vars
  <2> QED BY <2>1 DEF judgeVars, judgeInput
<1>2. ASSUME NEW given \in JudgeOptions, StartJudge(given) PROVE CountInv'
  <2>1. /\ flags' = given /\ judged' = 0 /\ verdicts' = {} /\ judgePc' \in {"next", "failed"}
    BY <1>2 DEF StartJudge
  <2>2. given.limit # NoLimit => given.limit \in Nat
    BY StudyAssumption
  <2> QED BY <2>1, <2>2, TallyEmpty
<1>3. CASE Labelled \/ Unlabelled \/ Wake
  <2>1. judgePc \in {"ask", "sleep"} /\ UNCHANGED flags /\ judgePc' \in {"ask", "next"}
    BY <1>3, AnswerStep
  <2>2. CASE UNCHANGED <<verdicts, todo, judged>>
    BY <2>1, <2>2
  <2>3. CASE ~UNCHANGED <<verdicts, todo, judged>>
    <3>1. judged' = judged + 1 /\ judgePc' = "next"
      BY <1>3, <2>3, AnswerStep
    <3>2. PICK v : /\ v \notin verdicts /\ verdicts' = verdicts \cup {v}
                   /\ v.prefers \in Preferences \ {"equivalent_skipped"}
      BY <1>3, <2>3, AnswerStep
    <3>3. Tally(verdicts \cup {v}, judged + 1)
      BY <3>2, TallyRated DEF Preferences, Classes
    <3>4. judged \in Nat
      BY DEF Tally
    <3>5. LimitKept'
      BY <2>1, <3>1, <3>4
    <3> QED BY <2>1, <3>1, <3>2, <3>3, <3>5
  <2> QED BY <2>2, <2>3
<1>4. CASE SkipIdentical
  <2>1. PICK v : /\ v \notin verdicts /\ verdicts' = verdicts \cup {v}
                 /\ v.prefers = "equivalent_skipped"
    BY <1>4, SkipStep
  <2>2. Tally(verdicts', judged)
    BY <2>1, TallySkipped
  <2> QED BY <1>4, <2>2 DEF SkipIdentical, setup, judgeInput
<1>5. CASE RenderCall \/ LoopEnds \/ (\E reply \in {"rate", "server"} : BacksOff(reply))
           \/ OpenCsv \/ CloseCsv \/ JudgeDies
  <2>1. UNCHANGED <<verdicts, todo, judged, flags>>
    BY <1>5, QuietStep
  <2>2. Tally(verdicts, judged)'
    BY <2>1
  <2>3. judged \in Nat
    BY DEF Tally
  <2>4. LimitKept'
    BY <1>5, <2>1, <2>3
       DEF RenderCall, LoopEnds, LimitHit, BacksOff, OpenCsv, CloseCsv, JudgeDies
  <2>5. CsvOk'
    BY <1>5, <2>1 DEF RenderCall, LoopEnds, BacksOff, OpenCsv, CloseCsv, JudgeDies
  <2> QED BY <2>2, <2>4, <2>5
<1> QED BY <1>1, <1>2, <1>3, <1>4, <1>5 DEF Next, JudgeStep

(***************************************************************************)
(* A complete CSV has one row for every shared pair, or stopped at the     *)
(* limit, and its figures add up, for any number of pairs.                 *)
(***************************************************************************)
THEOREM AccountsForPairs == Spec => []CsvAccountsForPairs
<1>1. PairInv /\ CountInv => CsvAccountsForPairs
  <2> SUFFICES ASSUME PairInv, CountInv, judgePc = "done" PROVE CsvAccountsForPairs
    BY DEF CsvAccountsForPairs
  <2>1. csv.rows = verdicts /\ csv.summary = Summary(verdicts)
    BY DEF CountInv, CsvOk
  <2>2. /\ \A v, u \in csv.rows : v.key = u.key => v = u
        /\ {v.key : v \in csv.rows} = Shared \ todo
    BY <2>1 DEF PairInv, KeysSplit, Judged
  <2>3. /\ flags.limit # NoLimit => judged <= flags.limit
        /\ todo = {} \/ judged = flags.limit
    BY DEF CountInv, LimitKept
  <2>4. csv.summary.n = judged /\ csv.summary.n_parseable + csv.summary.n_unparseable = judged
    <3>1. PICK vs : vs = Rated(verdicts)
      OBVIOUS
    <3>2. /\ csv.summary.n = Cardinality(vs)
          /\ csv.summary.n_parseable = With(vs, "cacheblend") + With(vs, "no_cache") + With(vs, "equivalent")
          /\ csv.summary.n_unparseable = With(vs, "unparseable")
      BY <2>1, <3>1 DEF Summary, Rated
    <3> QED BY <3>1, <3>2 DEF CountInv, Tally
  <2> QED BY <2>2, <2>3, <2>4 DEF CsvAccountsForPairs
<1>2. Spec => []CountInv
  BY CountInit, CountNext, Paired, PTL DEF Spec
<1> QED BY Paired, <1>1, <1>2, PTL

(***************************************************************************)
(* Both programs keep the types of their state.                            *)
(***************************************************************************)
THEOREM TypeCorrect == Spec => []TypeOK
<1>1. EvalInv /\ PairInv => TypeOK
  BY StudyAssumption
     DEF EvalInv, EvalTypes, FilesOk, FileOk, RowSet, Evaluating, PairInv, JudgeTypes, CallOk,
         TypeOK
<1> QED BY Evaluated, Paired, <1>1, PTL
=============================================================================
