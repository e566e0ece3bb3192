--------------------------- MODULE BenchRun_proofs ---------------------------
(***************************************************************************)
(* What holds of a bench for any conditions, any workload and any number   *)
(* of launches, however they were killed.                                  *)
(***************************************************************************)
EXTENDS BenchRun, FiniteSetTheorems, TLAPS

(***************************************************************************)
(* The records of a condition are those of the requests before some point: *)
(* without it NextIndex need not exist.                                    *)
(***************************************************************************)
UpTo(c, k) == \A i \in Index : Exists(c, i) <=> i < k
NoGaps == \A c \in Cond : \E k \in 0..N : UpTo(c, k)
Full(c) == \A i \in Index : Exists(c, i)

(***************************************************************************)
(* Where the loop is, against what is on disk.                             *)
(***************************************************************************)
InStep ==
  /\ pc \in {"send", "open"} => UpTo(C, idx)
  /\ pc \in {"open", "fill"} => idx < N
  /\ pc = "fill" => UpTo(C, idx + 1) /\ records[C][idx] = "partial"
  /\ pc = "exit" /\ ~failed => Full(C)

(***************************************************************************)
(* What lies behind this session's position is complete, and so is all     *)
(* that a report was written about.                                        *)
(***************************************************************************)
AllFull == \A k \in DOMAIN Conditions : Full(Conditions[k])
BehindFull == \A k \in 1..(at - 1) : Full(Conditions[k])

Progress == BehindFull /\ (pc = "report" \/ reported => AllFull)

(***************************************************************************)
(* A launch that has cut nothing off yet still has its one cut-off record, *)
(* or its report, to spend.                                                *)
(***************************************************************************)
Clean == pc \in {"enter", "send", "open", "report"} \/ (pc = "exit" /\ ~failed)
One(b) == IF b THEN 1 ELSE 0

Spent ==
  /\ IsFiniteSet(Partial)
  /\ Cardinality(Partial) + One(reported) + One(Clean) <= sessions

IInv == TypeOK /\ NoGaps /\ InStep /\ Progress /\ Spent

LEMMA Positions ==
  /\ N \in Nat /\ MaxSessions \in Nat
  /\ Len(Conditions) \in Nat \ {0}
  /\ DOMAIN Conditions = 1..Len(Conditions)
  /\ \A k \in DOMAIN Conditions : Conditions[k] \in Cond
  BY BenchAssumption

LEMMA InitInv == Init => IInv
<1> SUFFICES ASSUME Init PROVE IInv OBVIOUS
<1> USE Positions
<1>1. at \in DOMAIN Conditions /\ idx \in 0..N /\ sessions \in 0..MaxSessions
  BY DEF Init
<1>5. TypeOK
  BY <1>1 DEF Init, TypeOK
<1>2. \A c \in Cond : UpTo(c, 0)
  BY DEF Init, UpTo, Exists, Index
<1>3. NoGaps
  BY <1>2 DEF NoGaps
<1>4. InStep /\ Progress
  BY DEF Init, InStep, Progress, BehindFull
<1>6. Partial = {} /\ ~reported /\ ~Clean /\ sessions = 0
  BY DEF Init, Partial, Clean
<1>7. Spent
  BY <1>6, FS_EmptySet DEF Spent, One
<1> QED BY <1>3, <1>4, <1>5, <1>7 DEF IInv

(***************************************************************************)
(* CheckpointStore.next_index returns the point where the records end.     *)
(***************************************************************************)
LEMMA ResumesAtEnd ==
  ASSUME NoGaps, NEW c \in Cond
  PROVE  NextIndex(c) \in 0..N /\ UpTo(c, NextIndex(c))
<1>1. PICK k \in 0..N : UpTo(c, k)
  BY DEF NoGaps
<1> DEFINE First(i) == ~Exists(c, i) /\ \A j \in 0..(i - 1) : Exists(c, j)
<1>2. First(k)
  BY <1>1, Positions DEF UpTo, Index, Exists
<1>3. ASSUME NEW i \in 0..N, First(i) PROVE i = k
  <2>1. CASE i < k
    BY <1>1, <1>3, <2>1, Positions DEF UpTo, Index
  <2>2. CASE k < i
    BY <1>2, <1>3, <2>2, Positions
  <2> QED BY <2>1, <2>2, Positions
<1>4. NextIndex(c) = k
  BY <1>2, <1>3 DEF NextIndex
<1> QED BY <1>1, <1>4

(***************************************************************************)
(* A step that leaves the records alone leaves alone what is said of them. *)
(***************************************************************************)
LEMMA SameRecords ==
  ASSUME UNCHANGED records
  PROVE  /\ \A c, k : UpTo(c, k)' <=> UpTo(c, k)
         /\ \A c : Full(c)' <=> Full(c)
         /\ NoGaps' <=> NoGaps
         /\ AllFull' <=> AllFull
         /\ Partial' = Partial
  BY DEF UpTo, Full, NoGaps, AllFull, Exists, Partial

LEMMA OpenStep == ASSUME IInv, OpenRecord PROVE IInv'
<1> USE Positions
<1>1. PICK c \in Cond, i \in Index : c = C /\ c = C' /\ i = idx /\ i = idx'
  BY DEF OpenRecord, IInv, TypeOK, InStep, C, Index
<1>2. TypeOK'
  BY <1>1 DEF OpenRecord, Put, IInv, TypeOK
<1>3. \A d \in Cond : \A j \in Index : Exists(d, j)' <=> Exists(d, j) \/ (d = c /\ j = i)
  BY <1>1 DEF OpenRecord, Put, IInv, TypeOK, Exists
<1>4. UpTo(c, i + 1)'
  BY <1>1, <1>3 DEF OpenRecord, IInv, InStep, UpTo, Index
<1>5. NoGaps'
  <2>1. ASSUME NEW d \in Cond, d # c PROVE \E k \in 0..N : UpTo(d, k)'
    BY <1>3, <2>1 DEF IInv, NoGaps, UpTo
  <2>2. \E k \in 0..N : UpTo(c, k)'
    BY <1>1, <1>4 DEF Index
  <2> QED BY <2>1, <2>2 DEF NoGaps
<1>6. \A d \in Cond : Full(d) => Full(d)'
  BY <1>3 DEF Full
<1>7. InStep'
  BY <1>1, <1>4 DEF OpenRecord, Put, IInv, TypeOK, InStep
<1>8. Progress'
  BY <1>6 DEF OpenRecord, IInv, TypeOK, Progress, BehindFull, AllFull
<1>9. Spent'
  <2>1. <<c, i>> \notin Partial
    <3>1. ~Exists(c, i)
      BY <1>1 DEF OpenRecord, IInv, InStep, UpTo, Index
    <3> QED BY <3>1 DEF Exists, Partial
  <2>2. Partial' = Partial \cup {<<c, i>>}
    BY <1>1 DEF OpenRecord, Put, IInv, TypeOK, Partial
  <2>3. IsFiniteSet(Partial') /\ Cardinality(Partial') = Cardinality(Partial) + 1
    BY <2>1, <2>2, FS_AddElement DEF IInv, Spent
  <2>4. Clean /\ ~Clean' /\ UNCHANGED <<reported, sessions>>
    BY DEF OpenRecord, Clean
  <2>5. Cardinality(Partial) \in Nat
    BY FS_CardinalityType DEF IInv, Spent
  <2> QED BY <2>3, <2>4, <2>5 DEF IInv, TypeOK, Spent, One
<1> QED BY <1>2, <1>5, <1>7, <1>8, <1>9 DEF IInv

LEMMA FillStep == ASSUME IInv, FillRecord PROVE IInv'
<1> USE Positions
<1>1. C \in Cond /\ C' = C /\ idx \in Index
  BY DEF FillRecord, IInv, TypeOK, InStep, C, Index
<1>2. TypeOK'
  BY <1>1 DEF FillRecord, Put, IInv, TypeOK, Index
<1>3. \A c \in Cond : \A i \in Index : Exists(c, i)' <=> Exists(c, i)
  BY <1>1 DEF FillRecord, Put, IInv, TypeOK, InStep, Exists
<1>4. \A c \in Cond : \A k \in 0..N : UpTo(c, k) => UpTo(c, k)'
  BY <1>3 DEF UpTo
<1>8. \A c \in Cond : Full(c) => Full(c)'
  BY <1>3 DEF Full
<1>5. NoGaps'
  BY <1>4 DEF IInv, NoGaps
<1>6. InStep'
  BY <1>1, <1>4 DEF FillRecord, IInv, InStep, Index
<1>7. Progress'
  BY <1>8 DEF FillRecord, IInv, TypeOK, Progress, BehindFull, AllFull
<1>9. Spent'
  <2>1. <<C, idx>> \in Partial
    BY <1>1 DEF FillRecord, IInv, InStep, Partial
  <2>2. Partial' = Partial \ {<<C, idx>>}
    BY <1>1 DEF FillRecord, Put, IInv, TypeOK, Partial
  <2>3. IsFiniteSet(Partial') /\ Cardinality(Partial') = Cardinality(Partial) - 1
    BY <2>1, <2>2, FS_RemoveElement DEF IInv, Spent
  <2>4. ~Clean /\ UNCHANGED <<reported, sessions>>
    BY DEF FillRecord, Clean
  <2>5. Cardinality(Partial) \in Nat
    BY FS_CardinalityType DEF IInv, Spent
  <2> QED BY <2>3, <2>4, <2>5 DEF IInv, TypeOK, Spent, One
<1> QED BY <1>2, <1>5, <1>6, <1>7, <1>9 DEF IInv

(***************************************************************************)
(* The other steps move the loop and leave the records alone.              *)
(***************************************************************************)
LEMMA MoveStep ==
  ASSUME IInv,
         \/ Launch \/ Enter \/ EnterFails \/ SendOk \/ SendFails \/ SendRaises
         \/ WriteRaises \/ ReplayDone \/ Exit \/ WriteReport \/ Kill \/ Preempt \/ UNCHANGED vars
  PROVE  IInv'
<1>1. UNCHANGED records
  BY DEF Launch, Enter, EnterFails, SendOk, SendFails, SendRaises, WriteRaises,
         ReplayDone, Exit, WriteReport, Kill, Preempt, vars, disk
<1>2. C \in Cond
  BY Positions DEF IInv, TypeOK, C
<1>3. NextIndex(C) \in 0..N /\ UpTo(C, NextIndex(C))
  BY <1>2, ResumesAtEnd DEF IInv
<1>8. DumpedLog \subseteq SUBSET (Index \cup {Warm})
  BY <1>2 DEF DumpedLog, Beginnings, IInv, TypeOK
<1>4. TypeOK'
  <2> USE Positions DEF IInv, TypeOK, disk
  <2>1. CASE Launch
    <3>1. at' \in DOMAIN Conditions
      BY <2>1 DEF Launch
    <3>2. sessions' \in 0..MaxSessions
      BY <2>1 DEF Launch
    <3> QED BY <2>1, <3>1, <3>2 DEF Launch
  <2>2. CASE Enter
    BY <2>2, <1>3 DEF Enter, FreshLog
  <2>3. CASE EnterFails
    BY <2>3 DEF EnterFails, FreshLog
  <2>4. CASE SendOk
    <3>1. podLog' \subseteq Index \cup {Warm} /\ idx \in Index
      BY <2>4 DEF SendOk, Logged, Index
    <3>2. traces' \in [Cond -> SUBSET Index]
      BY <2>4, <3>1, <1>2 DEF SendOk
    <3> QED BY <2>4, <3>1, <3>2 DEF SendOk, Reply
  <2>5. CASE SendFails \/ SendRaises
    <3>1. podLog' \subseteq Index \cup {Warm}
      <4>1. podLog' \in MaybeLogged /\ idx < N
        BY <2>5 DEF SendFails, SendRaises
      <4>2. idx \in Index
        BY <4>1 DEF Index
      <4> QED BY <4>1, <4>2 DEF MaybeLogged, Logged
    <3>2. CASE SendFails
      BY <3>1, <3>2 DEF SendFails, Reply
    <3>3. CASE SendRaises
      BY <3>1, <3>3 DEF SendRaises
    <3> QED BY <2>5, <3>2, <3>3
  <2>6. CASE WriteRaises
    BY <2>6 DEF WriteRaises
  <2>11. CASE ReplayDone
    BY <2>11 DEF ReplayDone
  <2>10. CASE Preempt \/ UNCHANGED vars
    BY <2>10 DEF Preempt, vars
  <2>7. CASE Exit
    <3>1. dumped' \in [Cond -> SUBSET (Index \cup {Warm})]
      BY <2>7, <1>2, <1>8 DEF Exit
    <3> QED BY <2>7, <3>1 DEF Exit, Continues, NextAt
  <2>9. CASE Kill
    <3>1. dumped' \in [Cond -> SUBSET (Index \cup {Warm})]
      BY <2>9, <1>2, <1>8 DEF Kill
    <3> QED BY <2>9, <3>1 DEF Kill
  <2>8. CASE WriteReport
    BY <2>8 DEF WriteReport
  <2> QED BY <2>1, <2>2, <2>3, <2>4, <2>5, <2>6, <2>7, <2>8, <2>9, <2>10, <2>11
<1>5. NoGaps'
  BY <1>1, SameRecords DEF IInv
<1>6. InStep'
  <2> USE <1>1, SameRecords, Positions DEF IInv, InStep, disk
  <2>1. CASE Launch \/ EnterFails \/ SendRaises \/ WriteRaises \/ WriteReport \/ Kill
    BY <2>1 DEF Launch, EnterFails, SendRaises, WriteRaises, WriteReport, Kill
  <2>2. CASE Enter
    BY <2>2, <1>3 DEF Enter, C
  <2>3. CASE SendOk \/ SendFails
    BY <2>3 DEF SendOk, SendFails, Reply, C
  <2>4. CASE ReplayDone
    <3>1. Full(C)
      BY <2>4 DEF ReplayDone, Replayed, UpTo, Full, Index, TypeOK
    <3> QED BY <2>4, <3>1 DEF ReplayDone, C
  <2>5. CASE Exit
    BY <2>5 DEF Exit
  <2>6. CASE Preempt \/ UNCHANGED vars
    BY <2>6 DEF Preempt, vars, C
  <2> QED BY <2>1, <2>2, <2>3, <2>4, <2>5, <2>6
<1>7. Progress'
  <2> USE <1>1, SameRecords, Positions DEF IInv, Progress, BehindFull, disk
  <2>1. CASE Launch
    BY <2>1 DEF Launch
  <2>2. CASE Enter \/ EnterFails \/ SendOk \/ SendFails \/ SendRaises
             \/ WriteRaises \/ ReplayDone \/ WriteReport \/ Kill \/ Preempt \/ UNCHANGED vars
    BY <2>2 DEF Enter, EnterFails, SendOk, SendFails, SendRaises, Reply, WriteRaises,
                ReplayDone, WriteReport, Kill, Preempt, vars
  <2>3. CASE Exit
    <3>1. ~failed => Full(C)
      BY <2>3 DEF Exit, InStep
    <3>2. CASE Continues
      BY <2>3, <3>1, <3>2 DEF Exit, Continues, NextAt, C, TypeOK
    <3>3. CASE ~Continues
      <4>1. ~failed => AllFull
        BY <3>1, <3>3 DEF Continues, AllFull, C, TypeOK
      <4> QED BY <2>3, <3>3, <4>1 DEF Exit
    <3> QED BY <3>2, <3>3
  <2> QED BY <2>1, <2>2, <2>3
<1>9. Spent'
  <2>1. UNCHANGED Partial
    BY <1>1, SameRecords
  <2>2. Cardinality(Partial) \in Nat
    BY FS_CardinalityType DEF IInv, Spent
  <2>3. One(reported') + One(Clean') + sessions <= One(reported) + One(Clean) + sessions'
    <3> USE DEF IInv, TypeOK, One, Clean, disk
    <3>1. CASE Launch
      BY <3>1 DEF Launch
    <3>2. CASE Enter \/ EnterFails \/ SendOk \/ SendFails \/ SendRaises \/ WriteRaises
               \/ ReplayDone
      BY <3>2 DEF Enter, EnterFails, SendOk, SendFails, SendRaises, Reply, WriteRaises, ReplayDone
    <3>3. CASE Exit \/ WriteReport \/ Kill \/ Preempt \/ UNCHANGED vars
      BY <3>3 DEF Exit, Continues, WriteReport, Kill, Preempt, vars
    <3> QED BY <3>1, <3>2, <3>3
  <2>4. {sessions, sessions'} \subseteq Nat
    BY <1>4, Positions DEF IInv, TypeOK
  <2> QED BY <2>1, <2>2, <2>3, <2>4 DEF IInv, Spent, One
<1> QED BY <1>4, <1>5, <1>6, <1>7, <1>9 DEF IInv

LEMMA NextInv == IInv /\ [Next]_vars => IInv'
  BY OpenStep, FillStep, MoveStep DEF Next, Step

LEMMA Invariance == Spec => []IInv
  BY InitInv, NextInv, PTL DEF Spec

-----------------------------------------------------------------------------
(***************************************************************************)
(* The bench's state keeps its types; in particular a resumption never     *)
(* lands outside the workload.                                             *)
(***************************************************************************)
THEOREM TypeCorrect == Spec => []TypeOK
<1>1. IInv => TypeOK
  BY DEF IInv
<1> QED BY Invariance, <1>1, PTL

(***************************************************************************)
(* A report exists only when every request of every condition has a file,  *)
(* over any number of launches, kills and failed writes, and fewer files   *)
(* are cut off than there were launches.                                   *)
(***************************************************************************)
THEOREM Covered == Spec => []ReportCoversWorkload
<1>1. ASSUME IInv PROVE ReportCoversWorkload
  <2>1. reported => \A k \in DOMAIN Conditions : \A i \in Index : Exists(Conditions[k], i)
    BY <1>1 DEF IInv, Progress, AllFull, Full
  <2>2. Cardinality(Partial) \in Nat /\ sessions \in Nat
    BY <1>1, FS_CardinalityType, Positions DEF IInv, TypeOK, Spent
  <2>3. Cardinality(Partial) + One(reported) <= sessions
    BY <1>1, <2>2 DEF IInv, Spent, One
  <2> QED BY <2>1, <2>3 DEF ReportCoversWorkload, One
<1> QED BY Invariance, <1>1, PTL

(***************************************************************************)
(* No launch ever touches the record of a finished request again.          *)
(***************************************************************************)
THEOREM NotRedone == Spec => NeverRedone
<1> DEFINE Kept == \A c \in Cond : \A i \in Index :
                     records[c][i] \in {"ok", "error"} => records'[c][i] = records[c][i]
<1>1. IInv /\ [Next]_vars => Kept
  <2> SUFFICES ASSUME IInv, [Next]_vars PROVE Kept OBVIOUS
  <2>1. C \in Cond
    BY Positions DEF IInv, TypeOK, C
  <2>2. CASE OpenRecord
    <3>1. idx \in Index /\ ~Exists(C, idx)
      BY <2>2, Positions DEF OpenRecord, IInv, TypeOK, InStep, UpTo, Index
    <3> QED BY <2>1, <2>2, <3>1 DEF OpenRecord, Put, IInv, TypeOK, Exists
  <2>3. CASE FillRecord
    BY <2>1, <2>3 DEF FillRecord, Put, IInv, TypeOK, InStep
  <2>4. CASE ~(OpenRecord \/ FillRecord)
    BY <2>4 DEF Next, Step, Launch, Enter, EnterFails, SendOk, SendFails, SendRaises,
         WriteRaises, ReplayDone, Exit, WriteReport, Kill, Preempt, vars, disk
  <2> QED BY <2>2, <2>3, <2>4
<1>2. [][Kept]_vars <=> NeverRedone
  BY PTL DEF NeverRedone
<1> QED BY Invariance, <1>1, <1>2, PTL DEF Spec
=============================================================================
