------------------------------- MODULE BenchRun -------------------------------
(***************************************************************************)
(* A bench over its conditions, and its resumption: bench/cli.py (run,     *)
(* _run_all, _replay_workload), bench/checkpoint.py, bench/workload.py and *)
(* what ends up in the report (bench/log_metrics.py, bench/replay.py).     *)
(* The bench may be killed, or fail at a pod's start, at a request or at   *)
(* a write, and is then launched again on the same results directory, each *)
(* time with a fresh pod per condition.  A pod may be preempted while it   *)
(* serves.                                                                 *)
(***************************************************************************)
EXTENDS Naturals, Sequences, FiniteSets

CONSTANTS
  Cond,          \* the conditions
  Conditions,    \* those of this bench, in order
  HitLogging,    \* those whose engine logs a hit line for a request
  N,             \* requests in the workload, numbered from 0
  MaxSessions    \* bound on launches

ASSUME BenchAssumption ==
  /\ Conditions \in Seq(Cond) \ {<<>>} /\ HitLogging \subseteq Cond
  /\ N \in Nat /\ MaxSessions \in Nat

Index == 0..(N - 1)
Warm  == N     \* the warm-up and preflight requests of a proxy's start

VARIABLES
  pc,         \* "off", "enter", "send", "open", "fill", "exit"
  at,         \* position in Conditions
  idx,        \* request the replay loop is at
  status,     \* status of the reply that is being recorded
  failed,     \* an exception is unwinding the bench
  records,    \* condition -> index -> checkpoint file
  traces,     \* condition -> indices with a row in its trace store
  pod,        \* the condition's pod: "up" or "dead"
  podLog,     \* what has a hit line in the engine log of this pod
  dumped,     \* condition -> what has one in the vllm.log of the results directory
  report,     \* condition -> what its figures are computed from
  reported,   \* has the report been written
  sessions    \* launches so far

disk == <<records, traces, dumped, report, reported>>
vars == <<pc, at, idx, status, failed, pod, podLog, sessions, disk>>

C == Conditions[at]

(***************************************************************************)
(* CheckpointStore.next_index: the first index without a file, whatever    *)
(* the file holds.                                                         *)
(***************************************************************************)
Exists(c, i) == i \in Index /\ records[c][i] # "absent"

NextIndex_FromZero(c) == 0
NextIndex(c) == CHOOSE i \in 0..N : ~Exists(c, i) /\ \A j \in 0..(i - 1) : Exists(c, j)

Init ==
  /\ pc = "off"
  /\ at = 1 /\ idx = 0
  /\ status = 200 /\ failed = FALSE
  /\ records = [c \in Cond |-> [i \in Index |-> "absent"]]
  /\ traces = [c \in Cond |-> {}]
  /\ pod = "dead" /\ podLog = {}
  /\ dumped = [c \in Cond |-> {}]
  /\ report = [c \in Cond |-> {}]
  /\ reported = FALSE
  /\ sessions = 0

-----------------------------------------------------------------------------
Launch ==
  /\ pc = "off" /\ sessions < MaxSessions
  /\ sessions' = sessions + 1
  /\ pc' = "enter" /\ at' = 1 /\ failed' = FALSE
  /\ UNCHANGED <<idx, status, pod, podLog, disk>>

(***************************************************************************)
(* The condition's pod comes up with a new log, also when the condition    *)
(* has nothing left to send; or its startup raises.  The start of the      *)
(* proxy may leave hit lines of its own.                                   *)
(***************************************************************************)
FreshLog == {{}} \cup (IF C \in HitLogging THEN {{Warm}} ELSE {})

Enter ==
  /\ pc = "enter"
  /\ pod' = "up" /\ podLog' \in FreshLog
  /\ pc' = "send" /\ idx' = NextIndex(C)
  /\ UNCHANGED <<at, status, failed, sessions, disk>>

EnterFails ==
  /\ pc = "enter"
  /\ failed' = TRUE
  /\ pod' \in {"up", "dead"} /\ podLog' \in FreshLog
  /\ pc' = "exit"
  /\ UNCHANGED <<at, idx, status, sessions, disk>>

(***************************************************************************)
(* send_request: the proxy answers 200 and has traced the request, unless  *)
(* the write failed, or it answers 502; either way the status is what gets *)
(* recorded.  The engine may have logged a request that was answered 502.  *)
(***************************************************************************)
Logged == IF C \in HitLogging THEN podLog \cup {idx} ELSE podLog
MaybeLogged == {podLog} \cup (IF pod = "up" THEN {Logged} ELSE {})

Reply(s) == status' = s /\ pc' = "open"

SendOk ==
  /\ pc = "send" /\ idx < N
  /\ pod = "up"
  /\ podLog' = Logged
  /\ traces' \in {traces, [traces EXCEPT ![C] = @ \cup {idx}]}
  /\ Reply(200)
  /\ UNCHANGED <<at, idx, failed, pod, sessions, records, dumped, report, reported>>

SendFails ==
  /\ pc = "send" /\ idx < N
  /\ podLog' \in MaybeLogged
  /\ Reply(502)
  /\ UNCHANGED <<at, idx, failed, pod, sessions, disk>>

(***************************************************************************)
(* The request raises: the proxy is gone, a stream was cut off, or ten     *)
(* minutes have passed.                                                    *)
(***************************************************************************)
SendRaises ==
  /\ pc = "send" /\ idx < N
  /\ podLog' \in MaybeLogged
  /\ failed' = TRUE
  /\ pc' = "exit"
  /\ UNCHANGED <<at, idx, status, pod, sessions, disk>>

(***************************************************************************)
(* write_request: the file is created, then filled.  Either may raise (a   *)
(* full disk), and then what was created stays.                            *)
(***************************************************************************)
Put(x) == records' = [records EXCEPT ![C][idx] = x]

OpenRecord ==
  /\ pc = "open"
  /\ Put("partial")
  /\ pc' = "fill"
  /\ UNCHANGED <<at, idx, status, failed, pod, podLog, sessions, traces, dumped, report, reported>>

FillRecord ==
  /\ pc = "fill"
  /\ Put(IF status = 200 THEN "ok" ELSE "error")
  /\ pc' = "send" /\ idx' = idx + 1
  /\ UNCHANGED <<at, status, failed, pod, podLog, sessions, traces, dumped, report, reported>>

WriteRaises ==
  /\ pc \in {"open", "fill"}
  /\ failed' = TRUE
  /\ pc' = "exit"
  /\ UNCHANGED <<at, idx, status, pod, podLog, sessions, disk>>

Replayed_OneShort == idx >= N - 1
Replayed == idx >= N

ReplayDone ==
  /\ pc = "send" /\ Replayed
  /\ pc' = "exit"
  /\ UNCHANGED <<at, idx, status, failed, pod, podLog, sessions, disk>>

(***************************************************************************)
(* The teardown dumps the engine log of this pod over the file of an       *)
(* earlier session.  A pod without ssh info leaves the file alone; an ssh  *)
(* that fails or runs into its timeout leaves the beginning of the log, or *)
(* nothing.                                                                *)
(***************************************************************************)
Sooner(x, y) == x = Warm \/ (y # Warm /\ x <= y)
Beginnings(lines) == {l \in SUBSET lines : \A y \in l : \A x \in lines : Sooner(x, y) => x \in l}
DumpedLog == {{}, dumped[C]} \cup (IF pod = "up" THEN Beginnings(podLog) ELSE {})

Continues_OneMore == ~failed /\ at <= Len(Conditions)
Continues == ~failed /\ at < Len(Conditions)

NextAt_Same == at
NextAt == at + 1

Exit ==
  /\ pc = "exit"
  /\ \E l \in DumpedLog : dumped' = [dumped EXCEPT ![C] = l]
  /\ IF Continues THEN pc' = "enter" /\ at' = NextAt
     ELSE pc' = (IF failed THEN "off" ELSE "report") /\ UNCHANGED at
  /\ pod' = "dead"
  /\ UNCHANGED <<idx, status, failed, podLog, sessions, records, traces, report, reported>>

(***************************************************************************)
(* The report counts the hit lines of vllm.log; a condition without any    *)
(* falls back on its trace store.                                          *)
(***************************************************************************)
WriteReport ==
  /\ pc = "report"
  /\ report' = [c \in Cond |-> IF dumped[c] # {} THEN dumped[c] ELSE traces[c]]
  /\ reported' = TRUE
  /\ pc' = "off"
  /\ UNCHANGED <<at, idx, status, failed, pod, podLog, sessions, records, traces, dumped>>

-----------------------------------------------------------------------------
(***************************************************************************)
(* The bench is killed: no teardown runs, or one in the middle of its dump *)
(* is cut short.  The pod is preempted.                                    *)
(***************************************************************************)
Kill ==
  /\ pc # "off"
  /\ pc' = "off"
  /\ \E l \in IF pc = "exit" THEN DumpedLog ELSE {dumped[C]} :
       dumped' = [dumped EXCEPT ![C] = l]
  /\ UNCHANGED <<at, idx, status, failed, pod, podLog, sessions, records, traces, report, reported>>

Preempt ==
  /\ pc # "off" /\ pod = "up"
  /\ pod' = "dead"
  /\ UNCHANGED <<pc, at, idx, status, failed, podLog, sessions, disk>>

Step == Enter \/ EnterFails \/ SendOk \/ SendFails \/ SendRaises \/ OpenRecord
          \/ FillRecord \/ WriteRaises \/ ReplayDone \/ Exit \/ WriteReport

Next == Launch \/ Step \/ Kill \/ Preempt

(***************************************************************************)
(* A launched bench runs on: its waits have timeouts.                      *)
(***************************************************************************)
Spec == Init /\ [][Next]_vars /\ WF_vars(Step)

-----------------------------------------------------------------------------
TypeOK ==
  /\ pc \in {"off", "enter", "send", "open", "fill", "exit", "report"}
  /\ at \in DOMAIN Conditions /\ idx \in 0..N
  /\ status \in {200, 502} /\ failed \in BOOLEAN
  /\ records \in [Cond -> [Index -> {"absent", "partial", "ok", "error"}]]
  /\ traces \in [Cond -> SUBSET Index]
  /\ {dumped, report} \subseteq [Cond -> SUBSET (Index \cup {Warm})]
  /\ pod \in {"up", "dead"} /\ podLog \subseteq Index \cup {Warm}
  /\ reported \in BOOLEAN /\ sessions \in 0..MaxSessions

(***************************************************************************)
(* A resumed bench never sends again what an earlier session recorded: no  *)
(* file of a finished request is opened a second time.                     *)
(***************************************************************************)
NeverRedone ==
  [][\A c \in Cond : \A i \in Index :
       records[c][i] \in {"ok", "error"} => records'[c][i] = records[c][i]]_vars

(***************************************************************************)
(* The report is written only when every request of every condition has a  *)
(* file, over however many launches, kills, preemptions and failed writes, *)
(* and a launch costs one record at most: those that are cut off are fewer *)
(* than the launches, for the one that wrote the report has left none.     *)
(***************************************************************************)
Partial == {x \in Cond \X Index : records[x[1]][x[2]] = "partial"}

ReportCoversWorkload ==
  /\ reported => \A k \in DOMAIN Conditions : \A i \in Index : Exists(Conditions[k], i)
  /\ Cardinality(Partial) + (IF reported THEN 1 ELSE 0) <= sessions

(***************************************************************************)
(* checkpoint.py:33-34, "Treating gaps as 'redo' rather than 'skip' is     *)
(* conservative - a gap means a partial write or a corrupted record": a    *)
(* partial write is redone, so that a report rests on whole records.       *)
(***************************************************************************)
PartialIsRedone ==
  reported => \A k \in DOMAIN Conditions : \A i \in Index : records[Conditions[k]][i] # "partial"

(***************************************************************************)
(* A launched bench comes to an end.                                       *)
(***************************************************************************)
SessionEnds == pc # "off" ~> pc = "off"
=============================================================================
