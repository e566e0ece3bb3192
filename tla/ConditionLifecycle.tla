-------------------------- MODULE ConditionLifecycle --------------------------
(***************************************************************************)
(* bench/conditions.py: ConditionLifecycle, the async context manager that *)
(* brings a GPU pod up for one condition, spawns a local proxy pointed at  *)
(* it, lets the body run a workload through the proxy and tears both down, *)
(* with scripts/dev/oneshot_pod.py, the subprocess that provisions, and    *)
(* the loop of bench/cli.py over the conditions of a bench.                *)
(*                                                                         *)
(* Several bench processes run on one machine: they share the proxy port   *)
(* and the RunPod account.  A Ctrl-C asks asyncio to cancel the main task: *)
(* the request stays pending while synchronous code runs and is delivered  *)
(* as CancelledError at the next await.  A bench gets at most one.         *)
(***************************************************************************)
EXTENDS Naturals, Sequences, FiniteSets

CONSTANTS
  Bench,          \* bench processes; a bench stands for its pid
  Condition,
  Plan,           \* bench -> the conditions it runs, in order
  Dumps,          \* bench -> was a log_dump_path given
  Leftover,       \* a proxy of an earlier session
  NoOwner,        \* nobody is bound to the proxy port
  MaxTries,       \* bound on health polls before the deadline
  MaxInterrupts   \* bound on the benches that get a Ctrl-C

(***************************************************************************)
(* A bench spawns one proxy for each position of its plan.                 *)
(***************************************************************************)
Process == UNION {{b} \X DOMAIN Plan[b] : b \in Bench}

ASSUME LifecycleAssumption ==
  /\ Plan \in [Bench -> Seq(Condition) \ {<<>>}]
  /\ Dumps \in [Bench -> BOOLEAN]
  /\ Leftover \notin Process /\ NoOwner \notin Process /\ Leftover # NoOwner
  /\ MaxTries \in Nat \ {0} /\ MaxInterrupts \in Nat

VARIABLES
  at,        \* bench -> position in its plan
  pc,        \* bench -> where its main task is
  ok,        \* bench -> no exception is unwinding it
  cancel,    \* bench -> a cancellation is pending
  known,     \* bench -> self.pod_id was parsed from the oneshot output
  tries,     \* bench -> polls of the local /health so far
  proxy,     \* process -> "none" (not spawned, or exited), "starting", "bound", "dying"
  port,      \* who is bound to the proxy port
  pods,      \* pod name -> state of the pod (RunPod)
  apiLost,   \* history: names whose DELETE-by-name failed, which is logged
  cut,       \* history: names whose teardown a cancellation cut short
  loose,     \* history: proxies whose teardown raised, which is logged
  struck     \* benches that got a Ctrl-C

hist == <<apiLost, cut, loose>>
vars == <<at, pc, ok, cancel, known, tries, proxy, port, pods, hist, struck>>

(***************************************************************************)
(* A proxy is told at its spawn which pod it forwards to.  The pod name    *)
(* carries the condition and the pid, so that the cleanup by name of one   *)
(* bench never hits a pod of another.                                      *)
(***************************************************************************)
Own(b) == <<b, at[b]>>

Name == Condition \X Bench
PodOf(p) == <<Plan[p[1]][p[2]], p[1]>>
PodName_NoPid(b) == <<Plan[b][at[b]], CHOOSE x \in Bench : TRUE>>
PodName(b) == PodOf(Own(b))

Running == {"starting", "bound"}
PcSet == {"enter", "boot", "waitpod", "spawn", "health", "preflight", "body",
          "teardown", "dump", "delete", "out"}

Init ==
  /\ at = [b \in Bench |-> 1]
  /\ pc = [b \in Bench |-> "enter"]
  /\ ok = [b \in Bench |-> TRUE]
  /\ cancel = [b \in Bench |-> FALSE]
  /\ known = [b \in Bench |-> FALSE]
  /\ tries = [b \in Bench |-> 0]
  /\ proxy = [p \in Process |-> "none"]
  /\ port \in {NoOwner, Leftover}
  /\ pods = [n \in Name |-> "absent"]
  /\ apiLost = {} /\ cut = {} /\ loose = {}
  /\ struck = {}

Goto(b, p) == pc' = [pc EXCEPT ![b] = p]

(***************************************************************************)
(* An exception starts to unwind: __aenter__ cleans up before it raises it *)
(* further, and __aexit__ cleans up after the body.                        *)
(***************************************************************************)
Raise_Leaks(b) == Goto(b, "out") /\ ok' = [ok EXCEPT ![b] = FALSE]
Raise(b) == Goto(b, "teardown") /\ ok' = [ok EXCEPT ![b] = FALSE]

-----------------------------------------------------------------------------
(***************************************************************************)
(* Provisioning runs oneshot_pod.sh synchronously: no cancellation is      *)
(* delivered until it is over.  It resumes a pod of that name or creates   *)
(* one.                                                                    *)
(***************************************************************************)
Booted(b) == [pods EXCEPT ![PodName(b)] = "booting"]

OneshotCreate(b) ==
  /\ pc[b] = "enter"
  /\ pods' = Booted(b)
  /\ Goto(b, "boot")
  /\ UNCHANGED <<at, ok, cancel, known, tries, proxy, port, hist, struck>>

(***************************************************************************)
(* The subprocess dies: an API error, also one raised after the pod was    *)
(* created, or the Ctrl-C of its process group.                            *)
(***************************************************************************)
OneshotDies(b) ==
  /\ pc[b] \in {"enter", "boot"}
  /\ \/ pc[b] = "enter" /\ pods' = Booted(b)
     \/ UNCHANGED pods
  /\ Raise(b)
  /\ UNCHANGED <<at, cancel, known, tries, proxy, port, hist, struck>>

(***************************************************************************)
(* The pod failed to boot or is stuck in the queue: the subprocess deletes *)
(* it (the DELETE may fail, or KEEP_POD skip it) and exits with 1 or 2.    *)
(***************************************************************************)
OneshotGivesUp(b) ==
  /\ pc[b] = "boot"
  /\ pods' \in {pods, [pods EXCEPT ![PodName(b)] = "absent"]}
  /\ Raise(b)
  /\ UNCHANGED <<at, cancel, known, tries, proxy, port, hist, struck>>

OneshotUp(b) ==
  /\ pc[b] = "boot"
  /\ pods[PodName(b)] # "absent"
  /\ pods' = [pods EXCEPT ![PodName(b)] = "up"]
  /\ known' = [known EXCEPT ![b] = TRUE]
  /\ Goto(b, "waitpod")
  /\ UNCHANGED <<at, ok, cancel, tries, proxy, port, hist, struck>>

(***************************************************************************)
(* wait_health: the pod answers, or the ten minutes run out.               *)
(***************************************************************************)
PodHealthy(b) ==
  /\ pc[b] = "waitpod" /\ ~cancel[b]
  /\ pods[PodName(b)] = "up"
  /\ Goto(b, "spawn")
  /\ UNCHANGED <<at, ok, cancel, known, tries, proxy, port, pods, hist, struck>>

PodUnhealthy(b) ==
  /\ pc[b] = "waitpod" /\ ~cancel[b]
  /\ Raise(b)
  /\ UNCHANGED <<at, cancel, known, tries, proxy, port, pods, hist, struck>>

-----------------------------------------------------------------------------
(***************************************************************************)
(* _start_local_proxy.  The port is probed before the spawn; the spawned   *)
(* process binds it later, once its pre-seed is over.                      *)
(***************************************************************************)
AlreadyBound_Skipped == FALSE
AlreadyBound == port # NoOwner

Spawn(b) ==
  /\ pc[b] = "spawn"
  /\ ~AlreadyBound
  /\ proxy' = [proxy EXCEPT ![Own(b)] = "starting"]
  /\ Goto(b, "health")
  /\ UNCHANGED <<at, ok, cancel, known, tries, port, pods, hist, struck>>

(***************************************************************************)
(* The port is taken, or the log file or the process cannot be opened.     *)
(***************************************************************************)
SpawnFails(b) ==
  /\ pc[b] = "spawn"
  /\ Raise(b)
  /\ UNCHANGED <<at, cancel, known, tries, proxy, port, pods, hist, struck>>

(***************************************************************************)
(* After a poll that did not end the wait: a proxy that exited or the      *)
(* deadline raise, else the loop sleeps and polls again.                   *)
(***************************************************************************)
TryAgain_NoDeadline(b) == proxy[Own(b)] \in Running
TryAgain(b) == proxy[Own(b)] \in Running /\ tries[b] < MaxTries

PollAgain(b) ==
  /\ IF TryAgain(b)
       THEN /\ tries' = [tries EXCEPT ![b] = IF @ < MaxTries THEN @ + 1 ELSE @]
            /\ Goto(b, "health") /\ UNCHANGED ok
       ELSE Raise(b) /\ tries' = [tries EXCEPT ![b] = 0]
  /\ UNCHANGED <<at, cancel, known, proxy, port, pods, hist, struck>>

HealthMissed(b) == pc[b] = "health" /\ ~cancel[b] /\ PollAgain(b)

(***************************************************************************)
(* Whoever is bound to the port answers the /health request.  A process    *)
(* that got its SIGKILL may hold the port for a moment but answers nobody. *)
(***************************************************************************)
Bound == {p \in Process : proxy[p] = "bound"}
Serves == port \in Bound \cup {Leftover}

HealthAnswered(b) ==
  /\ pc[b] = "health" /\ ~cancel[b]
  /\ Serves
  /\ Goto(b, "preflight")
  /\ UNCHANGED <<at, ok, cancel, known, tries, proxy, port, pods, hist, struck>>

(***************************************************************************)
(* The preflight request went through the bound proxy to its pod.          *)
(***************************************************************************)
PreflightOk(b) ==
  /\ pc[b] = "preflight" /\ ~cancel[b]
  /\ Serves
  /\ port # Leftover => pods[PodOf(port)] = "up"
  /\ Goto(b, "body")
  /\ tries' = [tries EXCEPT ![b] = 0]
  /\ UNCHANGED <<at, ok, cancel, known, proxy, port, pods, hist, struck>>

(***************************************************************************)
(* It failed: the RuntimeError is raised inside the try whose "except      *)
(* Exception: pass" guards the health poll, and the loop goes on.          *)
(***************************************************************************)
PreflightFails(b) == pc[b] = "preflight" /\ ~cancel[b] /\ PollAgain(b)

-----------------------------------------------------------------------------
(***************************************************************************)
(* The body returns or raises.  With a cancellation pending it does so in  *)
(* code after its last await, or because it never awaits, as the           *)
(* subprocess.run of the capture orchestrator.                             *)
(***************************************************************************)
BodyEnds(b) ==
  /\ pc[b] = "body"
  /\ Goto(b, "teardown")
  /\ ok' \in {ok, [ok EXCEPT ![b] = FALSE]}
  /\ UNCHANGED <<at, cancel, known, tries, proxy, port, pods, hist, struck>>

(***************************************************************************)
(* The cancellation is delivered at an await before the teardown.          *)
(***************************************************************************)
Cancelled(b) ==
  /\ cancel[b]
  /\ pc[b] \in {"waitpod", "health", "preflight", "body"}
  /\ cancel' = [cancel EXCEPT ![b] = FALSE]
  /\ Raise(b)
  /\ tries' = [tries EXCEPT ![b] = 0]
  /\ UNCHANGED <<at, known, proxy, port, pods, hist, struck>>

(***************************************************************************)
(* _cleanup, up to its first await.  A proxy that still runs is asked to   *)
(* terminate and given five seconds; then it is killed, which nobody waits *)
(* for.  What raises on the way is only logged, and the proxy runs on.     *)
(***************************************************************************)
MustKill_OnlyOnError(b) == ~ok[b] /\ proxy[Own(b)] \in Running
MustKill(b) == proxy[Own(b)] \in Running

Released(p) == IF port = p THEN NoOwner ELSE port

Terminated(b) ==
  /\ proxy' = [proxy EXCEPT ![Own(b)] = "none"]
  /\ port' = Released(Own(b))
  /\ UNCHANGED loose

Killed(b) ==
  /\ proxy' = [proxy EXCEPT ![Own(b)] = "dying"]
  /\ UNCHANGED <<port, loose>>

TeardownRaises(b) ==
  /\ loose' = loose \cup {Own(b)}
  /\ UNCHANGED <<proxy, port>>

AfterKill(b) == IF Dumps[b] /\ known[b] THEN "dump" ELSE "delete"

Teardown(b) ==
  /\ pc[b] = "teardown"
  /\ IF MustKill(b) THEN Terminated(b) \/ Killed(b) \/ TeardownRaises(b)
     ELSE UNCHANGED <<proxy, port, loose>>
  /\ Goto(b, AfterKill(b))
  /\ UNCHANGED <<at, ok, cancel, known, tries, pods, apiLost, cut, struck>>

(***************************************************************************)
(* The SSH dump of vllm.log worked or failed; a failure is only logged.    *)
(***************************************************************************)
DumpEnds(b) ==
  /\ pc[b] = "dump" /\ ~cancel[b]
  /\ Goto(b, "delete")
  /\ UNCHANGED <<at, ok, cancel, known, tries, proxy, port, pods, hist, struck>>

(***************************************************************************)
(* The "except Exception" around the dump lets CancelledError through: it  *)
(* leaves _cleanup and the DELETE is never made.                           *)
(***************************************************************************)
DumpCancelled(b) ==
  /\ pc[b] = "dump" /\ cancel[b]
  /\ cancel' = [cancel EXCEPT ![b] = FALSE]
  /\ ok' = [ok EXCEPT ![b] = FALSE]
  /\ cut' = cut \cup {PodName(b)}
  /\ Goto(b, "out")
  /\ UNCHANGED <<at, known, tries, proxy, port, pods, apiLost, loose, struck>>

(***************************************************************************)
(* _delete_pod_by_name in its thread: the pods of that name are deleted,   *)
(* or the lookup or the DELETE failed and was logged.                      *)
(***************************************************************************)
DeleteCall(b) ==
  \/ pods' = [pods EXCEPT ![PodName(b)] = "absent"] /\ UNCHANGED apiLost
  \/ apiLost' = apiLost \cup {PodName(b)} /\ UNCHANGED pods

(***************************************************************************)
(* The teardown is over: an exception ends the bench, else the next        *)
(* condition is entered with a new ConditionLifecycle.                     *)
(***************************************************************************)
MoreToRun_OffByOne(b) == ok[b] /\ at[b] <= Len(Plan[b])
MoreToRun(b) == ok[b] /\ at[b] < Len(Plan[b])

DeleteEnds(b) ==
  /\ pc[b] = "delete" /\ ~cancel[b]
  /\ DeleteCall(b)
  /\ IF MoreToRun(b)
       THEN /\ at' = [at EXCEPT ![b] = @ + 1]
            /\ Goto(b, "enter")
            /\ known' = [known EXCEPT ![b] = FALSE]
       ELSE Goto(b, "out") /\ UNCHANGED <<at, known>>
  /\ UNCHANGED <<ok, cancel, tries, proxy, port, cut, loose, struck>>

(***************************************************************************)
(* Cancelled while the thread was queued or at work: a thread that started *)
(* runs to its end, one still queued is dropped.                           *)
(***************************************************************************)
DeleteCancelled(b) ==
  /\ pc[b] = "delete" /\ cancel[b]
  /\ DeleteCall(b) \/ UNCHANGED <<pods, apiLost>>
  /\ cancel' = [cancel EXCEPT ![b] = FALSE]
  /\ ok' = [ok EXCEPT ![b] = FALSE]
  /\ cut' = cut \cup {PodName(b)}
  /\ Goto(b, "out")
  /\ UNCHANGED <<at, known, tries, proxy, port, loose, struck>>

-----------------------------------------------------------------------------
(***************************************************************************)
(* The environment: Ctrl-C; a proxy binding the port or exiting (a bind    *)
(* error, a crash, the Ctrl-C of its process group, its SIGKILL); the      *)
(* leftover proxy exiting; a pod that stops serving, but exists and bills. *)
(***************************************************************************)
Interrupt(b) ==
  /\ pc[b] # "out" /\ b \notin struck
  /\ Cardinality(struck) < MaxInterrupts
  /\ cancel' = [cancel EXCEPT ![b] = TRUE]
  /\ struck' = struck \cup {b}
  /\ UNCHANGED <<at, pc, ok, known, tries, proxy, port, pods, hist>>

ProxyBinds(p) ==
  /\ proxy[p] = "starting" /\ port = NoOwner
  /\ proxy' = [proxy EXCEPT ![p] = "bound"]
  /\ port' = p
  /\ UNCHANGED <<at, pc, ok, cancel, known, tries, pods, hist, struck>>

ProxyExits(p) ==
  /\ proxy[p] \in Running \cup {"dying"}
  /\ proxy' = [proxy EXCEPT ![p] = "none"]
  /\ port' = Released(p)
  /\ UNCHANGED <<at, pc, ok, cancel, known, tries, pods, hist, struck>>

LeftoverExits ==
  /\ port = Leftover
  /\ port' = NoOwner
  /\ UNCHANGED <<at, pc, ok, cancel, known, tries, proxy, pods, hist, struck>>

PodDies(n) ==
  /\ pods[n] = "up"
  /\ pods' = [pods EXCEPT ![n] = "dead"]
  /\ UNCHANGED <<at, pc, ok, cancel, known, tries, proxy, port, hist, struck>>

-----------------------------------------------------------------------------
Provision(b) == OneshotCreate(b) \/ OneshotDies(b) \/ OneshotGivesUp(b) \/ OneshotUp(b)
WaitPod(b)   == PodHealthy(b) \/ PodUnhealthy(b)
StartProxy(b) == Spawn(b) \/ SpawnFails(b) \/ HealthMissed(b) \/ HealthAnswered(b)
                   \/ PreflightOk(b) \/ PreflightFails(b)
Cleanup(b)   == Teardown(b) \/ DumpEnds(b) \/ DumpCancelled(b)
                   \/ DeleteEnds(b) \/ DeleteCancelled(b)

Step(b) == Provision(b) \/ WaitPod(b) \/ StartProxy(b) \/ BodyEnds(b)
             \/ Cancelled(b) \/ Cleanup(b)

Environment ==
  \/ \E b \in Bench : Interrupt(b)
  \/ \E p \in Process : ProxyBinds(p) \/ ProxyExits(p)
  \/ \E n \in Name : PodDies(n)
  \/ LeftoverExits

Next == Environment \/ \E b \in Bench : Step(b)

(***************************************************************************)
(* A bench process runs on: every wait of it has a timeout, and the body   *)
(* sends finitely many requests, each with a timeout.                      *)
(***************************************************************************)
Fairness == \A b \in Bench : WF_vars(Step(b))

Spec == Init /\ [][Next]_vars /\ Fairness

-----------------------------------------------------------------------------
TypeOK ==
  /\ at \in [Bench -> Nat \ {0}] /\ \A b \in Bench : at[b] <= Len(Plan[b])
  /\ pc \in [Bench -> PcSet]
  /\ ok \in [Bench -> BOOLEAN]
  /\ cancel \in [Bench -> BOOLEAN]
  /\ known \in [Bench -> BOOLEAN]
  /\ tries \in [Bench -> 0..MaxTries]
  /\ proxy \in [Process -> {"none", "dying"} \cup Running]
  /\ port \in Process \cup {NoOwner, Leftover}
  /\ pods \in [Name -> {"absent", "booting", "up", "dead"}]
  /\ apiLost \subseteq Name /\ cut \subseteq Name /\ loose \subseteq Process
  /\ struck \subseteq Bench

(***************************************************************************)
(* The names of the pods a bench is through with: those of the conditions  *)
(* up to the current one, which counts once the bench has ended.  A        *)
(* condition listed twice has one name.                                    *)
(***************************************************************************)
Left(b) ==
  {<<Plan[b][i], b>> : i \in 1..at[b]} \ (IF pc[b] = "out" THEN {} ELSE {PodName(b)})

(***************************************************************************)
(* What the teardown guarantees, whatever step of provisioning, startup or *)
(* workload failed or was interrupted: a pod that is left behind is one    *)
(* whose DELETE failed and was logged, or whose teardown itself was cut    *)
(* short.  A cancellation delivered earlier never costs the DELETE.        *)
(***************************************************************************)
PodLeftOnlyIfCut ==
  \A b \in Bench : \A n \in Left(b) : pods[n] = "absent" \/ n \in apiLost \cup cut

(***************************************************************************)
(* ConditionLifecycle's docstring, "enter brings up the pod ..., exit      *)
(* optionally SCPs vllm.log out, kills the proxy, and DELETEs the pod": a  *)
(* pod that came up is gone when the bench has ended, or its DELETE failed *)
(* and was logged.                                                         *)
(***************************************************************************)
PodDeletedOnExit ==
  \A b \in Bench : pc[b] = "out" /\ known[b] =>
    pods[PodName(b)] = "absent" \/ PodName(b) \in apiLost

(***************************************************************************)
(* The proxies whose condition has been torn down, up to the first await   *)
(* of the teardown.                                                        *)
(***************************************************************************)
Past(b) ==
  {<<b, i>> : i \in 1..at[b]} \ (IF pc[b] \in {"dump", "delete", "out"} THEN {} ELSE {Own(b)})

(***************************************************************************)
(* A proxy that runs on after its condition is one whose teardown raised,  *)
(* and one that only holds the port has got its SIGKILL, whether the       *)
(* condition ended well, failed at its start or was interrupted.           *)
(***************************************************************************)
NoOrphanProxy ==
  \A b \in Bench : \A p \in Past(b) \ loose :
    proxy[p] \notin Running /\ (port = p => proxy[p] = "dying")

(***************************************************************************)
(* A workload never starts on the proxy of an earlier session.  If it      *)
(* starts on one that an earlier condition of the same bench spawned, then *)
(* both its teardown raised and the DELETE of its pod was lost, unless the *)
(* two conditions are the same one.                                        *)
(***************************************************************************)
NoStaleProxyServes ==
  [][\A b \in Bench : pc[b] # "body" /\ pc'[b] = "body" =>
       /\ port # Leftover
       /\ \A i \in 1..(at[b] - 1) : port = <<b, i>> =>
            port \in loose /\ PodOf(port) \in apiLost \cup {PodName(b)}]_vars

(***************************************************************************)
(* _start_local_proxy: the probe is there so that the /health check cannot *)
(* pass "against the *existing* process pointing at the wrong/dead pod".   *)
(* When the workload starts, the port is its own proxy's.                  *)
(***************************************************************************)
WorkloadStartsOnOwnProxy ==
  [][\A b \in Bench : pc[b] # "body" /\ pc'[b] = "body" => port = Own(b)]_vars

(***************************************************************************)
(* A pod that came up is deleted by its own bench only, and at the end of  *)
(* the teardown: no cleanup by name of another bench hits it.              *)
(***************************************************************************)
OnlyOwnerDeletes ==
  [][\A b \in Bench :
       known[b] /\ pods[PodName(b)] # "absent" /\ pods'[PodName(b)] = "absent"
         => pc[b] = "delete" /\ pc'[b] # "delete"]_vars

(***************************************************************************)
(* Whatever fails, no bench waits for ever for its pod or for its proxy.   *)
(***************************************************************************)
EveryBenchEnds == \A b \in Bench : <>(pc[b] = "out")
=============================================================================
