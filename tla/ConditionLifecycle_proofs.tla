----------------------- MODULE ConditionLifecycle_proofs -----------------------
(***************************************************************************)
(* Proofs about ConditionLifecycle, for any number of benches, any plans   *)
(* and any number of interrupts.                                           *)
(***************************************************************************)
EXTENDS ConditionLifecycle, TLAPS

(***************************************************************************)
(* The inductive invariant.  PortOwner ties the port to the process that   *)
(* holds it; without it a teardown that finds its proxy gone would not     *)
(* know that the port is free of it.  NotYet says that no condition ahead  *)
(* has a proxy, and CutIsLast that a bench whose teardown was cut goes on  *)
(* with no other condition.                                                *)
(***************************************************************************)
PortOwner == \A p \in Process : port = p => proxy[p] \in {"bound", "dying"}

NotYet == \A p \in Process : p[2] > at[p[1]] => proxy[p] = "none"

CutIsLast == \A n \in cut : pc[n[2]] = "out"

LeftoverProbed ==
  port = Leftover => \A b \in Bench : pc[b] \notin {"health", "preflight", "body"}

ProxyInv == PortOwner /\ NotYet /\ CutIsLast /\ LeftoverProbed /\ NoOrphanProxy

IInv == TypeOK /\ ProxyInv /\ PodLeftOnlyIfCut

LEMMA ProcessShape ==
  /\ \A b \in Bench : \A i \in DOMAIN Plan[b] : <<b, i>> \in Process
  /\ \A p \in Process : p[1] \in Bench /\ p[2] \in DOMAIN Plan[p[1]] /\ p = <<p[1], p[2]>>
  BY DEF Process

LEMMA PodNameType ==
  ASSUME TypeOK, NEW b \in Bench
  PROVE  /\ PodName(b) \in Name
         /\ PodName(b) = <<Plan[b][at[b]], b>>
         /\ Plan[b] \in Seq(Condition) /\ Len(Plan[b]) \in Nat \ {0}
         /\ Own(b) \in Process /\ Own(b) = <<b, at[b]>> /\ at[b] \in 1..Len(Plan[b])
<1>1. Plan[b] \in Seq(Condition) /\ Plan[b] # <<>>
  BY LifecycleAssumption
<1>2. Len(Plan[b]) \in Nat \ {0}
  BY <1>1
<1>3. at[b] \in 1..Len(Plan[b])
  BY <1>2 DEF TypeOK
<1>4. Plan[b][at[b]] \in Condition
  BY <1>1, <1>3
<1> QED
  BY <1>1, <1>2, <1>3, <1>4, ProcessShape DEF PodName, PodOf, Own, Name

LEMMA InitInv == Init => IInv
<1> SUFFICES ASSUME Init PROVE IInv
  OBVIOUS
<1>1. \A b \in Bench : Plan[b] \in Seq(Condition) /\ Plan[b] # <<>>
  BY LifecycleAssumption
<1>2. \A b \in Bench : 1 <= Len(Plan[b])
  BY <1>1
<1>3. TypeOK
  BY <1>2, LifecycleAssumption DEF Init, TypeOK, PcSet, Running
<1>4. ProxyInv
  <2>1. \A b \in Bench : Past(b) = {}
    BY DEF Init, Past, Own
  <2> QED BY <2>1, LifecycleAssumption
          DEF Init, ProxyInv, PortOwner, NotYet, CutIsLast, LeftoverProbed, NoOrphanProxy
<1>5. ASSUME NEW b \in Bench, NEW n \in Left(b) PROVE FALSE
  <2>1. 1..at[b] = {1} /\ pc[b] # "out"
    BY DEF Init
  <2>2. n # PodName(b) /\ n = <<Plan[b][1], b>>
    BY <2>1, <1>5 DEF Left
  <2> QED
    BY <2>2 DEF PodName, PodOf, Own, Init
<1> QED
  BY <1>3, <1>4, <1>5 DEF IInv, PodLeftOnlyIfCut

(***************************************************************************)
(* What a step of bench b does: it leaves the other benches alone, and of  *)
(* the pods and of the history of names it touches only its own.           *)
(***************************************************************************)
Local(b) ==
  /\ \A x \in Bench \ {b} : at'[x] = at[x] /\ pc'[x] = pc[x]
  /\ \A p \in Process \ {Own(b)} : proxy'[p] = proxy[p]
  /\ \A n \in Name \ {PodName(b)} : pods'[n] = pods[n]
  /\ apiLost \subseteq apiLost' /\ cut \subseteq cut' /\ loose \subseteq loose'
  /\ cut' \subseteq cut \cup {PodName(b)} /\ (cut' # cut => pc'[b] = "out")
  /\ port' = port \/ (port = Own(b) /\ port' = NoOwner)

(***************************************************************************)
(* A step of b either stays in its condition, or leaves it with its pod    *)
(* deleted, its DELETE failed or its teardown cut.                         *)
(***************************************************************************)
Stays(b) == at'[b] = at[b] /\ pc[b] # "out" /\ pc'[b] # "out"

Leaves(b) ==
  /\ pc[b] \in {"dump", "delete"}
  /\ \/ at'[b] = at[b] /\ pc'[b] = "out"
     \/ at'[b] = at[b] + 1 /\ pc'[b] = "enter"
  /\ pods'[PodName(b)] = "absent" \/ PodName(b) \in apiLost' \cup cut'

(***************************************************************************)
(* Every step of a bench preserves the types and is local.                 *)
(***************************************************************************)
LEMMA StepType ==
  ASSUME TypeOK, NEW b \in Bench, Step(b)
  PROVE  TypeOK' /\ Local(b) /\ (Stays(b) \/ Leaves(b))
<1> USE DEF TypeOK, Local, Stays, Leaves, Goto, Raise, PcSet, Running, hist
<1>0. PodName(b) \in Name /\ Len(Plan[b]) \in Nat \ {0} /\ Own(b) \in Process
  BY PodNameType
<1>00. MaxTries \in Nat \ {0}
  BY LifecycleAssumption
<1>1. CASE OneshotCreate(b)
  BY <1>0, <1>1 DEF OneshotCreate, Booted
<1>2. CASE OneshotDies(b)
  BY <1>0, <1>2 DEF OneshotDies, Booted
<1>3. CASE OneshotGivesUp(b)
  BY <1>0, <1>3 DEF OneshotGivesUp
<1>4. CASE OneshotUp(b)
  BY <1>0, <1>4 DEF OneshotUp
<1>5. CASE WaitPod(b)
  BY <1>5 DEF WaitPod, PodHealthy, PodUnhealthy
<1>6a. CASE Spawn(b)
  BY <1>0, <1>00, <1>6a DEF Spawn
<1>6b. CASE SpawnFails(b)
  BY <1>6b DEF SpawnFails
<1>6c. ASSUME PollAgain(b), pc[b] \in {"health", "preflight"}
       PROVE  TypeOK' /\ Local(b) /\ Stays(b)
  <2>1. CASE TryAgain(b)
    <3>1. tries[b] + 1 \in 0..MaxTries
      BY <1>00, <2>1 DEF TryAgain
    <3>2. tries' \in [Bench -> 0..MaxTries]
      <4>1. tries' = [tries EXCEPT ![b] = IF @ < MaxTries THEN @ + 1 ELSE @]
        BY <1>6c, <2>1 DEF PollAgain
      <4> QED
        BY <3>1, <4>1
    <3>3. /\ pc' = [pc EXCEPT ![b] = "health"]
          /\ UNCHANGED <<at, ok, cancel, known, proxy, port, pods, apiLost, cut, loose, struck>>
      BY <1>6c, <2>1 DEF PollAgain
    <3> QED
      BY <1>6c, <3>2, <3>3
  <2>2. CASE ~TryAgain(b)
    <3>1. /\ pc' = [pc EXCEPT ![b] = "teardown"] /\ ok' = [ok EXCEPT ![b] = FALSE]
          /\ tries' = [tries EXCEPT ![b] = 0]
          /\ UNCHANGED <<at, cancel, known, proxy, port, pods, apiLost, cut, loose, struck>>
      BY <1>6c, <2>2 DEF PollAgain
    <3>2. tries' \in [Bench -> 0..MaxTries]
      BY <1>00, <3>1
    <3> QED BY <1>6c, <3>1, <3>2
  <2> QED
    BY <2>1, <2>2
<1>7. CASE HealthMissed(b)
  BY <1>6c, <1>7 DEF HealthMissed
<1>8a. CASE HealthAnswered(b)
  BY <1>8a DEF HealthAnswered
<1>8b. CASE PreflightOk(b)
  <2>1. tries' \in [Bench -> 0..MaxTries]
    BY <1>00, <1>8b DEF PreflightOk
  <2> QED BY <1>8b, <2>1 DEF PreflightOk
<1>9. CASE PreflightFails(b)
  BY <1>6c, <1>9 DEF PreflightFails
<1>10. CASE BodyEnds(b)
  BY <1>10 DEF BodyEnds
<1>11. CASE Cancelled(b)
  BY <1>00, <1>11 DEF Cancelled
<1>12. CASE Teardown(b)
  <2>1. /\ proxy' \in [Process -> {"none", "dying"} \cup Running]
        /\ \A p \in Process \ {Own(b)} : proxy'[p] = proxy[p]
        /\ port' = port \/ (port = Own(b) /\ port' = NoOwner)
        /\ loose \subseteq loose' /\ loose' \subseteq Process
    BY <1>0, <1>12 DEF Teardown, Terminated, Killed, TeardownRaises, Released
  <2>2. pc' = [pc EXCEPT ![b] = AfterKill(b)] /\ AfterKill(b) \in {"dump", "delete"}
    BY <1>12 DEF Teardown, AfterKill
  <2> QED BY <1>12, <2>1, <2>2 DEF Teardown
<1>13. CASE DumpEnds(b)
  BY <1>13 DEF DumpEnds
<1>14. CASE DumpCancelled(b)
  BY <1>0, <1>14 DEF DumpCancelled
<1>15. CASE DeleteEnds(b)
  <2>1. CASE MoreToRun(b)
    <3>1. at' = [at EXCEPT ![b] = @ + 1] /\ at[b] + 1 <= Len(Plan[b])
      BY <1>0, <1>15, <2>1 DEF DeleteEnds, MoreToRun
    <3>2. /\ at' \in [Bench -> Nat \ {0}] /\ \A x \in Bench : at'[x] <= Len(Plan[x])
          /\ at'[b] = at[b] + 1 /\ \A x \in Bench \ {b} : at'[x] = at[x]
      BY <3>1
    <3>3. /\ pods' \in [Name -> {"absent", "booting", "up", "dead"}] /\ apiLost' \subseteq Name
          /\ pods'[PodName(b)] = "absent" \/ PodName(b) \in apiLost'
          /\ \A n \in Name \ {PodName(b)} : pods'[n] = pods[n]
          /\ apiLost \subseteq apiLost'
      BY <1>0, <1>15 DEF DeleteEnds, DeleteCall
    <3> QED
      BY ZenonT(60), <1>15, <2>1, <3>2, <3>3 DEF DeleteEnds
  <2>2. CASE ~MoreToRun(b)
    BY <1>0, <1>15, <2>2 DEF DeleteEnds, DeleteCall
  <2> QED
    BY <2>1, <2>2
<1>16. CASE DeleteCancelled(b)
  BY <1>0, <1>16 DEF DeleteCancelled, DeleteCall
<1> QED
  BY <1>1, <1>2, <1>3, <1>4, <1>5, <1>6a, <1>6b, <1>7, <1>8a, <1>8b, <1>9, <1>10, <1>11, <1>12,
     <1>13, <1>14, <1>15, <1>16 DEF Step, Provision, StartProxy, Cleanup

(***************************************************************************)
(* Membership in Left, as a function of the position and of the place the  *)
(* bench is at, so that it can be used before and after a step.            *)
(***************************************************************************)
Behind(b, k, p, n) ==
  \E i \in 1..k : n = <<Plan[b][i], b>> /\ (p = "out" \/ n # <<Plan[b][k], b>>)

LEMMA LeftIsBehind ==
  ASSUME NEW b \in Bench, NEW n
  PROVE  /\ n \in Left(b) <=> Behind(b, at[b], pc[b], n)
         /\ n \in Left(b)' <=> Behind(b, at'[b], pc'[b], n)
BY DEF Left, Behind, PodName, PodOf, Own

LEMMA BehindIsName ==
  ASSUME TypeOK, NEW b \in Bench, NEW p, NEW n, Behind(b, at[b], p, n)
  PROVE  n \in Name /\ n[2] = b
<1>1. PICK i \in 1..at[b] : n = <<Plan[b][i], b>>
  BY DEF Behind
<1>2. i \in 1..Len(Plan[b]) /\ Plan[b] \in Seq(Condition)
  BY PodNameType DEF TypeOK
<1>3. Plan[b][i] \in Condition
  BY <1>2
<1> QED
  BY <1>1, <1>3 DEF Name

(***************************************************************************)
(* A step of a bench keeps the pods that were left behind gone, and adds   *)
(* its own one only when it is deleted, lost or cut.                       *)
(***************************************************************************)
LEMMA StepLeft ==
  ASSUME TypeOK, PodLeftOnlyIfCut, NEW b \in Bench, Local(b), Stays(b) \/ Leaves(b)
  PROVE  PodLeftOnlyIfCut'
<1> SUFFICES ASSUME NEW x \in Bench, NEW n \in Left(x)'
             PROVE  pods'[n] = "absent" \/ n \in apiLost' \cup cut'
  BY DEF PodLeftOnlyIfCut
<1>1. Behind(x, at'[x], pc'[x], n)
  BY LeftIsBehind
<1>2. PodName(b) = <<Plan[b][at[b]], b>> /\ at[b] \in Nat \ {0}
  BY PodNameType DEF TypeOK
<1>3. ASSUME Behind(x, at[x], pc[x], n), n # PodName(b)
      PROVE  pods'[n] = "absent" \/ n \in apiLost' \cup cut'
  <2>1. n \in Name
    BY <1>3, BehindIsName
  <2>2. pods[n] = "absent" \/ n \in apiLost \cup cut
    BY <1>3, LeftIsBehind DEF PodLeftOnlyIfCut
  <2> QED
    BY <1>3, <2>1, <2>2 DEF Local
<1>4. CASE x # b
  <2>1. Behind(x, at[x], pc[x], n)
    BY <1>1, <1>4 DEF Local
  <2>2. n # PodName(b)
    BY SMTT(40), <1>2, <1>4, <2>1, BehindIsName
  <2> QED
    BY <1>3, <2>1, <2>2
<1>5. CASE x = b /\ Stays(b)
  <2>1. Behind(x, at[x], pc[x], n) /\ n # PodName(b)
    BY <1>1, <1>2, <1>5 DEF Stays, Behind
  <2> QED
    BY <1>3, <2>1
<1>6. CASE x = b /\ Leaves(b)
  <2>1. CASE n = PodName(b)
    BY <1>6, <2>1 DEF Leaves
  <2>2. CASE n # PodName(b)
    <3>1. Behind(x, at[x], pc[x], n)
      BY <1>1, <1>2, <1>6, <2>2 DEF Leaves, Behind
    <3> QED
      BY <1>3, <2>2, <3>1
  <2> QED
    BY <2>1, <2>2
<1> QED
  BY <1>4, <1>5, <1>6

(***************************************************************************)
(* Membership in Past, likewise.                                           *)
(***************************************************************************)
Torn == {"dump", "delete", "out"}
Before(b, k, p, q) == \E i \in 1..k : q = <<b, i>> /\ (p \in Torn \/ i # k)

LEMMA PastIsBefore ==
  ASSUME NEW b \in Bench, NEW q
  PROVE  /\ q \in Past(b) <=> Before(b, at[b], pc[b], q)
         /\ q \in Past(b)' <=> Before(b, at'[b], pc'[b], q)
BY DEF Past, Before, Own, Torn

LEMMA PastIsProcess ==
  ASSUME TypeOK, NEW b \in Bench, NEW p, NEW q, Before(b, at[b], p, q)
  PROVE  q \in Process /\ q[1] = b
<1>1. PICK i \in 1..at[b] : q = <<b, i>>
  BY DEF Before
<1>2. i \in DOMAIN Plan[b]
  BY PodNameType
<1> QED BY <1>1, <1>2, ProcessShape

(***************************************************************************)
(* A step of a bench adds to the past proxies its own one only, and only   *)
(* with the teardown.                                                      *)
(***************************************************************************)
LEMMA StepPast ==
  ASSUME TypeOK, NEW b \in Bench, Local(b),
         \/ at'[b] = at[b] /\ (pc'[b] \notin Torn \/ pc[b] \in Torn)
         \/ at'[b] = at[b] + 1 /\ pc[b] \in Torn /\ pc'[b] \notin Torn
  PROVE  \A x \in Bench : Past(x)' \subseteq Past(x)
<1> SUFFICES ASSUME NEW x \in Bench, NEW q \in Past(x)' PROVE q \in Past(x) OBVIOUS
<1>1. Before(x, at'[x], pc'[x], q) /\ at[x] \in Nat \ {0}
  BY PastIsBefore DEF TypeOK
<1>2. Before(x, at[x], pc[x], q)
  <2>1. CASE x # b
    BY <1>1, <2>1 DEF Local
  <2>2. CASE x = b
    BY <1>1, <2>2 DEF Before
  <2> QED BY <2>1, <2>2
<1> QED BY <1>2, PastIsBefore

(***************************************************************************)
(* What a proxy that is past may still do: nothing, unless its teardown    *)
(* raised, but hold the port until it is dead.                             *)
(***************************************************************************)
Quiet(p) == proxy[p] \notin Running /\ (port = p => proxy[p] = "dying")

LEMMA QuietStays ==
  ASSUME TypeOK, NEW b \in Bench, NEW q \in Process, Quiet(q),
         Local(b), q = Own(b) => proxy'[q] = proxy[q]
  PROVE  Quiet(q)'
<1>1. NoOwner # q
  BY LifecycleAssumption
<1> QED BY <1>1 DEF Quiet, Local

(***************************************************************************)
(* A step of a bench keeps the proxies and the port in order.              *)
(***************************************************************************)
LEMMA StepOrphan ==
  ASSUME TypeOK, ProxyInv, NEW b \in Bench, Step(b), Local(b)
  PROVE  NoOrphanProxy'
<1> USE DEF Goto, Raise, hist
<1> SUFFICES ASSUME NEW x \in Bench, NEW q \in Past(x)' \ loose' PROVE Quiet(q)'
  BY DEF NoOrphanProxy, Quiet
<1>0. q \notin loose /\ Own(b) \in Process /\ NoOwner \notin Process /\ pc \in [Bench -> PcSet]
  BY PodNameType, LifecycleAssumption DEF Local, TypeOK
<1>1. \A y \in Bench : q \in Past(y) => q \in Process /\ Quiet(q)
  BY <1>0, PastIsBefore, PastIsProcess DEF ProxyInv, NoOrphanProxy, Quiet
<1>2. CASE Teardown(b)
  <2>1. at' = at
    BY <1>2 DEF Teardown
  <2>2. CASE q = Own(b)
    <3>1. CASE MustKill(b)
      BY <1>0, <1>2, <2>2, <3>1
         DEF Teardown, Terminated, Killed, TeardownRaises, Released, Quiet, Running, TypeOK
    <3>2. CASE ~MustKill(b)
      BY <1>0, <1>2, <2>2, <3>2 DEF Teardown, MustKill, Quiet, Running, ProxyInv, PortOwner
    <3> QED BY <3>1, <3>2
  <2>3. CASE q # Own(b)
    <3>1. Before(x, at[x], pc'[x], q)
      BY <2>1, PastIsBefore
    <3>2. Before(x, at[x], pc[x], q)
      <4>1. CASE x # b
        BY <3>1, <4>1 DEF Local
      <4>2. CASE x = b
        BY <2>3, <3>1, <4>2 DEF Before, Own
      <4> QED BY <4>1, <4>2
    <3>3. Quiet(q) /\ q \in Process
      BY <1>1, <3>2, PastIsBefore
    <3> QED BY <2>3, <3>3, QuietStays
  <2> QED BY <2>2, <2>3
<1>3. CASE Spawn(b)
  <2>1. at' = at /\ pc'[b] \notin Torn
    BY <1>0, <1>3 DEF Spawn, Torn
  <2>2. q \in Past(x)
    BY <2>1, StepPast
  <2>3. q # Own(b)
    <3>1. Before(x, at[x], pc[x], q) /\ pc[b] \notin Torn
      BY <1>3, <2>2, PastIsBefore DEF Spawn, Torn
    <3> QED BY <3>1 DEF Before, Own
  <2> QED BY <1>1, <2>2, <2>3, QuietStays
<1>4. CASE ~Teardown(b) /\ ~Spawn(b)
  <2>1. UNCHANGED proxy
    BY <1>4
       DEF Step, Provision, WaitPod, StartProxy, Cleanup, OneshotCreate, OneshotDies,
           OneshotGivesUp, OneshotUp, PodHealthy, PodUnhealthy, SpawnFails, HealthMissed,
           HealthAnswered, PreflightOk, PreflightFails, PollAgain, BodyEnds, Cancelled,
           DumpEnds, DumpCancelled, DeleteEnds, DeleteCancelled
  <2>2. \/ at'[b] = at[b] /\ (pc'[b] \notin Torn \/ pc[b] \in Torn)
        \/ at'[b] = at[b] + 1 /\ pc[b] \in Torn /\ pc'[b] \notin Torn
    <3> USE <1>0 DEF Torn
    <3>1. CASE Provision(b)
      BY <3>1 DEF Provision, OneshotCreate, OneshotDies, OneshotGivesUp, OneshotUp
    <3>2. CASE WaitPod(b) \/ StartProxy(b) \/ BodyEnds(b) \/ Cancelled(b)
      BY <1>4, <3>2 DEF WaitPod, StartProxy, PodHealthy, PodUnhealthy, SpawnFails,
         HealthMissed, HealthAnswered, PreflightOk, PreflightFails, PollAgain, BodyEnds, Cancelled
    <3>3. CASE DumpEnds(b) \/ DumpCancelled(b) \/ DeleteCancelled(b)
      BY <3>3 DEF DumpEnds, DumpCancelled, DeleteCancelled
    <3>4. CASE DeleteEnds(b)
      BY <3>4 DEF DeleteEnds, TypeOK
    <3> QED BY <1>4, <3>1, <3>2, <3>3, <3>4 DEF Step, Cleanup
  <2>3. q \in Past(x)
    BY <2>2, StepPast
  <2> QED BY <1>1, <2>1, <2>3, QuietStays
<1> QED BY <1>2, <1>3, <1>4

LEMMA StepPort ==
  ASSUME TypeOK, ProxyInv, NEW b \in Bench, Step(b), Local(b), Stays(b) \/ Leaves(b)
  PROVE  PortOwner' /\ NotYet' /\ CutIsLast' /\ LeftoverProbed'
<1> USE DEF Goto, Raise, hist
<1>0. /\ Own(b) \in Process /\ NoOwner \notin Process /\ Leftover \notin Process
      /\ NoOwner # Leftover /\ pc \in [Bench -> PcSet]
      /\ proxy \in [Process -> {"none", "dying"} \cup Running]
  BY PodNameType, LifecycleAssumption DEF TypeOK
<1>1. PortOwner'
  <2>1. port = Own(b) => port' = NoOwner \/ proxy'[Own(b)] \in {"bound", "dying"}
    <3>1. CASE Spawn(b)
      BY <1>0, <3>1 DEF Spawn, AlreadyBound
    <3>2. CASE Teardown(b)
      BY <1>0, <3>2 DEF Teardown, Terminated, Killed, TeardownRaises, Released,
                        ProxyInv, PortOwner
    <3>3. CASE ~Teardown(b) /\ ~Spawn(b)
      <4>1. UNCHANGED proxy
        BY <3>3
           DEF Step, Provision, WaitPod, StartProxy, Cleanup, OneshotCreate, OneshotDies,
               OneshotGivesUp, OneshotUp, PodHealthy, PodUnhealthy, SpawnFails, HealthMissed,
               HealthAnswered, PreflightOk, PreflightFails, PollAgain, BodyEnds, Cancelled,
               DumpEnds, DumpCancelled, DeleteEnds, DeleteCancelled
      <4> QED BY <1>0, <4>1 DEF ProxyInv, PortOwner
    <3> QED BY <3>1, <3>2, <3>3
  <2> QED BY <1>0, <2>1 DEF Local, ProxyInv, PortOwner
<1>2. NotYet'
  <2> SUFFICES ASSUME NEW p \in Process, p[2] > at'[p[1]] PROVE proxy'[p] = "none"
    BY DEF NotYet
  <2>1. p[1] \in Bench /\ p[2] \in Nat /\ at[b] \in Nat
    <3>1. p[1] \in Bench /\ p[2] \in DOMAIN Plan[p[1]]
      BY ProcessShape
    <3>2. Plan[p[1]] \in Seq(Condition)
      BY <3>1, PodNameType
    <3> QED BY <3>1, <3>2 DEF TypeOK
  <2>2. p[2] > at[p[1]]
    BY <2>1 DEF Local, Stays, Leaves
  <2>3. p # Own(b)
    BY <2>1, <2>2 DEF Own
  <2> QED BY <2>2, <2>3 DEF Local, ProxyInv, NotYet
<1>3. CutIsLast'
  <2> SUFFICES ASSUME NEW n \in cut' PROVE pc'[n[2]] = "out"
    BY DEF CutIsLast
  <2>1. CASE n = PodName(b)
    <3>1. n[2] = b
      BY <2>1, PodNameType
    <3>2. n \in cut => FALSE
      <4>1. pc[b] # "out"
        BY DEF Stays, Leaves
      <4> QED BY <3>1, <4>1 DEF ProxyInv, CutIsLast
    <3> QED BY <3>1, <3>2 DEF Local
  <2>2. CASE n # PodName(b)
    <3>1. n \in cut /\ n[2] \in Bench
      BY <2>2 DEF Local, TypeOK, Name
    <3>2. n[2] # b
      BY <3>1 DEF ProxyInv, CutIsLast, Stays, Leaves
    <3> QED BY <3>1, <3>2 DEF Local, ProxyInv, CutIsLast
  <2> QED BY <2>1, <2>2
<1>4. LeftoverProbed'
  <2>1. ASSUME port' = Leftover PROVE pc'[b] \notin {"health", "preflight", "body"}
    <3>1. port = Leftover /\ pc[b] \notin {"health", "preflight", "body"}
      BY <1>0, <2>1 DEF Local, ProxyInv, LeftoverProbed
    <3> USE <1>0, <3>1
    <3>2. CASE Provision(b)
      BY <3>2 DEF Provision, OneshotCreate, OneshotDies, OneshotGivesUp, OneshotUp
    <3>3. CASE WaitPod(b) \/ StartProxy(b) \/ BodyEnds(b) \/ Cancelled(b)
      BY <3>3 DEF WaitPod, StartProxy, PodHealthy, PodUnhealthy, Spawn, AlreadyBound, SpawnFails,
         HealthMissed, HealthAnswered, PreflightOk, PreflightFails, PollAgain, BodyEnds, Cancelled
    <3>4. CASE Cleanup(b)
      BY <3>4 DEF Cleanup, Teardown, AfterKill, DumpEnds, DumpCancelled, DeleteEnds,
         DeleteCancelled
    <3> QED BY <3>2, <3>3, <3>4 DEF Step
  <2> QED BY <1>0, <2>1 DEF Local, ProxyInv, LeftoverProbed
<1> QED BY <1>1, <1>2, <1>3, <1>4

(***************************************************************************)
(* The environment keeps the invariant.                                    *)
(***************************************************************************)
LEMMA EnvironmentInv == IInv /\ Environment => IInv'
<1> SUFFICES ASSUME IInv, Environment PROVE IInv'
  OBVIOUS
<1> USE DEF IInv, PcSet, Running, hist, ProxyInv, PortOwner, NotYet, CutIsLast, LeftoverProbed
<1>0. NoOwner \notin Process /\ Leftover \notin Process /\ NoOwner # Leftover
  BY LifecycleAssumption
<1>1. ASSUME UNCHANGED <<at, pc, hist>>, \A n \in Name : pods[n] = "absent" => pods'[n] = "absent"
      PROVE  PodLeftOnlyIfCut'
  <2> SUFFICES ASSUME NEW b \in Bench, NEW n \in Left(b)'
               PROVE  pods'[n] = "absent" \/ n \in apiLost' \cup cut'
    BY DEF PodLeftOnlyIfCut
  <2>1. n \in Left(b)
    BY <1>1 DEF Left, PodName, PodOf, Own
  <2>2. n \in Name
    BY <2>1, LeftIsBehind, BehindIsName
  <2> QED
    BY <1>1, <2>1, <2>2 DEF PodLeftOnlyIfCut
<1>2. ASSUME UNCHANGED <<at, pc, hist>>, NEW p \in Process,
             \A q \in Process \ {p} : proxy'[q] = proxy[q] /\ (port' = q => port = q),
             Quiet(p) => Quiet(p)'
      PROVE  NoOrphanProxy'
  <2> SUFFICES ASSUME NEW b \in Bench, NEW q \in Past(b)' \ loose' PROVE Quiet(q)'
    BY DEF NoOrphanProxy, Quiet
  <2>1. Past(b)' = Past(b) /\ loose' = loose
    BY <1>2 DEF Past, Own
  <2>2. q \in Process /\ Quiet(q)
    <3>1. Before(b, at[b], pc[b], q)
      BY <2>1, PastIsBefore
    <3> QED BY <2>1, <3>1, PastIsProcess DEF NoOrphanProxy, Quiet
  <2> QED BY <1>2, <2>2 DEF Quiet
<1>3. ASSUME UNCHANGED <<at, pc, hist, proxy>>, \A q \in Process : port' = q => port = q
      PROVE  NoOrphanProxy'
  <2> SUFFICES ASSUME NEW b \in Bench, NEW q \in Past(b)' \ loose' PROVE Quiet(q)'
    BY DEF NoOrphanProxy, Quiet
  <2>1. Past(b)' = Past(b) /\ loose' = loose
    BY <1>3 DEF Past, Own
  <2>2. q \in Process /\ Quiet(q)
    <3>1. Before(b, at[b], pc[b], q)
      BY <2>1, PastIsBefore
    <3> QED BY <2>1, <3>1, PastIsProcess DEF NoOrphanProxy, Quiet
  <2> QED BY <1>3, <2>2 DEF Quiet
<1>4. ASSUME NEW b \in Bench, Interrupt(b) PROVE IInv'
  <2>1. TypeOK'
    BY <1>4 DEF Interrupt, TypeOK
  <2> QED BY <1>1, <1>3, <1>4, <2>1 DEF Interrupt
<1>5. ASSUME NEW p \in Process, ProxyBinds(p) PROVE IInv'
  <2>1. TypeOK'
    BY <1>5 DEF ProxyBinds, TypeOK
  <2>2. NoOrphanProxy'
    BY <1>0, <1>2, <1>5 DEF ProxyBinds, Quiet, TypeOK
  <2>3. PortOwner' /\ NotYet' /\ CutIsLast' /\ LeftoverProbed'
    BY <1>0, <1>5 DEF ProxyBinds, TypeOK
  <2> QED BY <1>1, <1>5, <2>1, <2>2, <2>3 DEF ProxyBinds
<1>6. ASSUME NEW p \in Process, ProxyExits(p) PROVE IInv'
  <2>1. TypeOK'
    BY <1>6 DEF ProxyExits, Released, TypeOK
  <2>2. NoOrphanProxy'
    BY <1>0, <1>2, <1>6 DEF ProxyExits, Released, Quiet, TypeOK
  <2>3. PortOwner' /\ NotYet' /\ CutIsLast' /\ LeftoverProbed'
    BY <1>0, <1>6 DEF ProxyExits, Released, TypeOK
  <2> QED BY <1>1, <1>6, <2>1, <2>2, <2>3 DEF ProxyExits
<1>7. CASE LeftoverExits
  <2>1. TypeOK'
    BY <1>7 DEF LeftoverExits, TypeOK
  <2> QED BY <1>0, <1>1, <1>3, <1>7, <2>1 DEF LeftoverExits
<1>8. ASSUME NEW m \in Name, PodDies(m) PROVE IInv'
  <2>1. TypeOK' /\ \A n \in Name : pods[n] = "absent" => pods'[n] = "absent"
    BY <1>8 DEF PodDies, TypeOK
  <2> QED BY <1>1, <1>3, <1>8, <2>1 DEF PodDies
<1> QED
  BY <1>4, <1>5, <1>6, <1>7, <1>8 DEF Environment

LEMMA NextInv == IInv /\ [Next]_vars => IInv'
<1> SUFFICES ASSUME IInv, [Next]_vars PROVE IInv'
  OBVIOUS
<1>1. ASSUME NEW b \in Bench, Step(b) PROVE IInv'
  <2>1. TypeOK' /\ Local(b) /\ (Stays(b) \/ Leaves(b))
    BY <1>1, StepType DEF IInv
  <2>2. PodLeftOnlyIfCut'
    BY <2>1, StepLeft DEF IInv
  <2>3. ProxyInv'
    BY <1>1, <2>1, StepOrphan, StepPort DEF IInv, ProxyInv
  <2> QED
    BY <2>1, <2>2, <2>3 DEF IInv
<1>2. CASE Environment
  BY <1>2, EnvironmentInv
<1>3. CASE UNCHANGED vars
  BY <1>3 DEF IInv, TypeOK, ProxyInv, PortOwner, NotYet, CutIsLast, LeftoverProbed,
              NoOrphanProxy, Past, PodLeftOnlyIfCut, Left, PodName, PodOf, Own, vars, hist
<1> QED
  BY <1>1, <1>2, <1>3 DEF Next

(***************************************************************************)
(* The inductive invariant holds in every reachable state.                 *)
(***************************************************************************)
THEOREM Invariance == Spec => []IInv
BY InitInv, NextInv, PTL DEF Spec

(***************************************************************************)
(* Every variable keeps its type.                                          *)
(***************************************************************************)
THEOREM TypeCorrect == Spec => []TypeOK
<1>1. IInv => TypeOK
  BY DEF IInv
<1> QED
  BY <1>1, Invariance, PTL

(***************************************************************************)
(* A pod that a bench leaves behind is one whose DELETE failed or whose    *)
(* teardown a cancellation cut short.                                      *)
(***************************************************************************)
THEOREM NoPodForgotten == Spec => []PodLeftOnlyIfCut
<1>1. IInv => PodLeftOnlyIfCut
  BY DEF IInv
<1> QED
  BY <1>1, Invariance, PTL

(***************************************************************************)
(* A proxy runs on after its condition only when its teardown raised, and  *)
(* holds the port then or while its SIGKILL is under way.                  *)
(***************************************************************************)
THEOREM ProxyGone == Spec => []NoOrphanProxy
<1>1. IInv => NoOrphanProxy
  BY DEF IInv, ProxyInv
<1> QED
  BY <1>1, Invariance, PTL

(***************************************************************************)
(* The probe of the port keeps every workload off a leftover proxy, and a  *)
(* bench gets to one of its own earlier proxies only when the teardown of  *)
(* that proxy raised and the DELETE of its pod was lost.                   *)
(***************************************************************************)
THEOREM NeverOnStale == Spec => NoStaleProxyServes
<1> DEFINE Starts ==
      \A b \in Bench : pc[b] # "body" /\ pc'[b] = "body" =>
        /\ port # Leftover
        /\ \A i \in 1..(at[b] - 1) : port = <<b, i>> =>
             port \in loose /\ PodOf(port) \in apiLost \cup {PodName(b)}
<1>1. IInv /\ [Next]_vars => Starts
  <2> SUFFICES ASSUME IInv, [Next]_vars, NEW b \in Bench, pc[b] # "body", pc'[b] = "body"
               PROVE  /\ port # Leftover
                      /\ \A i \in 1..(at[b] - 1) : port = <<b, i>> =>
                           port \in loose /\ PodOf(port) \in apiLost \cup {PodName(b)}
    OBVIOUS
  <2>0. TypeOK /\ ProxyInv /\ PodLeftOnlyIfCut
    BY DEF IInv
  <2>1. PreflightOk(b)
    <3>1. ASSUME NEW x \in Bench, Step(x), x # b PROVE FALSE
      BY <2>0, <3>1, StepType DEF Local
    <3>2. CASE Environment \/ UNCHANGED vars
      BY <3>2 DEF Environment, Interrupt, ProxyBinds, ProxyExits, PodDies, LeftoverExits, vars
    <3>3. CASE Step(b)
      BY <2>0, <3>3
         DEF Step, Provision, WaitPod, StartProxy, Cleanup, OneshotCreate, OneshotDies,
             OneshotGivesUp, OneshotUp, PodHealthy, PodUnhealthy, Spawn, SpawnFails,
             HealthMissed, HealthAnswered, PreflightFails, PollAgain, BodyEnds, Cancelled,
             Teardown, AfterKill, DumpEnds, DumpCancelled, DeleteEnds, DeleteCancelled,
             Goto, Raise, TypeOK
    <3> QED BY <3>1, <3>2, <3>3 DEF Next
  <2>2. port # Leftover
    BY <2>0, <2>1 DEF PreflightOk, ProxyInv, LeftoverProbed
  <2>3. ASSUME NEW i \in 1..(at[b] - 1), port = <<b, i>>
        PROVE  port \in loose /\ PodOf(port) \in apiLost \cup {PodName(b)}
    <3>0. at[b] \in 1..Len(Plan[b]) /\ Len(Plan[b]) \in Nat /\ i \in 1..at[b] /\ i # at[b]
      BY <2>0, PodNameType
    <3>1. port \in Past(b)
      BY <2>3, <3>0, PastIsBefore DEF Before
    <3>2. proxy[port] = "bound" /\ pods[PodOf(port)] = "up"
      BY <2>1, <2>2 DEF PreflightOk, Serves, Bound
    <3>3. port \in loose
      BY <2>0, <3>1, <3>2 DEF ProxyInv, NoOrphanProxy, Running
    <3>4. PodOf(port) = <<Plan[b][i], b>>
      BY <2>3 DEF PodOf
    <3>5. ASSUME PodOf(port) # PodName(b) PROVE PodOf(port) \in apiLost
      <4>1. PodOf(port) \in Left(b)
        BY <3>0, <3>4, <3>5 DEF Left
      <4>2. PodOf(port) \in apiLost \cup cut
        BY <2>0, <3>2, <4>1 DEF PodLeftOnlyIfCut
      <4>3. PodOf(port) \notin cut
        BY <2>0, <2>1, <3>4 DEF PreflightOk, ProxyInv, CutIsLast
      <4> QED BY <4>2, <4>3
    <3> QED BY <3>3, <3>5
  <2> QED BY <2>2, <2>3
<1>2. [][Starts]_vars <=> NoStaleProxyServes
  BY PTL DEF NoStaleProxyServes
<1> QED BY InitInv, NextInv, <1>1, <1>2, PTL DEF Spec

-----------------------------------------------------------------------------
(***************************************************************************)
(* A pod id is known only once the subprocess that boots the pod is over:  *)
(* without it the subprocess's own DELETE, when it gives up, could hit a   *)
(* pod that had come up.                                                   *)
(***************************************************************************)
KnownLate ==
  /\ TypeOK
  /\ \A b \in Bench : pc[b] \in {"enter", "boot"} => ~known[b]

LEMMA KnownInit == Init => KnownLate
  BY InitInv DEF IInv, KnownLate, Init

LEMMA KnownStep == KnownLate /\ [Next]_vars => KnownLate'
<1> SUFFICES ASSUME KnownLate, [Next]_vars PROVE KnownLate' OBVIOUS
<1> USE DEF KnownLate, TypeOK, Goto, Raise, hist
<1>1. ASSUME NEW b \in Bench, Step(b) PROVE KnownLate'
  <2>1. TypeOK'
    BY <1>1, StepType
  <2>2. ASSUME NEW x \in Bench, x # b PROVE pc'[x] = pc[x] /\ known'[x] = known[x]
    <3>1. pc'[x] = pc[x]
      BY <1>1, <2>2, StepType DEF Local
    <3>2. known'[x] = known[x]
      BY <1>1, <2>2
         DEF Step, Provision, WaitPod, StartProxy, Cleanup, OneshotCreate, OneshotDies,
             OneshotGivesUp, OneshotUp, PodHealthy, PodUnhealthy, Spawn, SpawnFails,
             HealthMissed, HealthAnswered, PreflightOk, PreflightFails, PollAgain, BodyEnds,
             Cancelled, Teardown, DumpEnds, DumpCancelled, DeleteEnds, DeleteCancelled
    <3> QED BY <3>1, <3>2
  <2>3. pc'[b] \in {"enter", "boot"} => ~known'[b]
    <3>1. CASE Provision(b)
      BY <3>1 DEF Provision, OneshotCreate, OneshotDies, OneshotGivesUp, OneshotUp
    <3>2. CASE WaitPod(b) \/ StartProxy(b) \/ BodyEnds(b) \/ Cancelled(b)
      BY <3>2 DEF WaitPod, StartProxy, PodHealthy, PodUnhealthy, Spawn, SpawnFails,
         HealthMissed, HealthAnswered, PreflightOk, PreflightFails, PollAgain, BodyEnds, Cancelled
    <3>3. CASE Cleanup(b)
      BY <3>3 DEF Cleanup, Teardown, AfterKill, DumpEnds, DumpCancelled, DeleteEnds,
         DeleteCancelled
    <3> QED BY <1>1, <3>1, <3>2, <3>3 DEF Step
  <2> QED BY <2>1, <2>2, <2>3
<1>2. CASE Environment \/ UNCHANGED vars
  <2>1. UNCHANGED <<pc, known>>
    BY <1>2 DEF Environment, Interrupt, ProxyBinds, ProxyExits, PodDies, LeftoverExits, vars
  <2>2. TypeOK'
    <3>1. CASE UNCHANGED vars
      BY <3>1 DEF vars
    <3>2. ASSUME NEW b \in Bench, Interrupt(b) PROVE TypeOK'
      BY <3>2 DEF Interrupt
    <3>3. ASSUME NEW p \in Process, ProxyBinds(p) PROVE TypeOK'
      BY <3>3 DEF ProxyBinds, Running
    <3>4. ASSUME NEW p \in Process, ProxyExits(p) PROVE TypeOK'
      BY <3>4 DEF ProxyExits, Released
    <3>5. CASE LeftoverExits
      BY <3>5 DEF LeftoverExits
    <3>6. ASSUME NEW n \in Name, PodDies(n) PROVE TypeOK'
      BY <3>6 DEF PodDies
    <3> QED BY <1>2, <3>1, <3>2, <3>3, <3>4, <3>5, <3>6 DEF Environment
  <2> QED BY <2>1, <2>2
<1> QED BY <1>1, <1>2 DEF Next

(***************************************************************************)
(* However many benches clean up by name, a pod that came up is deleted by *)
(* its own bench only, in the last step of its teardown.                   *)
(***************************************************************************)
THEOREM OwnDeletes == Spec => OnlyOwnerDeletes
<1> DEFINE Mine ==
      \A b \in Bench :
        known[b] /\ pods[PodName(b)] # "absent" /\ pods'[PodName(b)] = "absent"
          => pc[b] = "delete" /\ pc'[b] # "delete"
<1>1. KnownLate /\ [Next]_vars => Mine
  <2> SUFFICES ASSUME KnownLate, [Next]_vars, NEW b \in Bench, known[b],
                      pods[PodName(b)] # "absent", pods'[PodName(b)] = "absent"
               PROVE  pc[b] = "delete" /\ pc'[b] # "delete"
    OBVIOUS
  <2> USE DEF Goto, Raise, hist
  <2>1. PodName(b) \in Name /\ \A x \in Bench : x # b => PodName(x) # PodName(b)
    BY PodNameType DEF KnownLate
  <2>2. ASSUME NEW x \in Bench, Step(x), x # b PROVE FALSE
    BY <2>1, <2>2, StepType DEF KnownLate, Local
  <2>3. CASE Step(b)
    <3>1. CASE Provision(b)
      BY <2>1, <3>1 DEF Provision, OneshotCreate, OneshotDies, OneshotGivesUp, OneshotUp,
         Booted, KnownLate, TypeOK
    <3>2. CASE WaitPod(b) \/ StartProxy(b) \/ BodyEnds(b) \/ Cancelled(b)
      BY <3>2 DEF WaitPod, StartProxy, PodHealthy, PodUnhealthy, Spawn, SpawnFails,
         HealthMissed, HealthAnswered, PreflightOk, PreflightFails, PollAgain, BodyEnds, Cancelled
    <3>3. CASE Cleanup(b)
      BY <3>3 DEF Cleanup, Teardown, DumpEnds, DumpCancelled, DeleteEnds, DeleteCancelled,
         KnownLate, TypeOK
    <3> QED BY <2>3, <3>1, <3>2, <3>3 DEF Step
  <2>4. CASE Environment \/ UNCHANGED vars
    BY <2>1, <2>4 DEF Environment, Interrupt, ProxyBinds, ProxyExits, PodDies, LeftoverExits,
       vars, KnownLate, TypeOK
  <2> QED BY <2>2, <2>3, <2>4 DEF Next
<1>2. [][Mine]_vars <=> OnlyOwnerDeletes
  BY PTL DEF OnlyOwnerDeletes
<1> QED BY KnownInit, KnownStep, <1>1, <1>2, PTL DEF Spec
=============================================================================
