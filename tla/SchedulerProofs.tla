--------------------------- MODULE SchedulerProofs ---------------------------
(***************************************************************************)
(* Proofs about the Scheduler for any jobs, any pool and any bound on the  *)
(* tasks, when register_job replaces nothing.  The inductive invariant     *)
(* adds to the properties what ties them together: a loop that has been    *)
(* cancelled and still lives is waited for by whoever holds the lock.      *)
(***************************************************************************)
EXTENDS Scheduler, TLAPS

\* The loops that have existed are the ones the counters say.
LoopsAreCounted ==
    /\ \A l \in Loops : pc[l] = "unborn" <=> l[2] > made[JobOf(l)]
    /\ \A id \in Ids : jobs[id] <= made[id]
    /\ \A l \in cancelled : pc[l] # "unborn"

CancelledAreAwaited ==
    /\ Live \cap cancelled \subseteq awaited
    /\ lock = "free" => awaited = {}

StoppedAreCancelled == ~running => Live \subseteq cancelled

IInv ==
    /\ TypeOK
    /\ LoopsAreCounted
    /\ OneLoopPerJob
    /\ CancelledAreAwaited
    /\ StoppedAreCancelled

LEMMA LoopShape ==
    /\ \A l \in Loops : /\ JobOf(l) \in Ids /\ l[2] \in 1..MaxLoops
                        /\ l = <<JobOf(l), l[2]>>
    /\ \A l, m \in Loops : JobOf(l) = JobOf(m) /\ l[2] = m[2] => l = m
BY DEF Loops, JobOf

LEMMA InitIInv == Init => IInv
<1> SUFFICES ASSUME Init PROVE IInv
  OBVIOUS
<1> USE DEF Init
<1>1. Live = {}
  BY DEF Live
<1>2. TypeOK
  <2>1. MaxLoops \in Nat /\ 0 \in 0..MaxLoops
    BY BoundsAssumption
  <2>2. jobs \in [Ids -> (0..MaxLoops) \cup {-1}] /\ made \in [Ids -> 0..MaxLoops]
    BY <2>1 DEF Absent
  <2>3. pc \in [Loops -> PCs]
    BY DEF PCs
  <2> QED
    BY <2>2, <2>3 DEF TypeOK
<1>3. LoopsAreCounted
  BY LoopShape, BoundsAssumption DEF LoopsAreCounted, Absent
<1> QED
  BY <1>1, <1>2, <1>3
  DEF IInv, OneLoopPerJob, CancelledAreAwaited, StoppedAreCancelled

(* What the steps of a loop have in common: the lifecycle stays as it is   *)
(* and only a loop that lives changes, to live on or to be done.           *)
LEMMA LoopStepKeeps ==
    ASSUME IInv, UNCHANGED lifecycle, NEW l \in Live, NEW p \in PCs \ {"unborn"},
           pc' = [pc EXCEPT ![l] = p],
           thread' \in [Loops -> {"none", "queued", "running", "ended"}]
    PROVE  IInv'
<1> USE DEF lifecycle
<1>1. l \in Loops /\ pc \in [Loops -> PCs]
  BY DEF Live, IInv, TypeOK
<1>2. Live' \subseteq Live
  BY <1>1 DEF Live
<1>3. TypeOK'
  BY <1>1 DEF IInv, TypeOK
<1>4. LoopsAreCounted'
  <2>1. \A m \in Loops : (pc'[m] = "unborn") = (pc[m] = "unborn")
    BY <1>1 DEF Live
  <2>2. cancelled \subseteq Loops
    BY DEF IInv, TypeOK
  <2> QED
    BY <2>1, <2>2 DEF IInv, LoopsAreCounted, JobOf
<1>5. Tasks' = Tasks
  BY DEF Tasks, JobOf
<1>6. OneLoopPerJob'
  BY <1>2, <1>5 DEF IInv, OneLoopPerJob, JobOf
<1> QED
  BY <1>2, <1>3, <1>4, <1>6 DEF IInv, CancelledAreAwaited, StoppedAreCancelled

LEMMA StartKeeps == ASSUME IInv, ~AllowReplace, Start PROVE IInv'
<1> DEFINE Fresh == {l \in Loops : JobOf(l) \in Registered /\ l[2] = made[JobOf(l)] + 1}
<1>1. /\ TypeOK /\ LoopsAreCounted /\ Live = {} /\ awaited = {}
      /\ lock = "free" /\ lock' = "free" /\ awaited' = {} /\ running'
      /\ cancelled' = cancelled /\ thread' = thread
  BY DEF IInv, Start, CancelledAreAwaited, StoppedAreCancelled
<1>2. /\ \A id \in Registered : made[id] < MaxLoops
      /\ made' = [id \in Ids |-> IF id \in Registered THEN made[id] + 1 ELSE made[id]]
      /\ pc' = [l \in Loops |-> IF l \in Fresh THEN "ready" ELSE pc[l]]
      /\ jobs' = [id \in Ids |-> IF id \in Registered THEN made'[id] ELSE Absent]
  BY DEF Start, CreateLoops
<1>3. made \in [Ids -> 0..MaxLoops] /\ MaxLoops \in Nat /\ Registered \subseteq Ids
  BY <1>1, BoundsAssumption DEF TypeOK, Registered
<1>4. made' \in [Ids -> 0..MaxLoops]
  BY <1>2, <1>3
<1>5. TypeOK'
  BY <1>1, <1>2, <1>3, <1>4 DEF TypeOK, Absent, PCs
<1>6. Live' = Fresh
  BY <1>1, <1>2 DEF Live
<1>7. Fresh \subseteq Tasks'
  BY <1>2, <1>3, LoopShape DEF Tasks
<1>8. Fresh \cap cancelled = {}
  BY <1>1, <1>3, LoopShape DEF LoopsAreCounted
<1>9. LoopsAreCounted'
  <2>1. \A l \in Loops : (pc'[l] = "unborn") = (l[2] > made'[JobOf(l)])
    <3>1. TAKE l \in Loops
    <3>2. JobOf(l) \in Ids /\ l[2] \in Nat /\ made[JobOf(l)] \in Nat
      BY <1>3, LoopShape
    <3>3. (pc[l] = "unborn") = (l[2] > made[JobOf(l)])
      BY <1>1 DEF LoopsAreCounted
    <3> QED
      BY <1>2, <3>2, <3>3
  <2>2. \A id \in Ids : jobs'[id] <= made'[id]
    BY <1>2, <1>3, <1>4 DEF Absent
  <2>3. \A l \in cancelled' : pc'[l] # "unborn"
    BY <1>1, <1>2 DEF LoopsAreCounted, TypeOK
  <2> QED
    BY <2>1, <2>2, <2>3 DEF LoopsAreCounted, JobOf
<1>10. OneLoopPerJob'
  BY <1>6, <1>7, LoopShape DEF OneLoopPerJob
<1> QED
  BY <1>1, <1>5, <1>6, <1>8, <1>9, <1>10
  DEF IInv, CancelledAreAwaited, StoppedAreCancelled

LEMMA RegisterKeeps ==
    ASSUME IInv, ~AllowReplace, NEW id \in Ids, Register(id) PROVE IInv'
<1>1. /\ TypeOK /\ LoopsAreCounted /\ OneLoopPerJob /\ CancelledAreAwaited
      /\ StoppedAreCancelled /\ lock = "free" /\ awaited = {} /\ jobs[id] = Absent
      /\ UNCHANGED <<running, lock, awaited, cancelled, thread>>
  BY DEF IInv, Register, CancelledAreAwaited, Registered
<1>2. \A l \in Live : JobOf(l) # id
  BY <1>1, LoopShape DEF OneLoopPerJob, CancelledAreAwaited, Tasks, Absent
<1>3. Live \cap cancelled = {}
  BY <1>1 DEF CancelledAreAwaited
<1>4. made \in [Ids -> 0..MaxLoops] /\ MaxLoops \in Nat /\ jobs \in [Ids -> (0..MaxLoops) \cup {-1}]
  BY <1>1, BoundsAssumption DEF TypeOK
<1>5. CASE ~running
  <2>1. jobs' = [jobs EXCEPT ![id] = 0] /\ UNCHANGED <<made, pc>>
    BY <1>5 DEF Register
  <2>2. Live' = Live /\ Live = {}
    BY <1>1, <1>3, <1>5, <2>1 DEF Live, StoppedAreCancelled
  <2>3. TypeOK'
    BY <1>1, <1>4, <2>1 DEF TypeOK
  <2>4. LoopsAreCounted'
    BY <1>1, <1>4, <2>1 DEF LoopsAreCounted, JobOf
  <2> QED
    BY <1>1, <2>2, <2>3, <2>4
    DEF IInv, OneLoopPerJob, CancelledAreAwaited, StoppedAreCancelled
<1>6. CASE running
  <2> DEFINE l0 == <<id, made[id] + 1>>
  <2>1. /\ made[id] < MaxLoops
        /\ made' = [i \in Ids |-> IF i \in {id} THEN made[i] + 1 ELSE made[i]]
        /\ pc' = [l \in Loops |-> IF JobOf(l) \in {id} /\ l[2] = made[JobOf(l)] + 1
                                  THEN "ready" ELSE pc[l]]
        /\ jobs' = [jobs EXCEPT ![id] = made'[id]]
    BY <1>6 DEF Register, CreateLoops
  <2>2. l0 \in Loops /\ JobOf(l0) = id /\ l0[2] = made[id] + 1
    BY <1>4, <2>1 DEF Loops, JobOf
  <2>3. \A l \in Loops : (JobOf(l) = id /\ l[2] = made[id] + 1) <=> l = l0
    BY <2>2, LoopShape
  <2>4. pc' = [pc EXCEPT ![l0] = "ready"]
    BY <1>1, <2>1, <2>2, <2>3 DEF TypeOK
  <2>5. made' = [made EXCEPT ![id] = @ + 1] /\ jobs' = [jobs EXCEPT ![id] = made[id] + 1]
    BY <1>4, <2>1
  <2>6. TypeOK'
    BY <1>1, <1>4, <2>1, <2>2, <2>4, <2>5 DEF TypeOK, PCs
  <2>7. Live' = Live \cup {l0}
    BY <1>1, <2>2, <2>4 DEF Live, TypeOK
  <2>8. LoopsAreCounted'
    <3>1. \A l \in Loops : (pc'[l] = "unborn") = (l[2] > made'[JobOf(l)])
      <4>1. TAKE l \in Loops
      <4>2. JobOf(l) \in Ids /\ l[2] \in Nat /\ made[JobOf(l)] \in Nat
        BY <1>4, LoopShape
      <4>3. (pc[l] = "unborn") = (l[2] > made[JobOf(l)])
        BY <1>1 DEF LoopsAreCounted
      <4>4. CASE l = l0
        BY <1>1, <1>4, <2>2, <2>4, <2>5, <4>2, <4>4 DEF TypeOK
      <4>5. CASE l # l0
        BY <1>1, <1>4, <2>2, <2>3, <2>4, <2>5, <4>2, <4>3, <4>5 DEF TypeOK
      <4> QED
        BY <4>4, <4>5
    <3>2. \A i \in Ids : jobs'[i] <= made'[i]
      BY <1>1, <1>4, <2>5 DEF LoopsAreCounted
    <3>3. \A l \in cancelled' : pc'[l] # "unborn"
      BY <1>1, <2>4 DEF LoopsAreCounted, TypeOK
    <3> QED
      BY <3>1, <3>2, <3>3 DEF LoopsAreCounted, JobOf
  <2>9. l0 \notin cancelled
    BY <1>1, <1>4, <2>2 DEF LoopsAreCounted
  <2>10. Live' \ cancelled' \subseteq Tasks'
    <3>1. l0 \in Tasks'
      BY <1>4, <2>2, <2>5 DEF Tasks, JobOf
    <3>2. \A l \in Live : l \in Tasks => l \in Tasks'
      BY <1>2, <1>4, <2>5, LoopShape DEF Tasks, JobOf
    <3> QED
      BY <1>1, <2>7, <3>1, <3>2 DEF OneLoopPerJob
  <2>11. \A l, m \in Live' : JobOf(l) = JobOf(m) => l = m
    BY <1>1, <1>2, <2>2, <2>7 DEF OneLoopPerJob
  <2> QED
    BY <1>1, <1>3, <1>6, <2>6, <2>7, <2>8, <2>9, <2>10, <2>11
    DEF IInv, OneLoopPerJob, CancelledAreAwaited, StoppedAreCancelled, JobOf
<1> QED
  BY <1>5, <1>6

LEMMA UnregisterKeeps == ASSUME IInv, NEW id \in Ids, Unregister(id) PROVE IInv'
<1> DEFINE task == {l \in Tasks \cap Live : JobOf(l) = id}
<1>1. /\ TypeOK /\ LoopsAreCounted /\ OneLoopPerJob /\ CancelledAreAwaited
      /\ StoppedAreCancelled /\ awaited = {}
      /\ UNCHANGED <<running, made, pc, thread>>
      /\ jobs' = [jobs EXCEPT ![id] = Absent]
      /\ cancelled' = cancelled \cup task /\ awaited' = task
      /\ lock' = IF task = {} THEN "free" ELSE "unregister"
  BY DEF IInv, Unregister, CancelledAreAwaited
<1>2. Live' = Live /\ Live \subseteq Loops /\ Live \cap cancelled = {}
  BY <1>1 DEF Live, CancelledAreAwaited
<1>3. TypeOK'
  BY <1>1, <1>2 DEF TypeOK, Absent
<1>4. LoopsAreCounted'
  <2>1. \A i \in Ids : jobs'[i] <= made'[i]
    BY <1>1 DEF LoopsAreCounted, Absent, TypeOK
  <2>2. \A l \in cancelled' : pc'[l] # "unborn"
    BY <1>1 DEF LoopsAreCounted, Live
  <2> QED
    BY <1>1, <2>1, <2>2 DEF LoopsAreCounted, JobOf
<1>5. OneLoopPerJob'
  <2>1. ASSUME NEW l \in Live, l \notin cancelled' PROVE l \in Tasks'
    <3>1. l \in Tasks /\ JobOf(l) # id /\ l \in Loops
      BY <1>1, <1>2, <2>1 DEF OneLoopPerJob
    <3> QED
      BY <1>1, <3>1, LoopShape DEF Tasks, JobOf, TypeOK
  <2> QED
    BY <1>1, <1>2, <2>1 DEF OneLoopPerJob, JobOf
<1> QED
  BY <1>1, <1>2, <1>3, <1>4, <1>5 DEF IInv, CancelledAreAwaited, StoppedAreCancelled

LEMMA StopKeeps == ASSUME IInv, Stop PROVE IInv'
<1>1. /\ TypeOK /\ LoopsAreCounted /\ OneLoopPerJob /\ awaited = {}
      /\ Live \cap cancelled = {}
      /\ UNCHANGED <<jobs, made, pc, thread>> /\ ~running'
      /\ cancelled' = cancelled \cup (Tasks \cap Live) /\ awaited' = Tasks
      /\ lock' = IF Tasks = {} THEN "free" ELSE "stop"
      /\ running' \in BOOLEAN
  BY DEF IInv, Stop, CancelledAreAwaited
<1>2. Live' = Live /\ Live \subseteq Loops /\ Tasks \subseteq Loops /\ Tasks' = Tasks
  BY <1>1 DEF Live, Tasks, JobOf
<1>3. TypeOK'
  BY <1>1, <1>2 DEF TypeOK
<1>4. LoopsAreCounted'
  BY <1>1, <1>2 DEF LoopsAreCounted, Live, JobOf
<1>5. Live \subseteq cancelled'
  BY <1>1 DEF OneLoopPerJob
<1> QED
  BY <1>1, <1>2, <1>3, <1>4, <1>5
  DEF IInv, OneLoopPerJob, CancelledAreAwaited, StoppedAreCancelled, JobOf

LEMMA ReleaseLockKeeps == ASSUME IInv, ReleaseLock PROVE IInv'
<1>1. /\ UNCHANGED <<running, jobs, made, pc, cancelled, thread>>
      /\ awaited' = {} /\ lock' = "free" /\ awaited \cap Live = {}
  BY DEF ReleaseLock
<1>2. Live' = Live /\ Tasks' = Tasks
  BY <1>1 DEF Live, Tasks, JobOf
<1> QED
  BY <1>1, <1>2 DEF IInv, TypeOK, LoopsAreCounted, OneLoopPerJob,
     CancelledAreAwaited, StoppedAreCancelled, JobOf

LEMMA LoopsKeep ==
    ASSUME IInv, NEW l \in Loops,
           LoopStep(l) \/ TriggerRaises(l) \/ ThreadBegins(l) \/ ThreadEnds(l)
    PROVE  IInv'
<1> DEFINE Threads == [Loops -> {"none", "queued", "running", "ended"}]
<1>1. thread \in Threads /\ thread' \in Threads
  BY DEF IInv, TypeOK, LoopStep, Turn, Retry, Wake, Resume, TakeCancel, Execute,
     TriggerRaises, ThreadBegins, ThreadEnds, lifecycle
<1>2. CASE LoopStep(l) \/ TriggerRaises(l)
  <2>1. l \in Live
    BY <1>2 DEF LoopStep, Turn, Retry, Wake, Resume, TakeCancel, TriggerRaises, Live
  <2>2. UNCHANGED lifecycle
    BY <1>2 DEF LoopStep, Turn, Retry, Wake, Resume, TakeCancel, TriggerRaises
  <2>3. PICK p \in PCs \ {"unborn"} : pc' = [pc EXCEPT ![l] = p]
    BY <1>2 DEF LoopStep, Turn, Retry, Wake, Resume, TakeCancel, TriggerRaises, Execute, PCs
  <2> QED
    BY <1>1, <2>1, <2>2, <2>3, LoopStepKeeps
<1>3. CASE ThreadBegins(l) \/ ThreadEnds(l)
  <2>1. UNCHANGED <<lifecycle, pc>>
    BY <1>3 DEF ThreadBegins, ThreadEnds
  <2> QED
    BY <1>1, <2>1 DEF IInv, TypeOK, LoopsAreCounted, OneLoopPerJob, CancelledAreAwaited,
       StoppedAreCancelled, lifecycle, Live, Tasks, JobOf
<1> QED
  BY <1>2, <1>3

LEMMA NextIInv == ASSUME ~AllowReplace, IInv, [Next]_vars PROVE IInv'
<1>1. CASE Start
  BY <1>1, StartKeeps
<1>2. CASE Stop
  BY <1>2, StopKeeps
<1>3. CASE ReleaseLock
  BY <1>3, ReleaseLockKeeps
<1>4. CASE \E id \in Ids : Register(id) \/ Unregister(id)
  BY <1>4, RegisterKeeps, UnregisterKeeps
<1>5. CASE \E l \in Loops :
              LoopStep(l) \/ TriggerRaises(l) \/ ThreadBegins(l) \/ ThreadEnds(l)
  BY <1>5, LoopsKeep
<1>6. CASE UNCHANGED vars
  BY <1>6 DEF vars, IInv, TypeOK, LoopsAreCounted, OneLoopPerJob, CancelledAreAwaited,
     StoppedAreCancelled, Live, Tasks, JobOf
<1> QED
  BY <1>1, <1>2, <1>3, <1>4, <1>5, <1>6 DEF Next

LEMMA InvariantHolds == ASSUME ~AllowReplace PROVE Spec => []IInv
<1>1. IInv /\ [Next]_vars => IInv'
  BY NextIInv
<1> QED
  BY <1>1, InitIInv, PTL DEF Spec

(* Every variable keeps its type while jobs are started, stopped, added    *)
(* and removed in any order.                                               *)
THEOREM TypeCorrect == ASSUME ~AllowReplace PROVE Spec => []TypeOK
<1>1. IInv => TypeOK
  BY DEF IInv
<1> QED
  BY <1>1, InvariantHolds, PTL

(* A job never has two loops, however the lifecycle operations alternate.  *)
THEOREM OneLoop == ASSUME ~AllowReplace PROVE Spec => []OneLoopPerJob
<1>1. IInv => OneLoopPerJob
  BY DEF IInv
<1> QED
  BY <1>1, InvariantHolds, PTL

(* When stop has returned no loop is left.                                 *)
THEOREM StopLeavesNothing == ASSUME ~AllowReplace PROVE Spec => []StoppedMeansQuiet
<1>1. IInv => StoppedMeansQuiet
  BY DEF IInv, StoppedMeansQuiet, CancelledAreAwaited, StoppedAreCancelled
<1> QED
  BY <1>1, InvariantHolds, PTL

(* No job begins after stop was called, although the loop does not look at *)
(* `_running` again when its sleep is over.                                *)
THEOREM NothingStartsAfterStop == ASSUME ~AllowReplace PROVE Spec => NoStartAfterStop
<1> DEFINE Begins == \E l \in Loops : pc[l] # "executing" /\ pc'[l] = "executing"
<1>1. ASSUME IInv, [Next]_vars, Begins PROVE running
  <2>1. PICK l \in Loops : pc[l] # "executing" /\ pc'[l] = "executing"
    BY <1>1
  <2>2. pc \in [Loops -> PCs]
    BY <1>1 DEF IInv, TypeOK
  <2>3. Turn(l) \/ Wake(l)
    BY <1>1, <2>1, <2>2 DEF Next, vars, Start, Stop, ReleaseLock, Register, Unregister,
       CreateLoops, LoopStep, Turn, Retry, Wake, Resume, TakeCancel, Execute,
       TriggerRaises, ThreadBegins, ThreadEnds, lifecycle
  <2>4. CASE Turn(l)
    BY <2>1, <2>2, <2>4 DEF Turn, Execute
  <2>5. CASE Wake(l)
    <3>1. l \in Live /\ l \notin cancelled
      BY <2>1, <2>5 DEF Wake, Live
    <3> QED
      BY <1>1, <3>1 DEF IInv, StoppedAreCancelled
  <2> QED
    BY <2>3, <2>4, <2>5
<1>2. IInv /\ [Next]_vars => [Begins => running]_vars
  BY <1>1
<1> QED
  BY <1>2, InvariantHolds, PTL DEF Spec, NoStartAfterStop
=============================================================================
