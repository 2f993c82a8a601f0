------------------------------ MODULE Scheduler ------------------------------
(***************************************************************************)
(* The in-process scheduler: a table of jobs, one asyncio task per job     *)
(* that sleeps until the trigger fires and runs the job, and the lifecycle *)
(* operations that start, stop, add and remove them under one lock.  The   *)
(* n-th task made for a job is its n-th loop.  A synchronous job runs in   *)
(* the default thread pool, where a cancelled loop cannot reach it.        *)
(***************************************************************************)
EXTENDS Integers, FiniteSets

CONSTANTS
    Ids,           \* job ids
    Coroutines,    \* the jobs whose function is a coroutine function
    PoolSize,      \* workers of the default thread pool
    MaxLoops,      \* bound on the tasks made for one job
    AllowReplace   \* is register_job called with replace_existing?

ASSUME CoroutinesAssumption == Coroutines \subseteq Ids
ASSUME BoundsAssumption == PoolSize \in Nat \ {0} /\ MaxLoops \in Nat \ {0}
ASSUME ReplaceAssumption == AllowReplace \in BOOLEAN

Loops == Ids \X (1..MaxLoops)
JobOf(l) == l[1]

VARIABLES
    running,    \* self._running
    lock,       \* who holds self._lock across an await: "free", "stop", "unregister"
    awaited,    \* the loops the holder of the lock waits for
    jobs,       \* self._jobs: "absent", or the number of the job's task, 0 without one
    made,       \* how many loops each job has had
    pc,         \* where each loop stands
    cancelled,  \* loops whose task has been cancelled
    thread      \* the work of each loop in the thread pool

vars == <<running, lock, awaited, jobs, made, pc, cancelled, thread>>

PCs == {"unborn", "ready", "backoff", "sleeping", "executing", "done"}

TypeOK ==
    /\ running \in BOOLEAN
    /\ lock \in {"free", "stop", "unregister"}
    /\ awaited \subseteq Loops
    /\ jobs \in [Ids -> (0..MaxLoops) \cup {-1}]
    /\ made \in [Ids -> 0..MaxLoops]
    /\ pc \in [Loops -> PCs]
    /\ cancelled \subseteq Loops
    /\ thread \in [Loops -> {"none", "queued", "running", "ended"}]
-----------------------------------------------------------------------------
Absent == -1
Registered == {id \in Ids : jobs[id] # Absent}
Live == {l \in Loops : pc[l] \notin {"unborn", "done"}}
Tasks == {l \in Loops : l[2] = jobs[JobOf(l)]}   \* job.task of the registered jobs
Working == {l \in Loops : thread[l] = "running"}

Init ==
    /\ running = FALSE
    /\ lock = "free"
    /\ awaited = {}
    /\ jobs = [id \in Ids |-> Absent]
    /\ made = [id \in Ids |-> 0]
    /\ pc = [l \in Loops |-> "unborn"]
    /\ cancelled = {}
    /\ thread = [l \in Loops |-> "none"]

\* asyncio.create_task(self._job_loop(job)) for the jobs of S.
CreateLoops(S) ==
    /\ \A id \in S : made[id] < MaxLoops
    /\ made' = [id \in Ids |-> IF id \in S THEN made[id] + 1 ELSE made[id]]
    /\ pc' = [l \in Loops |-> IF JobOf(l) \in S /\ l[2] = made[JobOf(l)] + 1
                              THEN "ready" ELSE pc[l]]

Start ==
    /\ lock = "free" /\ ~running
    /\ running' = TRUE
    /\ CreateLoops(Registered)
    /\ jobs' = [id \in Ids |-> IF id \in Registered THEN made'[id] ELSE Absent]
    /\ UNCHANGED <<lock, awaited, cancelled, thread>>

\* register_job finds the lock free and does not await: it is one step.
Register(id) ==
    /\ lock = "free"
    /\ id \notin Registered \/ AllowReplace
    /\ IF running
       THEN CreateLoops({id}) /\ jobs' = [jobs EXCEPT ![id] = made'[id]]
       ELSE jobs' = [jobs EXCEPT ![id] = 0] /\ UNCHANGED <<made, pc>>
    /\ UNCHANGED <<running, lock, awaited, cancelled, thread>>

\* Mutant of Unregister: the cancelled task is not awaited.
UnregisterNoAwait(id) ==
    /\ lock = "free" /\ id \in Registered
    /\ jobs' = [jobs EXCEPT ![id] = Absent]
    /\ cancelled' = cancelled \cup {l \in Tasks \cap Live : JobOf(l) = id}
    /\ UNCHANGED <<running, lock, awaited, made, pc, thread>>

\* Mutant of Unregister: job.task is awaited also when the job has none yet.
UnregisterAwaitsNone(id) ==
    /\ lock = "free" /\ id \in Registered
    /\ jobs' = [jobs EXCEPT ![id] = Absent]
    /\ cancelled' = cancelled \cup ({<<id, jobs[id]>>} \cap Live)
    /\ awaited' = {<<id, jobs[id]>>}
    /\ lock' = "unregister"
    /\ UNCHANGED <<running, made, pc, thread>>

Unregister(id) ==
    /\ lock = "free" /\ id \in Registered
    /\ jobs' = [jobs EXCEPT ![id] = Absent]
    /\ LET task == {l \in Tasks \cap Live : JobOf(l) = id}
       IN  /\ cancelled' = cancelled \cup task
           /\ awaited' = task
           /\ lock' = IF task = {} THEN "free" ELSE "unregister"
    /\ UNCHANGED <<running, made, pc, thread>>

\* Mutant of Stop: the cancelled tasks are not awaited.
StopNoAwait ==
    /\ lock = "free" /\ running
    /\ running' = FALSE
    /\ cancelled' = cancelled \cup (Tasks \cap Live)
    /\ UNCHANGED <<lock, awaited, jobs, made, pc, thread>>

\* Mutant of Stop: the tasks are awaited but not cancelled.
StopNoCancel ==
    /\ lock = "free" /\ running
    /\ running' = FALSE
    /\ awaited' = Tasks
    /\ lock' = IF Tasks = {} THEN "free" ELSE "stop"
    /\ UNCHANGED <<jobs, made, pc, cancelled, thread>>

Stop ==
    /\ lock = "free" /\ running
    /\ running' = FALSE
    /\ cancelled' = cancelled \cup (Tasks \cap Live)
    /\ awaited' = Tasks
    /\ lock' = IF Tasks = {} THEN "free" ELSE "stop"
    /\ UNCHANGED <<jobs, made, pc, thread>>

\* gather or `await job.task` returns and the lock is released.
ReleaseLock ==
    /\ lock # "free" /\ awaited \cap Live = {}
    /\ lock' = "free"
    /\ awaited' = {}
    /\ UNCHANGED <<running, jobs, made, pc, cancelled, thread>>
-----------------------------------------------------------------------------
lifecycle == <<running, lock, awaited, jobs, made, cancelled>>

\* The job is called: as a coroutine in the loop's task, or in the pool.
Execute(l) ==
    /\ pc' = [pc EXCEPT ![l] = "executing"]
    /\ thread' = IF JobOf(l) \in Coroutines THEN thread
                 ELSE [thread EXCEPT ![l] = "queued"]

\* The head of `while self._running`, up to the next await.
Turn(l) ==
    /\ pc[l] = "ready" /\ l \notin cancelled
    /\ IF running
       THEN \/ pc' = [pc EXCEPT ![l] = "sleeping"] /\ UNCHANGED thread
            \/ Execute(l)                                    \* no delay
       ELSE pc' = [pc EXCEPT ![l] = "done"] /\ UNCHANGED thread
    /\ UNCHANGED lifecycle

TriggerRaises(l) ==
    /\ pc[l] = "ready" /\ l \notin cancelled /\ running
    /\ pc' = [pc EXCEPT ![l] = "backoff"]
    /\ UNCHANGED <<lifecycle, thread>>

\* The second of sleep after a trigger error is over.
Retry(l) ==
    /\ pc[l] = "backoff" /\ l \notin cancelled
    /\ pc' = [pc EXCEPT ![l] = "ready"]
    /\ UNCHANGED <<lifecycle, thread>>

\* The delay has passed; `_running` is not looked at again.
Wake(l) ==
    /\ pc[l] = "sleeping" /\ l \notin cancelled
    /\ Execute(l)
    /\ UNCHANGED lifecycle

\* Mutant of Resume: a job that raises ends its loop.
ResumeOrDie(l) ==
    /\ pc[l] = "executing" /\ l \notin cancelled
    /\ JobOf(l) \in Coroutines \/ thread[l] = "ended"
    /\ \E next \in {"ready", "done"} : pc' = [pc EXCEPT ![l] = next]
    /\ thread' = [thread EXCEPT ![l] = "none"]
    /\ UNCHANGED lifecycle

\* The job has returned or raised; either way the loop goes on.
Resume(l) ==
    /\ pc[l] = "executing" /\ l \notin cancelled
    /\ JobOf(l) \in Coroutines \/ thread[l] = "ended"
    /\ pc' = [pc EXCEPT ![l] = "ready"]
    /\ thread' = [thread EXCEPT ![l] = "none"]
    /\ UNCHANGED lifecycle

\* Mutant of TakeCancel: a cancellation while the job runs is swallowed.
TakeCancelAsleep(l) ==
    /\ l \in cancelled /\ pc[l] = "sleeping"
    /\ pc' = [pc EXCEPT ![l] = "done"]
    /\ UNCHANGED <<lifecycle, thread>>

\* CancelledError reaches the loop at the await it stands at, or before its
\* first step; work the pool has not begun is dropped, begun work goes on.
TakeCancel(l) ==
    /\ l \in cancelled /\ l \in Live
    /\ pc' = [pc EXCEPT ![l] = "done"]
    /\ thread' = [thread EXCEPT ![l] = IF @ = "queued" THEN "none" ELSE @]
    /\ UNCHANGED lifecycle

ThreadBegins(l) ==
    /\ thread[l] = "queued" /\ Cardinality(Working) < PoolSize
    /\ thread' = [thread EXCEPT ![l] = "running"]
    /\ UNCHANGED <<lifecycle, pc>>

ThreadEnds(l) ==
    /\ thread[l] = "running"
    /\ thread' = [thread EXCEPT ![l] = "ended"]
    /\ UNCHANGED <<lifecycle, pc>>

LoopStep(l) == Turn(l) \/ Retry(l) \/ Wake(l) \/ Resume(l) \/ TakeCancel(l)

Next ==
    \/ Start \/ Stop \/ ReleaseLock
    \/ \E id \in Ids : Register(id) \/ Unregister(id)
    \/ \E l \in Loops : LoopStep(l) \/ TriggerRaises(l) \/ ThreadBegins(l) \/ ThreadEnds(l)

Spec == Init /\ [][Next]_vars

(* The event loop runs every task that is ready and the pool every item of *)
(* its FIFO queue; a job returns.  A trigger does not raise for ever: the  *)
(* turn of a loop is taken infinitely often if it can be (strong fairness).*)
FairSpec ==
    /\ Spec
    /\ WF_vars(ReleaseLock)
    /\ \A l \in Loops :
          /\ SF_vars(Turn(l))
          /\ WF_vars(Retry(l)) /\ WF_vars(Wake(l)) /\ WF_vars(Resume(l))
          /\ WF_vars(TakeCancel(l)) /\ SF_vars(ThreadBegins(l)) /\ WF_vars(ThreadEnds(l))
-----------------------------------------------------------------------------
(* However starts, stops, registrations and removals alternate, a job has  *)
(* at most one loop that is not being cancelled, and it is the one in the  *)
(* table; two loops of a job never live side by side.                      *)
OneLoopPerJob ==
    /\ Live \ cancelled \subseteq Tasks
    /\ \A l, m \in Live : JobOf(l) = JobOf(m) => l = m

(* Once stop has returned nothing of the scheduler is left in the event    *)
(* loop: background tasks are gone, not merely told to go.                 *)
StoppedMeansQuiet == ~running /\ lock = "free" => Live = {}

(* The loop does not look at _running after its sleep; still no job begins *)
(* after stop was called, since the cancellation is taken first.           *)
NoStartAfterStop ==
    [][(\E l \in Loops : pc[l] # "executing" /\ pc'[l] = "executing") => running]_vars

(* stop and unregister_job wait for loops while they hold the lock and yet *)
(* always return, in the middle of an execution too.                       *)
LockIsReleased == lock # "free" ~> lock = "free"

(* While the scheduler runs, a registered job is executed again and again, *)
(* whatever its executions and its trigger raise.                          *)
JobsKeepFiring ==
    \A id \in Ids :
        []<>(\/ ~running \/ lock # "free" \/ id \notin Registered
             \/ \E l \in Tasks : JobOf(l) = id /\ pc[l] = "executing")
=============================================================================
