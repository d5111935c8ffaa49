------------------------- MODULE BoundedThreadPool -------------------------
(***************************************************************************)
(* The database worker pool (src/concurrency/bounded_thread_pool.cpp):     *)
(* a mutex, one condition variable, a FIFO of tasks with a capacity, and a *)
(* fixed set of worker threads.  One owner thread submits tasks and later  *)
(* shuts the pool down; in the server that is the event-loop thread.       *)
(*                                                                         *)
(* A critical section of mutex_ is one atomic step.  What happens outside  *)
(* of it is a step of its own: the owner has left the critical section of  *)
(* TrySubmit or Shutdown when it notifies, so workers run in between.      *)
(***************************************************************************)
EXTENDS Naturals, Sequences, FiniteSets

CONSTANTS
    Workers,        \* the worker threads, worker_count of them
    QueueCapacity,  \* queue_capacity_
    MaxSubmits      \* bound: calls of TrySubmit a behaviour makes

\* The constructor throws unless both parameters are positive (line 12).
ASSUME PoolAssumption ==
    /\ Workers # {} /\ IsFiniteSet(Workers)
    /\ QueueCapacity \in Nat \ {0}
    /\ MaxSubmits \in Nat

VARIABLES
    tasks,      \* tasks_: the accepted tasks no worker has taken yet
    accepting,  \* accepting_tasks_
    waiting,    \* the workers asleep in task_available_.wait
    running,    \* what each worker is executing outside the lock, or None
    exited,     \* the workers that have returned from WorkerLoop
    owner,      \* where the owner thread is
    submitted   \* how many times TrySubmit was called; the n-th task is n

poolVars == <<tasks, accepting, waiting, running, exited, owner, submitted>>

\* No task: tasks are numbered from 1.
None == 0

Task == 1 .. MaxSubmits

OwnerStates == {"free", "notify_one", "notify_all", "join", "joined"}

\* The types of BoundedThreadPool's members; TrySubmit never lets tasks_ grow
\* beyond queue_capacity_.
PoolTypeOK ==
    /\ tasks \in Seq(Task)
    /\ Len(tasks) <= QueueCapacity
    /\ accepting \in BOOLEAN
    /\ waiting \in SUBSET Workers
    /\ exited \in SUBSET Workers
    /\ running \in [Workers -> Task \cup {None}]
    /\ owner \in OwnerStates
    /\ submitted \in 0 .. MaxSubmits

PoolInit ==
    /\ tasks = <<>>
    /\ accepting = TRUE
    /\ waiting = {}
    /\ running = [w \in Workers |-> None]
    /\ exited = {}
    /\ owner = "free"
    /\ submitted = 0

-----------------------------------------------------------------------------
(* TrySubmit: the critical section accepts or refuses; only an accepted    *)
(* task is notified, and only after the lock is released.                  *)

\* Mutant of QueueHasRoom: the comparison lets one task too many in.
QueueHasRoomOffByOne == accepting /\ Len(tasks) <= QueueCapacity

QueueHasRoom == accepting /\ Len(tasks) < QueueCapacity

\* Mutant of TrySubmitAccept: the task is queued but nobody is notified.
TrySubmitSilent ==
    /\ owner = "free"
    /\ submitted < MaxSubmits
    /\ QueueHasRoom
    /\ tasks' = Append(tasks, submitted + 1)
    /\ submitted' = submitted + 1
    /\ UNCHANGED <<accepting, waiting, running, exited, owner>>

TrySubmitAccept ==
    /\ owner = "free"
    /\ submitted < MaxSubmits
    /\ QueueHasRoom
    /\ tasks' = Append(tasks, submitted + 1)
    /\ submitted' = submitted + 1
    /\ owner' = "notify_one"
    /\ UNCHANGED <<accepting, waiting, running, exited>>

TrySubmitReject ==
    /\ owner \in {"free", "joined"}
    /\ submitted < MaxSubmits
    /\ ~QueueHasRoom
    /\ submitted' = submitted + 1
    /\ UNCHANGED <<tasks, accepting, waiting, running, exited, owner>>

\* notify_one wakes one sleeping worker, if there is one.
NotifyOne ==
    /\ owner = "notify_one"
    /\ IF waiting = {}
         THEN UNCHANGED waiting
         ELSE \E w \in waiting : waiting' = waiting \ {w}
    /\ owner' = "free"
    /\ UNCHANGED <<tasks, accepting, running, exited, submitted>>

-----------------------------------------------------------------------------
(* WorkerLoop.  A worker that is neither asleep, nor running a task, nor   *)
(* gone is about to take the lock and evaluate the wait predicate.         *)

AtLock(w) == w \notin waiting /\ w \notin exited /\ running[w] = None

\* Mutant of WorkerTake: front() is copied but pop() is forgotten.
WorkerPeek(w) ==
    /\ AtLock(w)
    /\ tasks # <<>>
    /\ running' = [running EXCEPT ![w] = Head(tasks)]
    /\ UNCHANGED <<tasks, accepting, waiting, exited, owner, submitted>>

WorkerTake(w) ==
    /\ AtLock(w)
    /\ tasks # <<>>
    /\ running' = [running EXCEPT ![w] = Head(tasks)]
    /\ tasks' = Tail(tasks)
    /\ UNCHANGED <<accepting, waiting, exited, owner, submitted>>

WorkerWait(w) ==
    /\ AtLock(w)
    /\ tasks = <<>> /\ accepting
    /\ waiting' = waiting \cup {w}
    /\ UNCHANGED <<tasks, accepting, running, exited, owner, submitted>>

\* Mutant of WorkerExit: the worker leaves as soon as the pool is closed,
\* without looking at the queue.
WorkerExitEarly(w) ==
    /\ AtLock(w)
    /\ ~accepting
    /\ exited' = exited \cup {w}
    /\ UNCHANGED <<tasks, accepting, waiting, running, owner, submitted>>

WorkerExit(w) ==
    /\ AtLock(w)
    /\ tasks = <<>> /\ ~accepting
    /\ exited' = exited \cup {w}
    /\ UNCHANGED <<tasks, accepting, waiting, running, owner, submitted>>

\* A condition variable may wake a thread nobody notified.
SpuriousWakeup(w) ==
    /\ w \in waiting
    /\ waiting' = waiting \ {w}
    /\ UNCHANGED <<tasks, accepting, running, exited, owner, submitted>>

\* task() has returned, or thrown into the catch-all: either way the worker
\* goes round its loop again.
WorkerFinish(w) ==
    /\ running[w] # None
    /\ running' = [running EXCEPT ![w] = None]
    /\ UNCHANGED <<tasks, accepting, waiting, exited, owner, submitted>>

-----------------------------------------------------------------------------
(* Shutdown: close the queue under the lock, notify every sleeper, join    *)
(* every worker.  A second call returns at once: workers_ is empty then.   *)

ShutdownClose ==
    /\ owner = "free"
    /\ accepting' = FALSE
    /\ owner' = "notify_all"
    /\ UNCHANGED <<tasks, waiting, running, exited, submitted>>

\* Mutant of ShutdownNotifyAll: notify_one in place of notify_all.
ShutdownNotifyOne ==
    /\ owner = "notify_all"
    /\ IF waiting = {}
         THEN UNCHANGED waiting
         ELSE \E w \in waiting : waiting' = waiting \ {w}
    /\ owner' = "join"
    /\ UNCHANGED <<tasks, accepting, running, exited, submitted>>

ShutdownNotifyAll ==
    /\ owner = "notify_all"
    /\ waiting' = {}
    /\ owner' = "join"
    /\ UNCHANGED <<tasks, accepting, running, exited, submitted>>

ShutdownJoin ==
    /\ owner = "join"
    /\ exited = Workers
    /\ owner' = "joined"
    /\ UNCHANGED <<tasks, accepting, waiting, running, exited, submitted>>

-----------------------------------------------------------------------------
WorkerStep(w) ==
    WorkerTake(w) \/ WorkerWait(w) \/ WorkerExit(w) \/ WorkerFinish(w)

ShutdownStep == ShutdownClose \/ ShutdownNotifyAll \/ ShutdownJoin

PoolNext ==
    \/ TrySubmitAccept \/ TrySubmitReject \/ NotifyOne \/ ShutdownStep
    \/ \E w \in Workers : WorkerStep(w) \/ SpuriousWakeup(w)

\* The scheduler lets every thread that can run go on, and a task returns.
\* Nothing makes the owner submit, or shut the pool down.
PoolFairness ==
    /\ \A w \in Workers : WF_poolVars(WorkerStep(w))
    /\ WF_poolVars(NotifyOne)
    /\ WF_poolVars(ShutdownNotifyAll)
    /\ WF_poolVars(ShutdownJoin)

PoolSafety == PoolInit /\ [][PoolNext]_poolVars

PoolSpec == PoolSafety /\ PoolFairness

-----------------------------------------------------------------------------
(* Properties.                                                             *)

\* No lost wakeup: while a task is queued, some worker is awake (at the lock
\* or running a task, after which it comes back to the lock), or the owner is
\* on its way to notify one.  TrySubmit notifies after it has released the
\* lock (line 44), so workers may sleep, wake and exit in between.
NoStrandedTask ==
    tasks # <<>> =>
        \/ owner \in {"notify_one", "notify_all"}
        \/ \E w \in Workers : w \notin waiting /\ w \notin exited

\* "Shutdown drains accepted tasks before joining" (bounded_thread_pool.h:14):
\* once Shutdown has returned no accepted task is queued or half done.
ShutdownDrains ==
    owner = "joined" => tasks = <<>> /\ running = [w \in Workers |-> None]

\* After notify_all no worker is asleep, and none goes to sleep again: a
\* sleeper nobody notifies would block the join loop for ever (lines 56-62).
NoSleeperAfterShutdown ==
    owner \in {"join", "joined"} => waiting = {}

\* Every task is taken at most once and in the order of submission: what
\* runs was submitted before all that is queued, no two workers run the
\* same task, and the queue keeps the order of TrySubmit calls.
TakenOnceInOrder ==
    /\ \A i, j \in 1 .. Len(tasks) : i < j => tasks[i] < tasks[j]
    /\ \A w \in Workers, i \in 1 .. Len(tasks) : running[w] < tasks[i]
    /\ \A v, w \in Workers :
         v # w /\ running[v] # None => running[v] # running[w]

\* Shutdown returns: the join loop is never left waiting for a worker.
ShutdownReturns == owner = "notify_all" ~> owner = "joined"
=============================================================================
