----------------------- MODULE AsyncDataServiceProofs -----------------------
(***************************************************************************)
(* The pool and the completion queue, each by itself, and what the         *)
(* asynchronous data service makes of them: it uses both as their own      *)
(* specifications allow, so it inherits what is proved of them; every call *)
(* it owes a callback is in exactly one place; and it implements the       *)
(* abstract call interface, liveness (which TLC checks) excepted.  Proved  *)
(* for any number of workers, any capacity and any number of calls.        *)
(***************************************************************************)
EXTENDS AsyncDataService, SequenceTheorems, TLAPS

-----------------------------------------------------------------------------
(* The pool.                                                               *)

\* Where the threads are, as far as the properties depend on it: the pool is
\* open exactly while the owner has not called Shutdown, a worker is in one
\* place, none has left while the pool was open or a task was queued, and
\* the owner has not passed the join loop before all of them left.
ThreadsInPlace ==
    /\ accepting <=> owner \in {"free", "notify_one"}
    /\ \A w \in Workers : w \in waiting \/ w \in exited => running[w] = None
    /\ waiting \cap exited = {}
    /\ accepting \/ tasks # <<>> => exited = {}
    /\ owner = "joined" => exited = Workers

\* The numbers of the tasks: those queued, and those running, were submitted.
SubmittedBefore ==
    /\ \A i \in 1 .. Len(tasks) : tasks[i] <= submitted
    /\ \A w \in Workers : running[w] <= submitted

PoolInv ==
    /\ PoolTypeOK
    /\ ThreadsInPlace
    /\ NoStrandedTask
    /\ NoSleeperAfterShutdown

-----------------------------------------------------------------------------
\* The initial state satisfies the inductive invariant.
LEMMA InitPoolInv == PoolInit => PoolInv
  BY PoolAssumption
     DEF PoolInit, PoolInv, PoolTypeOK, ThreadsInPlace, NoStrandedTask,
         NoSleeperAfterShutdown, OwnerStates, None, Task

\* Every step of TrySubmit, of Shutdown and of a worker preserves the type
\* invariant.
LEMMA NextTypeOK == PoolTypeOK /\ [PoolNext]_poolVars => PoolTypeOK'
<1> SUFFICES ASSUME PoolTypeOK, [PoolNext]_poolVars PROVE PoolTypeOK'
  OBVIOUS
<1> USE PoolAssumption DEF PoolTypeOK, OwnerStates, None, Task
<1>1. CASE TrySubmitAccept
  <2>1. submitted + 1 \in 1 .. MaxSubmits
    BY <1>1 DEF TrySubmitAccept
  <2>2. tasks' \in Seq(Task) /\ Len(tasks') = Len(tasks) + 1
    BY <1>1, <2>1 DEF TrySubmitAccept
  <2> QED
    BY <1>1, <2>1, <2>2 DEF TrySubmitAccept, QueueHasRoom
<1>2. CASE TrySubmitReject
  BY <1>2 DEF TrySubmitReject
<1>3. CASE NotifyOne
  BY <1>3 DEF NotifyOne
<1>4. CASE ShutdownStep
  BY <1>4 DEF ShutdownStep, ShutdownClose, ShutdownNotifyAll, ShutdownJoin
<1>5. ASSUME NEW w \in Workers, WorkerTake(w) PROVE PoolTypeOK'
  <2>1. Head(tasks) \in Task /\ Tail(tasks) \in Seq(Task)
          /\ Len(Tail(tasks)) = Len(tasks) - 1
    BY <1>5, HeadTailProperties DEF WorkerTake
  <2> QED
    BY <1>5, <2>1 DEF WorkerTake
<1>6. ASSUME NEW w \in Workers,
             WorkerWait(w) \/ WorkerExit(w) \/ WorkerFinish(w)
                \/ SpuriousWakeup(w)
      PROVE PoolTypeOK'
  BY <1>6 DEF WorkerWait, WorkerExit, WorkerFinish, SpuriousWakeup
<1>7. CASE UNCHANGED poolVars
  BY <1>7 DEF poolVars
<1> QED
  BY <1>1, <1>2, <1>3, <1>4, <1>5, <1>6, <1>7 DEF PoolNext, WorkerStep

\* Every step keeps the threads in place.
LEMMA NextThreadsInPlace ==
    PoolTypeOK /\ ThreadsInPlace /\ [PoolNext]_poolVars => ThreadsInPlace'
<1> SUFFICES ASSUME PoolTypeOK, ThreadsInPlace, [PoolNext]_poolVars
             PROVE  ThreadsInPlace'
  OBVIOUS
<1> USE DEF PoolTypeOK, OwnerStates, None, Task, ThreadsInPlace
<1>1. CASE TrySubmitAccept
  BY <1>1 DEF TrySubmitAccept, QueueHasRoom
<1>2. CASE TrySubmitReject
  BY <1>2 DEF TrySubmitReject
<1>3. CASE NotifyOne
  BY <1>3 DEF NotifyOne
<1>4. CASE ShutdownStep
  BY <1>4 DEF ShutdownStep, ShutdownClose, ShutdownNotifyAll, ShutdownJoin
<1>5. ASSUME NEW w \in Workers, WorkerTake(w) PROVE ThreadsInPlace'
  BY <1>5 DEF WorkerTake, AtLock
<1>6. ASSUME NEW w \in Workers, WorkerWait(w) PROVE ThreadsInPlace'
  BY <1>6 DEF WorkerWait, AtLock
<1>7. ASSUME NEW w \in Workers, WorkerExit(w) PROVE ThreadsInPlace'
  BY <1>7 DEF WorkerExit, AtLock
<1>8. ASSUME NEW w \in Workers, WorkerFinish(w) \/ SpuriousWakeup(w)
      PROVE ThreadsInPlace'
  BY <1>8 DEF WorkerFinish, SpuriousWakeup
<1>9. CASE UNCHANGED poolVars
  BY <1>9 DEF poolVars
<1> QED
  BY <1>1, <1>2, <1>3, <1>4, <1>5, <1>6, <1>7, <1>8, <1>9
     DEF PoolNext, WorkerStep

\* Every step keeps a worker awake, or about to be woken, for a queued task.
LEMMA NextNoStrandedTask ==
    PoolTypeOK /\ ThreadsInPlace /\ NoStrandedTask /\ [PoolNext]_poolVars
        => NoStrandedTask'
<1> SUFFICES ASSUME PoolTypeOK, ThreadsInPlace, NoStrandedTask,
                    [PoolNext]_poolVars
             PROVE  NoStrandedTask'
  OBVIOUS
<1> USE PoolAssumption
    DEF PoolTypeOK, ThreadsInPlace, NoStrandedTask, OwnerStates, None
<1>1. CASE TrySubmitAccept \/ TrySubmitReject
  BY <1>1 DEF TrySubmitAccept, TrySubmitReject
\* notify_one finds a sleeper and wakes it, or everybody is awake already.
<1>2. CASE NotifyOne
  <2>1. CASE waiting = {}
    BY <1>2, <2>1 DEF NotifyOne
  <2>2. CASE waiting # {}
    BY <1>2, <2>2 DEF NotifyOne
  <2> QED
    BY <2>1, <2>2
<1>3. CASE ShutdownStep
  BY <1>3 DEF ShutdownStep, ShutdownClose, ShutdownNotifyAll, ShutdownJoin
\* A worker that takes a task will be back; one that sleeps or leaves has
\* seen an empty queue under the lock.
<1>4. ASSUME NEW w \in Workers, WorkerTake(w) PROVE NoStrandedTask'
  BY <1>4 DEF WorkerTake, AtLock
<1>5. ASSUME NEW w \in Workers,
             WorkerWait(w) \/ WorkerExit(w) \/ WorkerFinish(w)
                \/ SpuriousWakeup(w)
      PROVE NoStrandedTask'
  BY <1>5 DEF WorkerWait, WorkerExit, WorkerFinish, SpuriousWakeup
<1>6. CASE UNCHANGED poolVars
  BY <1>6 DEF poolVars
<1> QED
  BY <1>1, <1>2, <1>3, <1>4, <1>5, <1>6 DEF PoolNext, WorkerStep

\* Once everybody has been notified nobody goes to sleep again.
LEMMA NextNoSleeper ==
    ThreadsInPlace /\ NoSleeperAfterShutdown /\ [PoolNext]_poolVars
        => NoSleeperAfterShutdown'
  BY DEF ThreadsInPlace, NoSleeperAfterShutdown, PoolNext, poolVars,
         TrySubmitAccept, TrySubmitReject, NotifyOne, ShutdownStep,
         ShutdownClose, ShutdownNotifyAll, ShutdownJoin, WorkerStep,
         WorkerTake, WorkerWait, WorkerExit, WorkerFinish, SpuriousWakeup

\* Every step preserves the invariant.
LEMMA NextPoolInv == PoolInv /\ [PoolNext]_poolVars => PoolInv'
  BY NextTypeOK, NextThreadsInPlace, NextNoStrandedTask, NextNoSleeper
     DEF PoolInv

\* The invariant that carries all of the following theorems.
THEOREM PoolInvariant == PoolSpec => []PoolInv
  BY InitPoolInv, NextPoolInv, PTL DEF PoolSpec, PoolSafety

\* Type correctness; the queue never holds more than queue_capacity_ tasks.
THEOREM PoolTypeCorrect == PoolSpec => []PoolTypeOK
<1>1. PoolInv => PoolTypeOK
  BY DEF PoolInv
<1> QED
  BY <1>1, PoolInvariant, PTL

\* No wakeup is lost: see NoStrandedTask.
THEOREM PoolNoStrandedTask == PoolSpec => []NoStrandedTask
<1>1. PoolInv => NoStrandedTask
  BY DEF PoolInv
<1> QED
  BY <1>1, PoolInvariant, PTL

\* The owner passes the join loop only when the queue is empty and every
\* worker idle.
LEMMA InvShutdownDrains == PoolInv => ShutdownDrains
<1> SUFFICES ASSUME PoolInv, owner = "joined"
             PROVE  tasks = <<>> /\ running = [w \in Workers |-> None]
  BY DEF ShutdownDrains
<1>1. exited = Workers /\ exited # {}
  BY PoolAssumption DEF PoolInv, ThreadsInPlace
<1>2. tasks = <<>>
  BY <1>1 DEF PoolInv, ThreadsInPlace
<1>3. \A w \in Workers : running[w] = None
  BY <1>1 DEF PoolInv, ThreadsInPlace
<1> QED
  BY <1>2, <1>3 DEF PoolInv, PoolTypeOK

\* Shutdown returns only when every accepted task has been run.
THEOREM PoolShutdownDrains == PoolSpec => []ShutdownDrains
  BY InvShutdownDrains, PoolInvariant, PTL

\* No worker sleeps, or goes to sleep, while Shutdown waits for it.
THEOREM PoolNoSleeper == PoolSpec => []NoSleeperAfterShutdown
<1>1. PoolInv => NoSleeperAfterShutdown
  BY DEF PoolInv
<1> QED
  BY <1>1, PoolInvariant, PTL
-----------------------------------------------------------------------------
\* The order of the tasks is an invariant of its own, with the numbers.
TaskOrder == PoolTypeOK /\ SubmittedBefore /\ TakenOnceInOrder

\* Appending the next number and taking the head keep the queue increasing,
\* and the running tasks below it and apart.
LEMMA NextTaskOrder == TaskOrder /\ [PoolNext]_poolVars => TaskOrder'
<1> SUFFICES ASSUME TaskOrder, [PoolNext]_poolVars
             PROVE  SubmittedBefore' /\ TakenOnceInOrder'
  BY NextTypeOK DEF TaskOrder
<1>0. /\ tasks \in Seq(Nat) /\ Len(tasks) \in Nat /\ submitted \in Nat
      /\ \A i \in 1 .. Len(tasks) : tasks[i] \in Nat \ {0}
      /\ running \in [Workers -> Nat]
  BY PoolAssumption DEF TaskOrder, PoolTypeOK, None, Task
<1> USE <1>0 DEF TaskOrder, SubmittedBefore, TakenOnceInOrder, None
<1>1. CASE TrySubmitAccept
  <2>1. /\ Len(tasks') = Len(tasks) + 1
        /\ tasks'[Len(tasks) + 1] = submitted + 1
        /\ \A i \in 1 .. Len(tasks) : tasks'[i] = tasks[i]
    BY <1>1 DEF TrySubmitAccept
  <2>2. submitted' = submitted + 1 /\ running' = running
    BY <1>1 DEF TrySubmitAccept
  <2>3. \A i \in 1 .. Len(tasks') : i \in 1 .. Len(tasks) \/ i = Len(tasks) + 1
    BY <2>1
  <2>4. SubmittedBefore'
    <3>1. ASSUME NEW i \in 1 .. Len(tasks') PROVE tasks'[i] <= submitted + 1
      BY <2>1, <2>3
    <3>2. ASSUME NEW v \in Workers PROVE running[v] <= submitted + 1
      OBVIOUS
    <3> QED
      BY <2>2, <3>1, <3>2
  <2>5. \A i, j \in 1 .. Len(tasks') : i < j => tasks'[i] < tasks'[j]
    <3> SUFFICES ASSUME NEW i \in 1 .. Len(tasks'), NEW j \in 1 .. Len(tasks'),
                        i < j
                 PROVE  tasks'[i] < tasks'[j]
      OBVIOUS
    <3>1. i \in 1 .. Len(tasks)
      BY <2>1
    <3> QED
      BY <2>1, <2>3, <3>1
  <2>6. \A v \in Workers, i \in 1 .. Len(tasks') : running[v] < tasks'[i]
    BY <2>1, <2>3
  <2> QED
    BY <2>2, <2>4, <2>5, <2>6
<1>2. ASSUME NEW w \in Workers, WorkerTake(w)
      PROVE  SubmittedBefore' /\ TakenOnceInOrder'
  <2>1. /\ Len(tasks) > 0
        /\ Len(tasks') = Len(tasks) - 1
        /\ \A i \in 1 .. Len(tasks') : tasks'[i] = tasks[i + 1]
    BY <1>2, HeadTailProperties DEF WorkerTake
  <2>2. /\ running'[w] = tasks[1]
        /\ \A v \in Workers \ {w} : running'[v] = running[v]
        /\ submitted' = submitted
    BY <1>2 DEF WorkerTake
  <2>3. \A i \in 1 .. Len(tasks') : i \in Int /\ i + 1 \in 1 .. Len(tasks)
    BY <2>1
  <2>4. \A i \in 1 .. Len(tasks') : tasks[1] < tasks'[i]
    <3> SUFFICES ASSUME NEW i \in 1 .. Len(tasks')
                 PROVE  tasks[1] < tasks[i + 1]
      BY <2>1
    <3>1. 1 \in 1 .. Len(tasks) /\ i + 1 \in 1 .. Len(tasks) /\ 1 < i + 1
      BY <2>1, <2>3
    <3> QED
      BY <3>1
  <2>5. \A v \in Workers : running[v] < tasks[1] /\ tasks[1] \in Nat \ {0}
    BY <2>1
  <2>6. SubmittedBefore'
    <3>1. ASSUME NEW i \in 1 .. Len(tasks') PROVE tasks'[i] <= submitted
      BY <2>1, <2>3
    <3>2. ASSUME NEW v \in Workers PROVE running'[v] <= submitted
      BY <2>1, <2>2
    <3> QED
      BY <2>2, <3>1, <3>2
  <2>7. \A i, j \in 1 .. Len(tasks') : i < j => tasks'[i] < tasks'[j]
    <3> SUFFICES ASSUME NEW i \in 1 .. Len(tasks'), NEW j \in 1 .. Len(tasks'),
                        i < j
                 PROVE  tasks[i + 1] < tasks[j + 1]
      BY <2>1
    <3>1. i + 1 \in 1 .. Len(tasks) /\ j + 1 \in 1 .. Len(tasks) /\ i + 1 < j + 1
      BY <2>3
    <3> QED
      BY <3>1
  <2>8. \A v \in Workers, i \in 1 .. Len(tasks') : running'[v] < tasks'[i]
    <3> SUFFICES ASSUME NEW v \in Workers, NEW i \in 1 .. Len(tasks')
                 PROVE  running'[v] < tasks[i + 1]
      BY <2>1
    <3> QED
      BY <2>1, <2>2, <2>3, <2>4
  <2>9. \A u, v \in Workers :
          u # v /\ running'[u] # None => running'[u] # running'[v]
    BY <2>2, <2>5
  <2> QED
    BY <2>6, <2>7, <2>8, <2>9
<1>3. ASSUME NEW w \in Workers, WorkerFinish(w)
      PROVE  SubmittedBefore' /\ TakenOnceInOrder'
  BY <1>3 DEF WorkerFinish
<1>4. CASE TrySubmitReject
  BY <1>4 DEF TrySubmitReject
<1>5. CASE NotifyOne \/ ShutdownStep \/ UNCHANGED poolVars
  BY <1>5 DEF NotifyOne, ShutdownStep, ShutdownClose, ShutdownNotifyAll,
              ShutdownJoin, poolVars
<1>6. ASSUME NEW w \in Workers,
             WorkerWait(w) \/ WorkerExit(w) \/ SpuriousWakeup(w)
      PROVE  SubmittedBefore' /\ TakenOnceInOrder'
  BY <1>6 DEF WorkerWait, WorkerExit, SpuriousWakeup
<1> QED
  BY <1>1, <1>2, <1>3, <1>4, <1>5, <1>6 DEF PoolNext, WorkerStep

\* Tasks are taken in the order of submission, each by one worker.
THEOREM PoolTakenOnceInOrder == PoolSpec => []TakenOnceInOrder
<1>1. PoolInit => TaskOrder
  BY InitPoolInv DEF PoolInit, PoolInv, TaskOrder, SubmittedBefore,
                     TakenOnceInOrder, None
<1>2. TaskOrder => TakenOnceInOrder
  BY DEF TaskOrder
<1> QED
  BY <1>1, <1>2, NextTaskOrder, PTL DEF PoolSpec, PoolSafety

-----------------------------------------------------------------------------
(* The completion queue.                                                   *)

\* NoLostCompletion is inductive by itself; ClosedIsEmpty also needs that no
\* pusher is left from the last Drain on.
QueueInv ==
    /\ QueueTypeOK
    /\ NoLostCompletion
    /\ loop \in {"final_drain", "closed"} => live = {}
    /\ ClosedIsEmpty

-----------------------------------------------------------------------------
\* Moving the head of the queue to the end of what was run changes nothing of
\* the order of the two together.
LEMMA MoveHead ==
  ASSUME NEW S, NEW e \in Seq(S), NEW c \in Seq(S), c # <<>>
  PROVE  Append(e, Head(c)) \o Tail(c) = e \o c
<1>1. Head(c) \in S /\ Tail(c) \in Seq(S)
  BY HeadTailProperties
<1>2. Append(e, Head(c)) = e \o <<Head(c)>>
  BY <1>1, AppendIsConcat
<1>3. <<Head(c)>> \o Tail(c) = c
  BY <1>1
<1>4. (e \o <<Head(c)>>) \o Tail(c) = e \o (<<Head(c)>> \o Tail(c))
  BY <1>1, ConcatAssociative
<1> QED
  BY <1>2, <1>3, <1>4

\* A push comes last of all.
LEMMA PushLast ==
  ASSUME NEW S, NEW e \in Seq(S), NEW c \in Seq(S), NEW x \in S
  PROVE  e \o Append(c, x) = Append(e \o c, x)
<1>1. Append(c, x) = c \o <<x>> /\ e \o c \in Seq(S) /\ <<x>> \in Seq(S)
  BY AppendIsConcat, ConcatProperties
<1>2. Append(e \o c, x) = (e \o c) \o <<x>>
  BY <1>1, AppendIsConcat
<1> QED
  BY <1>1, <1>2, ConcatAssociative

\* Every step of a pusher and of the event loop preserves the types.
LEMMA NextQueueTypeOK == QueueTypeOK /\ [QueueNext]_queueVars => QueueTypeOK'
<1> SUFFICES ASSUME QueueTypeOK, [QueueNext]_queueVars PROVE QueueTypeOK'
  OBVIOUS
<1> USE DEF QueueTypeOK, LoopStates
<1>1. ASSUME NEW w \in Pushers, PushNew(w) PROVE QueueTypeOK'
  BY <1>1 DEF PushNew, Push
<1>2. ASSUME NEW w \in Pushers, Notify(w) \/ PusherExit(w) PROVE QueueTypeOK'
  BY <1>2 DEF Notify, PusherExit
<1>3. CASE Wake \/ Consume \/ DrainEnd \/ FinalDrain
  BY <1>3 DEF Wake, Consume, DrainEnd, FinalDrain
<1>4. CASE DrainOne
  <2>1. Head(completions) \in Completion /\ Tail(completions) \in Seq(Completion)
    BY <1>4, HeadTailProperties DEF DrainOne
  <2> QED
    BY <1>4, <2>1 DEF DrainOne
<1>5. CASE UNCHANGED queueVars
  BY <1>5 DEF queueVars
<1> QED
  BY <1>1, <1>2, <1>3, <1>4, <1>5 DEF QueueNext, LoopStep

\* Every step preserves the rest of the invariant.
LEMMA NextQueueInv == QueueInv /\ [QueueNext]_queueVars => QueueInv'
<1> SUFFICES ASSUME QueueInv, [QueueNext]_queueVars PROVE QueueInv'
  OBVIOUS
<1>0. QueueTypeOK'
  BY NextQueueTypeOK DEF QueueInv
<1> USE <1>0 DEF QueueInv, QueueTypeOK, NoLostCompletion, ClosedIsEmpty, LoopStates
\* A push onto an empty queue owes a Notify; a push onto another one finds
\* the wakeup of the earlier push still under way.
<1>1. ASSUME NEW w \in Pushers, PushNew(w) PROVE QueueInv'
  BY <1>1 DEF PushNew, Push
<1>2. ASSUME NEW w \in Pushers, Notify(w) PROVE QueueInv'
  BY <1>2 DEF Notify
<1>3. ASSUME NEW w \in Pushers, PusherExit(w) PROVE QueueInv'
  BY <1>3 DEF PusherExit
<1>4. CASE Wake \/ Consume \/ DrainOne
  BY <1>4 DEF Wake, Consume, DrainOne
\* Drain gives up its duty to the queue only when it has seen it empty.
<1>5. CASE DrainEnd \/ FinalDrain
  BY <1>5 DEF DrainEnd, FinalDrain
<1>6. CASE UNCHANGED queueVars
  BY <1>6 DEF queueVars
<1> QED
  BY <1>1, <1>2, <1>3, <1>4, <1>5, <1>6 DEF QueueNext, LoopStep

\* The invariant that carries the following theorems.
THEOREM QueueInvariant == QueueSpec => []QueueInv
<1>1. QueueInit => QueueInv
  BY DEF QueueInit, QueueInv, QueueTypeOK, NoLostCompletion, ClosedIsEmpty,
         LoopStates
<1> QED
  BY <1>1, NextQueueInv, PTL DEF QueueSpec, QueueSafety

\* The types; a pusher that has exited owes the eventfd no write.
THEOREM QueueTypeCorrect == QueueSpec => []QueueTypeOK
<1>1. QueueInv => QueueTypeOK
  BY DEF QueueInv
<1> QED
  BY <1>1, QueueInvariant, PTL

\* No wakeup of the event loop is lost: see NoLostCompletion.
THEOREM QueueNoLostCompletion == QueueSpec => []NoLostCompletion
<1>1. QueueInv => NoLostCompletion
  BY DEF QueueInv
<1> QED
  BY <1>1, QueueInvariant, PTL

\* The last Drain of ~GameServer leaves nothing behind.
THEOREM QueueClosedIsEmpty == QueueSpec => []ClosedIsEmpty
<1>1. QueueInv => ClosedIsEmpty
  BY DEF QueueInv
<1> QED
  BY <1>1, QueueInvariant, PTL

\* Every step keeps the completions in the order of the pushes.
LEMMA NextExecutedInOrder ==
    QueueTypeOK /\ ExecutedInOrder /\ [QueueNext]_queueVars => ExecutedInOrder'
<1> SUFFICES ASSUME QueueTypeOK, ExecutedInOrder, [QueueNext]_queueVars
             PROVE  ExecutedInOrder'
  OBVIOUS
<1> USE DEF QueueTypeOK, ExecutedInOrder
<1>1. ASSUME NEW w \in Pushers, PushNew(w) PROVE ExecutedInOrder'
  <2>1. PICK c \in Completion : Push(w, c)
    BY <1>1 DEF PushNew
  <2>2. executed \o Append(completions, c) = Append(executed \o completions, c)
    BY PushLast
  <2> QED
    BY <2>1, <2>2 DEF Push
<1>2. CASE DrainOne
  <2>1. completions # <<>>
    BY <1>2 DEF DrainOne
  <2>2. Append(executed, Head(completions)) \o Tail(completions)
          = executed \o completions
    BY <2>1, MoveHead
  <2> QED
    BY <1>2, <2>2 DEF DrainOne
<1>3. ASSUME NEW w \in Pushers, Notify(w) \/ PusherExit(w)
      PROVE  ExecutedInOrder'
  BY <1>3 DEF Notify, PusherExit
<1>4. CASE Wake \/ Consume \/ DrainEnd \/ FinalDrain
  BY <1>4 DEF Wake, Consume, DrainEnd, FinalDrain
<1>5. CASE UNCHANGED queueVars
  BY <1>5 DEF queueVars
<1> QED
  BY <1>1, <1>2, <1>3, <1>4, <1>5 DEF QueueNext, LoopStep

\* The completions are run once each, in the order of the pushes: see
\* ExecutedInOrder.
THEOREM QueueExecutedInOrder == QueueSpec => []ExecutedInOrder
<1>1. QueueInit => ExecutedInOrder
  BY DEF QueueInit, ExecutedInOrder
<1> QED
  BY <1>1, NextExecutedInOrder, QueueTypeCorrect, PTL DEF QueueSpec, QueueSafety

-----------------------------------------------------------------------------
(* The data service.                                                       *)

\* The workers of the pool are the pushers of the queue: one that has not left
\* its loop is live, one on its way to Notify is still inside its task, and the
\* last Drain comes after the join loop.
WorkersAreThePushers ==
    /\ live = Workers \ exited
    /\ \A w \in notifying : running[w] # None /\ stage[w] = "return"
    /\ loop \in {"final_drain", "closed"} => owner = "joined"

\* Every call made so far is in one of five places, and no other call is.
CallsAccounted ==
    \A c \in Task :
        c <= submitted <=>
            InPool(c) \/ InQueue(c) \/ c \in Called \/ c \in refused
                \/ c \in faulted

\* No call is in two of the five places.
PlacesDisjoint ==
    \A c \in Task :
        /\ InPool(c) =>
             ~InQueue(c) /\ c \notin Called \cup refused \cup faulted
        /\ InQueue(c) => c \notin Called \cup refused \cup faulted
        /\ c \in Called => c \notin refused \cup faulted
        /\ c \notin refused \cap faulted

\* No completion is queued twice.
QueuedOnce ==
    \A i, j \in 1 .. Len(completions) :
        i # j => completions[i] # completions[j]

Accounting == CallsAccounted /\ PlacesDisjoint /\ QueuedOnce

DataInv ==
    /\ DataTypeOK
    /\ PoolInv
    /\ TaskOrder
    /\ QueueInv
    /\ ExecutedInOrder
    /\ WorkersAreThePushers
    /\ Accounting

-----------------------------------------------------------------------------
\* Each step of the service is a step of the pool, or leaves it alone.
LEMMA DataStepIsPoolStep == [DataNext]_dataVars => [PoolNext]_poolVars
<1> SUFFICES ASSUME [DataNext]_dataVars PROVE [PoolNext]_poolVars
  OBVIOUS
<1>1. CASE CallAccepted \/ CallRefused \/ CallNotifies
  BY <1>1 DEF CallAccepted, CallRefused, CallNotifies, PoolNext
<1>2. CASE LoopRuns \/ CloseDrains \/ UNCHANGED dataVars
  BY <1>2 DEF LoopRuns, CloseDrains, dataVars
<1>3. CASE CloseBegins \/ CloseWaits
  BY <1>3 DEF CloseBegins, CloseWaits, PoolNext, ShutdownStep
<1>4. ASSUME NEW w \in Workers, TaskStep(w) \/ WorkerWakes(w)
      PROVE  [PoolNext]_poolVars
  <2>1. CASE TaskBegins(w) \/ TaskReturns(w) \/ WorkerIdles(w)
               \/ WorkerLeaves(w) \/ WorkerWakes(w)
    BY <2>1 DEF TaskBegins, TaskReturns, WorkerIdles, WorkerLeaves,
                WorkerWakes, PoolNext, WorkerStep
  <2>2. CASE StoreReturns(w) \/ StoreThrows(w) \/ TaskPushes(w)
               \/ TaskNotifies(w)
    BY <2>2 DEF StoreReturns, StoreThrows, TaskPushes, TaskNotifies
  <2> QED
    BY <1>4, <2>1, <2>2 DEF TaskStep
<1> QED
  BY <1>1, <1>2, <1>3, <1>4 DEF DataNext

\* What a call that was pushed has become: its callback is queued or was run.
LEMMA PushedIsQueuedOrCalled ==
  ASSUME QueueTypeOK, ExecutedInOrder, NEW i \in 1 .. Len(pushed)
  PROVE  pushed[i] \in Called \/ InQueue(pushed[i])
<1>1. pushed = executed \o completions
  BY DEF ExecutedInOrder
<1>2. /\ Len(pushed) = Len(executed) + Len(completions)
      /\ Len(executed) \in Nat /\ Len(completions) \in Nat
  BY <1>1 DEF QueueTypeOK
<1>3. CASE i <= Len(executed)
  <2>1. pushed[i] = executed[i] /\ i \in 1 .. Len(executed)
    BY <1>1, <1>2, <1>3 DEF QueueTypeOK
  <2> QED
    BY <2>1 DEF Called
<1>4. CASE i > Len(executed)
  <2>1. /\ pushed[i] = completions[i - Len(executed)]
        /\ i - Len(executed) \in 1 .. Len(completions)
    BY <1>1, <1>2, <1>4 DEF QueueTypeOK
  <2> QED
    BY <2>1 DEF InQueue
<1> QED
  BY <1>2, <1>3, <1>4

\* A task that is about to push has not pushed before, and its worker has no
\* Notify under way.
LEMMA PushIsNew ==
  ASSUME DataInv, NEW w \in Workers, TaskPushes(w)
  PROVE  PushNew(w)
<1>1. running[w] \in Completion
  BY DataAssumption DEF DataInv, DataTypeOK, PoolTypeOK, TaskPushes
<1>2. InPool(running[w])
  BY DEF TaskPushes, InPool
<1>3. ASSUME NEW i \in 1 .. Len(pushed) PROVE pushed[i] # running[w]
  <2>1. pushed[i] \in Called \/ InQueue(pushed[i])
    BY PushedIsQueuedOrCalled DEF DataInv, DataTypeOK
  <2>2. running[w] \notin Called /\ ~InQueue(running[w])
    BY <1>1, <1>2, DataAssumption DEF DataInv, Accounting, PlacesDisjoint
  <2> QED
    BY <2>1, <2>2
<1> QED
  BY <1>1, <1>3 DEF PushNew, TaskPushes

\* Each step of the service is a step of the queue, or leaves it alone: no call
\* is pushed twice, no worker leaves before its Notify, and the last Drain
\* begins when all of them have left.
LEMMA DataStepIsQueueStep ==
    DataInv /\ [DataNext]_dataVars => [QueueNext]_queueVars
<1> SUFFICES ASSUME DataInv, [DataNext]_dataVars PROVE [QueueNext]_queueVars
  OBVIOUS
<1>1. CASE CallAccepted \/ CallRefused \/ CallNotifies \/ CloseBegins
             \/ CloseWaits \/ UNCHANGED dataVars
  BY <1>1 DEF CallAccepted, CallRefused, CallNotifies, CloseBegins, CloseWaits,
              dataVars
<1>2. CASE LoopRuns \/ CloseDrains
  BY <1>2 DEF LoopRuns, CloseDrains, QueueNext, LoopStep
<1>3. ASSUME NEW w \in Workers, TaskPushes(w) PROVE QueueNext
  BY <1>3, PushIsNew, DataAssumption DEF QueueNext
<1>4. ASSUME NEW w \in Workers, TaskNotifies(w) PROVE QueueNext
  BY <1>4, DataAssumption DEF QueueNext, TaskNotifies
<1>5. ASSUME NEW w \in Workers, WorkerLeaves(w) PROVE QueueNext
  <2>1. w \in live \ notifying
    BY <1>5 DEF WorkerLeaves, WorkerExit, AtLock, DataInv,
                WorkersAreThePushers
  <2>2. PusherExit(w)
    BY <1>5, <2>1 DEF WorkerLeaves, PusherExit
  <2> QED
    BY <2>2, DataAssumption DEF QueueNext
<1>6. ASSUME NEW w \in Workers,
             \/ TaskBegins(w) \/ StoreReturns(w) \/ StoreThrows(w)
             \/ TaskReturns(w) \/ WorkerIdles(w) \/ WorkerWakes(w)
      PROVE  UNCHANGED queueVars
  BY <1>6 DEF TaskBegins, StoreReturns, StoreThrows, TaskReturns, WorkerIdles,
              WorkerWakes
<1> QED
  BY <1>1, <1>2, <1>3, <1>4, <1>5, <1>6 DEF DataNext, TaskStep

-----------------------------------------------------------------------------
\* Every step keeps the workers and the pushers the same threads.
LEMMA NextWorkersAreThePushers ==
    DataInv /\ [DataNext]_dataVars => WorkersAreThePushers'
<1> SUFFICES ASSUME DataInv, [DataNext]_dataVars PROVE WorkersAreThePushers'
  OBVIOUS
<1>0. /\ WorkersAreThePushers
      /\ running \in [Workers -> Task \cup {None}] /\ stage \in [Workers -> Stages]
      /\ notifying \subseteq Workers
  BY DataAssumption DEF DataInv, DataTypeOK, PoolTypeOK, QueueTypeOK
<1> USE <1>0 DEF WorkersAreThePushers
<1>1. CASE CallAccepted \/ CallRefused \/ CallNotifies
  BY <1>1 DEF CallAccepted, CallRefused, CallNotifies, TrySubmitAccept,
              TrySubmitReject, NotifyOne, queueVars
<1>2. CASE LoopRuns \/ CloseDrains \/ UNCHANGED dataVars
  BY <1>2 DEF LoopRuns, CloseDrains, dataVars, poolVars, queueVars, Wake,
              Consume, DrainOne, DrainEnd, FinalDrain
<1>3. CASE CloseBegins \/ CloseWaits
  BY <1>3 DEF CloseBegins, CloseWaits, ShutdownClose, ShutdownNotifyAll,
              ShutdownJoin, queueVars
<1>4. ASSUME NEW w \in Workers, TaskBegins(w) PROVE WorkersAreThePushers'
  BY <1>4 DEF TaskBegins, WorkerTake, AtLock, queueVars
<1>5. ASSUME NEW w \in Workers, StoreReturns(w) \/ StoreThrows(w)
      PROVE  WorkersAreThePushers'
  BY <1>5 DEF StoreReturns, StoreThrows, poolVars, queueVars
<1>6. ASSUME NEW w \in Workers, TaskPushes(w) PROVE WorkersAreThePushers'
  BY <1>6 DEF TaskPushes, Push, poolVars
<1>7. ASSUME NEW w \in Workers, TaskNotifies(w) PROVE WorkersAreThePushers'
  BY <1>7 DEF TaskNotifies, Notify, poolVars
<1>8. ASSUME NEW w \in Workers, TaskReturns(w) PROVE WorkersAreThePushers'
  BY <1>8 DEF TaskReturns, WorkerFinish, queueVars
<1>9. ASSUME NEW w \in Workers,
             WorkerIdles(w) \/ WorkerLeaves(w) \/ WorkerWakes(w)
      PROVE  WorkersAreThePushers'
  BY <1>9 DEF WorkerIdles, WorkerLeaves, WorkerWakes, WorkerWait, WorkerExit,
              SpuriousWakeup, queueVars
<1> QED
  BY <1>1, <1>2, <1>3, <1>4, <1>5, <1>6, <1>7, <1>8, <1>9
     DEF DataNext, TaskStep

\* An accepted call is now in the pool, and no other call has moved.
LEMMA AcceptedIsInPool ==
  ASSUME DataInv, CallAccepted, NEW c \in Task
  PROVE  InPool(c)' <=> InPool(c) \/ c = submitted + 1
<1>1. /\ Len(tasks') = Len(tasks) + 1 /\ Len(tasks) \in Nat
      /\ tasks'[Len(tasks) + 1] = submitted + 1
      /\ \A i \in 1 .. Len(tasks) : tasks'[i] = tasks[i]
  BY PoolAssumption
     DEF DataInv, DataTypeOK, PoolTypeOK, CallAccepted, TrySubmitAccept, Task
<1>2. running' = running /\ stage' = stage
  BY DEF CallAccepted, TrySubmitAccept
<1>3. \A i \in 1 .. Len(tasks') : i \in 1 .. Len(tasks) \/ i = Len(tasks) + 1
  BY <1>1
<1>4. \A i \in 1 .. Len(tasks) : i \in 1 .. Len(tasks')
  BY <1>1
<1>5. Len(tasks) + 1 \in 1 .. Len(tasks')
  BY <1>1
<1> QED
  BY <1>1, <1>2, <1>3, <1>4, <1>5 DEF InPool

\* The task a worker takes from the queue stays in the pool.
LEMMA TakenStaysInPool ==
  ASSUME DataInv, NEW w \in Workers, TaskBegins(w), NEW c \in Task
  PROVE  InPool(c)' <=> InPool(c)
<1>1. /\ Len(tasks) \in Nat /\ Len(tasks) > 0
      /\ Len(tasks') = Len(tasks) - 1
      /\ \A i \in 1 .. Len(tasks') : tasks'[i] = tasks[i + 1]
  BY HeadTailProperties
     DEF DataInv, DataTypeOK, PoolTypeOK, TaskBegins, WorkerTake
<1>2. /\ running[w] = None /\ running'[w] = tasks[1]
      /\ stage'[w] = "operate"
      /\ \A v \in Workers \ {w} : running'[v] = running[v] /\ stage'[v] = stage[v]
  BY DEF DataInv, DataTypeOK, PoolTypeOK, TaskBegins, WorkerTake, AtLock
<1>3. c # None
  BY PoolAssumption DEF Task, None
<1>4. \A i \in 1 .. Len(tasks') : i + 1 \in 1 .. Len(tasks)
  BY <1>1
<1>5. \A i \in 1 .. Len(tasks) : i = 1 \/ (i - 1 \in 1 .. Len(tasks')
                                            /\ tasks'[i - 1] = tasks[i])
  BY <1>1
<1>6. 1 \in 1 .. Len(tasks)
  BY <1>1
<1>7. ASSUME InPool(c)' PROVE InPool(c)
  BY <1>1, <1>2, <1>4, <1>6, <1>7 DEF InPool
<1>8. ASSUME InPool(c) PROVE InPool(c)'
  <2>1. CASE \E i \in 1 .. Len(tasks) : tasks[i] = c
    BY <1>2, <1>5, <2>1 DEF InPool
  <2>2. CASE \E v \in Workers : running[v] = c /\ stage[v] # "return"
    BY <1>2, <1>3, <2>2 DEF InPool
  <2> QED
    BY <1>8, <2>1, <2>2 DEF InPool
<1> QED
  BY <1>7, <1>8

\* A task that reaches stage "return" leaves the pool: it is in no other slot.
LEMMA DoneLeavesPool ==
  ASSUME DataInv, NEW w \in Workers, running[w] # None, stage[w] # "return",
         UNCHANGED poolVars, stage' = [stage EXCEPT ![w] = "return"],
         NEW c \in Task
  PROVE  InPool(c)' <=> InPool(c) /\ c # running[w]
<1>1. \A i \in 1 .. Len(tasks) : tasks[i] # running[w]
  <2>1. \A i \in 1 .. Len(tasks) : running[w] < tasks[i]
    BY DEF DataInv, TaskOrder, TakenOnceInOrder
  <2>2. running[w] \in Nat
    BY PoolAssumption DEF DataInv, DataTypeOK, PoolTypeOK, Task, None
  <2> QED
    BY <2>1, <2>2
<1>2. \A v \in Workers \ {w} : running[v] # running[w]
  BY DEF DataInv, TaskOrder, TakenOnceInOrder
<1>3. tasks' = tasks /\ running' = running
  BY DEF poolVars
<1>4. /\ stage'[w] = "return"
      /\ \A v \in Workers \ {w} : stage'[v] = stage[v]
  BY DEF DataInv, DataTypeOK
<1> QED
  BY <1>1, <1>2, <1>3, <1>4 DEF InPool

\* A push puts the call at the end of the queue; no other call moves.
LEMMA PushedIsInQueue ==
  ASSUME DataInv, NEW w \in Workers, NEW c \in Task, Push(w, c), ~InQueue(c)
  PROVE  /\ \A d \in Task : InQueue(d)' <=> InQueue(d) \/ d = c
         /\ QueuedOnce'
<1>1. /\ Len(completions') = Len(completions) + 1 /\ Len(completions) \in Nat
      /\ completions'[Len(completions) + 1] = c
      /\ \A i \in 1 .. Len(completions) : completions'[i] = completions[i]
  BY DataAssumption DEF DataInv, DataTypeOK, QueueTypeOK, Push
<1>2. \A i \in 1 .. Len(completions') :
        i \in 1 .. Len(completions) \/ i = Len(completions) + 1
  BY <1>1
<1>3. /\ Len(completions) + 1 \in 1 .. Len(completions')
      /\ \A i \in 1 .. Len(completions) : i \in 1 .. Len(completions')
  BY <1>1
<1>4. \A d \in Task : InQueue(d)' <=> InQueue(d) \/ d = c
  BY <1>1, <1>2, <1>3 DEF InQueue
<1>5. QueuedOnce'
  <2> SUFFICES ASSUME NEW i \in 1 .. Len(completions'),
                      NEW j \in 1 .. Len(completions'), i # j
               PROVE  completions'[i] # completions'[j]
    BY DEF QueuedOnce
  <2>1. \A k \in 1 .. Len(completions) : completions[k] # c
    BY DEF InQueue
  <2> QED
    BY <1>1, <1>2, <2>1 DEF DataInv, Accounting, QueuedOnce
<1> QED
  BY <1>4, <1>5

\* Drain moves the head of the queue to the calls whose callback was run.
LEMMA DrainedIsCalled ==
  ASSUME DataInv, DrainOne
  PROVE  /\ completions[1] \in Task
         /\ InQueue(completions[1])
         /\ \A d \in Task : InQueue(d)' <=> InQueue(d) /\ d # completions[1]
         /\ Called' = Called \cup {completions[1]}
         /\ QueuedOnce'
<1>0. completions \in Seq(Task) /\ executed \in Seq(Task)
  BY DataAssumption DEF DataInv, DataTypeOK, QueueTypeOK
<1>1. /\ Len(completions) \in Nat /\ Len(completions) > 0
      /\ Len(completions') = Len(completions) - 1
      /\ \A i \in 1 .. Len(completions') : completions'[i] = completions[i + 1]
  BY <1>0, HeadTailProperties DEF DrainOne
<1>2. /\ 1 \in 1 .. Len(completions)
      /\ \A i \in 1 .. Len(completions') : i + 1 \in 1 .. Len(completions)
      /\ \A i \in 1 .. Len(completions) :
            i = 1 \/ (/\ i - 1 \in 1 .. Len(completions')
                      /\ completions'[i - 1] = completions[i])
  BY <1>1
<1>3. completions[1] \in Task /\ InQueue(completions[1])
  <2>1. 1 \in 1 .. Len(completions)
    BY <1>2
  <2>2. completions[1] \in Task
    BY <1>0, <2>1
  <2>3. InQueue(completions[1])
    BY <2>1, Zenon DEF InQueue
  <2> QED  BY <2>2, <2>3
<1>4. \A i, j \in 1 .. Len(completions) : i # j => completions[i] # completions[j]
  BY DEF DataInv, Accounting, QueuedOnce
<1>5. \A i \in 1 .. Len(completions') : completions'[i] # completions[1]
  <2> SUFFICES ASSUME NEW i \in 1 .. Len(completions')
               PROVE  completions[i + 1] # completions[1]
    BY <1>1
  <2>1. i + 1 # 1 /\ i + 1 \in 1 .. Len(completions)
    BY <1>1
  <2> QED
    BY <1>2, <1>4, <2>1
<1>6. ASSUME NEW d \in Task
      PROVE  InQueue(d)' <=> InQueue(d) /\ d # completions[1]
  <2>1. InQueue(d)' => InQueue(d) /\ d # completions[1]
    BY <1>1, <1>2, <1>5 DEF InQueue
  <2>2. InQueue(d) /\ d # completions[1] => InQueue(d)'
    BY <1>2 DEF InQueue
  <2> QED
    BY <2>1, <2>2
<1>7. Called' = Called \cup {completions[1]}
  <2>1. /\ Len(executed) \in Nat /\ Len(executed') = Len(executed) + 1
        /\ executed'[Len(executed) + 1] = completions[1]
        /\ \A i \in 1 .. Len(executed) : executed'[i] = executed[i]
    BY <1>0, <1>3 DEF DrainOne
  <2>2. /\ Len(executed) + 1 \in 1 .. Len(executed')
        /\ \A i \in 1 .. Len(executed) : i \in 1 .. Len(executed')
        /\ \A i \in 1 .. Len(executed') :
              i \in 1 .. Len(executed) \/ i = Len(executed) + 1
    BY <2>1
  <2> QED
    BY <2>1, <2>2 DEF Called
<1>8. QueuedOnce'
  <2> SUFFICES ASSUME NEW i \in 1 .. Len(completions'),
                      NEW j \in 1 .. Len(completions'), i # j
               PROVE  completions[i + 1] # completions[j + 1]
    BY <1>1 DEF QueuedOnce
  <2>1. i + 1 # j + 1
    OBVIOUS
  <2> QED
    BY <1>2, <1>4, <2>1
<1> QED
  BY <1>3, <1>6, <1>7, <1>8

\* Every step moves a call from one place to one other place, or moves none.
LEMMA NextAccounting == DataInv /\ [DataNext]_dataVars => Accounting'
<1> SUFFICES ASSUME DataInv, [DataNext]_dataVars PROVE Accounting'
  OBVIOUS
<1>0. /\ CallsAccounted /\ PlacesDisjoint /\ QueuedOnce
      /\ submitted \in Nat /\ Task \subseteq Nat
  BY PoolAssumption
     DEF DataInv, Accounting, DataTypeOK, PoolTypeOK, Task
<1>1. ASSUME UNCHANGED <<tasks, running, stage, submitted, completions,
                         executed, refused, faulted>>
      PROVE  Accounting'
  BY <1>0, <1>1 DEF Accounting, CallsAccounted, PlacesDisjoint, QueuedOnce,
                    InPool, InQueue, Called
\* The first five cases leave the queue alone.
<1>2. ASSUME UNCHANGED queueVars
      PROVE  /\ \A c \in Task : InQueue(c)' <=> InQueue(c)
             /\ Called' = Called /\ QueuedOnce'
  BY <1>0, <1>2 DEF queueVars, InQueue, Called, QueuedOnce
<1>3. CASE CallAccepted
  <2>1. /\ submitted' = submitted + 1
        /\ UNCHANGED <<queueVars, refused, faulted>>
    BY <1>3 DEF CallAccepted, TrySubmitAccept, history
  <2> QED
    BY <1>0, <1>2, <1>3, <2>1, AcceptedIsInPool
       DEF Accounting, CallsAccounted, PlacesDisjoint
<1>4. CASE CallRefused
  <2>1. /\ submitted' = submitted + 1 /\ refused' = refused \cup {submitted + 1}
        /\ UNCHANGED <<queueVars, faulted, tasks, running, stage>>
    BY <1>4 DEF CallRefused, TrySubmitReject
  <2>2. \A c \in Task : InPool(c)' <=> InPool(c)
    BY <2>1 DEF InPool
  <2> QED
    BY <1>0, <1>2, <2>1, <2>2 DEF Accounting, CallsAccounted, PlacesDisjoint
<1>5. ASSUME NEW w \in Workers, TaskBegins(w) PROVE Accounting'
  <2>1. UNCHANGED <<queueVars, refused, faulted, submitted>>
    BY <1>5 DEF TaskBegins, WorkerTake, history
  <2> QED
    BY <1>0, <1>2, <1>5, <2>1, TakenStaysInPool
       DEF Accounting, CallsAccounted, PlacesDisjoint
<1>6. ASSUME NEW w \in Workers, StoreReturns(w) \/ TaskReturns(w)
      PROVE  Accounting'
  <2>1. UNCHANGED <<queueVars, refused, faulted, submitted, tasks>>
    BY <1>6 DEF StoreReturns, TaskReturns, WorkerFinish, poolVars, history
  <2>2. \A c \in Task : InPool(c)' <=> InPool(c)
    BY <1>6, PoolAssumption
       DEF StoreReturns, TaskReturns, WorkerFinish, poolVars, InPool, DataInv,
           DataTypeOK, PoolTypeOK, Task, None
  <2> QED
    BY <1>0, <1>2, <2>1, <2>2 DEF Accounting, CallsAccounted, PlacesDisjoint
<1>7. ASSUME NEW w \in Workers, StoreThrows(w) PROVE Accounting'
  <2>1. /\ faulted' = faulted \cup {running[w]}
        /\ UNCHANGED <<queueVars, refused, submitted>>
    BY <1>7 DEF StoreThrows, poolVars
  <2>2. running[w] \in Task /\ InPool(running[w])
    BY <1>7 DEF StoreThrows, InPool, DataInv, DataTypeOK, PoolTypeOK
  <2>3. \A c \in Task : InPool(c)' <=> InPool(c) /\ c # running[w]
    BY <1>7, DoneLeavesPool DEF StoreThrows
  <2> QED
    BY <1>0, <1>2, <2>1, <2>2, <2>3
       DEF Accounting, CallsAccounted, PlacesDisjoint
<1>8. ASSUME NEW w \in Workers, TaskPushes(w) PROVE Accounting'
  <2>1. UNCHANGED <<refused, faulted, submitted, executed>>
    BY <1>8 DEF TaskPushes, Push, poolVars, history
  <2>2. Called' = Called
    BY <2>1 DEF Called
  <2>3. running[w] \in Task /\ InPool(running[w])
    BY <1>8 DEF TaskPushes, InPool, DataInv, DataTypeOK, PoolTypeOK
  <2>4. ~InQueue(running[w])
    BY <1>0, <2>3 DEF PlacesDisjoint
  <2>5. /\ \A c \in Task : InQueue(c)' <=> InQueue(c) \/ c = running[w]
        /\ QueuedOnce'
    BY <1>8, <2>3, <2>4, PushedIsInQueue DEF TaskPushes
  <2>6. \A c \in Task : InPool(c)' <=> InPool(c) /\ c # running[w]
    BY <1>8, DoneLeavesPool DEF TaskPushes
  <2> QED
    BY <1>0, <2>1, <2>2, <2>3, <2>5, <2>6
       DEF Accounting, CallsAccounted, PlacesDisjoint
<1>9. CASE LoopRuns
  <2>1. CASE DrainOne
    <3>1. UNCHANGED <<poolVars, stage, refused, faulted>>
      BY <1>9 DEF LoopRuns, history
    <3>2. submitted' = submitted /\ \A c \in Task : InPool(c)' <=> InPool(c)
      BY <3>1 DEF InPool, poolVars
    <3> QED
      BY <1>0, <2>1, <3>1, <3>2, DrainedIsCalled
         DEF Accounting, CallsAccounted, PlacesDisjoint
  <2>2. CASE Wake \/ Consume \/ DrainEnd
    BY <1>1, <1>9, <2>2 DEF LoopRuns, Wake, Consume, DrainEnd, poolVars, history
  <2> QED
    BY <1>9, <2>1, <2>2 DEF LoopRuns
<1>10. CASE CallNotifies \/ CloseBegins \/ CloseWaits \/ CloseDrains
              \/ UNCHANGED dataVars
  BY <1>1, <1>10
     DEF CallNotifies, NotifyOne, CloseBegins, ShutdownClose, CloseWaits,
         ShutdownNotifyAll, ShutdownJoin, CloseDrains, FinalDrain, dataVars,
         poolVars, queueVars, history
<1>11. ASSUME NEW w \in Workers,
              \/ TaskNotifies(w) \/ WorkerIdles(w) \/ WorkerLeaves(w)
              \/ WorkerWakes(w)
       PROVE  Accounting'
  BY <1>1, <1>11
     DEF TaskNotifies, Notify, WorkerIdles, WorkerWait, WorkerLeaves,
         WorkerExit, WorkerWakes, SpuriousWakeup, poolVars, queueVars, history
<1> QED
  BY <1>3, <1>4, <1>5, <1>6, <1>7, <1>8, <1>9, <1>10, <1>11
     DEF DataNext, TaskStep

\* The types of what the service adds to its parts.
LEMMA NextDataTypeOK ==
    DataInv /\ [DataNext]_dataVars
      => stage' \in [Workers -> Stages] /\ refused' \in SUBSET Task
           /\ faulted' \in SUBSET Task
<1> SUFFICES ASSUME DataInv, [DataNext]_dataVars
             PROVE  /\ stage' \in [Workers -> Stages]
                    /\ refused' \in SUBSET Task /\ faulted' \in SUBSET Task
  OBVIOUS
<1> USE DEF DataInv, DataTypeOK, PoolTypeOK, Stages, history
<1>1. CASE CallRefused
  <2>1. submitted + 1 \in Task
    BY <1>1, PoolAssumption DEF CallRefused, TrySubmitReject, Task
  <2> QED
    BY <1>1, <2>1 DEF CallRefused
<1>2. CASE CallAccepted \/ CallNotifies \/ LoopRuns \/ CloseBegins \/ CloseWaits
             \/ CloseDrains \/ UNCHANGED dataVars
  BY <1>2 DEF CallAccepted, CallNotifies, LoopRuns, CloseBegins, CloseWaits,
              CloseDrains, dataVars
<1>3. ASSUME NEW w \in Workers, TaskStep(w) \/ WorkerWakes(w)
      PROVE  /\ stage' \in [Workers -> Stages]
             /\ refused' \in SUBSET Task /\ faulted' \in SUBSET Task
  BY <1>3 DEF TaskStep, TaskBegins, StoreReturns, StoreThrows, TaskPushes,
              TaskNotifies, TaskReturns, WorkerIdles, WorkerLeaves, WorkerWakes
<1> QED
  BY <1>1, <1>2, <1>3 DEF DataNext

\* The initial state satisfies the invariant.
LEMMA InitDataInv == DataInit => DataInv
<1> SUFFICES ASSUME DataInit PROVE DataInv
  OBVIOUS
<1>1. PoolInv /\ TaskOrder
  BY InitPoolInv
     DEF DataInit, PoolInit, PoolInv, TaskOrder, SubmittedBefore,
         TakenOnceInOrder, None
<1>2. QueueInv /\ ExecutedInOrder
  BY DEF DataInit, QueueInit, QueueInv, QueueTypeOK, NoLostCompletion,
         ClosedIsEmpty, LoopStates, ExecutedInOrder
<1>3. DataTypeOK
  BY <1>1, <1>2 DEF DataInit, DataTypeOK, Stages, PoolInv, QueueInv
<1>4. WorkersAreThePushers
  BY DataAssumption DEF DataInit, PoolInit, QueueInit, WorkersAreThePushers
<1>5. Accounting
  BY PoolAssumption
     DEF DataInit, PoolInit, QueueInit, Accounting, CallsAccounted,
         PlacesDisjoint, QueuedOnce, InPool, InQueue, Called, Task, None
<1> QED
  BY <1>1, <1>2, <1>3, <1>4, <1>5 DEF DataInv

-----------------------------------------------------------------------------
\* Every step preserves the invariant: pool and queue keep theirs because each
\* step is one of theirs.
LEMMA NextDataInv == DataInv /\ [DataNext]_dataVars => DataInv'
<1> SUFFICES ASSUME DataInv, [DataNext]_dataVars PROVE DataInv'
  OBVIOUS
<1>1. PoolInv' /\ TaskOrder'
  BY DataStepIsPoolStep, NextPoolInv, NextTaskOrder DEF DataInv
<1>2. QueueInv' /\ ExecutedInOrder'
  BY DataStepIsQueueStep, NextQueueInv, NextExecutedInOrder
     DEF DataInv, DataTypeOK
<1>3. DataTypeOK'
  BY <1>1, <1>2, NextDataTypeOK DEF DataTypeOK, PoolInv, QueueInv
<1> QED
  BY <1>1, <1>2, <1>3, NextWorkersAreThePushers, NextAccounting DEF DataInv

\* The invariant that carries the following theorems.
THEOREM DataInvariant == DataSpec => []DataInv
  BY InitDataInv, NextDataInv, PTL DEF DataSpec

\* Type correctness of AsyncDataService and of its pool and queue.
THEOREM DataTypeCorrect == DataSpec => []DataTypeOK
<1>1. DataInv => DataTypeOK
  BY DEF DataInv
<1> QED
  BY <1>1, DataInvariant, PTL

\* AsyncDataService's six methods use the pool and the queue as the two allow:
\* see UsesPoolAndQueue.
THEOREM DataUsesPoolAndQueue == DataSpec => UsesPoolAndQueue
<1>1. DataInit => PoolInit /\ QueueInit
  BY DEF DataInit
<1> QED
  BY <1>1, DataStepIsPoolStep, DataStepIsQueueStep, DataInvariant, PTL
     DEF DataSpec, UsesPoolAndQueue, PoolSafety, QueueSafety

\* So the service inherits the guarantees of its parts: no task is stranded
\* and Shutdown drains (bounded_thread_pool.cpp), no wakeup of the event loop
\* is lost and callbacks run in the order of the pushes (completion_queue.cpp).
THEOREM DataInheritsGuarantees ==
    DataSpec => [](/\ NoStrandedTask /\ ShutdownDrains
                   /\ NoSleeperAfterShutdown /\ TakenOnceInOrder
                   /\ NoLostCompletion /\ ExecutedInOrder /\ ClosedIsEmpty)
<1>1. DataInv => /\ NoStrandedTask /\ ShutdownDrains
                 /\ NoSleeperAfterShutdown /\ TakenOnceInOrder
                 /\ NoLostCompletion /\ ExecutedInOrder /\ ClosedIsEmpty
  BY InvShutdownDrains DEF DataInv, PoolInv, TaskOrder, QueueInv
<1> QED
  BY <1>1, DataInvariant, PTL

\* A call is pending when it is in the pool or in the queue.
LEMMA PendingIsOwed ==
  ASSUME DataInv, NEW c \in Task
  PROVE  CallStatus(c) = "pending" <=> InPool(c) \/ InQueue(c)
<1>1. submitted \in Nat /\ c \in Nat
  BY PoolAssumption DEF DataInv, DataTypeOK, PoolTypeOK, Task
<1>2. c > submitted <=> ~(c <= submitted)
  BY <1>1
<1>3. /\ c <= submitted <=>
           InPool(c) \/ InQueue(c) \/ c \in Called \/ c \in refused
             \/ c \in faulted
      /\ InPool(c) \/ InQueue(c) => c \notin Called \cup refused \cup faulted
  BY DEF DataInv, Accounting, CallsAccounted, PlacesDisjoint
<1> QED
  BY <1>2, <1>3 DEF CallStatus

\* Every call that is owed a callback is in the pool or in the queue, in one
\* place only; no other call is in either (async_data_service.cpp, all six
\* methods).
THEOREM DataOwedExactlyOnce == DataSpec => []OwedExactlyOnce
<1>1. DataInv => OwedExactlyOnce
  BY PendingIsOwed DEF DataInv, Accounting, PlacesDisjoint, OwedExactlyOnce
<1> QED
  BY <1>1, DataInvariant, PTL

-----------------------------------------------------------------------------
\* What the places say of a call is what CallStatus says: the order of the
\* tests in CallStatus does not matter.
PlacesDecideStatus ==
    \A c \in Task :
        /\ c > submitted => CallStatus(c) = "idle"
        /\ c \in Called => CallStatus(c) = "called"
        /\ c \in refused => CallStatus(c) = "refused"
        /\ c \in faulted => CallStatus(c) = "faulted"
        /\ InPool(c) \/ InQueue(c) => CallStatus(c) = "pending"

\* The places decide the status in every state that satisfies the invariant.
LEMMA StatusFromPlaces == DataInv => PlacesDecideStatus
<1> SUFFICES ASSUME DataInv PROVE PlacesDecideStatus
  OBVIOUS
<1> USE DEF PlacesDecideStatus
<1>1. submitted \in Nat /\ \A c \in Task : c > submitted <=> ~(c <= submitted)
  BY PoolAssumption DEF DataInv, DataTypeOK, PoolTypeOK, Task
<1> QED
  BY <1>1, PendingIsOwed
     DEF CallStatus, DataInv, Accounting, CallsAccounted, PlacesDisjoint

\* A call keeps its status if these four facts about it do not change.
LEMMA SameStatus ==
  ASSUME DataInv, [DataNext]_dataVars, NEW c \in Task,
         (c > submitted)' <=> c > submitted, (c \in refused)' <=> c \in refused,
         (c \in faulted)' <=> c \in faulted, (c \in Called)' <=> c \in Called
  PROVE  CallStatus(c)' = CallStatus(c)
<1>1. DataInv'
  BY NextDataInv
<1>2. PlacesDecideStatus /\ PlacesDecideStatus'
  BY <1>1, StatusFromPlaces, PTL
<1>3. /\ submitted \in Nat /\ submitted' \in Nat /\ c \in Nat
      /\ CallsAccounted /\ CallsAccounted'
  BY <1>1, PoolAssumption
     DEF DataInv, DataTypeOK, PoolTypeOK, Accounting, Task
<1>4. CASE c > submitted \/ c \in refused \/ c \in faulted \/ c \in Called
  BY <1>2, <1>4 DEF PlacesDecideStatus
<1>5. CASE ~(c > submitted \/ c \in refused \/ c \in faulted \/ c \in Called)
  <2>1. c <= submitted /\ c <= submitted'
    BY <1>3, <1>5
  <2>2. (InPool(c) \/ InQueue(c)) /\ (InPool(c) \/ InQueue(c))'
    BY <1>3, <1>5, <2>1 DEF CallsAccounted
  <2> QED
    BY <1>2, <2>2 DEF PlacesDecideStatus
<1> QED
  BY <1>4, <1>5

\* A step that makes no call, throws in none and runs no callback changes no
\* status.
LEMMA QuietStep ==
  ASSUME DataInv, [DataNext]_dataVars,
         UNCHANGED <<submitted, refused, faulted, executed>>
  PROVE  \A c \in Task : CallStatus(c)' = CallStatus(c)
  BY SameStatus DEF Called

\* One more call made: the others are still made, or still to be made.
LEMMA NextNumber ==
  ASSUME DataInv, NEW d \in Task, d # submitted + 1, submitted' = submitted + 1
  PROVE  (d > submitted)' <=> d > submitted
  BY PoolAssumption DEF DataInv, DataTypeOK, PoolTypeOK, Task

\* Each step of the service is one step of the abstract interface, or a step
\* the game logic does not see.
LEMMA DataStepIsCallsStep ==
    DataInv /\ [DataNext]_dataVars => [Abstract!CallsNext]_(Abstract!callVars)
<1> SUFFICES ASSUME DataInv, [DataNext]_dataVars
             PROVE  [Abstract!CallsNext]_(Abstract!callVars)
  OBVIOUS
<1>0. PlacesDecideStatus /\ PlacesDecideStatus'
  <2>1. DataInv'
    BY NextDataInv
  <2> QED
    BY <2>1, StatusFromPlaces, PTL
<1>1. ASSUME UNCHANGED <<submitted, refused, faulted, executed>>,
             loop' = "closed" <=> loop = "closed"
      PROVE  UNCHANGED Abstract!callVars
  BY <1>1, QuietStep DEF Abstract!callVars
\* The methods answer on the spot.
<1>2. CASE CallAccepted
  <2>0. PICK c \in Task : c = submitted + 1
    BY <1>2, PoolAssumption
       DEF CallAccepted, TrySubmitAccept, Task, DataInv, DataTypeOK, PoolTypeOK
  <2>1. /\ c > submitted /\ loop # "closed" /\ submitted' = c
        /\ UNCHANGED <<loop, refused, faulted, executed>>
    BY <1>2, <2>0, PoolAssumption
       DEF CallAccepted, InGameLogic, TrySubmitAccept, queueVars, history,
           DataInv, DataTypeOK, PoolTypeOK
  <2>2. CallStatus(c) = "idle" /\ CallStatus(c)' = "pending"
    BY <1>0, <1>2, <2>0, <2>1, AcceptedIsInPool DEF PlacesDecideStatus
  <2>3. \A d \in Task \ {c} : CallStatus(d)' = CallStatus(d)
    BY <2>0, <2>1, SameStatus, NextNumber DEF Called
  <2>4. Abstract!Accept(c)
    BY <2>1, <2>2, <2>3 DEF Abstract!Accept, Abstract!Become
  <2> QED
    BY <2>1, <2>4 DEF Abstract!CallsNext
<1>3. CASE CallRefused
  <2>0. PICK c \in Task : c = submitted + 1
    BY <1>3, PoolAssumption
       DEF CallRefused, TrySubmitReject, Task, DataInv, DataTypeOK, PoolTypeOK
  <2>1. /\ c > submitted /\ submitted' = c /\ refused' = refused \cup {c}
        /\ UNCHANGED <<loop, faulted, executed>>
    BY <1>3, <2>0, PoolAssumption
       DEF CallRefused, TrySubmitReject, queueVars, DataInv, DataTypeOK,
           PoolTypeOK
  <2>2. CallStatus(c) = "idle" /\ CallStatus(c)' = "refused"
    BY <1>0, <2>1 DEF PlacesDecideStatus
  <2>3. \A d \in Task \ {c} : CallStatus(d)' = CallStatus(d)
    BY <2>0, <2>1, SameStatus, NextNumber DEF Called
  <2>4. Abstract!Refuse(c)
    BY <2>1, <2>2, <2>3 DEF Abstract!Refuse, Abstract!Become
  <2> QED
    BY <2>1, <2>4 DEF Abstract!CallsNext
\* A store operation that throws ends its call.
<1>4. ASSUME NEW w \in Workers, StoreThrows(w) PROVE Abstract!CallsNext
  <2>0. PICK c \in Task : c = running[w]
    BY <1>4 DEF StoreThrows, DataInv, DataTypeOK, PoolTypeOK
  <2>1. /\ InPool(c) /\ faulted' = faulted \cup {c}
        /\ UNCHANGED <<loop, submitted, refused, executed>>
    BY <1>4, <2>0 DEF StoreThrows, InPool, poolVars, queueVars, DataInv, DataTypeOK,
                PoolTypeOK
  <2>2. CallStatus(c) = "pending" /\ CallStatus(c)' = "faulted"
    BY <1>0, <2>1 DEF PlacesDecideStatus
  <2>3. \A d \in Task \ {c} : CallStatus(d)' = CallStatus(d)
    BY <2>1, SameStatus DEF Called
  <2>4. loop # "closed"
    BY <1>4, <2>1
       DEF StoreThrows, DataInv, WorkersAreThePushers, PoolInv, ThreadsInPlace
  <2>5. Abstract!Fault(c)
    BY <2>1, <2>2, <2>3, <2>4 DEF Abstract!Fault, Abstract!Become
  <2> QED
    BY <2>1, <2>5 DEF Abstract!CallsNext
\* Drain runs one callback at a time.
<1>5. CASE LoopRuns /\ DrainOne
  <2>0. PICK c \in Task : c = completions[1]
    BY <1>5, DrainedIsCalled
  <2>1. /\ InQueue(c) /\ Called' = Called \cup {c}
        /\ loop' = loop /\ loop # "closed"
        /\ UNCHANGED <<submitted, refused, faulted>>
    BY <1>5, <2>0, DrainedIsCalled DEF LoopRuns, DrainOne, poolVars, history
  <2>2. CallStatus(c) = "pending" /\ CallStatus(c)' = "called"
    BY <1>0, <2>1 DEF PlacesDecideStatus
  <2>3. \A d \in Task \ {c} : CallStatus(d)' = CallStatus(d)
    BY <2>1, SameStatus
  <2>4. Abstract!Callback(c)
    BY <2>1, <2>2, <2>3 DEF Abstract!Callback, Abstract!Become
  <2> QED
    BY <2>1, <2>4 DEF Abstract!CallsNext
\* The last Drain returns when nothing is left in the pool or in the queue.
<1>6. CASE LoopRuns /\ DrainEnd /\ loop = "final_drain"
  <2>1. /\ loop' = "closed"
        /\ UNCHANGED <<submitted, refused, faulted, executed>>
    BY <1>6 DEF LoopRuns, DrainEnd, poolVars, history
  <2>2. tasks = <<>> /\ \A w \in Workers : running[w] = None
    BY <1>6, InvShutdownDrains
       DEF DataInv, WorkersAreThePushers, ShutdownDrains
  <2>3. \A c \in Task : ~InPool(c) /\ ~InQueue(c)
    BY <1>6, <2>2, PoolAssumption DEF InPool, InQueue, DrainEnd, Task, None
  <2>4. \A c \in Task : CallStatus(c) # "pending" /\ CallStatus(c)' = CallStatus(c)
    BY <2>1, <2>3, PendingIsOwed, QuietStep
  <2>5. Abstract!Close
    BY <2>1, <2>4 DEF Abstract!Close
  <2> QED
    BY <2>5 DEF Abstract!CallsNext
\* The rest is inside the service.
<1>7. CASE LoopRuns /\ (Wake \/ Consume \/ (DrainEnd /\ loop = "drain"))
  BY <1>1, <1>7 DEF LoopRuns, Wake, Consume, DrainEnd, poolVars, history
<1>8. CASE CallNotifies \/ CloseBegins \/ CloseWaits \/ CloseDrains
             \/ UNCHANGED dataVars
  BY <1>1, <1>8
     DEF CallNotifies, NotifyOne, CloseBegins, ShutdownClose, CloseWaits,
         ShutdownNotifyAll, ShutdownJoin, CloseDrains, FinalDrain, dataVars,
         poolVars, queueVars, history
<1>9. ASSUME NEW w \in Workers,
             \/ TaskBegins(w) \/ StoreReturns(w) \/ TaskPushes(w)
             \/ TaskNotifies(w) \/ TaskReturns(w) \/ WorkerIdles(w)
             \/ WorkerLeaves(w) \/ WorkerWakes(w)
      PROVE  UNCHANGED Abstract!callVars
  BY <1>1, <1>9
     DEF TaskBegins, WorkerTake, StoreReturns, TaskPushes, Push, TaskNotifies,
         Notify, TaskReturns, WorkerFinish, WorkerIdles, WorkerWait,
         WorkerLeaves, WorkerExit, WorkerWakes, SpuriousWakeup, poolVars,
         queueVars, history
<1>10. LoopRuns => \/ LoopRuns /\ DrainOne
                   \/ LoopRuns /\ DrainEnd /\ loop = "final_drain"
                   \/ LoopRuns /\ (Wake \/ Consume \/ (DrainEnd /\ loop = "drain"))
  BY DEF LoopRuns, DrainEnd
<1> QED
  BY <1>2, <1>3, <1>4, <1>5, <1>6, <1>7, <1>8, <1>9, <1>10
     DEF DataNext, TaskStep

\* Pool, queue and eventfd together implement the abstract call interface, but
\* for its liveness: a method that returns true owes one callback, which is run
\* once unless the store operation throws, and the last Drain of ~GameServer
\* leaves none owed (the safety part of ImplementsAsyncCalls).
THEOREM DataImplementsCalls == DataSpec => Abstract!CallsSafety
<1>1. DataInit => Abstract!CallsInit
  <2> SUFFICES ASSUME DataInit PROVE Abstract!CallsInit
    OBVIOUS
  <2>1. ASSUME NEW c \in Task PROVE CallStatus(c) = "idle"
    BY InitDataInv, StatusFromPlaces, PoolAssumption
       DEF PlacesDecideStatus, DataInit, PoolInit, Task
  <2> QED
    BY <2>1 DEF DataInit, QueueInit, Abstract!CallsInit
<1> QED
  BY <1>1, DataStepIsCallsStep, DataInvariant, PTL
     DEF DataSpec, Abstract!CallsSafety
=============================================================================
