-------------------------- MODULE AsyncDataService --------------------------
(***************************************************************************)
(* The asynchronous data service (src/data/async_data_service.cpp): the    *)
(* worker pool and the completion queue put together by the six methods    *)
(* LoadPlayer, SavePlayer, DeletePlayer, StoreSession, LoadSession and     *)
(* RemoveSession.  They differ only in the store operation; each submits   *)
(* one task, which runs that operation on a worker and then pushes one     *)
(* completion that runs the callback on the event-loop thread.             *)
(*                                                                         *)
(* The owner of the pool and the owner of the queue are one thread here,   *)
(* the event loop: it calls methods from a client's event or from within a *)
(* callback (loop is "poll" or "drain"), shuts the pool down in            *)
(* ~GameServer, and then drains the queue for the last time.               *)
(***************************************************************************)
EXTENDS BoundedThreadPool, CompletionQueue

\* The workers push, and what they push are the callbacks of the tasks.
ASSUME DataAssumption == Pushers = Workers /\ Completion = Task

VARIABLES
    stage,    \* how far each worker is in the task it is running
    refused,  \* history: the calls that returned false
    faulted   \* history: the calls whose store operation threw

history == <<refused, faulted>>
dataVars == <<poolVars, queueVars, stage, history>>

\* operate: in the store operation;  push: about to push its completion;
\* return: pushed (and notifying, perhaps), or thrown into the catch-all.
Stages == {"operate", "push", "return"}

\* The types of AsyncDataService's pool and queue and of the calls on their way
\* through them; tasks_ and the eventfd counter stay in their bounds.
DataTypeOK ==
    /\ PoolTypeOK
    /\ QueueTypeOK
    /\ stage \in [Workers -> Stages]
    /\ refused \in SUBSET Task
    /\ faulted \in SUBSET Task

DataInit ==
    /\ PoolInit
    /\ QueueInit
    /\ stage = [w \in Workers |-> "operate"]
    /\ refused = {} /\ faulted = {}

-----------------------------------------------------------------------------
(* The event-loop thread calls a method.                                   *)

\* The thread runs game logic: a client's frames, a connection being closed,
\* or the callback DrainOne has just started.
InGameLogic ==
    \/ loop \in {"poll", "drain"} /\ owner = "free"
    \/ loop = "final_drain"

CallAccepted ==
    /\ InGameLogic
    /\ TrySubmitAccept
    /\ UNCHANGED <<queueVars, stage, history>>

CallRefused ==
    /\ InGameLogic
    /\ TrySubmitReject
    /\ refused' = refused \cup {submitted + 1}
    /\ UNCHANGED <<queueVars, stage, faulted>>

CallNotifies == NotifyOne /\ UNCHANGED <<queueVars, stage, history>>

-----------------------------------------------------------------------------
(* A worker runs the task.                                                 *)

TaskBegins(w) ==
    /\ WorkerTake(w)
    /\ stage' = [stage EXCEPT ![w] = "operate"]
    /\ UNCHANGED <<queueVars, history>>

\* players_ or sessions_ returns a result, whatever it is.
StoreReturns(w) ==
    /\ running[w] # None /\ stage[w] = "operate"
    /\ stage' = [stage EXCEPT ![w] = "push"]
    /\ UNCHANGED <<poolVars, queueVars, history>>

\* The store throws instead.  Nothing between it and the catch-all of
\* WorkerLoop handles that, so no completion is ever pushed.
StoreThrows(w) ==
    /\ running[w] # None /\ stage[w] = "operate"
    /\ stage' = [stage EXCEPT ![w] = "return"]
    /\ faulted' = faulted \cup {running[w]}
    /\ UNCHANGED <<poolVars, queueVars, refused>>

\* Mutant of TaskPushes: a task that has pushed its completion pushes again.
TaskPushesTwice(w) ==
    /\ running[w] # None /\ stage[w] \in {"push", "return"}
    /\ stage' = [stage EXCEPT ![w] = "return"]
    /\ UNCHANGED <<poolVars, history>>
    /\ Push(w, running[w])

TaskPushes(w) ==
    /\ running[w] # None /\ stage[w] = "push"
    /\ stage' = [stage EXCEPT ![w] = "return"]
    /\ UNCHANGED <<poolVars, history>>
    /\ Push(w, running[w])

TaskNotifies(w) ==
    /\ UNCHANGED <<poolVars, stage, history>>
    /\ Notify(w)

\* Mutant of TaskReturns: the task does not wait for its eventfd write.
TaskReturnsEarly(w) ==
    /\ stage[w] = "return"
    /\ WorkerFinish(w)
    /\ UNCHANGED <<queueVars, stage, history>>

TaskReturns(w) ==
    /\ stage[w] = "return" /\ w \notin notifying
    /\ WorkerFinish(w)
    /\ UNCHANGED <<queueVars, stage, history>>

WorkerIdles(w) ==
    /\ WorkerWait(w)
    /\ UNCHANGED <<queueVars, stage, history>>

\* A worker that has left its loop pushes no more.
WorkerLeaves(w) ==
    /\ WorkerExit(w)
    /\ live' = live \ {w}
    /\ UNCHANGED <<completions, eventfd, notifying, loop, executed, pushed>>
    /\ UNCHANGED <<stage, history>>

WorkerWakes(w) == SpuriousWakeup(w) /\ UNCHANGED <<queueVars, stage, history>>

-----------------------------------------------------------------------------
(* The event-loop thread serves the eventfd, and shuts down.               *)

\* Between two steps of the loop the thread has finished its TrySubmit.
LoopRuns ==
    /\ owner \in {"free", "joined"}
    /\ UNCHANGED <<poolVars, stage, history>>
    /\ \/ owner = "free" /\ (Wake \/ Consume)
       \/ DrainOne \/ DrainEnd

CloseBegins ==
    /\ loop = "poll"
    /\ ShutdownClose
    /\ UNCHANGED <<queueVars, stage, history>>

CloseWaits ==
    /\ ShutdownNotifyAll \/ ShutdownJoin
    /\ UNCHANGED <<queueVars, stage, history>>

CloseDrains ==
    /\ owner = "joined"
    /\ UNCHANGED <<poolVars, stage, history>>
    /\ FinalDrain

-----------------------------------------------------------------------------
TaskStep(w) ==
    \/ TaskBegins(w) \/ StoreReturns(w) \/ StoreThrows(w) \/ TaskPushes(w)
    \/ TaskNotifies(w) \/ TaskReturns(w) \/ WorkerIdles(w)
    \/ WorkerLeaves(w)

DataNext ==
    \/ CallAccepted \/ CallRefused \/ CallNotifies
    \/ LoopRuns \/ CloseBegins \/ CloseWaits \/ CloseDrains
    \/ \E w \in Workers : TaskStep(w) \/ WorkerWakes(w)

\* As for the two components: threads that can run do, a store operation
\* returns or throws, and nothing makes the game logic call or the server stop;
\* but ~GameServer, once it has joined the workers, goes on to its Drain.
DataFairness ==
    /\ \A w \in Workers : WF_dataVars(TaskStep(w))
    /\ WF_dataVars(CallNotifies)
    /\ WF_dataVars(LoopRuns)
    /\ WF_dataVars(CloseWaits)
    /\ WF_dataVars(CloseDrains)

DataSpec == DataInit /\ [][DataNext]_dataVars /\ DataFairness

-----------------------------------------------------------------------------
(* The refinement: what the game logic sees of a call.                     *)

Called == {executed[i] : i \in 1 .. Len(executed)}

CallStatus(c) ==
    CASE c > submitted -> "idle"
      [] c \in refused -> "refused"
      [] c \in faulted -> "faulted"
      [] c \in Called  -> "called"
      [] OTHER         -> "pending"

Abstract == INSTANCE AsyncCalls
              WITH Calls <- Task,
                   status <- [c \in Task |-> CallStatus(c)],
                   closed <- (loop = "closed")

\* The pool, the completion queue and the eventfd together implement the
\* abstract call interface, liveness included: every accepted call gets its
\* one callback unless its store operation throws, and none is owed or made
\* once ~GameServer is through with its last Drain.
ImplementsAsyncCalls == Abstract!CallsSpec

\* Where a call that is owed a callback can be: queued, on a worker that has
\* not pushed its completion yet, or completed and waiting to be drained; and
\* in one of these places only, so that no callback is lost or doubled.
InPool(c) ==
    \/ \E i \in 1 .. Len(tasks) : tasks[i] = c
    \/ \E w \in Workers : running[w] = c /\ stage[w] # "return"

InQueue(c) == \E i \in 1 .. Len(completions) : completions[i] = c

\* Every pending call is in exactly one of the two queues, and no finished
\* call is in either.
OwedExactlyOnce ==
    \A c \in Task :
        /\ (CallStatus(c) = "pending") <=> (InPool(c) \/ InQueue(c))
        /\ ~(InPool(c) /\ InQueue(c))

\* Pool and queue are used as their own specifications allow, so what is true
\* of every behaviour of these is true here.  In particular no worker exits
\* while it owes the eventfd a write, so that ~GameServer, which joins them,
\* never closes it under a Notify, nor drains for the last time before the
\* last Push.
UsesPoolAndQueue == PoolSafety /\ QueueSafety
=============================================================================
