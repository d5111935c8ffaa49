-------------------------- MODULE CompletionQueue --------------------------
(***************************************************************************)
(* The way back from the workers to the event loop                         *)
(* (src/concurrency/completion_queue.cpp, event_fd_wakeup.cpp and the      *)
(* eventfd callback of src/server/game_server.cpp).  Workers push          *)
(* completions under a mutex and write to an eventfd only when the queue   *)
(* was empty; the owner thread sleeps in epoll_wait, reads the eventfd,    *)
(* and then drains the queue one completion at a time.                     *)
(*                                                                         *)
(* Each critical section is one step.  The eventfd write of Push and the   *)
(* owner's read of it are steps of their own, so that everything can       *)
(* happen between the push, the write, the read and the drain.             *)
(***************************************************************************)
EXTENDS Naturals, Sequences

CONSTANTS
    Pushers,    \* the threads that call Push: the database workers
    Completion  \* what they push, each at most once: the callbacks of calls

VARIABLES
    completions,  \* completions_
    eventfd,      \* the eventfd's counter (external: kept by the kernel)
    notifying,    \* the pushers between their unlock and their Notify
    live,         \* the pushers that have not exited
    loop,         \* where the owner thread is
    executed,     \* history: the completions the owner has run, in order
    pushed        \* history: the completions that were pushed, in order

queueVars == <<completions, eventfd, notifying, live, loop, executed, pushed>>

\* poll: in epoll_wait;  consume: in the eventfd callback, before Consume;
\* drain, final_drain: at the head of Drain's loop, in the eventfd callback and
\* in ~GameServer;  closed: that last Drain has returned.
LoopStates == {"poll", "consume", "drain", "final_drain", "closed"}

\* The types of CompletionQueue's members; only a worker that has not returned
\* can be on its way to Notify.
QueueTypeOK ==
    /\ completions \in Seq(Completion)
    /\ eventfd \in Nat
    /\ live \in SUBSET Pushers
    /\ notifying \in SUBSET live
    /\ loop \in LoopStates
    /\ executed \in Seq(Completion)
    /\ pushed \in Seq(Completion)

QueueInit ==
    /\ completions = <<>>
    /\ eventfd = 0
    /\ notifying = {}
    /\ live = Pushers
    /\ loop = "poll"
    /\ executed = <<>>
    /\ pushed = <<>>

-----------------------------------------------------------------------------
(* Push, by a worker.                                                      *)

\* Mutant of Push: the emptiness test looks at the queue after the push.
PushTestsAfter(w, c) ==
    /\ w \in live \ notifying
    /\ completions' = Append(completions, c)
    /\ notifying' = IF completions' = <<>> THEN notifying \cup {w}
                                           ELSE notifying
    /\ pushed' = Append(pushed, c)
    /\ UNCHANGED <<eventfd, live, loop, executed>>

Push(w, c) ==
    /\ w \in live \ notifying
    /\ completions' = Append(completions, c)
    /\ notifying' = IF completions = <<>> THEN notifying \cup {w}
                                          ELSE notifying
    /\ pushed' = Append(pushed, c)
    /\ UNCHANGED <<eventfd, live, loop, executed>>

\* EventFdWakeup::Notify adds one to the counter.
Notify(w) ==
    /\ w \in notifying
    /\ notifying' = notifying \ {w}
    /\ eventfd' = eventfd + 1
    /\ UNCHANGED <<completions, live, loop, executed, pushed>>

\* A pusher thread returns from its loop, never between a push and its Notify.
PusherExit(w) ==
    /\ w \in live \ notifying
    /\ live' = live \ {w}
    /\ UNCHANGED <<completions, eventfd, notifying, loop, executed, pushed>>

-----------------------------------------------------------------------------
(* The owner thread.                                                       *)

\* epoll_wait reports the eventfd: level-triggered, readable while positive.
Wake ==
    /\ loop = "poll"
    /\ eventfd > 0
    /\ loop' = "consume"
    /\ UNCHANGED <<completions, eventfd, notifying, live, executed, pushed>>

\* EventFdWakeup::Consume reads the counter, which resets it to zero.
Consume ==
    /\ loop = "consume"
    /\ eventfd' = 0
    /\ loop' = "drain"
    /\ UNCHANGED <<completions, notifying, live, executed, pushed>>

\* Mutant of DrainOne: the callback takes the most recent completion.
DrainNewest ==
    /\ loop \in {"drain", "final_drain"}
    /\ completions # <<>>
    /\ executed' = Append(executed, completions[Len(completions)])
    /\ completions' = SubSeq(completions, 1, Len(completions) - 1)
    /\ UNCHANGED <<eventfd, notifying, live, loop, pushed>>

\* Mutant of DrainOne: Drain is called with a maximum of one, and the eventfd
\* has been read before.
DrainAtMostOne ==
    /\ loop \in {"drain", "final_drain"}
    /\ completions # <<>>
    /\ executed' = Append(executed, Head(completions))
    /\ completions' = Tail(completions)
    /\ loop' = IF loop = "drain" THEN "poll" ELSE loop
    /\ UNCHANGED <<eventfd, notifying, live, pushed>>

\* One turn of Drain's loop: pop the head under the lock and run it.
DrainOne ==
    /\ loop \in {"drain", "final_drain"}
    /\ completions # <<>>
    /\ executed' = Append(executed, Head(completions))
    /\ completions' = Tail(completions)
    /\ UNCHANGED <<eventfd, notifying, live, loop, pushed>>

\* Drain breaks out of its loop when it finds the queue empty.
DrainEnd ==
    /\ completions = <<>>
    /\ \/ loop = "drain" /\ loop' = "poll"
       \/ loop = "final_drain" /\ loop' = "closed"
    /\ UNCHANGED <<completions, eventfd, notifying, live, executed, pushed>>

\* ~GameServer drains once more after every worker has been joined, so when
\* no thread is left that could push or notify.
FinalDrain ==
    /\ loop = "poll"
    /\ live = {}
    /\ loop' = "final_drain"
    /\ UNCHANGED <<completions, eventfd, notifying, live, executed, pushed>>

-----------------------------------------------------------------------------
LoopStep == Wake \/ Consume \/ DrainOne \/ DrainEnd

\* A completion is the end of one call, so none is pushed twice.
PushNew(w) ==
    \E c \in Completion :
        /\ \A i \in 1 .. Len(pushed) : pushed[i] # c
        /\ Push(w, c)

QueueNext ==
    \/ \E w \in Pushers : PushNew(w) \/ Notify(w) \/ PusherExit(w)
    \/ LoopStep \/ FinalDrain

\* A worker that has pushed goes on to notify; the event loop always runs on.
\* Nothing makes a worker push, or the server stop.
QueueFairness ==
    /\ \A w \in Pushers : WF_queueVars(Notify(w))
    /\ WF_queueVars(LoopStep)

QueueSafety == QueueInit /\ [][QueueNext]_queueVars

QueueSpec == QueueSafety /\ QueueFairness

-----------------------------------------------------------------------------
(* Properties.                                                             *)

\* No lost wakeup: a completion is never in the queue while the owner sleeps
\* in epoll_wait with nothing to wake it.  Push writes the eventfd only on
\* the empty-to-nonempty edge (completion_queue.cpp:18-23), so this rests on
\* the owner reading the eventfd BEFORE it drains (game_server.cpp:41-42).
NoLostCompletion ==
    completions # <<>> =>
        \/ eventfd > 0
        \/ notifying # {}
        \/ loop \in {"consume", "drain", "final_drain"}

\* The owner runs the completions in the order of the pushes, each once: what
\* it has run and what is queued is what was pushed.
ExecutedInOrder == executed \o completions = pushed

\* ~GameServer leaves no completion behind, which would keep a callback that
\* refers to a destroyed game service (game_server.cpp:60-61).
ClosedIsEmpty == loop = "closed" => completions = <<>>
=============================================================================
