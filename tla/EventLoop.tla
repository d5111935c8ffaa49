----------------------------- MODULE EventLoop -----------------------------
(***************************************************************************)
(* The event loop (src/net/event_loop.cpp) with the Run and Stop of        *)
(* GameServer around it: one thread runs it, and other threads and signal  *)
(* handlers stop it.  Every access to an atomic and every system call of   *)
(* these is a step of its own.                                             *)
(*                                                                         *)
(* Of the kernel (external) it keeps which file a descriptor stands for,   *)
(* what each file has to report, and epoll's list of ready descriptors.    *)
(* epoll is level-triggered: epoll_wait takes descriptors from the head of *)
(* the list, and puts those it reports back at its end.                    *)
(***************************************************************************)
EXTENDS Integers, Sequences, FiniteSets, SequencesExt

CONSTANTS
    Descriptors,  \* the numbers the kernel gives to client sockets
    Stoppers,     \* the threads and signal handlers that call Stop, each once
    MaxEvents     \* the size of the array PollOnce passes to epoll_wait

StopFd == -1       \* stop_wakeup_
ListenerFd == -2   \* listener_
DatabaseFd == -3   \* database_wakeup_
Fixed == {StopFd, ListenerFd, DatabaseFd}

ASSUME LoopAssumption ==
    /\ Descriptors \subseteq Nat \ {0} /\ IsFiniteSet(Descriptors)
    /\ MaxEvents \in Nat \ {0}

VARIABLES
    callbacks,  \* the keys of callbacks_, which are those epoll watches
    events,     \* what PollOnce has still to dispatch
    running,    \* running_
    stopped,    \* stopped_, of GameServer
    thread,     \* where the thread is that calls Run
    stopper,    \* where each caller of Stop is
    files,      \* kernel: the file behind a client's descriptor, 0 for none
    signals,    \* kernel: what a descriptor has to report
    ready       \* kernel: epoll's ready list

stopVars == <<running, stopped, stopper>>
kernel == <<files, signals, ready>>
loopVars == <<callbacks, events, thread, stopVars, kernel>>

\* in: readable;  hup: the peer is gone (EPOLLRDHUP, EPOLLHUP, EPOLLERR).
Signals == {"in", "hup"}

Threads == {"new", "starting", "check", "wait", "dispatch", "accept",
            "returned", "failed"}

LoopInit ==
    /\ callbacks = Fixed
    /\ events = <<>>
    /\ running = FALSE /\ stopped = FALSE
    /\ thread = "new"
    /\ stopper = [s \in Stoppers |-> "idle"]
    /\ files = [d \in Descriptors |-> 0]
    /\ signals = [d \in Descriptors \cup Fixed |-> {}]
    /\ ready = <<>>

\* The kernel has something new to report of a descriptor that is watched.
Raise(d, what) ==
    /\ signals' = [signals EXCEPT ![d] = @ \cup what]
    /\ ready' = IF Contains(ready, d) THEN ready ELSE Append(ready, d)
    /\ UNCHANGED files

-----------------------------------------------------------------------------
(* Run, up to the dispatch of an event.                                    *)

\* GameServer::Run.
RunBegins ==
    /\ thread = "new"
    /\ stopped' = FALSE
    /\ thread' = "starting"
    /\ UNCHANGED <<callbacks, events, running, stopper, kernel>>

RunStarts ==
    /\ thread = "starting"
    /\ running' = TRUE
    /\ thread' = "check"
    /\ UNCHANGED <<callbacks, events, stopped, stopper, kernel>>

\* Mutant of RunChecks: the loop runs for ever.
RunChecksNothing ==
    /\ thread = "check"
    /\ thread' = "wait"
    /\ UNCHANGED <<callbacks, events, stopVars, kernel>>

RunChecks ==
    /\ thread = "check"
    /\ thread' = IF running THEN "wait" ELSE "returned"
    /\ UNCHANGED <<callbacks, events, stopVars, kernel>>

\* What is left of a list when only the members of T are kept: its k-th entry
\* is the one with k of the kept places up to and including its own.
Kept(list, T) ==
    LET places == {i \in 1 .. Len(list) : list[i] \in T}
    IN  [k \in 1 .. Cardinality(places) |->
           list[CHOOSE i \in places : Cardinality({j \in places : j <= i}) = k]]

\* The descriptors epoll_wait can report, in this order, and how many of them
\* it does report.
Listed == Kept(ready, {d \in Descriptors \cup Fixed : signals[d] # {}})
ReportedCount(n) == IF n < MaxEvents THEN n ELSE MaxEvents

EventOf(d) ==
    [fd |-> d, what |-> signals[d], file |-> IF d \in Fixed THEN 0 ELSE files[d]]

\* Mutant of PollOnce: one event is dispatched, however many are reported.
PollOnceFirstOnly ==
    /\ thread = "wait"
    /\ \E listed \in {Listed} :
         LET n == ReportedCount(Len(listed))
         IN  /\ n > 0
             /\ events' = <<EventOf(listed[1])>>
             /\ ready' = SubSeq(listed, n + 1, Len(listed)) \o SubSeq(listed, 1, n)
    /\ thread' = "dispatch"
    /\ UNCHANGED <<callbacks, stopVars, files, signals>>

PollOnce ==
    /\ thread = "wait"
    /\ \E listed \in {Listed} :
         LET n == ReportedCount(Len(listed))
         IN  /\ n > 0
             /\ events' = [i \in 1 .. n |-> EventOf(listed[i])]
             /\ ready' = SubSeq(listed, n + 1, Len(listed)) \o SubSeq(listed, 1, n)
    /\ thread' = "dispatch"
    /\ UNCHANGED <<callbacks, stopVars, files, signals>>

\* epoll_wait fails with EINTR, and PollOnce returns 0.
PollInterrupted ==
    /\ thread = "wait"
    /\ thread' = "check"
    /\ UNCHANGED <<callbacks, events, stopVars, kernel>>

PollEnds ==
    /\ thread = "dispatch"
    /\ events = <<>>
    /\ thread' = "check"
    /\ UNCHANGED <<callbacks, events, stopVars, kernel>>

\* The next event is about d, and d still has a callback.
Dispatches(d) ==
    /\ thread = "dispatch"
    /\ events # <<>>
    /\ Head(events).fd = d
    /\ d \in callbacks
    /\ events' = Tail(events)

\* An earlier event has removed the callback.
EventDropped ==
    /\ thread = "dispatch"
    /\ events # <<>>
    /\ Head(events).fd \notin callbacks
    /\ events' = Tail(events)
    /\ UNCHANGED <<callbacks, thread, stopVars, kernel>>

\* The callback of the loop's own eventfd.
StopConsumed ==
    /\ Dispatches(StopFd)
    /\ signals' = [signals EXCEPT ![StopFd] = {}]
    /\ UNCHANGED <<callbacks, thread, stopVars, files, ready>>

-----------------------------------------------------------------------------
(* Stop.                                                                   *)

\* GameServer::Stop does nothing when stopped_ is set already.
StopCalled(s) ==
    /\ stopper[s] = "idle"
    /\ stopped' = TRUE
    /\ stopper' = [stopper EXCEPT ![s] = IF stopped THEN "done" ELSE "store"]
    /\ UNCHANGED <<callbacks, events, running, thread, kernel>>

StopStores(s) ==
    /\ stopper[s] = "store"
    /\ running' = FALSE
    /\ stopper' = [stopper EXCEPT ![s] = "notify"]
    /\ UNCHANGED <<callbacks, events, stopped, thread, kernel>>

\* Mutant of StopNotifies: the loop is expected to look at running_ by itself.
StopOnlyStores(s) ==
    /\ stopper[s] = "notify"
    /\ stopper' = [stopper EXCEPT ![s] = "done"]
    /\ UNCHANGED <<callbacks, events, running, stopped, thread, kernel>>

StopNotifies(s) ==
    /\ stopper[s] = "notify"
    /\ Raise(StopFd, {"in"})
    /\ stopper' = [stopper EXCEPT ![s] = "done"]
    /\ UNCHANGED <<callbacks, events, running, stopped, thread>>

StopStep(s) == StopStores(s) \/ StopNotifies(s)

-----------------------------------------------------------------------------
Ended == thread \in {"returned", "failed"}

-----------------------------------------------------------------------------
(* Properties.                                                             *)

\* The wakeup of a Stop is not lost: the loop is never asleep with running_
\* cleared and nothing under way to wake it, although its callback consumes
\* the eventfd before it looks at running_ (event_loop.cpp:23, 88, 94-95).
StopNotMissed ==
    thread = "wait" /\ ~running =>
        \/ signals[StopFd] # {}
        \/ \E s \in Stoppers : stopper[s] = "notify"

\* A Stop that clears running_ after Run has set it ends Run, whatever the
\* clients do: the loop gets to see it.
StopEndsRun == thread \notin {"new", "starting"} /\ ~running ~> Ended

\* "catch (...) { server.Stop(); server_thread.join(); throw; }"
\* (tests/server_integration_tests.cpp:108-112), which is reached, perhaps, as
\* soon as the thread that calls Run has been started: whoever has called Stop
\* can wait for Run to return.
StopIsObeyed == (\E s \in Stoppers : stopper[s] # "idle") ~> Ended
=============================================================================
