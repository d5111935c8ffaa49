----------------------------- MODULE ServerLoop -----------------------------
(***************************************************************************)
(* GameServer on its event loop (src/server/game_server.cpp): the          *)
(* descriptors it accepts, watches, reads and closes, while peers connect, *)
(* send and hang up and the database threads signal completions.  What the *)
(* game does with the frames it reads is in GameSystem; here it may close  *)
(* any connections, which is what takeovers and failing sends do.          *)
(***************************************************************************)
EXTENDS EventLoop

CONSTANTS
    MaximumConnections,  \* config_.maximum_connections
    MaxArrivals,         \* bound on the clients that connect
    MaxFaults            \* bound on the system calls that fail

ASSUME ServerAssumption ==
    /\ MaximumConnections \in Nat
    /\ MaxArrivals \in Nat
    /\ MaxFaults \in Nat

VARIABLES
    clients,                 \* clients_: the connection of a descriptor, or 0
    connection_descriptors,  \* connection_descriptors_, or 0
    next_connection_id,      \* next_connection_id_
    backlog,                 \* kernel: connections that wait for accept4
    arrivals,                \* clients that have connected so far
    faults,                  \* system calls that have failed so far
    fresh                    \* history: next_connection_id_ at the last poll

tables == <<clients, connection_descriptors, next_connection_id>>
others == <<backlog, arrivals, faults, fresh>>
vars == <<loopVars, tables, others>>

Connections == 1 .. MaxArrivals
Open == {c \in Connections : connection_descriptors[c] # 0}

Init ==
    /\ LoopInit
    /\ clients = [d \in Descriptors |-> 0]
    /\ connection_descriptors = [c \in Connections |-> 0]
    /\ next_connection_id = 0
    /\ backlog = 0
    /\ arrivals = 0
    /\ faults = 0
    /\ fresh = 0

Fault ==
    /\ faults < MaxFaults
    /\ faults' = faults + 1

-----------------------------------------------------------------------------
(* The world outside.                                                      *)

PeerConnects ==
    /\ arrivals < MaxArrivals
    /\ arrivals' = arrivals + 1
    /\ backlog' = backlog + 1
    /\ Raise(ListenerFd, {"in"})
    /\ UNCHANGED <<callbacks, events, thread, stopVars, tables, faults, fresh>>

\* A peer sends, or hangs up.
PeerActs(d, what) ==
    /\ files[d] # 0
    /\ what \notin signals[d]
    /\ "hup" \notin signals[d]
    /\ Raise(d, {what})
    /\ UNCHANGED <<callbacks, events, thread, stopVars, tables, others>>

\* A worker has pushed a completion: database_wakeup_.Notify.
DatabaseSignals ==
    /\ signals[DatabaseFd] = {}
    /\ Raise(DatabaseFd, {"in"})
    /\ UNCHANGED <<callbacks, events, thread, stopVars, tables, others>>

-----------------------------------------------------------------------------
(* AcceptReady, one accept4 at a time.                                     *)

FreeDescriptors == {d \in Descriptors : files[d] = 0}

\* The kernel takes the lowest free number.
NewDescriptor == CHOOSE d \in FreeDescriptors : \A e \in FreeDescriptors : d <= e

ListenerReady ==
    /\ Dispatches(ListenerFd)
    /\ thread' = "accept"
    /\ UNCHANGED <<callbacks, stopVars, kernel, tables, others>>

Accepts ==
    /\ thread = "accept"
    /\ backlog > 0
    /\ backlog' = backlog - 1
    /\ UNCHANGED <<events, thread, stopVars, arrivals, fresh>>

\* Mutant of HasRoom: one too many.
HasRoomOffByOne == Cardinality(Open) <= MaximumConnections

HasRoom == Cardinality(Open) < MaximumConnections

\* Mutant of NewConnection: numbers that are no longer in use come back.
NewConnectionReused ==
    CHOOSE c \in Connections : c \notin Open /\ 1 .. c - 1 \subseteq Open

\* Mutant of NewConnection: the counter is incremented twice.
NewConnectionTwice == next_connection_id + 2

NewConnection == next_connection_id + 1

\* A connection's file is its place among those that have connected.
AcceptOne ==
    LET d == NewDescriptor
        c == NewConnection
    IN  /\ Accepts
        /\ FreeDescriptors # {}
        /\ HasRoom
        /\ next_connection_id' = c
        /\ clients' = [clients EXCEPT ![d] = c]
        /\ connection_descriptors' = [connection_descriptors EXCEPT ![c] = d]
        /\ callbacks' = callbacks \cup {d}
        /\ files' = [files EXCEPT ![d] = arrivals - backlog + 1]
        /\ UNCHANGED <<signals, ready, faults>>

\* The accepted descriptor is closed again, at once.
AcceptOver ==
    /\ Accepts
    /\ FreeDescriptors # {}
    /\ ~HasRoom
    /\ UNCHANGED <<callbacks, kernel, tables, faults>>

\* epoll_ctl fails, and so does Add: CloseConnection undoes the insertions.
AcceptAddFails ==
    /\ Accepts
    /\ FreeDescriptors # {}
    /\ HasRoom
    /\ Fault
    /\ next_connection_id' = next_connection_id + 1
    /\ UNCHANGED <<callbacks, kernel, clients, connection_descriptors>>

\* accept4 has no descriptor to give (EMFILE) or the connection is gone
\* (ECONNABORTED): the exception leaves Run.
AcceptThrows ==
    /\ thread = "accept"
    /\ backlog > 0
    /\ IF FreeDescriptors = {} THEN UNCHANGED <<faults, backlog>>
       ELSE Fault /\ backlog' = backlog - 1
    /\ thread' = "failed"
    /\ UNCHANGED <<callbacks, events, stopVars, kernel, tables, arrivals, fresh>>

\* EAGAIN: the listener is no longer readable.
AcceptEnds ==
    /\ thread = "accept"
    /\ backlog = 0
    /\ signals' = [signals EXCEPT ![ListenerFd] = {}]
    /\ thread' = "dispatch"
    /\ UNCHANGED <<callbacks, events, stopVars, files, ready, tables, others>>

-----------------------------------------------------------------------------
(* Closing.                                                                *)

\* Mutant of CloseConnections: Remove is left out.
CloseKeepsCallback(X, served) ==
    LET D == {connection_descriptors[c] : c \in X}
    IN  /\ clients' = [d \in Descriptors |-> IF d \in D THEN 0 ELSE clients[d]]
        /\ connection_descriptors' =
             [c \in Connections |-> IF c \in X THEN 0 ELSE connection_descriptors[c]]
        /\ files' = [d \in Descriptors |-> IF d \in D THEN 0 ELSE files[d]]
        /\ signals' = [d \in Descriptors \cup Fixed |->
                         IF d \in D THEN {} ELSE signals[d] \ served[d]]
        /\ ready' = Kept(ready, (Descriptors \cup Fixed) \ D)
        /\ UNCHANGED <<callbacks, next_connection_id>>

\* CloseConnection of every connection in X, after a callback that has read
\* what each descriptor d had to report in served[d].
CloseConnections(X, served) ==
    LET D == {connection_descriptors[c] : c \in X}
    IN  /\ callbacks' = callbacks \ D
        /\ clients' = [d \in Descriptors |-> IF d \in D THEN 0 ELSE clients[d]]
        /\ connection_descriptors' =
             [c \in Connections |-> IF c \in X THEN 0 ELSE connection_descriptors[c]]
        /\ files' = [d \in Descriptors |-> IF d \in D THEN 0 ELSE files[d]]
        /\ signals' = [d \in Descriptors \cup Fixed |->
                         IF d \in D THEN {} ELSE signals[d] \ served[d]]
        /\ ready' = Kept(ready, (Descriptors \cup Fixed) \ D)
        /\ UNCHANGED next_connection_id

Serves(d, what) ==
    [e \in Descriptors \cup Fixed |-> IF e = d THEN what ELSE {}]

\* ClientReady.  The event may be about an earlier owner of the descriptor;
\* what is read is what the present one has sent.  Frames let the game close
\* any connection, and so does the end of this one: the others are told that
\* the player has left, and one to which that cannot be sent is closed as well.
ClientReady(d) ==
    LET what == Head(events).what
        input == "in" \in what /\ "in" \in signals[d]
        eof == "in" \in what /\ "hup" \in signals[d]
        self == IF "hup" \in what \/ eof THEN {clients[d]} ELSE {}
    IN  /\ Dispatches(d)
        /\ clients[d] # 0
        /\ \E X \in IF input \/ self # {} THEN SUBSET Open ELSE {{}} :
             CloseConnections(X \cup self, Serves(d, {"in"} \cap what))
        /\ UNCHANGED <<thread, stopVars, others>>

\* The callback of database_wakeup_: Consume, Drain, CloseMarkedConnections.
DatabaseReady ==
    /\ Dispatches(DatabaseFd)
    /\ \E X \in SUBSET Open : CloseConnections(X, Serves(DatabaseFd, {"in"}))
    /\ UNCHANGED <<thread, stopVars, others>>

-----------------------------------------------------------------------------
Poll ==
    /\ PollOnce
    /\ fresh' = next_connection_id
    /\ UNCHANGED <<tables, backlog, arrivals, faults>>

Interrupted ==
    /\ PollInterrupted
    /\ Fault
    /\ UNCHANGED <<tables, backlog, arrivals, fresh>>

Loop ==
    \/ /\ RunBegins \/ RunStarts \/ RunChecks \/ PollEnds \/ EventDropped
          \/ StopConsumed
       /\ UNCHANGED <<tables, others>>
    \/ Poll
    \/ ListenerReady \/ AcceptOne \/ AcceptOver \/ AcceptEnds
    \/ \E d \in Descriptors : ClientReady(d)
    \/ DatabaseReady

Stopping(s) == StopStep(s) /\ UNCHANGED <<tables, others>>

Next ==
    \/ Loop \/ Interrupted \/ AcceptAddFails \/ AcceptThrows
    \/ \E s \in Stoppers :
         \/ StopCalled(s) /\ UNCHANGED <<tables, others>>
         \/ Stopping(s)
    \/ PeerConnects
    \/ \E d \in Descriptors, what \in Signals : PeerActs(d, what)
    \/ DatabaseSignals

\* The thread that calls Run, and a Stop that has begun, go on.
Fairness == WF_vars(Loop) /\ \A s \in Stoppers : WF_vars(Stopping(s))

Spec == Init /\ [][Next]_vars /\ Fairness

-----------------------------------------------------------------------------
(* Properties.                                                             *)

\* The types of the loop's and the server's members and of what the kernel
\* keeps for them; each connection accepted takes one number.
LoopTypeOK ==
    /\ callbacks \subseteq Descriptors \cup Fixed
    /\ events \in Seq([fd : Descriptors \cup Fixed, what : SUBSET Signals,
                       file : Connections \cup {0}])
    /\ running \in BOOLEAN /\ stopped \in BOOLEAN
    /\ thread \in Threads
    /\ stopper \in [Stoppers -> {"idle", "store", "notify", "done"}]
    /\ files \in [Descriptors -> Connections \cup {0}]
    /\ signals \in [Descriptors \cup Fixed -> SUBSET Signals]
    /\ ready \in Seq(Descriptors \cup Fixed)
    /\ clients \in [Descriptors -> Connections \cup {0}]
    /\ connection_descriptors \in [Connections -> Descriptors \cup {0}]
    /\ next_connection_id + backlog <= arrivals
    /\ arrivals <= MaxArrivals /\ faults <= MaxFaults

\* Between two callbacks GameServer's two tables, the loop's callbacks and the
\* kernel's open files are four views of one relation: no connection without
\* a callback, no callback of a descriptor that was closed and perhaps given
\* to somebody else, no leaked socket.
DescriptorsOwned ==
    /\ callbacks = Fixed \cup {d \in Descriptors : clients[d] # 0}
    /\ callbacks = Fixed \cup {d \in Descriptors : files[d] # 0}
    /\ \A d \in Descriptors, c \in Connections :
         clients[d] = c <=> connection_descriptors[c] = d

\* As long as the process may open one descriptor more than the limit on
\* connections, accept4 has one to give: the server does not die of EMFILE,
\* however often clients come and go or are turned away.
AcceptHasDescriptor ==
    Cardinality(Descriptors) > MaximumConnections =>
        (thread = "accept" => FreeDescriptors # {})

\* An event is delivered to the connection it was reported for, to no one, or
\* to a connection accepted later in the same batch on the descriptor the
\* first one has left: never to one that was there when the loop polled.
OnlyNewcomersMisled ==
    \A i \in DOMAIN events :
        LET d == events[i].fd
        IN  d \in callbacks \ Fixed /\ files[d] # events[i].file =>
                clients[d] > fresh

\* Nobody starves: what a client, the listener or a database thread has
\* signalled is served, although a batch holds only MaxEvents events, other
\* clients keep signalling, and descriptors are closed in the middle of it.
EveryReadyIsServed ==
    \A d \in Descriptors \cup Fixed : signals[d] # {} ~> signals[d] = {} \/ Ended
=============================================================================
