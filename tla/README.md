# A verification of the epoll MMO server

The server in `src/` is one event-loop thread (epoll, sockets, frame codec,
game logic) and a pool of database workers that run MySQL and Redis operations.
Everything the players see is decided on the event-loop thread; everything that
is hard about it comes from what happens between two of its events: operations
that are queued, running or done in other threads, connections that close in
the meantime, and results that arrive when the state they were asked for is
gone. The modules here model those parts, TLC checks them on small instances,
and TLAPS proves the safety properties for every instance.

In this file `src/x.cpp` names a file of the repository's own directory tree.

## 1. Inventory

| Component | State | Operations | Correct when |
|---|---|---|---|
| Database worker pool, `src/concurrency/bounded_thread_pool.cpp` | `tasks_`, `accepting_`, the workers | `TrySubmit`, `WorkerLoop`, `Shutdown` | no wakeup is lost; an accepted task runs once, in order, also across `Shutdown`; `Shutdown` returns |
| Completion queue and eventfd, `completion_queue.cpp`, `event_fd_wakeup.cpp` | `completions_`, the eventfd counter | `Push`, `Notify`, `Consume`, `Drain` | the event loop never sleeps on a completion; completions run once, in the order of their pushes |
| Asynchronous data service, `src/data/async_data_service.cpp` | none of its own: it joins pool and queue | six methods, all of one shape | an accepted call is answered by exactly one callback on the event-loop thread, a refused one never |
| AOI world, `src/game/aoi_world.cpp` | `players_`, `grids_` | `AddPlayer`, `MovePlayer`, `RemovePlayer`, `VisiblePlayers` | both indices agree; visibility is the nine cells around a player and symmetric; deltas keep everyone's knowledge exact |
| Game service, `src/game/game_service.cpp` | `online_players_`, `connection_players_`, `pending_connections_`, `pending_accounts_`, the world | `HandleFrame` and the handlers, the callbacks of a login, `OnDisconnected` | tables agree; clients' views are exact; a login ends; an account has one player, whose position and token survive |
| Game server, `src/server/game_server.cpp` | connection tables, `marked_for_close_` | `AcceptReady`, `ClientReady`, `Send`, `Disconnect`, `CloseMarkedConnections`, `Run`, `Stop`, the destructor | a connection is closed once, and the game service hears of it; a descriptor has one owner; teardown loses nothing it promised |
| Player repository and session store, `src/data/*` | a record per account, a token per player with a TTL | load, save; load, store | atomic single operations |
| Event loop, `src/net/event_loop.cpp` | callbacks by descriptor, `running_` | `Add`, `Modify`, `Remove`, `PollOnce`, `Run`, `Stop` | an event goes to the connection it is about; whoever is ready is served; `Stop` ends `Run` |
| TCP connection, `src/net/tcp_connection.cpp` | output buffer and offset | `ReadAvailable`, `QueueBytes`, `Flush` | bytes leave once, in order, within the limit |
| Frame codec, `src/protocol/frame_codec.cpp` | the decoder's buffer and offset | `Append`, `Next`, encode | what was encoded comes out, however it was split |
| Blocking client and client application, `src/client/blocking_client.cpp`, `apps/mmo_client_main.cpp` | the client's decoder, `shutdown_`, `running` | `Connect`, `Send`, `Receive`, `Shutdown`; a main and a receiver thread | frames arrive whole and in order; quitting ends both threads |
| Server application, `apps/mmo_server_main.cpp` | `g_server` | `main`, the signal handler | a signal ends `Run` |
| Protobuf codec, benchmark | - | - | a thin wrapper and a tool |

How they interact. `GameServer` owns all of them. A readable socket leads to
`ClientReady`, which feeds the decoder and calls `GameService::HandleFrame` for
each frame. Handlers call back into the server (`Send`, `Disconnect`) and submit
operations to the data service, which puts a task into the pool; the worker
runs the operation and pushes the callback into the completion queue, whose
eventfd is one more descriptor of the event loop. `Disconnect` calls
`OnDisconnected` while a handler is still running; a failed `Send` only marks
the connection, and `CloseMarkedConnections` closes it after the event.

What is hard to test, in short (`PROJECT.json` lists it line by line):
notifications sent outside the locks; a queue that notifies only on its edge;
results of a login that find the connection, the lock or the player changed;
two workers that overtake each other; a `Disconnect` in the middle of a
handler; failing broadcasts; teardown while all of this is going on. Below the
game: events of a batch whose descriptor has changed hands, a `Stop` that races
`Run`, frames that the sockets cut anywhere, buffers that are compacted and
limited while they are in use.

## 2. Plan

The order in which the project was built, the most important behaviour first.

1. `BoundedThreadPool`, `CompletionQueue`: the two lock-protected structures,
   with proofs.
2. `AsyncDataService`: their composition, shown to implement `AsyncCalls`, the
   interface the game logic relies on.
3. `AoiGrid`, `AoiWorld`: the spatial index as operators, and as a system of its
   own against a reference definition of visibility.
4. `GameService`, `GameSystem`: the game logic over an abstract transport, data
   service and stores.
5. `EventLoop`, `ServerLoop`: `Run` and `Stop` from several threads, batches of
   events, descriptors that are reused within a batch, failing system calls.
6. `FrameCodec`, `TcpConnection`, `Wire`: bytes, buffers and both ends of a
   connection, shown to implement `FrameChannel` in each direction.
7. `Presence`: who is in the world, which `GameSystem` refines.
8. Liveness of the game: every callback of the event loop ends.
9. Proofs of the safety properties, component by component: the composition and
   its refinement of `AsyncCalls`, the AOI world, `ServerLoop`, the output side
   of `Wire`, the tables of `GameSystem`, its pending logins and its refinement
   of `Presence`.
10. Proofs about what the clients are owed: their views, their tokens, and, with
    one worker, their positions.
11. Proofs about the codec, which need induction over bytes, and with them both
    refinements of `FrameChannel`.

## 3. The modules and the code

**BoundedThreadPool.** `tasks`, `accepting` are the members; `waiting`, `running`
and `exited` say where the workers are, `owner` where the thread is that calls
`TrySubmit` and `Shutdown` (in the server it is one, the event-loop thread). A
critical section is one step; `notify_one` and `notify_all` come after the
unlock and are steps of their own. Waking is allowed without a notification.
The tasks are numbered in the order of submission, and bounded by `MaxSubmits`.

**CompletionQueue.** A push takes the lock, tests for emptiness and appends in one
step, and, only if the queue was empty, writes the eventfd in a later one. The
loop's states are the places between its system calls: it polls, consumes the
counter, drains to emptiness. The `maximum` of `Drain` is never given by the
program and is left out. `executed` and `pushed` are history.

**AsyncDataService.** Extends both, the pool and the queue. The body of a
task is the store operation, then the push of its callback; an operation that
throws is swallowed by the catch-all of the worker, and its callback is lost.
Pool and queue have no run of their own: `UsesPoolAndQueue` says that the
composition uses both as their specifications, which the proofs are about,
allow, and their properties are checked here, where the tasks push the
completions and the owner of the one is the owner of the other. `AsyncCalls` is
the abstract interface: a call is open, then its callback has run, or it has
been dropped by an exception.

**AoiGrid, AoiWorld.** The methods of `AoiWorld` are operators on a record of the
two maps. Coordinates are integers finer than a cell. Two facts about doubles
matter and are kept: NaN passes every range check of `GridIndexFor`, and a
quotient just below a whole number can be rounded up to it. The cast of NaN to
`size_t` is undefined; `NaNCast` is what a build makes of it. On x86-64 it is a
huge number and the second check rejects the position; `0` puts the player
into the first column. The run uses the latter, which is the case that is not
already a rejection. `AoiWorld` adds `told`, what each player was sent by
entering, moving and leaving.

**GameService, GameSystem.** All state of the event-loop thread is one record; a
handler is an operator from record to record, and handlers call each other as
in the code, so the order of their effects (`Disconnect` before `AddPlayer`,
`erase` before `Submit`) is kept. `GameSystem` is the state machine: a client's
event is a sequence of frames, each one step, followed by
`CloseMarkedConnections`; the eventfd's event is a sequence of callbacks;
`AsyncDataService` is replaced by a queue of operations, workers that take,
run and push them, and a queue of completions, as `AsyncCalls` permits. The
stores do one operation in one step, or fail with the write done or not. They
report failures as results; an operation that throws (out of memory), which
`AsyncCalls` allows and whose callback never runs, is left out here: it would
leave its account locked.
`Presence` is the abstract view of it: a player enters on a connection of its
own, moves, is taken over without leaving its place, leaves. `Presences` maps
the tables to it; a takeover, in which the code removes the player and adds it
again, is one step of the handler and one of `Presence`.
Tokens and player ids are numbers that are not used twice. Left out: texts,
nicknames, times, the size of messages. `view`, `presented`, `last_position` and
`failed_saves`, how many of the faults were those of a `Save`, are history.

**EventLoop, ServerLoop.** `EventLoop` has the thread that calls `Run` and those
that call `Stop`; each load, store and `exchange` of `running_` and `stopped_`,
each `epoll_wait` and each eventfd write is a step, and so is each callback of a
batch. The kernel's part (external) is small: what a descriptor has to report,
and the list of ready descriptors, from which `epoll_wait` takes a batch and
which it rotates, as level-triggered epoll does. An event carries, as history,
the file it was reported for. `ServerLoop` adds `clients_`,
`connection_descriptors_` and the backlog: `AcceptReady` is one step per
`accept4`, with the limit, a failing `Add` and the errors that throw;
`ClientReady` and the eventfd's callback may close any set of connections, as
takeovers and failed broadcasts do, also those of a `PlayerLeave` when the event
only ends its own connection. The kernel gives the lowest free descriptor,
so that reuse within a batch happens. Frames are not looked at, and `EPOLLOUT`
is left to `Wire`.

**FrameCodec, TcpConnection.** Operators, with the code's numbers as parameters:
the values of a byte, the bytes of a field, the largest payload, the threshold
of `Compact`, the limit of the output. `Next` returns what it returns in the code
and the decoder it leaves; `ReadAvailable` appends everything before it decodes
anything; `QueueBytes` compares with a difference of unsigned numbers. The two
reasons for which decoding fails are one.

**Wire, FrameChannel.** One connection: `Send`, `ClientReady`, `UpdateInterest` and
`CloseConnection` of the server, the bytes in the socket in each direction, and
the client application: its main thread (log in, read a command, send, shut
down, join) and its receiver thread around `Receive`. A refused frame marks the
connection; until the callback ends shorter frames may still be taken. What the
game sends, and when, is left open; so is when it disconnects, which also stands
for failing system calls. A close with unread input may destroy what is under
way, as TCP's reset does, and the first `send` after it may still succeed;
`Receive` may then report the error before it has read what did arrive. The
client may be started again. `FrameChannel` is the abstract view: accepted
frames are handed over whole, in order and once; a break loses only the last
ones; while the connection lasts each frame arrives. `upFrames` and `downFrames`
are history, and the channel's queue.

## 4. The runs

| Run | Instance | Checks |
|---|---|---|
| `async_data_service` | 2 workers, queue of 2, 4 calls | the pool's and the queue's safety, exactly one callback, `Shutdown` returns, use of both components as specified, refinement of `AsyncCalls` with its liveness |
| `aoi_world` | 3 players, 3 by 2 cells, 7 coordinates | indices, nine cells, everyone's knowledge |
| `game_overlap` | 2 connections, 2 accounts, 2 workers, 1 move, 1 fault | tables, views, pending logins, takeovers, refinement of `Presence` |
| `game_takeover` | 3 connections, of which only the last chooses between 2 accounts, 1 worker, queue of 1, 3 logins | tables, views and pending logins for three overlapping logins, one of them a bystander's |
| `game_one_worker` | 2 connections, 2 accounts of which the last login chooses, 1 worker, 1 move, 1 fault | whenever nothing is under way, also after the teardown, the last position is the saved one unless a `Save` has failed; every account lock is released; every callback ends |
| `server_loop` | 2 descriptors, a limit of 1 connection, 3 arrivals, batches of 3, 1 failing system call, 1 `Stop` | descriptors have one owner, `accept4` finds one, stale events reach newcomers only, everyone is served, a `Stop` ends `Run` |
| `wire` | frames of 4 and 5 bytes, an output limit of 5, sockets of 5 and 2 bytes, compaction at 5 | bounds of both buffers, interest, both directions refine `FrameChannel` with its liveness, a client that quits ends |

Five more runs end in a counterexample: see section 6.

Why the bounds are enough. Two workers are one that sleeps, exits or runs a task
while the other does something else; a queue of two can be full, partly full
and empty, and four calls fill it again after it was drained and let the
completion queue become empty and refill while the loop is at each of its
places. The proofs cover any number of them. A grid of three columns has
an inner cell and two edges, so that a wrap into the next row shows. In the game
every property speaks of at most two players and three connections: the one
that is online, the one that takes over, and one that looks on or comes late.
One fault at a time covers each error path; two faults only repeat them. The
queue of one in `game_takeover` fills up, so that submissions are refused in the
middle of a login. In `server_loop` a batch of three is smaller than the four
descriptors that can be ready at once, a limit of one is reached and exceeded, and three
arrivals let a descriptor be used, closed and used again in one batch. In `wire`
a frame never fits into the socket to the client, so that every frame is written
in parts; the one to the server holds a frame and the beginning of the next; the
output limit takes one frame, or the rest of one and a short one, so that frames
are refused; and the decoder's threshold is passed by two frames, whose end is
not the end of a read.

Deadlock is not checked where the system may rightly stop: after `Shutdown` or
`Run`, or when the requests of the bounded clients are used up. It is checked in
`aoi_world` and in `wire`, where the client can always be started again.

Fairness. Workers and the event loop are threads that the system schedules:
weak fairness of their steps. Nothing is assumed of clients, of the submitting
code, or of a shutdown being asked for. In `GameSystem` the callback step has
strong fairness: `epoll_wait` returns the ready descriptors in turn, so clients
that always have something to say do not keep the eventfd out for ever; weak
fairness would not say so, since the step is disabled during every client
event. A client's event ends because the frames of a read are finitely many.

That `epoll_wait` is fair to the descriptors is not only assumed: `ServerLoop`
models the rotation of the ready list, assumes no more than that the loop's
thread runs, and checks `EveryReadyIsServed`. This is what justifies the strong
fairness of the callbacks in `GameSystem` and the fairness of `ClientReady` in
`Wire`. Interruptions by signals (EINTR) count as faults and are bounded. In
`Wire` the three effects a `ClientReady` can have on a socket (empty it, fill it,
close it) are fair each by itself, which follows from fairness of the whole. The
client's two threads run, a user need not type, and `Receive` is strongly fair
between its timeouts: its 250 ms do not pass each time before it gets from the
decoder to the socket.

What each property says is written above its definition.

## 5. The proofs

A run looks at one small instance; the theorems hold for every value of the
constants that the named assumptions allow, bounds such as `MaxLogins` included.
The properties are corollaries of inductive invariants, whose preservation is one
lemma per action or per conjunct. TLC has checked each invariant that quantifies
over finite sets only, on an instance of section 4, before it was proved.

**The pool** (`AsyncDataServiceProofs`, first part). For any set of workers, any capacity and
any number of submissions: the types, no task is stranded (if a task is queued, a
worker is awake or a notification is on its way), nothing is left after
`Shutdown` has returned, nobody sleeps past `notify_all`, and tasks are taken
once and in the order of submission. The assumption is `PoolAssumption`: a
finite, nonempty set of workers and a positive capacity, what the constructor
enforces.

None of these is inductive alone. `PoolInv` adds `ThreadsInPlace`: the pool is
open exactly as long as the owner has not begun `Shutdown`, a sleeping or exited
worker has no task, and *no worker has exited while the pool is open or a task
is queued*. The last clause is the heart of it: without it a task could be left
to workers that are gone. For the order, `SubmittedBefore` bounds queued and
running tasks by the number of submissions, so that a new task is larger than
all before it.

**The completion queue** (`AsyncDataServiceProofs`, second part). No completion is lost,
completions are run once and in the order of the pushes, and the final drain
leaves none. `NoLostCompletion` is nearly inductive: whenever the queue is not
empty, someone has still to act (a pusher about to write, a readable eventfd, or
a loop that is going to drain); the types supply that a pusher that owes a write
has not exited.

**The data service** (`AsyncDataServiceProofs`, third part). `DataUsesPoolAndQueue` shows that
each step of the composition is a step of `PoolSpec` and one of `QueueSpec`, or
leaves them alone, so that the theorems above hold of it (`DataInheritsGuarantees`).
What makes it more than a rewriting is that a task pushes its completion only
once: `DataInv` adds that the pushers are the workers that have not exited, and
`Accounting`, that every call made is in exactly one of five places (the pool,
the queue, called, refused, lost to an exception). From it follow
`DataOwedExactlyOnce`, and `DataImplementsCalls`: every step is a step of the
interface `AsyncCalls` or a stutter. The mapping gives a call the status of its
place; since the places are disjoint, no order of the cases matters. The fairness
of `AsyncCalls` is not part of it.

**The AOI world** (`AoiGridProofs`, `AoiWorldProofs`). For any grid, any cell size, any coordinates
(NaN and rounding included, `GridAssumption`, `CoordinatesAssumption`) and any
players: the types, both indices agree, `VisiblePlayers` is the nine cells around
a player and symmetric, and everyone's knowledge is exact after any sequence of
enters, moves and leaves. `AoiGridProofs` is about the operators alone, so that the
proofs about the game can use it too. The arithmetic is in two lemmas about cell numbers: a
cell number splits into row and column in one way only, so that the neighbours of
a cell are those one step away *in the plane* (`NeighborsInThePlane`: the loop of
the code does not wrap into the next row), and being neighbours is mutual. The
other players learn of an enter, a move or a leave from the deltas of the one who
acts; that these are all who have to learn of it is the symmetry.

**The event loop and the server's descriptors** (`ServerLoopProofs`). For any finite
set of descriptors, any batch size, limit and number of callers of `Stop`: the
types, a descriptor has one owner in all tables, a `Stop` after `running_` was set
is not missed, a stale event reaches only a connection that was accepted in the
same batch, and `accept4` finds a free descriptor if the process may open more of
them than `maximum_connections`. `ServerInv` adds to these properties that the
numbers of connections only rise, so that a connection accepted in a batch is
told from all older ones, and that the limit is kept, which is what leaves a
descriptor free.

**The frame codec** (`FrameCodecProofs`). For any number of values of a byte, any
size of a field and any threshold of `Compact` (`CodecAssumption`): a field that
was written is read back; if the unread bytes of a decoder, followed by those still
on their way, are the encoding of some frames, it hands over the first of them, and
what it keeps, followed by the same bytes on their way, is the encoding of the
others (`DecodesMany`), wherever the cut is and also when a frame comes after them
that it refuses; and what `NextFrames` leaves is within its bounds. `ReadNetwork`, `NextFrames` and `ValuesOf` are recursive
functions. The library's induction theorems cannot be used here, so the proofs go another
way: a recursion that always goes to a smaller number has a solution, and the
solution has the property in question, because otherwise there would be a least
number (`LeastNumber`) for which it fails.

**A connection** (`WireProofs`). For any frames, limits, sockets and sizes of a read
(`WireAssumption`, `ConnectionAssumption`, `CodecAssumption`): the types, the output
is bounded, `EPOLLOUT` is asked for exactly as long as there is output, and what a
callback leaves in the decoder is bounded. `WireAssumption` says of the messages
only what the wire format forces: the id and the length of what a client sends
fit into the header's fields, and the login, which the client application builds,
can be encoded.

`WireOutputStream` is an action property that no run states: what the server has
queued and the socket holds is a stream to which only whole frames are appended,
from which the client takes the front, which partial writes and `CompactOutput`
leave as it is, and of which a close keeps a beginning.

`WireImplementsDown` and `WireImplementsUp` are the safety halves of the two
refinements of `FrameChannel`: each step is a step of the channel or a stutter.
`DownInv` says that *the encoding of the frames accepted and not yet handed over is
what the client's decoder, the socket and the output hold, in this order*, and,
after a close, that what they hold is a beginning of it. With the codec's lemma a
`Receive` then takes whole frames from the front of the queue. `UpInv` says the same
of the server's decoder, the socket and what `send` has still to write, up to the
first frame that the decoder refuses (`Carries`): the client may send such frames,
and from there on the bytes no longer matter. It also needs that `main` begins a
`Send` only when the last one has ended, else two frames would be mixed.

**The game** (`GameSystemProofs`). For any number of connections, accounts, workers
and requests and any capacity of the queue (`GameAssumption`, `SystemAssumption`):
the types; `TablesAgree`; `PendingIsServed`, no connection waits and no account is
locked without an operation under way for it; and `SystemImplementsPresence`, the
refinement of `Presence`, whole (it has no fairness). There is one lemma for each
handler and for each operator it calls, and it is about any game record, so that
the proof follows the calls of the code, disconnects inside of handlers included.

`SystemInv` is `GameInv` of the event-loop thread's record and the types of what
the workers and stores hold. `GameInv` adds `PendingFree` to the agreement of the
tables: *a connection that waits for its login is open and has no player yet*.
Without it a login that ends could put a second player on a connection. About the
other threads it needs only that a loaded record is of the account that was asked
for. For `PendingIsServed`, `Served` also says that the operation is for the
account the connection waits for, and every handler is shown either to start no
login and lose no operation (`Shrinks`), to start one with its first operation
(`Starts`), or to take a completion and go on with an operation or end the login.
The pool's queue, the hands of the workers and the completions are one set for
it; the workers only move operations within it. For `Presence`, every step is
shown to change at most one entry of `online_players_`, and that only by putting,
moving, handing over or removing a player; the connection is free in the first
and the third case because the tables agree.

**The game's clients** (`GameClientsProofs`, first part). Under the same assumptions
and `PositionsAssumption` (a coordinate is a number or NaN): `ClientsSeeTheWorld` and
`TakeoverNeedsToken`. `ClientsInv` is `SeeIn`, that each open and unmarked connection
sees what its player sees, *and nothing if it has no player*, and `TokenInv`. The
first cannot be shown of the connections with a player alone: a login begins with
an empty view. Handlers are calm (no player enters, moves or leaves), or are shown
to tell exactly those whose sight changes, which are by symmetry those the delta
names; whoever cannot be told is marked. In between, in a takeover or when a
`Disconnect` interrupts a handler, only the connections of a set are exact, which
is why `SeeIn` has that set as a parameter. `TokenInv` says where tokens are the
right ones: in the session store, in operations under way, and in results on
their way back, for the player they belong to; and that connection ids are not
used twice, so that the result of a closed connection's login is not taken for one
of a later connection.

**Saved positions** (`GameClientsProofs`, second part). `LastPositionSaved` is false
with two workers (section 6). For one worker it is proved in two forms:
`SystemPositionsSavedWithRoom` supposes that the queue never fills, as the code
ignores a refused save, and `SystemLastPositionSaved` supposes a queue longer than
the login requests are many, as in `game_one_worker`, and shows that it never
fills. Both hold at every phase, during and after the teardown too, whatever peers
break, sessions expire and other operations fail: only a `Save` that has failed
ends the promise. Until then `SavedInv` says three things. *An id is one
account's wherever it turns up* (`Books`): in a table, the queue, the worker's
hand, a result or the repository; else a save under another account's name would
leave the old record behind. The position of a player that has left is the last one
for this id in the queue, or is in the worker's hand with none behind it in the
queue, or is in the repository with none on its way (`AllKept`). And the operations
under way together with the players online are no more than the login requests
were (`Weight`), since every operation either passes its place on to the next one
of its login or to the player, and a player to its save.

The model's bounds are in the theorems as they are in the runs: `WithinBounds`
(no more players and tokens than there are numbers for them) is a guard of the
step that runs a callback.

Only model-checked:

* all liveness, the fairness of the refined specifications included
  (`AsyncCalls`, `FrameChannel`): out of the prover's reach;
* the runs of section 6, which end in a counterexample.

## 6. Where code and documents disagree

* **The lock of an account can be released by someone else** (`game_account_lock`).
  A login's callback that finds its connection gone erases the account from
  `pending_accounts_`, but `OnDisconnected` has erased it already, and another
  connection may have locked it since. A third connection is then let in. For a
  new account both create a player, and the second upsert changes the id of the
  stored one.
* **An older position can be the one that stays** (`game_position_two_workers`).
  With two workers, the default, saves of one player are not ordered.
  `game_one_worker` shows that it takes the second worker: with one
  worker and room in the queue the last position is saved.
* **A reconnect can put a player back** (`game_stale_position`). The record is
  loaded when the login begins; if the old connection moves and closes before
  the login ends, that record is out of date, and is used.
* **A token can be replaced by one that nobody has** (`game_token_rotation`). The
  new token is stored before the login is finished; if the connection closes in
  between, the stored token was sent to nobody, and the one the player holds is
  no longer accepted.
* **A `Stop` can be forgotten** (`server_loop_stop`). Both `Run` functions begin by
  overwriting the flags that `Stop` sets. A `Stop` from a signal or another
  thread that comes before them has no effect; one that comes between the two
  leaves `stopped_` set, so that all later ones have no effect either.
  `server_loop` shows that a `Stop` after `running_` was set is never missed.

Read in the code and not a run of their own: `~GameServer` submits one save per
player online and ignores a refusal, so that with more players than the queue
holds (4096 and 1024 by default) positions are lost. A batch may hold an event of
a connection that an earlier event of the batch has closed; if its descriptor
was given to a connection accepted in between, that connection gets it, and is
closed at once if it says that the peer is gone (`OnlyNewcomersMisled` shows that
nobody else can be hit). `accept4` failing with ECONNABORTED ends the server
(`AcceptHasDescriptor` excludes only EMFILE, and only if the process may open
more descriptors than `maximum_connections`). After an exception in `Run` the
signal handler keeps a pointer to the destroyed server.

## 7. Not modelled

`OpenListener` runs once, before there is any concurrency. The protobuf codec
wraps generated code; a message that does not parse is one of the bad requests
of `GameSystem`, and one that is too long is refused as by `EncodeFrame`.
`DeleteByAccount` and `Remove` of the stores are not called by the server, and
SQL and the Redis protocol are left out of theirs. Of the applications, options,
environment and output are left out; the benchmark only measures.

Between the models: `GameSystem` has no bytes, `Wire` no game, `ServerLoop`
neither; they meet in the promises `FrameChannel`, `Presence`, `AsyncCalls` and
`EveryReadyIsServed`. A state machine of all of them is beyond TLC.

Unbounded in the code and bounded here: the bytes one `ReadAvailable` appends
before it decodes, and the clients one `AcceptReady` accepts or turns away. A
second server process on the same stores, and the collation MySQL compares
account names with, are outside of the model.
