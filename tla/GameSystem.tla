----------------------------- MODULE GameSystem -----------------------------
(***************************************************************************)
(* The server as a whole, at the level of the game logic: the event loop   *)
(* dispatches one event at a time to GameService's handlers, database      *)
(* workers run the submitted operations against the player repository and  *)
(* the session store, and the results come back in the order in which they *)
(* were pushed.  AsyncDataService shows that nothing is lost on the way.   *)
(*                                                                         *)
(* The event loop is between two events (idle), in a client's event, in    *)
(* Drain, or closing the connections the event has marked; ~GameServer     *)
(* closes all connections, joins the workers and drains once more.         *)
(***************************************************************************)
EXTENDS GameService

CONSTANTS
    Workers,    \* the database workers
    MaxOpen,    \* maximum_connections
    Positions,  \* the positions of move requests
    Asks,       \* bound: the accounts a connection's client logs in to
    MaxMoves,   \* bound: move requests a behaviour makes
    MaxFaults   \* bound: failing peers and store operations, expiring sessions

ASSUME SystemAssumption ==
    /\ Workers # {}
    /\ MaxOpen \in Nat
    /\ Asks \in [Connections -> SUBSET Accounts]
    /\ MaxMoves \in Nat /\ MaxFaults \in Nat

\* A position is a pair of doubles, each a number or NaN.
ASSUME PositionsAssumption ==
    Positions \cup {Start} \subseteq [x : Int \cup {NaN}, y : Int \cup {NaN}]

VARIABLES
    game,         \* what the event-loop thread owns: see GameService
    accepted,     \* next_connection_id_
    running,      \* the operation each worker has in hand
    completions,  \* the completion queue
    players,      \* the player repository: a record per account
    sessions,     \* the session store: a token per player
    phase,        \* where the event loop is
    current,      \* in a client's event: the client
    logins, moves, faults,  \* how much of each bound is used up
    failed_saves  \* history: how many of the faults were those of a Save

eventLoop == <<phase, current>>
stores == <<players, sessions>>
bounds == <<logins, moves, faults, failed_saves>>
systemVars ==
    <<game, accepted, running, completions, stores, eventLoop, bounds>>

Phases == {"idle", "client", "drain", "close", "teardown", "join", "final",
           "stopped"}

\* No operation in a worker's hands.
Idle == [stage |-> "idle"]

SystemInit ==
    /\ game = GameInit
    /\ accepted = 0
    /\ running = [w \in Workers |-> Idle]
    /\ completions = <<>>
    /\ players = [a \in Accounts |-> NoRecord]
    /\ sessions = [id \in PlayerIds |-> NoToken]
    /\ phase = "idle" /\ current = NoConnection
    /\ logins = 0 /\ moves = 0 /\ faults = 0 /\ failed_saves = 0

-----------------------------------------------------------------------------
(* Connections come, and their peers fail.                                 *)

\* AcceptReady; beyond the limit the descriptor is closed again at once.
AcceptReady ==
    /\ phase = "idle"
    /\ Cardinality(game.conns) < MaxOpen
    /\ accepted + 1 \in Connections
    /\ accepted' = accepted + 1
    /\ game' = [game EXCEPT !.conns = @ \cup {accepted + 1}]
    /\ UNCHANGED <<running, completions, stores, eventLoop, bounds>>

\* The peer stops reading, or its socket fails: the next Send to it will.
PeerBreaks(c) ==
    /\ c \in game.conns \ game.broken
    /\ game' = [game EXCEPT !.broken = @ \cup {c}]
    /\ faults < MaxFaults
    /\ faults' = faults + 1
    /\ UNCHANGED <<accepted, running, completions, stores, eventLoop>>
    /\ UNCHANGED <<logins, moves, failed_saves>>

-----------------------------------------------------------------------------
(* ClientReady: the frames of one read are handled one after the other as  *)
(* long as the connection is neither closed nor marked.                    *)

InFrame(c) ==
    /\ \/ phase = "idle"
       \/ phase = "client" /\ current = c
    /\ IsConnected(game, c)
    /\ phase' = "client" /\ current' = c
    /\ UNCHANGED <<accepted, running, completions, stores>>

\* A token a client can present: none, one that was issued, or a wrong one.
Presentable == {NoToken, MaxLogins + 1} \cup 1 .. Len(game.tokens)

LoginFrame(c) ==
    /\ InFrame(c)
    /\ logins < MaxLogins
    /\ \E account \in Asks[c] \cup {NoAccount}, token \in Presentable :
         game' = HandleLogin([game EXCEPT !.presented[c] = @ \cup {token}],
                             c, account, token)
    /\ logins' = logins + 1
    /\ UNCHANGED <<moves, faults, failed_saves>>

MoveFrame(c) ==
    /\ InFrame(c)
    /\ moves < MaxMoves
    /\ \E position \in Positions : game' = HandleMove(game, c, position)
    /\ moves' = moves + 1
    /\ UNCHANGED <<logins, faults, failed_saves>>

ChatFrame(c) ==
    /\ InFrame(c)
    /\ game' = HandleChat(game, c)
    /\ UNCHANGED bounds

HeartbeatFrame(c) ==
    /\ InFrame(c)
    /\ game' = HandleHeartbeat(game, c)
    /\ UNCHANGED bounds

\* A message HandleFrame has no case for: one that only the server sends.
UnknownFrame(c) ==
    /\ InFrame(c)
    /\ game' = CloseConnection(game, c)
    /\ UNCHANGED bounds

\* CloseMarkedConnections has nothing to do when nothing is marked.
AfterEvent(g) == IF g.marked_for_close = {} THEN "idle" ELSE "close"

\* The event ends, and the connection is marked if the peer has closed it,
\* sent garbage, or failed (should_close).
ClientEnd(c) ==
    /\ \/ phase = "idle"
       \/ phase = "client" /\ current = c
    /\ \/ /\ IsConnected(game, c)
          /\ game' = [game EXCEPT !.marked_for_close = @ \cup {c}]
       \/ phase = "client" /\ UNCHANGED game
    /\ phase' = AfterEvent(game')
    /\ current' = NoConnection
    /\ UNCHANGED <<accepted, running, completions, stores, bounds>>

-----------------------------------------------------------------------------
(* The eventfd's event: Drain, then CloseMarkedConnections.                *)

TakesCompletion ==
    /\ phase \in {"idle", "drain", "final"}
    /\ completions # <<>>
    /\ completions' = Tail(completions)

\* Bound: a login request creates at most one player and issues one token.
WithinBounds(g) == g.player_sequence <= MaxLogins /\ Len(g.tokens) <= MaxLogins

DrainOne ==
    /\ TakesCompletion
    /\ game' = Complete(game, Head(completions))
    /\ WithinBounds(game')
    /\ phase' = IF phase = "final" THEN phase ELSE "drain"
    /\ UNCHANGED <<accepted, running, stores, current, bounds>>

DrainEnd ==
    /\ phase = "drain"
    /\ completions = <<>>
    /\ phase' = AfterEvent(game)
    /\ UNCHANGED <<game, accepted, running, completions, stores, current, bounds>>

\* One turn of CloseMarkedConnections; closing one may mark another.
CloseMarked ==
    /\ phase = "close"
    /\ \E c \in game.marked_for_close : game' = CloseConnection(game, c)
    /\ phase' = AfterEvent(game')
    /\ UNCHANGED <<accepted, running, completions, stores, current, bounds>>

-----------------------------------------------------------------------------
(* A worker takes an operation, runs it against the stores, and pushes the *)
(* result.  Workers overtake each other between any two of these.          *)

TakeTask(w) ==
    /\ running[w] = Idle /\ game.tasks # <<>>
    /\ running' = [running EXCEPT ![w] =
                     [stage |-> "taken", op |-> Head(game.tasks)]]
    /\ game' = [game EXCEPT !.tasks = Tail(@)]
    /\ UNCHANGED <<accepted, completions, stores, eventLoop, bounds>>

HasOp(w, stage) == running[w].stage = stage

Done(w, status, value) ==
    running' = [running EXCEPT ![w] = [stage |-> "done", op |-> @.op,
                                       status |-> status, value |-> value]]

\* LoadByAccount: the record, or kNotFound.
Load(w) ==
    LET record == players[running[w].op.account]
    IN  /\ running[w].op.kind = "LoadPlayer"
        /\ IF record = NoRecord THEN Done(w, "not_found", NoRecord)
                                ELSE Done(w, "ok", record)
        /\ UNCHANGED stores

\* The operations that are a Save.
Saves(w) == running[w].op.kind \in {"CreatePlayer", "SavePlayer"}

\* Save: an upsert by account, player_id included.
Save(w) ==
    LET record == running[w].op.player
    IN  /\ Saves(w)
        /\ players' = [players EXCEPT ![record.account] = record]
        /\ Done(w, "ok", NoRecord)
        /\ UNCHANGED sessions

\* SessionStore::Store: SET session:<id> <token> EX <ttl>.
Store(w) ==
    LET op == running[w].op
    IN  /\ op.kind = "StoreSession"
        /\ sessions' = [sessions EXCEPT ![op.player.id] = op.token]
        /\ Done(w, "ok", NoRecord)
        /\ UNCHANGED players

\* SessionStore::Load.
LoadToken(w) ==
    LET token == sessions[running[w].op.player.id]
    IN  /\ running[w].op.kind = "LoadSession"
        /\ IF token = NoToken THEN Done(w, "not_found", NoToken)
                              ELSE Done(w, "ok", token)
        /\ UNCHANGED stores

StoreOperation(w) == Load(w) \/ Save(w) \/ Store(w) \/ LoadToken(w)

OperateSucceeds(w) ==
    /\ HasOp(w, "taken")
    /\ StoreOperation(w)
    /\ UNCHANGED <<game, accepted, completions, eventLoop, bounds>>

\* The store cannot be reached, or fails: nothing is written, or it was and
\* only the answer is lost.
OperateFails(w) ==
    /\ HasOp(w, "taken")
    /\ faults < MaxFaults
    /\ faults' = faults + 1
    /\ failed_saves' = IF Saves(w) THEN failed_saves + 1 ELSE failed_saves
    /\ Done(w, "failed", NoRecord)
    /\ \/ UNCHANGED stores
       \/ /\ Saves(w)
          /\ players' = [players EXCEPT ![running[w].op.player.account] =
                           running[w].op.player]
          /\ UNCHANGED sessions
       \/ /\ running[w].op.kind = "StoreSession"
          /\ sessions' = [sessions EXCEPT ![running[w].op.player.id] =
                            running[w].op.token]
          /\ UNCHANGED players
    /\ UNCHANGED <<game, accepted, completions, eventLoop, logins, moves>>

PushResult(w) ==
    /\ HasOp(w, "done")
    /\ completions' = Append(completions,
                        [op |-> running[w].op, status |-> running[w].status,
                         value |-> running[w].value])
    /\ running' = [running EXCEPT ![w] = Idle]
    /\ UNCHANGED <<game, accepted, stores, eventLoop, bounds>>

WorkerStep(w) ==
    TakeTask(w) \/ OperateSucceeds(w) \/ OperateFails(w) \/ PushResult(w)

\* The session's TTL runs out.
SessionExpires(id) ==
    /\ sessions[id] # NoToken
    /\ faults < MaxFaults
    /\ faults' = faults + 1
    /\ sessions' = [sessions EXCEPT ![id] = NoToken]
    /\ UNCHANGED <<game, accepted, running, completions, players, eventLoop>>
    /\ UNCHANGED <<logins, moves, failed_saves>>

-----------------------------------------------------------------------------
(* ~GameServer.                                                            *)

StopServer ==
    /\ phase = "idle"
    /\ phase' = "teardown"
    /\ UNCHANGED <<game, accepted, running, completions, stores, current, bounds>>

CloseOnTeardown ==
    /\ phase = "teardown"
    /\ \E c \in game.conns : game' = CloseConnection(game, c)
    /\ UNCHANGED <<accepted, running, completions, stores, eventLoop, bounds>>

Shutdown ==
    /\ phase = "teardown" /\ game.conns = {}
    /\ game' = [game EXCEPT !.accepting = FALSE]
    /\ phase' = "join"
    /\ UNCHANGED <<accepted, running, completions, stores, current, bounds>>

Joined ==
    /\ phase = "join"
    /\ game.tasks = <<>> /\ \A w \in Workers : running[w] = Idle
    /\ phase' = "final"
    /\ UNCHANGED <<game, accepted, running, completions, stores, current, bounds>>

FinalDrainEnd ==
    /\ phase = "final"
    /\ completions = <<>>
    /\ phase' = "stopped"
    /\ UNCHANGED <<game, accepted, running, completions, stores, current, bounds>>

-----------------------------------------------------------------------------
ClientFrame(c) ==
    \/ LoginFrame(c) \/ MoveFrame(c) \/ ChatFrame(c) \/ HeartbeatFrame(c)
    \/ UnknownFrame(c)

TeardownStep == CloseOnTeardown \/ Shutdown \/ Joined \/ FinalDrainEnd

SystemNext ==
    \/ AcceptReady
    \/ \E c \in Connections : PeerBreaks(c) \/ ClientFrame(c) \/ ClientEnd(c)
    \/ DrainOne \/ DrainEnd \/ CloseMarked
    \/ \E w \in Workers : WorkerStep(w)
    \/ \E id \in PlayerIds : SessionExpires(id)
    \/ StopServer \/ TeardownStep

\* The workers and the event loop run on; a client's event ends, as the
\* frames of one read are finitely many.  epoll_wait reports every ready
\* descriptor in turn, so busy clients do not keep the eventfd's event out
\* for ever: strong fairness.  Clients owe the server nothing.
SystemFairness ==
    /\ \A w \in Workers : WF_systemVars(WorkerStep(w))
    /\ SF_completions(TakesCompletion)
    /\ WF_systemVars(DrainEnd \/ CloseMarked \/ TeardownStep)
    /\ WF_systemVars(phase = "client" /\ ClientEnd(current))

SystemSpec == SystemInit /\ [][SystemNext]_systemVars /\ SystemFairness

-----------------------------------------------------------------------------
(* Properties.                                                             *)

Operations ==
    {game.tasks[i] : i \in 1 .. Len(game.tasks)}
        \cup {running[w].op : w \in {v \in Workers : running[v] # Idle}}
        \cup {completions[i].op : i \in 1 .. Len(completions)}

Records == [id : PlayerIds, account : Accounts,
            position : Positions \cup {Start}]

OperationOK(op) ==
    \/ op \in [kind : {"LoadPlayer"}, conn : Connections,
               account : Accounts, token : 0 .. MaxLogins + 1]
    \/ op \in [kind : {"CreatePlayer"}, conn : Connections, player : Records]
    \/ op \in [kind : {"LoadSession"}, conn : Connections, player : Records,
               token : 1 .. MaxLogins + 1]
    \/ op \in [kind : {"StoreSession"}, conn : Connections, player : Records,
               token : Tokens, replace : BOOLEAN]
    \/ op \in [kind : {"SavePlayer"}, player : Records]

\* The types of the server's state; no handler of GameService submits more to
\* the database pool than its queue holds.
SystemTypeOK ==
    /\ game.conns \subseteq Connections
    /\ game.marked_for_close \subseteq game.conns
    /\ game.online_players \in
         [PlayerIds -> {Offline} \cup
            [record : Records, conn : Connections, token : Tokens]]
    /\ game.connection_players \in [Connections -> PlayerIds \cup {NoPlayer}]
    /\ game.pending_connections \in [Connections -> Accounts \cup {NoAccount}]
    /\ game.pending_accounts \subseteq Accounts
    /\ Len(game.tasks) <= QueueCapacity
    /\ \A op \in Operations : OperationOK(op)
    /\ players \in [Accounts -> Records \cup {NoRecord}]
    /\ sessions \in [PlayerIds -> Tokens \cup {NoToken}]
    /\ phase \in Phases

\* The tables of the game agree with each other, with the transport's and
\* with the world: connection_players_ and online_players_ are inverse,
\* everyone online has an open connection, and the players in the world are
\* those online, at the position of their record.  On this rest the
\* unchecked .value() of VisiblePlayers (game_service.cpp:254, 409) and the
\* assumption that a replaced player is gone once Disconnect has returned
\* (line 237, then AddPlayer).
TablesAgree ==
    /\ \A c \in Connections :
         LET id == game.connection_players[c]
         IN  id # NoPlayer => /\ c \in game.conns
                              /\ game.online_players[id].conn = c
    /\ \A id \in PlayerIds :
         LET player == game.online_players[id]
         IN  /\ Contains(game.world, id) <=> IsOnline(game, id)
             /\ IsOnline(game, id) =>
                  /\ game.connection_players[player.conn] = id
                  /\ player.record.id = id
                  /\ game.world.players[id].position = player.record.position

\* What a client has been sent adds up to the truth: whoever is logged in on
\* a connection that is not about to be closed has in view exactly the
\* players it can see, each at its current position; whatever entered, moved,
\* left, was replaced or failed in the meantime, in any order.
ClientsSeeTheWorld ==
    \A id \in PlayerIds :
        LET c == game.online_players[id].conn
        IN  IsOnline(game, id) /\ IsConnected(game, c) =>
              game.view[c] = ViewsOf(game, VisiblePlayers(game.world, id))

\* The account a login operation is for.
AccountOf(op) ==
    IF op.kind = "LoadPlayer" THEN op.account ELSE op.player.account

LoginOperations == {op \in Operations : op.kind # "SavePlayer"}

\* A login in progress is always being worked on: a connection that waits
\* for its login is open, has no player yet, and an operation of its own is
\* queued, running or completed, whose callback will settle it.  A locked
\* account, too, has such an operation; so none is locked for ever, and none
\* once the server has stopped.
PendingIsServed ==
    /\ \A c \in Connections :
         game.pending_connections[c] # NoAccount =>
             /\ c \in game.conns
             /\ game.connection_players[c] = NoPlayer
             /\ \E op \in LoginOperations :
                  op.conn = c /\ AccountOf(op) = game.pending_connections[c]
    /\ \A a \in game.pending_accounts :
         \E op \in LoginOperations : AccountOf(op) = a

\* A player changes its connection without going offline only when the new
\* connection has presented a token that was issued for that player: nobody
\* takes over a session with an empty, wrong or foreign token, however the
\* logins of several connections and accounts overlap.
TakeoverNeedsToken ==
    [][\A id \in PlayerIds :
         LET old == game.online_players[id].conn
             new == game'.online_players[id].conn
         IN  old # new /\ NoConnection \notin {old, new} =>
               \E t \in game.presented[new] :
                   t \in 1 .. Len(game.tokens) /\ game.tokens[t] = id]_systemVars

Absent == [conn |-> NoConnection, position |-> Nowhere]

Presences ==
    [id \in PlayerIds |->
       IF IsOnline(game, id)
         THEN [conn |-> game.online_players[id].conn,
               position |-> game.online_players[id].record.position]
         ELSE Absent]

World == INSTANCE Presence WITH
    Player <- PlayerIds, Connection <- Connections,
    Position <- Positions \cup {Start}, None <- Absent, place <- Presences

\* Seen from outside there are players who come, move, are taken over and
\* leave: no step of a handler, of its callbacks or of the teardown touches
\* two players, puts two on one connection, or moves one that is taken over,
\* although its new login has loaded an older position.
ImplementsPresence == World!PresenceSpec

\* Every callback of the event loop returns, and so does the teardown: Drain
\* although the callbacks it runs submit new operations, whose completions
\* join the same queue; CloseMarkedConnections although what it closes may
\* mark more; the join although the workers' last results have no reader.
EventEnds == phase \notin {"idle", "stopped"} ~> phase \in {"idle", "stopped"}

\* Whatever becomes of a login, the account's lock is released: nobody is
\* shut out of an account for good (pending_accounts_, lines 78-79).
LockIsReleased ==
    \A a \in Accounts :
        a \in game.pending_accounts ~> a \notin game.pending_accounts

-----------------------------------------------------------------------------
(* What the comments and documents promise.                                *)

\* The data service has nothing left to do, whatever the event loop is at.
Quiet == Operations = {}

\* "account login is already pending" (game_service.cpp:72): a second login
\* for an account that is being logged in is refused.
OneLoginPerAccount ==
    \A c, d \in Connections :
        /\ game.pending_connections[c] = game.pending_connections[d]
        /\ game.pending_connections[c] # NoAccount
        => c = d

\* The position of a player that has left is saved (OnDisconnected, line
\* 427), also by the teardown: whenever the data service has nothing left to
\* do, and unless a Save has failed, the repository's record of the player
\* holds the position it was last seen at, whatever peers have broken,
\* sessions expired or other operations failed.
LastPositionSaved ==
    Quiet /\ failed_saves = 0 =>
        \A id \in PlayerIds, a \in Accounts :
            /\ players[a].id = id /\ ~IsOnline(game, id)
            /\ game.last_position[id] # Nowhere
            => players[a].position = game.last_position[id]

\* A player that comes back is where it was when it left.
ComesBackInPlace ==
    [][\A id \in PlayerIds :
         /\ ~IsOnline(game, id) /\ IsOnline(game', id)
         /\ game.last_position[id] # Nowhere
         => game'.online_players[id].record.position =
              game.last_position[id]]_systemVars

\* A player that is online, and whose session has not expired, can come back
\* with the token it was sent: the session store holds that one.
TokenCanReconnect ==
    Quiet => \A id \in PlayerIds :
                IsOnline(game, id) =>
                    sessions[id] = game.online_players[id].token
=============================================================================
