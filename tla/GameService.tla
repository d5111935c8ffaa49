----------------------------- MODULE GameService -----------------------------
(***************************************************************************)
(* The game logic (src/game/game_service.cpp) together with the part of    *)
(* GameServer it calls back into (Send, IsConnected, Disconnect,           *)
(* CloseConnection in src/server/game_server.cpp).  All of it runs on the  *)
(* event-loop thread, so its state is one record, and a handler is an      *)
(* operator from such a record to the next one; handlers call each other   *)
(* as the code does.  GameSystem is the state machine that runs them.      *)
(*                                                                         *)
(* A player's record is its id, account and position; a session token is   *)
(* a number, never issued twice.  Three fields are history, no state of    *)
(* the server: view is what a client makes of the messages it was sent,    *)
(* presented the tokens its login requests held, last_position where a     *)
(* player was when it went offline.                                        *)
(***************************************************************************)
EXTENDS AoiGrid, Sequences, FiniteSets

CONSTANTS
    Connections,    \* the connection ids, numbers from 1
    Accounts,       \* the account names of login requests
    NoAccount,      \* no account: an entry that is absent, a bad request
    Start,          \* the centre of the world, where new players are put
    QueueCapacity,  \* database_queue_capacity
    MaxLogins       \* bound: login requests a behaviour makes; each of them
                    \* creates at most one player and one token

PlayerIds == 1 .. MaxLogins
Tokens == 1 .. MaxLogins

ASSUME GameAssumption ==
    /\ Connections \subseteq Nat \ {0}
    /\ NoAccount \notin Accounts
    /\ QueueCapacity \in Nat \ {0}
    /\ MaxLogins \in Nat \ {0}
    /\ GridIndexFor(Start) # NoGrid

NoConnection == 0
NoPlayer == 0
NoToken == 0
NoRecord == [id |-> NoPlayer, account |-> NoAccount, position |-> Start]

\* No position: of a player that has not been offline yet.
Nowhere == [x |-> NaN, y |-> NaN]

\* The absence of an entry in online_players_.
Offline == [record |-> NoRecord, conn |-> NoConnection, token |-> NoToken]

GameInit ==
    [ conns               |-> {},  \* keys of connection_descriptors_
      marked_for_close    |-> {},
      online_players      |-> [id \in PlayerIds |-> Offline],
      connection_players  |-> [c \in Connections |-> NoPlayer],
      pending_connections |-> [c \in Connections |-> NoAccount],
      pending_accounts    |-> {},
      world               |-> EmptyWorld,
      player_sequence     |-> 0,
      tokens              |-> <<>>,  \* the player the n-th token is for
      tasks               |-> <<>>,  \* the pool's queue
      accepting           |-> TRUE,  \* ... and whether it takes tasks
      broken              |-> {},  \* peers that are gone or do not read
      view                |-> [c \in Connections |-> {}],
      presented           |-> [c \in Connections |-> {}],
      last_position       |-> [id \in PlayerIds |-> Nowhere] ]

-----------------------------------------------------------------------------
(* The transport, in GameServer.                                           *)

IsConnected(g, c) == c \in g.conns /\ c \notin g.marked_for_close

\* Send one message to each connection of C.  A peer whose output buffer is
\* full or whose socket fails is only marked; nothing is closed here.  A
\* PlayerEnter or PlayerMove puts players into the client's view, a
\* PlayerLeave takes them out.
Send(g, C, enters, leaves) ==
    LET gone == leaves \cup {v.id : v \in enters}
    IN  [g EXCEPT
          !.marked_for_close = @ \cup (C \cap g.conns \cap g.broken),
          !.view = [c \in Connections |->
                      IF c \in (C \cap g.conns) \ g.broken
                        THEN {v \in @[c] : v.id \notin gone} \cup enters
                        ELSE @[c]]]

\* Mutant of CanSubmit: the comparison lets one task too many in.
CanSubmitOffByOne(g) == g.accepting /\ Len(g.tasks) <= QueueCapacity

\* TrySubmit, as the data service calls it.
CanSubmit(g) == g.accepting /\ Len(g.tasks) < QueueCapacity

Submit(g, op) == [g EXCEPT !.tasks = Append(@, op)]

-----------------------------------------------------------------------------
(* Lookups.                                                                *)

IsOnline(g, id) == g.online_players[id] # Offline

\* Those of the players that PlayerById finds.
Found(g, ids) == {id \in ids : IsOnline(g, id)}

ConnectionsOf(g, ids) == {g.online_players[id].conn : id \in Found(g, ids)}

\* FillView.
ViewsOf(g, ids) ==
    { [id |-> id, position |-> g.online_players[id].record.position] :
        id \in Found(g, ids) }

\* PlayerForConnection is not null.
HasPlayer(g, c) ==
    g.connection_players[c] # NoPlayer /\ IsOnline(g, g.connection_players[c])

\* The test every callback of a login starts with.
StillPending(g, c) ==
    IsConnected(g, c) /\ g.pending_connections[c] # NoAccount

\* pending_accounts_.erase(account); pending_connections_.erase(connection_id)
Forget(g, c, account) ==
    [g EXCEPT !.pending_accounts = @ \ {account},
              !.pending_connections[c] = NoAccount]

-----------------------------------------------------------------------------
(* Leaving.                                                                *)

\* The first part of OnDisconnected, and of FailLogin.
DropPending(g, c) ==
    [g EXCEPT !.pending_accounts = @ \ {g.pending_connections[c]},
              !.pending_connections[c] = NoAccount]

\* Mutant of RemoveOnline: the tables forget the player, the world does not.
RemoveOnlineKeepsWorld(g, c, id) ==
    [g EXCEPT !.online_players[id] = Offline,
              !.connection_players[c] = NoPlayer]

RemoveOnline(g, c, id) ==
    [g EXCEPT !.world = RemovePlayer(@, id),
              !.online_players[id] = Offline,
              !.connection_players[c] = NoPlayer,
              !.last_position[id] = g.online_players[id].record.position]

\* Mutant of SavePosition: the record is not saved.
SaveNothing(g, record) == g

\* The result of SavePlayer is ignored: a full queue loses the position.
SavePosition(g, record) ==
    IF CanSubmit(g) THEN Submit(g, [kind |-> "SavePlayer", player |-> record])
                    ELSE g

\* The second part of OnDisconnected: the player goes, those who saw it are
\* told, and its record is saved.
PlayerLeaves(g, c, id) ==
    LET visible == VisiblePlayers(g.world, id)
        h       == RemoveOnline(g, c, id)
    IN  SavePosition(Send(h, ConnectionsOf(h, visible), {}, {id}),
                     g.online_players[id].record)

\* Mutant of OnDisconnected: nobody is told that the player has left.
OnDisconnectedSilent(g, c) ==
    LET h  == DropPending(g, c)
        id == h.connection_players[c]
    IN  IF id = NoPlayer THEN h
        ELSE SavePosition(RemoveOnline(h, c, id), h.online_players[id].record)

\* Mutant of OnDisconnected: the connection's pending login is not cancelled.
OnDisconnectedKeepsPending(g, c) ==
    IF HasPlayer(g, c) THEN PlayerLeaves(g, c, g.connection_players[c]) ELSE g

OnDisconnected(g, c) ==
    LET h  == DropPending(g, c)
        id == h.connection_players[c]
    IN  CASE id = NoPlayer    -> h
          [] HasPlayer(h, c)  -> PlayerLeaves(h, c, id)
          [] OTHER            -> [h EXCEPT !.connection_players[c] = NoPlayer]

\* Mutant of CloseConnection: the mark that led here stays.
CloseKeepsMark(g, c) ==
    IF c \notin g.conns THEN g
    ELSE [OnDisconnected(g, c) EXCEPT !.conns = @ \ {c},
                                      !.broken = @ \ {c},
                                      !.view[c] = {},
                                      !.presented[c] = {}]

\* CloseConnection, which Disconnect is.  What a client knew goes with it.
CloseConnection(g, c) ==
    IF c \notin g.conns
      THEN [g EXCEPT !.marked_for_close = @ \ {c}]
      ELSE [OnDisconnected(g, c) EXCEPT !.conns = @ \ {c},
                                        !.marked_for_close = @ \ {c},
                                        !.broken = @ \ {c},
                                        !.view[c] = {},
                                        !.presented[c] = {}]

-----------------------------------------------------------------------------
(* Logging in.  Each step ends in a submission, whose callback is the next *)
(* step, or in FailLogin.                                                  *)

\* Mutant of FailLogin: the request is refused, but stays pending.
FailLoginKeepsLock(g, c, account) ==
    IF IsConnected(g, c) THEN Send(g, {c}, {}, {}) ELSE g

FailLogin(g, c, account) ==
    LET h == DropPending([g EXCEPT !.pending_accounts = @ \ {account}], c)
    IN  IF IsConnected(h, c) THEN Send(h, {c}, {}, {}) ELSE h

\* Mutant of FinishLogin: two logins of one player are both let in; the
\* presence of the player is not looked up again after the session is stored.
FinishLoginUnchecked(g, c, player, token, replace) ==
    IF ~StillPending(g, c) THEN Forget(g, c, player.account)
    ELSE LET id == player.id
             h  == [Forget(g, c, player.account) EXCEPT
                      !.connection_players[c] = id,
                      !.online_players[id] = [record |-> player, conn |-> c,
                                              token |-> token],
                      !.world = IF CanAdd(@, id, player.position)
                                  THEN AddPlayer(@, id, player.position)
                                  ELSE @]
             visible == VisiblePlayers(h.world, id)
             told == Send(h, {c}, ViewsOf(h, visible), {})
         IN  Send(told, ConnectionsOf(told, visible), ViewsOf(told, {id}), {})

FinishLogin(g, c, loaded, token, replace) ==
    LET account == loaded.account
        id      == loaded.id
        present == IsOnline(g, id)
        \* An online player's own record replaces the one that was loaded.
        player  == IF present THEN g.online_players[id].record ELSE loaded
        f       == IF present
                     THEN CloseConnection(g, g.online_players[id].conn)
                     ELSE g
        h       == [Forget(f, c, account) EXCEPT
                      !.world = AddPlayer(@, id, player.position),
                      !.connection_players[c] = id,
                      !.online_players[id] =
                          [record |-> player, conn |-> c, token |-> token]]
        visible == VisiblePlayers(h.world, id)
        \* The LoginResponse: self and the players nearby.
        told    == Send(h, {c}, ViewsOf(h, visible), {})
    IN  CASE ~StillPending(g, c) -> Forget(g, c, account)
          [] StillPending(g, c) /\ present /\ ~replace ->
               FailLogin(g, c, account)
          [] StillPending(g, c) /\ (present => replace)
                 /\ ~CanAdd(f.world, id, player.position) ->
               FailLogin(f, c, account)
          [] OTHER ->
               Send(told, ConnectionsOf(told, visible), ViewsOf(told, {id}), {})

StoreSessionAndFinish(g, c, player, replace) ==
    IF ~StillPending(g, c) THEN Forget(g, c, player.account)
    ELSE IF IsOnline(g, player.id) /\ ~replace
      THEN FailLogin(g, c, player.account)
    ELSE LET token == Len(g.tokens) + 1
             h     == [g EXCEPT !.tokens = Append(@, player.id)]
         IN  IF CanSubmit(h)
               THEN Submit(h, [kind |-> "StoreSession", conn |-> c,
                               player |-> player, token |-> token,
                               replace |-> replace])
               ELSE FailLogin(h, c, player.account)

\* newly_created is left out: a new player comes here without a token, so the
\* callback of LoadSession never sees it set.
ContinueLogin(g, c, player, token) ==
    IF ~StillPending(g, c) THEN Forget(g, c, player.account)
    ELSE IF token = NoToken THEN StoreSessionAndFinish(g, c, player, FALSE)
    ELSE IF CanSubmit(g)
      THEN Submit(g, [kind |-> "LoadSession", conn |-> c, player |-> player,
                      token |-> token])
      ELSE FailLogin(g, c, player.account)

\* NewPlayer: an id that no player has had (the clock and a sequence).
NewPlayer(g, account) ==
    [id |-> g.player_sequence + 1, account |-> account, position |-> Start]

HandleLogin(g, c, account, token) ==
    IF \/ account = NoAccount
       \/ g.connection_players[c] # NoPlayer
       \/ g.pending_connections[c] # NoAccount
       \/ account \in g.pending_accounts
      THEN FailLogin(g, c, NoAccount)
      ELSE LET h == [g EXCEPT !.pending_connections[c] = account,
                              !.pending_accounts = @ \cup {account}]
           IN  IF CanSubmit(h)
                 THEN Submit(h, [kind |-> "LoadPlayer", conn |-> c,
                                 account |-> account, token |-> token])
                 ELSE FailLogin(h, c, account)

-----------------------------------------------------------------------------
(* The callbacks, one per kind of operation.  result is the record or the  *)
(* token that was loaded, "ok", "not_found" or "failed".                   *)

PlayerNotFound(g, op) ==
    LET player == NewPlayer(g, op.account)
        h      == [g EXCEPT !.player_sequence = player.id]
    IN  IF op.token = NoToken /\ CanSubmit(h)
          THEN Submit(h, [kind |-> "CreatePlayer", conn |-> op.conn,
                          player |-> player])
          ELSE FailLogin(h, op.conn, op.account)

OnPlayerLoaded(g, op, status, value) ==
    IF ~StillPending(g, op.conn) THEN Forget(g, op.conn, op.account)
    ELSE CASE status = "ok"        -> ContinueLogin(g, op.conn, value, op.token)
           [] status = "failed"    -> FailLogin(g, op.conn, op.account)
           [] status = "not_found" -> PlayerNotFound(g, op)

OnPlayerCreated(g, op, status) ==
    IF status = "ok" THEN ContinueLogin(g, op.conn, op.player, NoToken)
                     ELSE FailLogin(g, op.conn, op.player.account)

\* Mutant of OnSessionLoaded: the token is not compared.
OnSessionLoadedTrusting(g, op, status, value) ==
    IF status = "ok"
      THEN StoreSessionAndFinish(g, op.conn, op.player, TRUE)
      ELSE FailLogin(g, op.conn, op.player.account)

OnSessionLoaded(g, op, status, value) ==
    IF status = "ok" /\ value = op.token
      THEN StoreSessionAndFinish(g, op.conn, op.player, TRUE)
      ELSE FailLogin(g, op.conn, op.player.account)

OnSessionStored(g, op, status) ==
    IF status = "ok"
      THEN FinishLogin(g, op.conn, op.player, op.token, op.replace)
      ELSE FailLogin(g, op.conn, op.player.account)

Complete(g, done) ==
    CASE done.op.kind = "LoadPlayer" ->
           OnPlayerLoaded(g, done.op, done.status, done.value)
      [] done.op.kind = "CreatePlayer" ->
           OnPlayerCreated(g, done.op, done.status)
      [] done.op.kind = "LoadSession" ->
           OnSessionLoaded(g, done.op, done.status, done.value)
      [] done.op.kind = "StoreSession" ->
           OnSessionStored(g, done.op, done.status)
      [] done.op.kind = "SavePlayer" -> g

-----------------------------------------------------------------------------
(* The other messages.                                                     *)

\* A broadcast to everyone online.  Its text is of no consequence.
HandleChat(g, c) ==
    IF HasPlayer(g, c) THEN Send(g, ConnectionsOf(g, PlayerIds), {}, {}) ELSE g

\* Messages about others, to the mover; none if there is nothing to say.
SendMover(g, c, enters, leaves) ==
    IF enters = {} /\ leaves = {} THEN g ELSE Send(g, {c}, enters, leaves)

\* Mutant of HandleMove: those who keep the mover in view are not told.
HandleMoveSilent(g, c, position) ==
    LET id == g.connection_players[c]
        h  == [g EXCEPT !.world = MovePlayer(@, id, position),
                        !.online_players[id].record.position = position]
        delta   == ViewDelta(g.world, h.world, id)
        entered == Send(h, ConnectionsOf(h, delta.entered), ViewsOf(h, {id}), {})
        left    == Send(entered, ConnectionsOf(h, delta.left), {}, {id})
    IN  IF HasPlayer(g, c) /\ CanMove(g.world, id, position)
          THEN SendMover(left, c, ViewsOf(h, delta.entered), Found(h, delta.left))
          ELSE g

HandleMove(g, c, position) ==
    LET id == g.connection_players[c]
        h  == [g EXCEPT !.world = MovePlayer(@, id, position),
                        !.online_players[id].record.position = position]
        delta   == ViewDelta(g.world, h.world, id)
        mover   == ViewsOf(h, {id})
        \* PlayerMove to those who stay; PlayerEnter, PlayerLeave both ways.
        stayed  == Send(h, ConnectionsOf(h, delta.stayed), mover, {})
        entered == Send(stayed, ConnectionsOf(h, delta.entered), mover, {})
        left    == Send(entered, ConnectionsOf(h, delta.left), {}, {id})
    IN  IF HasPlayer(g, c) /\ CanMove(g.world, id, position)
          THEN SendMover(left, c, ViewsOf(h, delta.entered), Found(h, delta.left))
          ELSE g

HandleHeartbeat(g, c) == Send(g, {c}, {}, {})
=============================================================================
