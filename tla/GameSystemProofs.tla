--------------------------- MODULE GameSystemProofs --------------------------
(***************************************************************************)
(* The game's tables, for every number of connections, players, workers    *)
(* and requests: they agree with each other and with the world after every *)
(* handler, whatever the order of the callbacks; and a login in progress   *)
(* always has an operation under way.                                      *)
(***************************************************************************)
EXTENDS GameSystem, SequenceTheorems, TLAPS

-----------------------------------------------------------------------------
(* The invariant, in parts that speak of one game record.                  *)

GameFields ==
    { "conns", "marked_for_close", "online_players", "connection_players",
      "pending_connections", "pending_accounts", "world", "player_sequence",
      "tokens", "tasks", "accepting", "broken", "view", "presented",
      "last_position" }

\* An entry of online_players_.
Entries == [record : Records, conn : Connections, token : Tokens]

LoadPlayerOps == [kind : {"LoadPlayer"}, conn : Connections, account : Accounts,
                  token : 0 .. MaxLogins + 1]
CreatePlayerOps == [kind : {"CreatePlayer"}, conn : Connections, player : Records]
LoadSessionOps == [kind : {"LoadSession"}, conn : Connections, player : Records,
                   token : 1 .. MaxLogins + 1]
StoreSessionOps == [kind : {"StoreSession"}, conn : Connections, player : Records,
                    token : Tokens, replace : BOOLEAN]
SavePlayerOps == [kind : {"SavePlayer"}, player : Records]

AllOps ==
    LoadPlayerOps \cup CreatePlayerOps \cup LoadSessionOps \cup StoreSessionOps
        \cup SavePlayerOps

\* The types of the event-loop thread's state, as far as the tables need them.
GameTypeOK(g) ==
    /\ DOMAIN g = GameFields
    /\ g.conns \subseteq Connections
    /\ g.marked_for_close \subseteq g.conns
    /\ g.online_players \in [PlayerIds -> {Offline} \cup Entries]
    /\ g.connection_players \in [Connections -> PlayerIds \cup {NoPlayer}]
    /\ g.pending_connections \in [Connections -> Accounts \cup {NoAccount}]
    /\ g.pending_accounts \subseteq Accounts
    /\ g.player_sequence \in Nat
    /\ g.tokens \in Seq(PlayerIds)
    /\ g.tasks \in Seq(AllOps)
    /\ Len(g.tasks) <= QueueCapacity

\* TablesAgree, for any game record.
Agree(g) ==
    /\ \A c \in Connections :
         g.connection_players[c] # NoPlayer =>
             /\ c \in g.conns
             /\ g.online_players[g.connection_players[c]].conn = c
    /\ \A id \in PlayerIds :
         /\ id \in DOMAIN g.world.players <=> g.online_players[id] # Offline
         /\ g.online_players[id] # Offline =>
              /\ g.connection_players[g.online_players[id].conn] = id
              /\ g.online_players[id].record.id = id
              /\ g.world.players[id].position = g.online_players[id].record.position

\* A connection that waits for its login is open and has no player yet.
PendingFree(g) ==
    \A c \in Connections :
        g.pending_connections[c] # NoAccount =>
            c \in g.conns /\ g.connection_players[c] = NoPlayer

GameInv(g) == GameTypeOK(g) /\ Agree(g) /\ PendingFree(g)

\* The results of operations: a record that was loaded is the account's.
Results ==
    [op : AllOps, status : {"ok", "not_found", "failed"},
     value : Records \cup {NoRecord} \cup Tokens \cup {NoToken}]

ResultOK(r) ==
    r.op.kind = "LoadPlayer" /\ r.status = "ok" =>
        r.value \in Records /\ r.value.account = r.op.account

\* What a worker has in hand.
Hands ==
    {Idle} \cup [stage : {"taken"}, op : AllOps]
           \cup [stage : {"done"}, op : AllOps, status : {"ok", "not_found", "failed"},
                 value : Records \cup {NoRecord} \cup Tokens \cup {NoToken}]

\* The inductive invariant.
SystemInv ==
    /\ GameInv(game)
    /\ WithinBounds(game)
    /\ running \in [Workers -> Hands]
    /\ \A w \in Workers : running[w].stage = "done" => ResultOK(running[w])
    /\ completions \in Seq(Results)
    /\ \A i \in 1 .. Len(completions) : ResultOK(completions[i])
    /\ players \in [Accounts -> Records \cup {NoRecord}]
    /\ \A a \in Accounts : players[a] # NoRecord => players[a].account = a
    /\ sessions \in [PlayerIds -> Tokens \cup {NoToken}]
    /\ phase \in Phases
    /\ accepted \in Nat
    /\ current \in Connections \cup {NoConnection}

-----------------------------------------------------------------------------
(* What the small steps of the handlers change.                            *)

LEMMA NothingIsNothing ==
    /\ NoPlayer \notin PlayerIds
    /\ NoConnection \notin Connections
    /\ NoToken \notin Tokens
    /\ Offline \notin Entries
    /\ NoAccount \notin Accounts
<1>1. NoPlayer \notin PlayerIds /\ NoToken \notin Tokens /\ NoConnection \notin Connections
    BY GameAssumption DEF NoPlayer, NoToken, NoConnection, PlayerIds, Tokens
<1>2. Offline \notin Entries
    BY <1>1 DEF Offline, Entries
<1> QED  BY <1>1, <1>2, GameAssumption

\* The operations in the queue of the database pool.
Queued(g) == {g.tasks[i] : i \in 1 .. Len(g.tasks)}

\* A step that starts no login and takes no operation out of the queue.
Shrinks(g, h) ==
    /\ \A c \in Connections : \/ h.pending_connections[c] = NoAccount
                              \/ h.pending_connections[c] = g.pending_connections[c]
    /\ h.pending_accounts \subseteq g.pending_accounts
    /\ Queued(g) \subseteq Queued(h)

\* The account a login operation is for is that of its request or its record.
OfLogin(op, c, a) == op.kind # "SavePlayer" /\ op.conn = c /\ AccountOf(op) = a

\* A login has come to its end; or it goes on with an operation that is queued.
Settled(h, c, a) == h.pending_connections[c] = NoAccount /\ a \notin h.pending_accounts
GoesOn(h, c, a) == \E op \in Queued(h) : OfLogin(op, c, a)

LEMMA SamePending ==
    ASSUME NEW g, NEW h, h.pending_connections = g.pending_connections,
           h.pending_accounts = g.pending_accounts, h.tasks = g.tasks
    PROVE  Shrinks(g, h)
BY DEF Shrinks, Queued

LEMMA ShrinksOn ==
    ASSUME NEW g, NEW h, NEW k, Shrinks(g, h), Shrinks(h, k)
    PROVE  /\ Shrinks(g, k)
           /\ \A c \in Connections : \A a : Settled(h, c, a) => Settled(k, c, a)
           /\ \A c, a : GoesOn(h, c, a) => GoesOn(k, c, a)
BY DEF Shrinks, Settled, GoesOn

\* A login advances: it ends or goes on, and no other is disturbed.
Advances(g, h, c, a) == Shrinks(g, h) /\ (Settled(h, c, a) \/ GoesOn(h, c, a))

\* A login starts: only its connection and its account are new among the
\* pending ones, and its first operation is queued.
Starts(g, h, c, a) ==
    /\ \A d \in Connections \ {c} : \/ h.pending_connections[d] = NoAccount
                                    \/ h.pending_connections[d] = g.pending_connections[d]
    /\ h.pending_connections[c] \in {NoAccount, a}
    /\ h.pending_accounts \subseteq g.pending_accounts \cup {a}
    /\ Queued(g) \subseteq Queued(h)
    /\ GoesOn(h, c, a)

LEMMA AdvancesFrom ==
    ASSUME NEW g, NEW h, NEW k, NEW c \in Connections, NEW a, Shrinks(g, h), Advances(h, k, c, a)
    PROVE  Advances(g, k, c, a)
BY ShrinksOn DEF Advances

LEMMA QueuedAppend ==
    ASSUME NEW g, NEW h, NEW op, g.tasks \in Seq(AllOps), op \in AllOps,
           h.tasks = Append(g.tasks, op)
    PROVE  Queued(g) \subseteq Queued(h) /\ op \in Queued(h)
<1>1. /\ Len(h.tasks) = Len(g.tasks) + 1 /\ h.tasks[Len(g.tasks) + 1] = op
      /\ \A i \in 1 .. Len(g.tasks) : h.tasks[i] = g.tasks[i]
    BY AppendProperties
<1>2. Len(g.tasks) \in Nat
    BY LenProperties
<1>3. Len(g.tasks) + 1 \in 1 .. Len(h.tasks) /\ 1 .. Len(g.tasks) \subseteq 1 .. Len(h.tasks)
    BY <1>1, <1>2
<1> QED  BY <1>1, <1>3 DEF Queued

\* The fields a Send leaves alone; it marks connections, and only open ones.
LEMMA SendFrame ==
    ASSUME NEW g, DOMAIN g = GameFields, NEW C, NEW enters, NEW leaves
    PROVE  LET h == Send(g, C, enters, leaves)
           IN  /\ DOMAIN h = GameFields
               /\ h.conns = g.conns
               /\ h.marked_for_close \subseteq g.marked_for_close \cup g.conns
               /\ g.marked_for_close \subseteq h.marked_for_close
               /\ h.online_players = g.online_players
               /\ h.connection_players = g.connection_players
               /\ h.pending_connections = g.pending_connections
               /\ h.pending_accounts = g.pending_accounts
               /\ h.world = g.world
               /\ h.player_sequence = g.player_sequence
               /\ h.tokens = g.tokens
               /\ h.tasks = g.tasks
               /\ h.accepting = g.accepting
BY DEF Send, GameFields

LEMMA SubmitFrame ==
    ASSUME NEW g, DOMAIN g = GameFields, NEW op
    PROVE  LET h == Submit(g, op)
           IN  /\ DOMAIN h = GameFields
               /\ h.conns = g.conns
               /\ h.marked_for_close = g.marked_for_close
               /\ h.online_players = g.online_players
               /\ h.connection_players = g.connection_players
               /\ h.pending_connections = g.pending_connections
               /\ h.pending_accounts = g.pending_accounts
               /\ h.world = g.world
               /\ h.player_sequence = g.player_sequence
               /\ h.tokens = g.tokens
               /\ h.tasks = Append(g.tasks, op)
               /\ h.accepting = g.accepting
BY DEF Submit, GameFields

\* A game record that has the tables of another, and no pending login that
\* the other has not, satisfies the invariant with it.
LEMMA SameTables ==
    ASSUME NEW g, NEW h, GameInv(g),
           DOMAIN h = GameFields,
           h.conns = g.conns,
           h.marked_for_close \subseteq g.conns,
           h.online_players = g.online_players,
           h.connection_players = g.connection_players,
           h.world = g.world,
           h.pending_connections \in [Connections -> Accounts \cup {NoAccount}],
           \A c \in Connections : \/ h.pending_connections[c] = NoAccount
                                  \/ h.pending_connections[c] = g.pending_connections[c],
           h.pending_accounts \subseteq Accounts,
           h.player_sequence \in Nat,
           h.tokens \in Seq(PlayerIds),
           h.tasks \in Seq(AllOps),
           Len(h.tasks) <= QueueCapacity
    PROVE  GameInv(h)
<1>1. GameTypeOK(h)
    BY DEF GameInv, GameTypeOK
<1>2. Agree(h)
    BY DEF GameInv, Agree
<1>3. PendingFree(h)
    BY DEF GameInv, PendingFree
<1> QED  BY <1>1, <1>2, <1>3 DEF GameInv

LEMMA SendKeepsInv ==
    ASSUME NEW g, GameInv(g), NEW C, NEW enters, NEW leaves
    PROVE  GameInv(Send(g, C, enters, leaves)) /\ Shrinks(g, Send(g, C, enters, leaves))
<1>1. DOMAIN g = GameFields
    BY DEF GameInv, GameTypeOK
<1> DEFINE h == Send(g, C, enters, leaves)
<1>2. /\ DOMAIN h = GameFields
      /\ h.conns = g.conns
      /\ h.marked_for_close \subseteq g.marked_for_close \cup g.conns
      /\ h.online_players = g.online_players
      /\ h.connection_players = g.connection_players
      /\ h.pending_connections = g.pending_connections
      /\ h.pending_accounts = g.pending_accounts
      /\ h.world = g.world
      /\ h.player_sequence = g.player_sequence
      /\ h.tokens = g.tokens
      /\ h.tasks = g.tasks
    BY <1>1, SendFrame
<1> HIDE DEF h
<1>3. /\ g.marked_for_close \subseteq g.conns
      /\ g.pending_connections \in [Connections -> Accounts \cup {NoAccount}]
      /\ g.pending_accounts \subseteq Accounts
      /\ g.player_sequence \in Nat
      /\ g.tokens \in Seq(PlayerIds)
      /\ g.tasks \in Seq(AllOps)
      /\ Len(g.tasks) <= QueueCapacity
    BY DEF GameInv, GameTypeOK
<1>4. h.marked_for_close \subseteq g.conns
    BY <1>2, <1>3
<1>5. GameInv(h)
    BY <1>2, <1>3, <1>4, SameTables
<1>6. Shrinks(g, h)
    BY <1>2, SamePending
<1> QED  BY <1>5, <1>6 DEF h

\* A task that TrySubmit takes fits into the queue.
LEMMA SubmitKeepsInv ==
    ASSUME NEW g, GameInv(g), NEW op \in AllOps, CanSubmit(g)
    PROVE  /\ GameInv(Submit(g, op)) /\ Shrinks(g, Submit(g, op))
           /\ op \in Queued(Submit(g, op))
<1>1. DOMAIN g = GameFields
    BY DEF GameInv, GameTypeOK
<1> DEFINE h == Submit(g, op)
<1>2. /\ DOMAIN h = GameFields
      /\ h.conns = g.conns
      /\ h.marked_for_close = g.marked_for_close
      /\ h.online_players = g.online_players
      /\ h.connection_players = g.connection_players
      /\ h.pending_connections = g.pending_connections
      /\ h.pending_accounts = g.pending_accounts
      /\ h.world = g.world
      /\ h.player_sequence = g.player_sequence
      /\ h.tokens = g.tokens
      /\ h.tasks = Append(g.tasks, op)
    BY <1>1, SubmitFrame
<1> HIDE DEF h
<1>3. /\ g.marked_for_close \subseteq g.conns
      /\ g.pending_connections \in [Connections -> Accounts \cup {NoAccount}]
      /\ g.pending_accounts \subseteq Accounts
      /\ g.player_sequence \in Nat
      /\ g.tokens \in Seq(PlayerIds)
      /\ g.tasks \in Seq(AllOps)
    BY DEF GameInv, GameTypeOK
<1>4. h.tasks \in Seq(AllOps) /\ Len(h.tasks) = Len(g.tasks) + 1
    BY <1>2, <1>3, AppendProperties
<1>5. Len(h.tasks) <= QueueCapacity
    <2>1. Len(g.tasks) \in Nat /\ Len(g.tasks) < QueueCapacity
        BY <1>3, LenProperties DEF CanSubmit
    <2> QED  BY <1>4, <2>1, GameAssumption
<1>6. GameInv(h)
    BY <1>2, <1>3, <1>4, <1>5, SameTables
<1>7. Queued(g) \subseteq Queued(h) /\ op \in Queued(h)
    BY <1>2, <1>3, QueuedAppend
<1>8. Shrinks(g, h)
    BY <1>2, <1>7 DEF Shrinks
<1> QED  BY <1>6, <1>7, <1>8 DEF h

\* What the end of a login leaves as it was.
TablesKept(g, h) ==
    /\ h.conns = g.conns
    /\ h.online_players = g.online_players
    /\ h.connection_players = g.connection_players
    /\ h.world = g.world
    /\ h.player_sequence = g.player_sequence
    /\ h.tokens = g.tokens

\* The login of a connection is forgotten, and some accounts are unlocked.
Dropped(g, c, A) ==
    [g EXCEPT !.pending_accounts = @ \ A, !.pending_connections[c] = NoAccount]

LEMMA PendingDropped ==
    ASSUME NEW g, GameInv(g), NEW c \in Connections, NEW A
    PROVE  LET h == Dropped(g, c, A)
           IN  /\ GameInv(h)
               /\ TablesKept(g, h)
               /\ h.marked_for_close = g.marked_for_close
               /\ h.tasks = g.tasks
               /\ h.accepting = g.accepting
               /\ h.pending_accounts = g.pending_accounts \ A
               /\ h.pending_connections = [g.pending_connections EXCEPT ![c] = NoAccount]
               /\ Shrinks(g, h)
               /\ \A a : a \in A \/ a \notin g.pending_accounts => Settled(h, c, a)
<1> DEFINE h == Dropped(g, c, A)
<1>1. /\ DOMAIN g = GameFields
      /\ g.marked_for_close \subseteq g.conns
      /\ g.pending_connections \in [Connections -> Accounts \cup {NoAccount}]
      /\ g.pending_accounts \subseteq Accounts
      /\ g.player_sequence \in Nat
      /\ g.tokens \in Seq(PlayerIds)
      /\ g.tasks \in Seq(AllOps)
      /\ Len(g.tasks) <= QueueCapacity
    BY DEF GameInv, GameTypeOK
<1>2. /\ DOMAIN h = GameFields
      /\ h.conns = g.conns
      /\ h.marked_for_close = g.marked_for_close
      /\ h.online_players = g.online_players
      /\ h.connection_players = g.connection_players
      /\ h.world = g.world
      /\ h.player_sequence = g.player_sequence
      /\ h.tokens = g.tokens
      /\ h.tasks = g.tasks
      /\ h.accepting = g.accepting
      /\ h.pending_accounts = g.pending_accounts \ A
      /\ h.pending_connections = [g.pending_connections EXCEPT ![c] = NoAccount]
    BY <1>1 DEF GameFields, Dropped
<1> HIDE DEF h
<1>3. /\ h.pending_connections \in [Connections -> Accounts \cup {NoAccount}]
      /\ \A d \in Connections : \/ h.pending_connections[d] = NoAccount
                                \/ h.pending_connections[d] = g.pending_connections[d]
      /\ h.pending_accounts \subseteq Accounts
    BY <1>1, <1>2
<1>4. GameInv(h)
    BY <1>1, <1>2, <1>3, SameTables
<1>5. Shrinks(g, h)
    BY <1>2, <1>3 DEF Shrinks, Queued
<1>6. \A a : a \in A \/ a \notin g.pending_accounts => Settled(h, c, a)
    BY <1>1, <1>2 DEF Settled
<1> QED  BY <1>2, <1>4, <1>5, <1>6 DEF h, TablesKept

LEMMA ForgetKeepsInv ==
    ASSUME NEW g, GameInv(g), NEW c \in Connections, NEW account
    PROVE  /\ GameInv(Forget(g, c, account))
           /\ TablesKept(g, Forget(g, c, account))
           /\ Forget(g, c, account).pending_connections
                = [g.pending_connections EXCEPT ![c] = NoAccount]
           /\ Shrinks(g, Forget(g, c, account))
           /\ Settled(Forget(g, c, account), c, account)
<1> DEFINE A == {account}
<1>1. Forget(g, c, account) = Dropped(g, c, A)
    BY DEF Forget, Dropped
<1> HIDE DEF A
<1>2. /\ GameInv(Dropped(g, c, A)) /\ TablesKept(g, Dropped(g, c, A))
      /\ Dropped(g, c, A).pending_connections
           = [g.pending_connections EXCEPT ![c] = NoAccount]
      /\ Shrinks(g, Dropped(g, c, A))
      /\ \A a : a \in A \/ a \notin g.pending_accounts => Settled(Dropped(g, c, A), c, a)
    BY PendingDropped
<1>3. account \in A
    BY DEF A
<1> QED  BY <1>1, <1>2, <1>3

LEMMA DropPendingKeepsInv ==
    ASSUME NEW g, GameInv(g), NEW c \in Connections
    PROVE  /\ GameInv(DropPending(g, c))
           /\ TablesKept(g, DropPending(g, c))
           /\ DropPending(g, c).marked_for_close = g.marked_for_close
           /\ DropPending(g, c).pending_connections
                = [g.pending_connections EXCEPT ![c] = NoAccount]
           /\ Shrinks(g, DropPending(g, c))
           /\ \A a : a \notin g.pending_accounts => Settled(DropPending(g, c), c, a)
<1> DEFINE A == {g.pending_connections[c]}
<1>1. DropPending(g, c) = Dropped(g, c, A)
    BY DEF DropPending, Dropped
<1> HIDE DEF A
<1> QED  BY <1>1, PendingDropped

\* An account is unlocked.
LEMMA UnlockKeepsInv ==
    ASSUME NEW g, GameInv(g), NEW A
    PROVE  LET h == [g EXCEPT !.pending_accounts = @ \ A]
           IN  GameInv(h) /\ TablesKept(g, h) /\ Shrinks(g, h)
<1> DEFINE h == [g EXCEPT !.pending_accounts = @ \ A]
<1>1. /\ DOMAIN g = GameFields
      /\ g.marked_for_close \subseteq g.conns
      /\ g.pending_connections \in [Connections -> Accounts \cup {NoAccount}]
      /\ g.pending_accounts \subseteq Accounts
      /\ g.player_sequence \in Nat
      /\ g.tokens \in Seq(PlayerIds)
      /\ g.tasks \in Seq(AllOps)
      /\ Len(g.tasks) <= QueueCapacity
    BY DEF GameInv, GameTypeOK
<1>2. /\ DOMAIN h = GameFields
      /\ h.conns = g.conns
      /\ h.marked_for_close = g.marked_for_close
      /\ h.online_players = g.online_players
      /\ h.connection_players = g.connection_players
      /\ h.world = g.world
      /\ h.player_sequence = g.player_sequence
      /\ h.tokens = g.tokens
      /\ h.tasks = g.tasks
      /\ h.pending_accounts = g.pending_accounts \ A
      /\ h.pending_connections = g.pending_connections
    BY <1>1 DEF GameFields
<1> HIDE DEF h
<1>3. GameInv(h)
    BY <1>1, <1>2, SameTables
<1>4. Shrinks(g, h)
    BY <1>2 DEF Shrinks, Queued
<1> QED  BY <1>2, <1>3, <1>4 DEF h, TablesKept

LEMMA FailLoginKeepsInv ==
    ASSUME NEW g, GameInv(g), NEW c \in Connections, NEW account
    PROVE  /\ GameInv(FailLogin(g, c, account)) /\ TablesKept(g, FailLogin(g, c, account))
           /\ Shrinks(g, FailLogin(g, c, account))
           /\ Settled(FailLogin(g, c, account), c, account)
<1> DEFINE u == [g EXCEPT !.pending_accounts = @ \ {account}]
           h == DropPending(u, c)
           s == Send(h, {c}, {}, {})
<1>1. GameInv(u) /\ TablesKept(g, u) /\ Shrinks(g, u) /\ account \notin u.pending_accounts
    <2>1. GameInv(u) /\ TablesKept(g, u) /\ Shrinks(g, u)
        BY UnlockKeepsInv
    <2>2. account \notin u.pending_accounts
        BY DEF GameInv, GameTypeOK, GameFields
    <2> QED  BY <2>1, <2>2
<1> HIDE DEF u
<1>2. GameInv(h) /\ TablesKept(u, h) /\ Shrinks(u, h) /\ Settled(h, c, account)
    BY <1>1, DropPendingKeepsInv
<1> HIDE DEF h
<1>3. GameInv(s) /\ Shrinks(h, s)
    BY <1>2, SendKeepsInv
<1>4. TablesKept(h, s)
    BY <1>2, SendFrame DEF TablesKept, GameInv, GameTypeOK
<1> HIDE DEF s
<1>5. TablesKept(g, h) /\ TablesKept(g, s)
    BY <1>1, <1>2, <1>4 DEF TablesKept
<1>6. FailLogin(g, c, account) = IF IsConnected(h, c) THEN s ELSE h
    BY DEF FailLogin, u, h, s
<1>7. /\ Shrinks(g, h) /\ Settled(h, c, account)
      /\ Shrinks(g, s) /\ Settled(s, c, account)
    BY <1>1, <1>2, <1>3, ShrinksOn
<1> QED  BY <1>2, <1>3, <1>5, <1>6, <1>7

\* The record of a player is saved if the queue has room.
LEMMA SavePositionKeepsInv ==
    ASSUME NEW g, GameInv(g), NEW record \in Records
    PROVE  /\ GameInv(SavePosition(g, record))
           /\ TablesKept(g, SavePosition(g, record))
           /\ SavePosition(g, record).pending_connections = g.pending_connections
           /\ SavePosition(g, record).marked_for_close = g.marked_for_close
           /\ Shrinks(g, SavePosition(g, record))
<1> DEFINE op == [kind |-> "SavePlayer", player |-> record]
           h == Submit(g, op)
<1>1. op \in AllOps
    BY DEF AllOps, SavePlayerOps
<1>2. CASE CanSubmit(g)
    <2>1. GameInv(h) /\ Shrinks(g, h)
        BY <1>1, <1>2, SubmitKeepsInv
    <2>2. DOMAIN g = GameFields
        BY DEF GameInv, GameTypeOK
    <2> HIDE DEF op
    <2>3. /\ TablesKept(g, h) /\ h.pending_connections = g.pending_connections
          /\ h.marked_for_close = g.marked_for_close
        BY <2>2, SubmitFrame DEF TablesKept
    <2>4. SavePosition(g, record) = h
        BY <1>2 DEF SavePosition, op
    <2> QED  BY <2>1, <2>3, <2>4
<1>3. CASE ~CanSubmit(g)
    BY <1>3, SamePending DEF SavePosition, TablesKept
<1> QED  BY <1>2, <1>3

-----------------------------------------------------------------------------
(* Leaving.                                                                *)

\* The tables without the player of this connection.
WithoutPlayerOf(g, h, c) ==
    /\ h.connection_players = [g.connection_players EXCEPT ![c] = NoPlayer]
    /\ h.online_players =
         [id \in PlayerIds |-> IF g.online_players[id].conn = c
                                 THEN Offline ELSE g.online_players[id]]
    /\ h.player_sequence = g.player_sequence
    /\ h.tokens = g.tokens

\* Whoever is online on a connection is the player of that connection.
LEMMA PlayerOfConnection ==
    ASSUME NEW g, GameInv(g), NEW c \in Connections
    PROVE  /\ \A id \in PlayerIds :
                g.online_players[id].conn = c <=> g.connection_players[c] = id
           /\ g.connection_players[c] # NoPlayer =>
                /\ g.connection_players[c] \in PlayerIds
                /\ c \in g.conns
                /\ g.online_players[g.connection_players[c]] \in Entries
                /\ g.online_players[g.connection_players[c]] # Offline
                /\ g.connection_players[c] \in DOMAIN g.world.players
<1>1. /\ g.online_players \in [PlayerIds -> {Offline} \cup Entries]
      /\ g.connection_players \in [Connections -> PlayerIds \cup {NoPlayer}]
      /\ Agree(g)
    BY DEF GameInv, GameTypeOK
<1>2. Offline.conn \notin Connections
    BY NothingIsNothing DEF Offline
<1>3. ASSUME NEW id \in PlayerIds, g.online_players[id].conn = c
      PROVE  g.connection_players[c] = id
    <2>1. g.online_players[id] # Offline
        BY <1>2, <1>3
    <2> QED  BY <1>1, <1>3, <2>1 DEF Agree
<1>4. ASSUME NEW id \in PlayerIds, g.connection_players[c] = id
      PROVE  /\ g.online_players[id].conn = c /\ c \in g.conns
             /\ g.online_players[id] # Offline /\ g.online_players[id] \in Entries
             /\ id \in DOMAIN g.world.players
    <2>1. id # NoPlayer
        BY NothingIsNothing
    <2>2. g.online_players[id].conn = c /\ c \in g.conns
        BY <1>1, <1>4, <2>1 DEF Agree
    <2>3. g.online_players[id] # Offline
        BY <1>2, <2>2
    <2>4. id \in DOMAIN g.world.players
        BY <1>1, <2>3 DEF Agree
    <2> QED  BY <1>1, <2>2, <2>3, <2>4
<1>5. g.connection_players[c] # NoPlayer => g.connection_players[c] \in PlayerIds
    BY <1>1
<1> QED  BY <1>3, <1>4, <1>5

\* RemoveOnline takes the player out of online_players_, of
\* connection_players_ and of the world.
LEMMA RemoveOnlineKeepsInv ==
    ASSUME NEW g, GameInv(g), NEW c \in Connections, NEW id \in PlayerIds,
           g.connection_players[c] = id
    PROVE  LET h == RemoveOnline(g, c, id)
           IN  /\ GameInv(h)
               /\ WithoutPlayerOf(g, h, c)
               /\ h.conns = g.conns
               /\ h.marked_for_close = g.marked_for_close
               /\ h.pending_connections = g.pending_connections
               /\ Shrinks(g, h)
<1> DEFINE h == RemoveOnline(g, c, id)
<1>1. /\ DOMAIN g = GameFields
      /\ g.online_players \in [PlayerIds -> {Offline} \cup Entries]
      /\ g.connection_players \in [Connections -> PlayerIds \cup {NoPlayer}]
    BY DEF GameInv, GameTypeOK
<1>2. /\ DOMAIN h = GameFields
      /\ h.conns = g.conns
      /\ h.marked_for_close = g.marked_for_close
      /\ h.online_players = [g.online_players EXCEPT ![id] = Offline]
      /\ h.connection_players = [g.connection_players EXCEPT ![c] = NoPlayer]
      /\ h.pending_connections = g.pending_connections
      /\ h.pending_accounts = g.pending_accounts
      /\ h.player_sequence = g.player_sequence
      /\ h.tokens = g.tokens
      /\ h.tasks = g.tasks
      /\ h.world = RemovePlayer(g.world, id)
    BY <1>1 DEF RemoveOnline, GameFields
<1> HIDE DEF h
<1>3. h.world.players = [i \in DOMAIN g.world.players \ {id} |-> g.world.players[i]]
    BY <1>2 DEF RemovePlayer
<1>4. /\ DOMAIN h.world.players = DOMAIN g.world.players \ {id}
      /\ \A i \in DOMAIN h.world.players : h.world.players[i] = g.world.players[i]
    BY <1>3
<1>5. \A i \in PlayerIds : g.online_players[i].conn = c <=> i = id
    BY PlayerOfConnection
<1>6. /\ h.online_players[id] = Offline
      /\ \A i \in PlayerIds \ {id} : h.online_players[i] = g.online_players[i]
      /\ h.connection_players[c] = NoPlayer
      /\ \A d \in Connections \ {c} : h.connection_players[d] = g.connection_players[d]
    BY <1>1, <1>2
<1>7. GameTypeOK(h)
    <2>1. /\ h.online_players \in [PlayerIds -> {Offline} \cup Entries]
          /\ h.connection_players \in [Connections -> PlayerIds \cup {NoPlayer}]
        BY <1>1, <1>2
    <2> QED  BY <1>2, <2>1 DEF GameInv, GameTypeOK
<1>8. Agree(h)
    <2>1. ASSUME NEW d \in Connections, h.connection_players[d] # NoPlayer
          PROVE  /\ d \in h.conns
                 /\ h.online_players[h.connection_players[d]].conn = d
        <3>1. d # c /\ h.connection_players[d] = g.connection_players[d]
            BY <1>6, <2>1
        <3>2. /\ d \in g.conns /\ g.connection_players[d] \in PlayerIds
              /\ g.online_players[g.connection_players[d]].conn = d
            BY <2>1, <3>1, <1>1 DEF GameInv, Agree
        <3>3. g.connection_players[d] # id
            BY <1>5, <3>1, <3>2
        <3> QED  BY <1>2, <1>6, <3>1, <3>2, <3>3
    <2>2. ASSUME NEW i \in PlayerIds
          PROVE  /\ i \in DOMAIN h.world.players <=> h.online_players[i] # Offline
                 /\ h.online_players[i] # Offline =>
                      /\ h.connection_players[h.online_players[i].conn] = i
                      /\ h.online_players[i].record.id = i
                      /\ h.world.players[i].position = h.online_players[i].record.position
        <3>1. CASE i = id
            BY <1>4, <1>6, <3>1
        <3>2. CASE i # id
            <4>1. h.online_players[i] = g.online_players[i]
                BY <1>6, <3>2
            <4>2. i \in DOMAIN h.world.players <=> i \in DOMAIN g.world.players
                BY <1>4, <3>2
            <4>3. CASE g.online_players[i] = Offline
                BY <4>1, <4>2, <4>3 DEF GameInv, Agree
            <4>4. CASE g.online_players[i] # Offline
                <5>1. g.online_players[i].conn \in Connections
                    BY <1>1, <4>4 DEF Entries
                <5>2. /\ i \in DOMAIN g.world.players
                      /\ g.connection_players[g.online_players[i].conn] = i
                      /\ g.online_players[i].record.id = i
                      /\ g.world.players[i].position = g.online_players[i].record.position
                    BY <4>4 DEF GameInv, Agree
                <5>3. g.online_players[i].conn # c
                    BY <1>5, <3>2
                <5> QED  BY <1>4, <1>6, <4>1, <4>2, <4>4, <5>1, <5>2, <5>3
            <4> QED  BY <4>3, <4>4
        <3> QED  BY <3>1, <3>2
    <2> QED  BY <2>1, <2>2 DEF Agree
<1>9. PendingFree(h)
    BY <1>1, <1>2, <1>6 DEF GameInv, PendingFree
<1>10. WithoutPlayerOf(g, h, c)
    <2>1. h.online_players = [i \in PlayerIds |-> IF g.online_players[i].conn = c
                                                   THEN Offline ELSE g.online_players[i]]
        BY <1>1, <1>2, <1>5
    <2> QED  BY <1>2, <2>1 DEF WithoutPlayerOf
<1>11. Shrinks(g, h)
    BY <1>2, SamePending
<1> QED  BY <1>2, <1>7, <1>8, <1>9, <1>10, <1>11 DEF h, GameInv

LEMMA PlayerLeavesKeepsInv ==
    ASSUME NEW g, GameInv(g), NEW c \in Connections, NEW id \in PlayerIds,
           g.connection_players[c] = id
    PROVE  LET h == PlayerLeaves(g, c, id)
           IN  /\ GameInv(h)
               /\ WithoutPlayerOf(g, h, c)
               /\ h.conns = g.conns
               /\ h.pending_connections = g.pending_connections
               /\ Shrinks(g, h)
<1> DEFINE r == RemoveOnline(g, c, id)
           C == ConnectionsOf(r, VisiblePlayers(g.world, id))
           L == {id}
           s == Send(r, C, {}, L)
           record == g.online_players[id].record
           h == SavePosition(s, record)
<1>1. record \in Records
    BY NothingIsNothing, PlayerOfConnection DEF Entries
<1>2. /\ GameInv(r) /\ WithoutPlayerOf(g, r, c) /\ r.conns = g.conns
      /\ r.pending_connections = g.pending_connections /\ Shrinks(g, r)
    BY RemoveOnlineKeepsInv
<1> HIDE DEF r, C, L, record
<1>3. GameInv(s) /\ Shrinks(r, s)
    BY <1>2, SendKeepsInv
<1>4. TablesKept(r, s) /\ s.pending_connections = r.pending_connections
    <2>1. DOMAIN r = GameFields
        BY <1>2 DEF GameInv, GameTypeOK
    <2> QED  BY <2>1, SendFrame DEF TablesKept
<1> HIDE DEF s
<1>5. /\ GameInv(h) /\ TablesKept(s, h) /\ h.pending_connections = s.pending_connections
      /\ Shrinks(s, h)
    BY <1>1, <1>3, SavePositionKeepsInv
<1>6. PlayerLeaves(g, c, id) = h
    BY DEF PlayerLeaves, r, C, L, s, record
<1> HIDE DEF h
<1>7. WithoutPlayerOf(g, h, c) /\ h.conns = g.conns
    BY <1>2, <1>4, <1>5 DEF WithoutPlayerOf, TablesKept
<1>8. Shrinks(g, h)
    BY <1>2, <1>3, <1>5, ShrinksOn
<1> QED  BY <1>2, <1>4, <1>5, <1>6, <1>7, <1>8

LEMMA OnDisconnectedKeepsInv ==
    ASSUME NEW g, GameInv(g), NEW c \in Connections
    PROVE  LET h == OnDisconnected(g, c)
           IN  /\ GameInv(h)
               /\ WithoutPlayerOf(g, h, c)
               /\ h.conns = g.conns
               /\ h.pending_connections = [g.pending_connections EXCEPT ![c] = NoAccount]
               /\ Shrinks(g, h)
<1> DEFINE d == DropPending(g, c)
           id == d.connection_players[c]
<1>1. /\ GameInv(d) /\ TablesKept(g, d) /\ Shrinks(g, d)
      /\ d.pending_connections = [g.pending_connections EXCEPT ![c] = NoAccount]
    BY DropPendingKeepsInv
<1>2. OnDisconnected(g, c) =
        CASE id = NoPlayer   -> d
          [] HasPlayer(d, c) -> PlayerLeaves(d, c, id)
          [] OTHER           -> [d EXCEPT !.connection_players[c] = NoPlayer]
    BY DEF OnDisconnected
<1> HIDE DEF d
<1>3. CASE id = NoPlayer
    <2>1. ~HasPlayer(d, c)
        BY <1>3 DEF HasPlayer
    <2>2. OnDisconnected(g, c) = d
        BY <1>2, <1>3, <2>1
    <2>3. \A i \in PlayerIds : d.online_players[i].conn # c
        BY <1>1, <1>3, PlayerOfConnection, NothingIsNothing
    <2>4. /\ d.online_players \in [PlayerIds -> {Offline} \cup Entries]
          /\ d.connection_players \in [Connections -> PlayerIds \cup {NoPlayer}]
        BY <1>1 DEF GameInv, GameTypeOK
    <2>5. d.connection_players = [d.connection_players EXCEPT ![c] = NoPlayer]
        BY <1>3, <2>4
    <2>6. d.online_players = [i \in PlayerIds |-> IF d.online_players[i].conn = c
                                                  THEN Offline ELSE d.online_players[i]]
        BY <2>3, <2>4
    <2> QED  BY <1>1, <2>2, <2>5, <2>6 DEF WithoutPlayerOf, TablesKept
<1>4. CASE id # NoPlayer
    <2>1. id \in PlayerIds /\ d.online_players[id] # Offline
        BY <1>1, <1>4, PlayerOfConnection
    <2>2. HasPlayer(d, c)
        BY <1>4, <2>1 DEF HasPlayer, IsOnline
    <2>3. OnDisconnected(g, c) = PlayerLeaves(d, c, id)
        BY <1>2, <1>4, <2>2
    <2> DEFINE h == PlayerLeaves(d, c, id)
    <2>4. /\ GameInv(h) /\ WithoutPlayerOf(d, h, c) /\ h.conns = d.conns
          /\ h.pending_connections = d.pending_connections /\ Shrinks(d, h)
        BY <1>1, <2>1, PlayerLeavesKeepsInv
    <2> HIDE DEF h
    <2>5. WithoutPlayerOf(g, h, c)
        BY <1>1, <2>4 DEF WithoutPlayerOf, TablesKept
    <2>6. Shrinks(g, h)
        BY <1>1, <2>4, ShrinksOn
    <2> QED  BY <1>1, <2>3, <2>4, <2>5, <2>6 DEF h, TablesKept
<1> QED  BY <1>3, <1>4

\* CloseConnection: the connection, its player and its login are gone.
LEMMA CloseKeepsInv ==
    ASSUME NEW g, GameInv(g), NEW c \in Connections
    PROVE  LET h == CloseConnection(g, c)
           IN  /\ GameInv(h)
               /\ WithoutPlayerOf(g, h, c)
               /\ h.conns = g.conns \ {c}
               /\ h.pending_connections = [g.pending_connections EXCEPT ![c] = NoAccount]
               /\ Shrinks(g, h)
<1> DEFINE h == CloseConnection(g, c)
<1>1. CASE c \notin g.conns
    <2>1. h = [g EXCEPT !.marked_for_close = @ \ {c}]
        BY <1>1 DEF CloseConnection
    <2> HIDE DEF h
    <2>2. /\ DOMAIN g = GameFields
          /\ g.marked_for_close \subseteq g.conns
          /\ g.pending_connections \in [Connections -> Accounts \cup {NoAccount}]
          /\ g.pending_accounts \subseteq Accounts
          /\ g.player_sequence \in Nat
          /\ g.tokens \in Seq(PlayerIds)
          /\ g.tasks \in Seq(AllOps)
          /\ Len(g.tasks) <= QueueCapacity
          /\ g.online_players \in [PlayerIds -> {Offline} \cup Entries]
          /\ g.connection_players \in [Connections -> PlayerIds \cup {NoPlayer}]
        BY DEF GameInv, GameTypeOK
    <2>3. /\ DOMAIN h = GameFields
          /\ TablesKept(g, h)
          /\ h.marked_for_close = g.marked_for_close \ {c}
          /\ h.pending_connections = g.pending_connections
          /\ h.pending_accounts = g.pending_accounts
          /\ h.tasks = g.tasks
        BY <2>1, <2>2 DEF GameFields, TablesKept
    <2>4. h.marked_for_close \subseteq g.conns
        BY <2>2, <2>3
    <2>5. GameInv(h)
        BY <2>2, <2>3, <2>4, SameTables DEF TablesKept
    <2>6. g.connection_players[c] = NoPlayer /\ g.pending_connections[c] = NoAccount
        BY <1>1 DEF GameInv, Agree, PendingFree
    <2>7. \A i \in PlayerIds : g.online_players[i].conn # c
        BY <2>6, PlayerOfConnection, NothingIsNothing
    <2>8. /\ g.connection_players = [g.connection_players EXCEPT ![c] = NoPlayer]
          /\ g.pending_connections = [g.pending_connections EXCEPT ![c] = NoAccount]
          /\ g.online_players = [i \in PlayerIds |-> IF g.online_players[i].conn = c
                                                     THEN Offline ELSE g.online_players[i]]
        BY <2>2, <2>6, <2>7
    <2>9. g.conns \ {c} = g.conns
        BY <1>1
    <2>10. Shrinks(g, h)
        BY <2>3, SamePending
    <2> QED  BY <2>3, <2>5, <2>8, <2>9, <2>10 DEF WithoutPlayerOf, TablesKept, h
<1>2. CASE c \in g.conns
    <2> DEFINE d == OnDisconnected(g, c)
    <2>1. h = [d EXCEPT !.conns = @ \ {c}, !.marked_for_close = @ \ {c},
                        !.broken = @ \ {c}, !.view[c] = {}, !.presented[c] = {}]
        BY <1>2 DEF CloseConnection
    <2>2. /\ GameInv(d) /\ WithoutPlayerOf(g, d, c) /\ d.conns = g.conns
          /\ d.pending_connections = [g.pending_connections EXCEPT ![c] = NoAccount]
          /\ Shrinks(g, d)
        BY OnDisconnectedKeepsInv
    <2> HIDE DEF d, h
    <2>3. DOMAIN d = GameFields
        BY <2>2 DEF GameInv, GameTypeOK
    <2>4. /\ DOMAIN h = GameFields
          /\ h.conns = d.conns \ {c}
          /\ h.marked_for_close = d.marked_for_close \ {c}
          /\ h.online_players = d.online_players
          /\ h.connection_players = d.connection_players
          /\ h.world = d.world
          /\ h.pending_connections = d.pending_connections
          /\ h.pending_accounts = d.pending_accounts
          /\ h.player_sequence = d.player_sequence
          /\ h.tokens = d.tokens
          /\ h.tasks = d.tasks
        BY <2>1, <2>3 DEF GameFields
    <2>5. d.connection_players[c] = NoPlayer /\ d.pending_connections[c] = NoAccount
        <3>1. /\ g.connection_players \in [Connections -> PlayerIds \cup {NoPlayer}]
              /\ g.pending_connections \in [Connections -> Accounts \cup {NoAccount}]
            BY DEF GameInv, GameTypeOK
        <3> QED  BY <2>2, <3>1 DEF WithoutPlayerOf
    <2>6. GameTypeOK(h)
        BY <2>2, <2>4 DEF GameInv, GameTypeOK
    <2>7. Agree(h)
        <3>1. Agree(d)
            BY <2>2 DEF GameInv
        <3> QED  BY <2>4, <2>5, <3>1 DEF Agree
    <2>8. PendingFree(h)
        BY <2>2, <2>4, <2>5 DEF GameInv, PendingFree
    <2>9. WithoutPlayerOf(g, h, c)
        BY <2>2, <2>4 DEF WithoutPlayerOf
    <2>10. Shrinks(g, h)
        BY <2>2, <2>4, SamePending, ShrinksOn
    <2> QED  BY <2>2, <2>4, <2>6, <2>7, <2>8, <2>9, <2>10 DEF GameInv, h
<1> QED  BY <1>1, <1>2

-----------------------------------------------------------------------------
(* Logging in.                                                             *)

\* A step that creates no player and issues no token.
SameCounters(g, h) == h.player_sequence = g.player_sequence /\ h.tokens = g.tokens

LEMMA KeptCounters ==
    ASSUME NEW g, NEW h, TablesKept(g, h)
    PROVE  SameCounters(g, h)
BY DEF TablesKept, SameCounters

LEMMA SendKeepsTables ==
    ASSUME NEW g, GameInv(g), NEW C, NEW enters, NEW leaves
    PROVE  LET h == Send(g, C, enters, leaves)
           IN  GameInv(h) /\ TablesKept(g, h) /\ SameCounters(g, h) /\ Shrinks(g, h)
<1> DEFINE h == Send(g, C, enters, leaves)
<1>1. GameInv(h) /\ Shrinks(g, h)
    BY SendKeepsInv
<1>2. DOMAIN g = GameFields
    BY DEF GameInv, GameTypeOK
<1>3. TablesKept(g, h)
    BY <1>2, SendFrame DEF TablesKept
<1> HIDE DEF h
<1>4. SameCounters(g, h)
    BY <1>3, KeptCounters
<1> QED  BY <1>1, <1>3, <1>4 DEF h

\* The player is put into all tables, on a connection that has none.
PutOnline(k, c, player, token) ==
    [k EXCEPT !.world = AddPlayer(@, player.id, player.position),
              !.connection_players[c] = player.id,
              !.online_players[player.id] =
                  [record |-> player, conn |-> c, token |-> token]]

EntryOf(player, c, token) == [record |-> player, conn |-> c, token |-> token]

\* The entries of k with that of this player.
CameOnline(k, h, player, c, token) ==
    /\ h.online_players[player.id] = EntryOf(player, c, token)
    /\ \A i \in PlayerIds \ {player.id} : h.online_players[i] = k.online_players[i]

LEMMA PutOnlineKeepsInv ==
    ASSUME NEW k, GameInv(k), NEW c \in k.conns, NEW player \in Records, NEW token \in Tokens,
           k.connection_players[c] = NoPlayer,
           k.pending_connections[c] = NoAccount,
           k.online_players[player.id] = Offline
    PROVE  LET h == PutOnline(k, c, player, token)
           IN  /\ GameInv(h) /\ SameCounters(k, h) /\ Shrinks(k, h)
               /\ h.conns = k.conns
               /\ CameOnline(k, h, player, c, token)
<1> DEFINE h == PutOnline(k, c, player, token)
           entry == EntryOf(player, c, token)
<1>1. /\ DOMAIN k = GameFields
      /\ k.online_players \in [PlayerIds -> {Offline} \cup Entries]
      /\ k.connection_players \in [Connections -> PlayerIds \cup {NoPlayer}]
      /\ c \in Connections
    BY DEF GameInv, GameTypeOK
<1>2. PICK id \in PlayerIds : id = player.id
    BY DEF Records
<1>3. entry \in Entries /\ entry # Offline /\ entry.conn = c /\ entry.record = player
    BY <1>1, NothingIsNothing DEF Entries, EntryOf
<1>4. /\ DOMAIN h = GameFields
      /\ h.conns = k.conns
      /\ h.marked_for_close = k.marked_for_close
      /\ h.online_players = [k.online_players EXCEPT ![id] = entry]
      /\ h.connection_players = [k.connection_players EXCEPT ![c] = id]
      /\ h.pending_connections = k.pending_connections
      /\ h.pending_accounts = k.pending_accounts
      /\ h.player_sequence = k.player_sequence
      /\ h.tokens = k.tokens
      /\ h.tasks = k.tasks
      /\ h.world = AddPlayer(k.world, id, player.position)
    BY <1>1, <1>2 DEF PutOnline, EntryOf, GameFields
<1> HIDE DEF h, entry
<1>5. /\ DOMAIN h.world.players = DOMAIN k.world.players \cup {id}
      /\ h.world.players[id].position = player.position
      /\ \A i \in DOMAIN k.world.players \ {id} : h.world.players[i] = k.world.players[i]
    BY <1>4 DEF AddPlayer
<1>6. /\ h.online_players[id] = entry
      /\ \A i \in PlayerIds \ {id} : h.online_players[i] = k.online_players[i]
      /\ h.connection_players[c] = id
      /\ \A d \in Connections \ {c} : h.connection_players[d] = k.connection_players[d]
    BY <1>1, <1>4
<1>7. GameTypeOK(h)
    <2>1. /\ h.online_players \in [PlayerIds -> {Offline} \cup Entries]
          /\ h.connection_players \in [Connections -> PlayerIds \cup {NoPlayer}]
        BY <1>1, <1>3, <1>4
    <2> QED  BY <1>4, <2>1 DEF GameInv, GameTypeOK
<1>8. Agree(h)
    <2>1. ASSUME NEW d \in Connections, h.connection_players[d] # NoPlayer
          PROVE  /\ d \in h.conns
                 /\ h.online_players[h.connection_players[d]].conn = d
        <3>1. CASE d = c
            BY <1>3, <1>4, <1>6, <3>1
        <3>2. CASE d # c
            <4>1. h.connection_players[d] = k.connection_players[d]
                BY <1>6, <3>2
            <4>2. /\ d \in k.conns /\ k.connection_players[d] \in PlayerIds
                  /\ k.online_players[k.connection_players[d]].conn = d
                  /\ k.online_players[k.connection_players[d]] # Offline
                BY <2>1, <4>1, PlayerOfConnection DEF GameInv, Agree
            <4>3. k.connection_players[d] # id
                BY <1>2, <4>2
            <4> QED  BY <1>4, <1>6, <4>1, <4>2, <4>3
        <3> QED  BY <3>1, <3>2
    <2>2. ASSUME NEW i \in PlayerIds
          PROVE  /\ i \in DOMAIN h.world.players <=> h.online_players[i] # Offline
                 /\ h.online_players[i] # Offline =>
                      /\ h.connection_players[h.online_players[i].conn] = i
                      /\ h.online_players[i].record.id = i
                      /\ h.world.players[i].position = h.online_players[i].record.position
        <3>1. CASE i = id
            BY <1>2, <1>3, <1>5, <1>6, <3>1
        <3>2. CASE i # id
            <4>1. h.online_players[i] = k.online_players[i]
                BY <1>6, <3>2
            <4>2. i \in DOMAIN h.world.players <=> i \in DOMAIN k.world.players
                BY <1>5, <3>2
            <4>3. CASE k.online_players[i] = Offline
                BY <4>1, <4>2, <4>3 DEF GameInv, Agree
            <4>4. CASE k.online_players[i] # Offline
                <5>1. k.online_players[i].conn \in Connections
                    BY <1>1, <4>4 DEF Entries
                <5>2. /\ i \in DOMAIN k.world.players
                      /\ k.connection_players[k.online_players[i].conn] = i
                      /\ k.online_players[i].record.id = i
                      /\ k.world.players[i].position = k.online_players[i].record.position
                    BY <4>4 DEF GameInv, Agree
                <5>3. k.online_players[i].conn # c
                    BY <5>2, NothingIsNothing
                <5> QED  BY <1>5, <1>6, <3>2, <4>1, <4>2, <4>4, <5>1, <5>2, <5>3
            <4> QED  BY <4>3, <4>4
        <3> QED  BY <3>1, <3>2
    <2> QED  BY <2>1, <2>2 DEF Agree
<1>9. PendingFree(h)
    BY <1>1, <1>4, <1>6 DEF GameInv, PendingFree
<1>10. CameOnline(k, h, player, c, token)
    BY <1>2, <1>6 DEF CameOnline, entry
<1>11. Shrinks(k, h)
    BY <1>4, SamePending
<1> QED  BY <1>4, <1>7, <1>8, <1>9, <1>10, <1>11 DEF h, GameInv, SameCounters

\* Of the entries of online_players_ at most one changes: a player comes on a
\* connection of its own, is taken over with its record, moves, or leaves.
PlayerStep(o, n) ==
    \/ n = o
    \/ \E id \in PlayerIds :
         \/ o[id] # Offline /\ n = [o EXCEPT ![id] = Offline]
         \/ \E entry \in Entries :
              /\ n = [o EXCEPT ![id] = entry]
              /\ \/ /\ \A i \in PlayerIds : o[i].conn # entry.conn
                    /\ o[id] # Offline => entry.record = o[id].record
                 \/ o[id] # Offline /\ entry.conn = o[id].conn

LEMMA OneLeaves ==
    ASSUME NEW g, NEW h, GameInv(g), NEW c \in Connections, WithoutPlayerOf(g, h, c)
    PROVE  /\ PlayerStep(g.online_players, h.online_players)
           /\ \A id \in PlayerIds :
                g.online_players[id].conn = c =>
                    h.online_players = [g.online_players EXCEPT ![id] = Offline]
<1>1. g.online_players \in [PlayerIds -> {Offline} \cup Entries]
    BY DEF GameInv, GameTypeOK
<1>2. h.online_players = [i \in PlayerIds |-> IF g.online_players[i].conn = c
                                               THEN Offline ELSE g.online_players[i]]
    BY DEF WithoutPlayerOf
<1>3. ASSUME NEW id \in PlayerIds, g.online_players[id].conn = c
      PROVE  /\ g.online_players[id] # Offline
             /\ h.online_players = [g.online_players EXCEPT ![id] = Offline]
    <2>1. \A i \in PlayerIds : g.online_players[i].conn = c <=> i = id
        BY <1>3, PlayerOfConnection
    <2>2. g.online_players[id] # Offline
        BY <1>3, NothingIsNothing DEF Offline
    <2> QED  BY <1>1, <1>2, <2>1, <2>2
<1>4. CASE \E id \in PlayerIds : g.online_players[id].conn = c
    BY <1>3, <1>4 DEF PlayerStep
<1>5. CASE \A id \in PlayerIds : g.online_players[id].conn # c
    <2>1. h.online_players = g.online_players
        BY <1>1, <1>2, <1>5
    <2> QED  BY <2>1, <1>5 DEF PlayerStep
<1> QED  BY <1>3, <1>4, <1>5

\* FinishLogin: whoever was online as this player is gone before the player is
\* put into the tables, and the connection that waited is still there.
LEMMA FinishLoginKeepsInv ==
    ASSUME NEW g, GameInv(g), NEW c \in Connections, NEW loaded \in Records,
           NEW token \in Tokens, NEW replace \in BOOLEAN
    PROVE  LET r == FinishLogin(g, c, loaded, token, replace)
           IN  /\ GameInv(r) /\ SameCounters(g, r)
               /\ PlayerStep(g.online_players, r.online_players)
               /\ Shrinks(g, r) /\ Settled(r, c, loaded.account)
<1> DEFINE account == loaded.account
           id      == loaded.id
           present == IsOnline(g, id)
           player  == IF present THEN g.online_players[id].record ELSE loaded
           f       == IF present THEN CloseConnection(g, g.online_players[id].conn) ELSE g
           k       == Forget(f, c, account)
           h       == [k EXCEPT !.world = AddPlayer(@, id, player.position),
                                !.connection_players[c] = id,
                                !.online_players[id] =
                                    [record |-> player, conn |-> c, token |-> token]]
           visible == VisiblePlayers(h.world, id)
           told    == Send(h, {c}, ViewsOf(h, visible), {})
           last    == Send(told, ConnectionsOf(told, visible), ViewsOf(told, {id}), {})
           r       == FinishLogin(g, c, loaded, token, replace)
<1>1. r = CASE ~StillPending(g, c) -> Forget(g, c, account)
            [] StillPending(g, c) /\ present /\ ~replace -> FailLogin(g, c, account)
            [] StillPending(g, c) /\ (present => replace)
                   /\ ~CanAdd(f.world, id, player.position) -> FailLogin(f, c, account)
            [] OTHER -> last
    BY DEF FinishLogin
<1>2. id \in PlayerIds /\ account \in Accounts
    BY DEF Records
<1>3. /\ g.online_players \in [PlayerIds -> {Offline} \cup Entries]
      /\ g.connection_players \in [Connections -> PlayerIds \cup {NoPlayer}]
    BY DEF GameInv, GameTypeOK
<1> HIDE DEF r
<1>4. CASE ~StillPending(g, c)
    <2>1. r = Forget(g, c, account)
        BY <1>1, <1>4
    <2>2. GameInv(r) /\ TablesKept(g, r) /\ Shrinks(g, r) /\ Settled(r, c, account)
        BY <2>1, ForgetKeepsInv
    <2>3. SameCounters(g, r) /\ PlayerStep(g.online_players, r.online_players)
        BY <2>2, KeptCounters DEF TablesKept, PlayerStep
    <2> QED  BY <2>2, <2>3 DEF r
<1>5. CASE StillPending(g, c)
    <2>1. c \in g.conns /\ g.connection_players[c] = NoPlayer
        BY <1>5 DEF StillPending, IsConnected, GameInv, PendingFree
    <2>2. CASE present /\ ~replace
        <3>1. r = FailLogin(g, c, account)
            BY <1>1, <1>5, <2>2
        <3>2. GameInv(r) /\ TablesKept(g, r) /\ Shrinks(g, r) /\ Settled(r, c, account)
            BY <3>1, FailLoginKeepsInv
        <3>3. SameCounters(g, r) /\ PlayerStep(g.online_players, r.online_players)
            BY <3>2, KeptCounters DEF TablesKept, PlayerStep
        <3> QED  BY <3>2, <3>3 DEF r
    <2>3. CASE present => replace
        <3>1. /\ GameInv(f) /\ SameCounters(g, f) /\ Shrinks(g, f)
              /\ c \in f.conns /\ f.connection_players[c] = NoPlayer
              /\ f.online_players[id] = Offline
              /\ player \in Records /\ player.id = id
              /\ PlayerStep(g.online_players, f.online_players)
              /\ \A i \in PlayerIds \ {id} : f.online_players[i] = g.online_players[i]
              /\ g.online_players[id] # Offline => player = g.online_players[id].record
            <4>1. CASE ~present
                BY <2>1, <4>1, SamePending DEF SameCounters, IsOnline, PlayerStep
            <4>2. CASE present
                <5> DEFINE d == g.online_players[id].conn
                <5>1. g.online_players[id] \in Entries /\ g.online_players[id] # Offline
                    BY <1>2, <1>3, <4>2 DEF IsOnline
                <5>2. d \in Connections /\ g.online_players[id].record \in Records
                    BY <5>1 DEF Entries
                <5>3. g.connection_players[d] = id /\ g.online_players[id].record.id = id
                    BY <1>2, <5>1 DEF GameInv, Agree
                <5>4. d # c
                    BY <1>2, <2>1, <5>3, NothingIsNothing
                <5>5. f = CloseConnection(g, d)
                    BY <4>2
                <5> HIDE DEF d, f
                <5>6. /\ GameInv(f) /\ WithoutPlayerOf(g, f, d) /\ f.conns = g.conns \ {d}
                      /\ Shrinks(g, f)
                    BY <5>2, <5>5, CloseKeepsInv
                <5>7. f.connection_players[c] = NoPlayer /\ f.online_players[id] = Offline
                    BY <1>2, <1>3, <2>1, <5>2, <5>4, <5>6 DEF WithoutPlayerOf, d
                <5>8. SameCounters(g, f)
                    BY <5>6 DEF WithoutPlayerOf, SameCounters
                <5>9. player = g.online_players[id].record
                    BY <4>2
                <5>10. /\ PlayerStep(g.online_players, f.online_players)
                       /\ f.online_players = [g.online_players EXCEPT ![id] = Offline]
                    BY <1>2, <5>2, <5>6, OneLeaves DEF d
                <5>11. \A i \in PlayerIds \ {id} : f.online_players[i] = g.online_players[i]
                    BY <1>2, <1>3, <5>10
                <5> QED
                    BY <2>1, <5>2, <5>3, <5>4, <5>6, <5>7, <5>8, <5>9, <5>10, <5>11
            <4> QED  BY <4>1, <4>2
        <3> HIDE DEF f, player, present
        <3>2. CASE ~CanAdd(f.world, id, player.position)
            <4>1. r = FailLogin(f, c, account)
                BY <1>1, <1>5, <2>3, <3>2
            <4>2. GameInv(r) /\ TablesKept(f, r) /\ Shrinks(f, r) /\ Settled(r, c, account)
                BY <3>1, <4>1, FailLoginKeepsInv
            <4>3. r.online_players = f.online_players /\ SameCounters(g, r)
                BY <3>1, <4>2 DEF SameCounters, TablesKept
            <4>4. Shrinks(g, r)
                BY <3>1, <4>2, ShrinksOn
            <4> QED  BY <3>1, <4>2, <4>3, <4>4 DEF r
        <3>3. CASE CanAdd(f.world, id, player.position)
            <4>1. r = last
                BY <1>1, <1>5, <2>3, <3>3
            <4>2. /\ GameInv(k) /\ TablesKept(f, k)
                  /\ k.pending_connections = [f.pending_connections EXCEPT ![c] = NoAccount]
                  /\ Shrinks(f, k) /\ Settled(k, c, account)
                BY <3>1, ForgetKeepsInv
            <4>3. /\ c \in k.conns /\ k.connection_players[c] = NoPlayer
                  /\ k.online_players[id] = Offline
                  /\ k.pending_connections[c] = NoAccount
                <5>1. f.pending_connections \in [Connections -> Accounts \cup {NoAccount}]
                    BY <3>1 DEF GameInv, GameTypeOK
                <5> QED  BY <3>1, <4>2, <5>1 DEF TablesKept
            <4> HIDE DEF k
            <4>4. h = PutOnline(k, c, player, token)
                BY <3>1 DEF PutOnline
            <4> DEFINE entry == EntryOf(player, c, token)
            <4>5. /\ GameInv(h) /\ SameCounters(k, h) /\ Shrinks(k, h)
                  /\ h.online_players[id] = entry
                  /\ \A i \in PlayerIds \ {id} : h.online_players[i] = k.online_players[i]
                <5> HIDE DEF h
                <5>1. k.online_players[player.id] = Offline /\ player \in Records
                    BY <3>1, <4>3
                <5> DEFINE p == PutOnline(k, c, player, token)
                <5>2. /\ GameInv(p) /\ SameCounters(k, p) /\ CameOnline(k, p, player, c, token)
                      /\ Shrinks(k, p)
                    BY <4>2, <4>3, <5>1, PutOnlineKeepsInv
                <5> HIDE DEF p
                <5> QED  BY <3>1, <4>4, <5>2 DEF p, CameOnline
            <4> HIDE DEF h, visible
            <4>6. GameInv(told) /\ TablesKept(h, told) /\ Shrinks(h, told)
                BY <4>5, SendKeepsTables
            <4> HIDE DEF told
            <4>7. GameInv(last) /\ TablesKept(told, last) /\ Shrinks(told, last)
                BY <4>6, SendKeepsTables
            <4> HIDE DEF last
            <4>8. SameCounters(g, last)
                BY <3>1, <4>2, <4>5, <4>6, <4>7 DEF SameCounters, TablesKept
            <4>9. entry \in Entries /\ entry.conn = c /\ entry.record = player
                BY <3>1 DEF Entries, EntryOf
            <4> HIDE DEF entry
            <4>10. last.online_players = [g.online_players EXCEPT ![id] = entry]
                <5>1. last.online_players \in [PlayerIds -> {Offline} \cup Entries]
                    BY <4>7 DEF GameInv, GameTypeOK
                <5>2. /\ last.online_players[id] = entry
                      /\ \A i \in PlayerIds \ {id} : last.online_players[i] = g.online_players[i]
                    BY <3>1, <4>2, <4>5, <4>6, <4>7 DEF TablesKept
                <5> QED  BY <1>2, <1>3, <5>1, <5>2
            <4>11. \A i \in PlayerIds : g.online_players[i].conn # c
                BY <2>1, PlayerOfConnection, NothingIsNothing
            <4>12. PlayerStep(g.online_players, last.online_players)
                <5> DEFINE o == g.online_players
                           n == last.online_players
                <5>1. PICK i \in PlayerIds : i = id
                    BY <1>2
                <5>2. /\ n = [o EXCEPT ![i] = entry]
                      /\ \A j \in PlayerIds : o[j].conn # entry.conn
                      /\ o[i] # Offline => entry.record = o[i].record
                    BY <3>1, <4>9, <4>10, <4>11, <5>1
                <5> HIDE DEF o, n
                <5>3. PlayerStep(o, n)
                    BY <4>9, <5>2 DEF PlayerStep
                <5> QED  BY <5>3 DEF o, n
            <4>13. Shrinks(g, last) /\ Settled(last, c, account)
                <5>1. Shrinks(g, k) /\ Shrinks(k, told)
                    BY <3>1, <4>2, <4>5, <4>6, ShrinksOn
                <5>2. Shrinks(k, last)
                    BY <5>1, <4>7, ShrinksOn
                <5> QED  BY <4>2, <5>1, <5>2, ShrinksOn
            <4> QED  BY <4>1, <4>7, <4>8, <4>12, <4>13 DEF r
        <3> QED  BY <3>2, <3>3
    <2> QED  BY <2>2, <2>3
<1> QED  BY <1>4, <1>5

\* A login that waits is submitted on, or refused: its tables stay.
LEMMA SubmitOrFail ==
    ASSUME NEW g, GameInv(g), NEW c \in Connections, NEW account, NEW op,
           CanSubmit(g) => op \in AllOps /\ OfLogin(op, c, account)
    PROVE  LET r == IF CanSubmit(g) THEN Submit(g, op) ELSE FailLogin(g, c, account)
           IN  GameInv(r) /\ TablesKept(g, r) /\ Advances(g, r, c, account)
<1>1. CASE CanSubmit(g)
    <2> DEFINE h == Submit(g, op)
    <2>1. GameInv(h) /\ Shrinks(g, h) /\ op \in Queued(h)
        BY <1>1, SubmitKeepsInv
    <2>2. TablesKept(g, h)
        <3>1. DOMAIN g = GameFields
            BY DEF GameInv, GameTypeOK
        <3> QED  BY <3>1, SubmitFrame DEF TablesKept
    <2> HIDE DEF h
    <2>3. Advances(g, h, c, account)
        BY <1>1, <2>1 DEF Advances, GoesOn
    <2> QED  BY <1>1, <2>1, <2>2, <2>3 DEF h
<1>2. CASE ~CanSubmit(g)
    BY <1>2, FailLoginKeepsInv DEF Advances
<1> QED  BY <1>1, <1>2

\* A token is issued.
Issued(g, id) == [g EXCEPT !.tokens = Append(@, id)]

LEMMA IssuedKeepsInv ==
    ASSUME NEW g, GameInv(g), NEW id \in PlayerIds
    PROVE  LET h == Issued(g, id)
           IN  /\ GameInv(h) /\ Shrinks(g, h)
               /\ h.online_players = g.online_players
               /\ h.player_sequence = g.player_sequence
               /\ h.tokens = Append(g.tokens, id)
<1> DEFINE h == Issued(g, id)
<1>1. /\ DOMAIN g = GameFields
      /\ g.marked_for_close \subseteq g.conns
      /\ g.pending_connections \in [Connections -> Accounts \cup {NoAccount}]
      /\ g.pending_accounts \subseteq Accounts
      /\ g.player_sequence \in Nat
      /\ g.tokens \in Seq(PlayerIds)
      /\ g.tasks \in Seq(AllOps)
      /\ Len(g.tasks) <= QueueCapacity
    BY DEF GameInv, GameTypeOK
<1>2. /\ DOMAIN h = GameFields
      /\ h.conns = g.conns
      /\ h.marked_for_close = g.marked_for_close
      /\ h.online_players = g.online_players
      /\ h.connection_players = g.connection_players
      /\ h.world = g.world
      /\ h.player_sequence = g.player_sequence
      /\ h.tokens = Append(g.tokens, id)
      /\ h.tasks = g.tasks
      /\ h.pending_accounts = g.pending_accounts
      /\ h.pending_connections = g.pending_connections
    BY <1>1 DEF GameFields, Issued
<1> HIDE DEF h
<1>3. h.tokens \in Seq(PlayerIds)
    BY <1>1, <1>2, AppendProperties
<1>4. GameInv(h)
    BY <1>1, <1>2, <1>3, SameTables
<1>5. Shrinks(g, h)
    BY <1>2, SamePending
<1> QED  BY <1>2, <1>4, <1>5 DEF h

\* StoreSessionAndFinish issues a token and asks for it to be stored.
LEMMA StoreSessionKeepsInv ==
    ASSUME NEW g, GameInv(g), NEW c \in Connections, NEW player \in Records,
           NEW replace \in BOOLEAN,
           WithinBounds(StoreSessionAndFinish(g, c, player, replace))
    PROVE  LET r == StoreSessionAndFinish(g, c, player, replace)
           IN  /\ GameInv(r) /\ r.online_players = g.online_players
               /\ Advances(g, r, c, player.account)
<1> DEFINE r == StoreSessionAndFinish(g, c, player, replace)
           token == Len(g.tokens) + 1
           h == Issued(g, player.id)
           op == [kind |-> "StoreSession", conn |-> c, player |-> player,
                  token |-> token, replace |-> replace]
           s == IF CanSubmit(h) THEN Submit(h, op) ELSE FailLogin(h, c, player.account)
<1>1. r = IF ~StillPending(g, c) THEN Forget(g, c, player.account)
          ELSE IF IsOnline(g, player.id) /\ ~replace THEN FailLogin(g, c, player.account)
          ELSE s
    BY DEF StoreSessionAndFinish, Issued
<1>2. WithinBounds(r)
    OBVIOUS
<1>3. player.id \in PlayerIds
    BY DEF Records
<1> HIDE DEF r
<1>4. CASE ~StillPending(g, c)
    <2>1. r = Forget(g, c, player.account)
        BY <1>1, <1>4
    <2>2. GameInv(r) /\ TablesKept(g, r) /\ Advances(g, r, c, player.account)
        BY <2>1, ForgetKeepsInv DEF Advances
    <2> QED  BY <2>2 DEF TablesKept, r
<1>5. CASE StillPending(g, c) /\ IsOnline(g, player.id) /\ ~replace
    <2>1. r = FailLogin(g, c, player.account)
        BY <1>1, <1>5
    <2>2. GameInv(r) /\ TablesKept(g, r) /\ Advances(g, r, c, player.account)
        BY <2>1, FailLoginKeepsInv DEF Advances
    <2> QED  BY <2>2 DEF TablesKept, r
<1>6. CASE StillPending(g, c) /\ ~(IsOnline(g, player.id) /\ ~replace)
    <2>1. r = s
        BY <1>1, <1>6
    <2>2. /\ GameInv(h) /\ h.online_players = g.online_players /\ Shrinks(g, h)
          /\ h.tokens = Append(g.tokens, player.id)
        BY <1>3, IssuedKeepsInv
    <2> HIDE DEF h
    <2>3. CASE CanSubmit(h)
        <3>1. s = Submit(h, op)
            BY <2>3
        <3>2. s.tokens = h.tokens
            <4>1. DOMAIN h = GameFields
                BY <2>2 DEF GameInv, GameTypeOK
            <4> QED  BY <3>1, <4>1, SubmitFrame
        <3>3. Len(h.tokens) <= MaxLogins
            BY <1>2, <2>1, <3>2 DEF WithinBounds
        <3>4. g.tokens \in Seq(PlayerIds)
            BY DEF GameInv, GameTypeOK
        <3>5. Len(g.tokens) \in Nat /\ Len(h.tokens) = Len(g.tokens) + 1
            BY <1>3, <2>2, <3>4, AppendProperties, LenProperties
        <3>6. token \in Tokens
            BY <3>3, <3>5, GameAssumption DEF Tokens
        <3> HIDE DEF token
        <3>7. op \in AllOps /\ OfLogin(op, c, player.account)
            BY <3>6 DEF AllOps, StoreSessionOps, OfLogin, AccountOf
        <3> HIDE DEF op
        <3>8. GameInv(s) /\ TablesKept(h, s) /\ Advances(h, s, c, player.account)
            BY <2>2, <3>7, SubmitOrFail
        <3> HIDE DEF s
        <3>9. Advances(g, s, c, player.account)
            BY <2>2, <3>8, AdvancesFrom
        <3> QED  BY <2>1, <2>2, <3>8, <3>9 DEF TablesKept, r
    <2>4. CASE ~CanSubmit(h)
        <3>1. s = FailLogin(h, c, player.account)
            BY <2>4
        <3> HIDE DEF s
        <3>2. GameInv(s) /\ TablesKept(h, s) /\ Advances(h, s, c, player.account)
            BY <2>2, <3>1, FailLoginKeepsInv DEF Advances
        <3>3. Advances(g, s, c, player.account)
            BY <2>2, <3>2, AdvancesFrom
        <3> QED  BY <2>1, <2>2, <3>2, <3>3 DEF TablesKept, r
    <2> QED  BY <2>3, <2>4
<1> QED  BY <1>4, <1>5, <1>6

LEMMA ContinueLoginKeepsInv ==
    ASSUME NEW g, GameInv(g), NEW c \in Connections, NEW player \in Records,
           NEW token \in 0 .. MaxLogins + 1,
           WithinBounds(ContinueLogin(g, c, player, token))
    PROVE  LET r == ContinueLogin(g, c, player, token)
           IN  /\ GameInv(r) /\ r.online_players = g.online_players
               /\ Advances(g, r, c, player.account)
<1> DEFINE r == ContinueLogin(g, c, player, token)
           op == [kind |-> "LoadSession", conn |-> c, player |-> player,
                  token |-> token]
           s == IF CanSubmit(g) THEN Submit(g, op) ELSE FailLogin(g, c, player.account)
<1>1. r = IF ~StillPending(g, c) THEN Forget(g, c, player.account)
          ELSE IF token = NoToken THEN StoreSessionAndFinish(g, c, player, FALSE)
          ELSE s
    BY DEF ContinueLogin
<1>2. WithinBounds(r)
    OBVIOUS
<1> HIDE DEF r
<1>3. CASE ~StillPending(g, c)
    <2>1. r = Forget(g, c, player.account)
        BY <1>1, <1>3
    <2>2. GameInv(r) /\ TablesKept(g, r) /\ Advances(g, r, c, player.account)
        BY <2>1, ForgetKeepsInv DEF Advances
    <2> QED  BY <2>2 DEF TablesKept, r
<1>4. CASE StillPending(g, c) /\ token = NoToken
    <2>1. PICK no \in BOOLEAN : no = FALSE
        OBVIOUS
    <2>2. r = StoreSessionAndFinish(g, c, player, no)
        BY <1>1, <1>4, <2>1
    <2>3. /\ GameInv(r) /\ r.online_players = g.online_players
          /\ Advances(g, r, c, player.account)
        BY <1>2, <2>2, StoreSessionKeepsInv
    <2> QED  BY <2>3 DEF r
<1>5. CASE StillPending(g, c) /\ token # NoToken
    <2>1. r = s
        BY <1>1, <1>5
    <2>2. token \in 1 .. MaxLogins + 1
        BY <1>5, GameAssumption DEF NoToken
    <2>3. op \in AllOps /\ OfLogin(op, c, player.account)
        BY <2>2 DEF AllOps, LoadSessionOps, OfLogin, AccountOf
    <2> HIDE DEF op
    <2>4. GameInv(s) /\ TablesKept(g, s) /\ Advances(g, s, c, player.account)
        BY <2>3, SubmitOrFail
    <2> HIDE DEF s
    <2> QED  BY <2>1, <2>4 DEF TablesKept, r
<1> QED  BY <1>3, <1>4, <1>5

\* A player id is taken from the sequence.
Numbered(g, n) == [g EXCEPT !.player_sequence = n]

LEMMA NumberedKeepsInv ==
    ASSUME NEW g, GameInv(g), NEW n \in Nat
    PROVE  LET h == Numbered(g, n)
           IN  /\ GameInv(h) /\ Shrinks(g, h)
               /\ h.online_players = g.online_players
               /\ h.player_sequence = n
               /\ h.tokens = g.tokens
<1> DEFINE h == Numbered(g, n)
<1>1. /\ DOMAIN g = GameFields
      /\ g.marked_for_close \subseteq g.conns
      /\ g.pending_connections \in [Connections -> Accounts \cup {NoAccount}]
      /\ g.pending_accounts \subseteq Accounts
      /\ g.tokens \in Seq(PlayerIds)
      /\ g.tasks \in Seq(AllOps)
      /\ Len(g.tasks) <= QueueCapacity
    BY DEF GameInv, GameTypeOK
<1>2. /\ DOMAIN h = GameFields
      /\ h.conns = g.conns
      /\ h.marked_for_close = g.marked_for_close
      /\ h.online_players = g.online_players
      /\ h.connection_players = g.connection_players
      /\ h.world = g.world
      /\ h.player_sequence = n
      /\ h.tokens = g.tokens
      /\ h.tasks = g.tasks
      /\ h.pending_accounts = g.pending_accounts
      /\ h.pending_connections = g.pending_connections
    BY <1>1 DEF GameFields, Numbered
<1> HIDE DEF h
<1>3. GameInv(h)
    BY <1>1, <1>2, SameTables
<1>4. Shrinks(g, h)
    BY <1>2, SamePending
<1> QED  BY <1>2, <1>3, <1>4 DEF h

-----------------------------------------------------------------------------
(* The callbacks.                                                          *)

LEMMA PlayerNotFoundKeepsInv ==
    ASSUME NEW g, GameInv(g), NEW op \in LoadPlayerOps, WithinBounds(PlayerNotFound(g, op))
    PROVE  LET r == PlayerNotFound(g, op)
           IN  /\ GameInv(r) /\ r.online_players = g.online_players
               /\ Advances(g, r, op.conn, op.account)
<1> DEFINE n == g.player_sequence + 1
           player == NewPlayer(g, op.account)
           h == Numbered(g, n)
           create == [kind |-> "CreatePlayer", conn |-> op.conn, player |-> player]
           r == PlayerNotFound(g, op)
<1>1. r = IF op.token = NoToken /\ CanSubmit(h) THEN Submit(h, create)
                                                ELSE FailLogin(h, op.conn, op.account)
    BY DEF PlayerNotFound, NewPlayer, Numbered
<1>2. WithinBounds(r)
    OBVIOUS
<1>3. op.conn \in Connections /\ op.account \in Accounts
    BY DEF LoadPlayerOps
<1>4. g.player_sequence \in Nat /\ n \in Nat \ {0}
    BY DEF GameInv, GameTypeOK
<1> HIDE DEF r, n
<1>5. /\ GameInv(h) /\ h.online_players = g.online_players /\ h.player_sequence = n
      /\ Shrinks(g, h)
    BY <1>4, NumberedKeepsInv
<1> HIDE DEF h
<1>6. CASE op.token = NoToken /\ CanSubmit(h)
    <2>1. r = Submit(h, create)
        BY <1>1, <1>6
    <2> HIDE DEF create
    <2>2. TablesKept(h, r)
        <3>1. DOMAIN h = GameFields
            BY <1>5 DEF GameInv, GameTypeOK
        <3> QED  BY <2>1, <3>1, SubmitFrame DEF TablesKept
    <2>3. n <= MaxLogins
        BY <1>2, <1>5, <2>2 DEF WithinBounds, TablesKept
    <2>4. player \in Records
        <3>1. n \in PlayerIds
            BY <1>4, <2>3, GameAssumption DEF PlayerIds
        <3>2. player = [id |-> n, account |-> op.account, position |-> Start]
            BY DEF NewPlayer, n
        <3> QED  BY <1>3, <3>1, <3>2 DEF Records
    <2> HIDE DEF player
    <2>5. create \in AllOps
        BY <1>3, <2>4 DEF create, AllOps, CreatePlayerOps
    <2>6. GameInv(r) /\ Shrinks(h, r) /\ create \in Queued(r)
        BY <1>5, <1>6, <2>1, <2>5, SubmitKeepsInv
    <2>7. OfLogin(create, op.conn, op.account)
        BY DEF create, player, NewPlayer, OfLogin, AccountOf
    <2>8. Advances(h, r, op.conn, op.account)
        BY <2>6, <2>7 DEF Advances, GoesOn
    <2>9. Advances(g, r, op.conn, op.account)
        BY <1>3, <1>5, <2>8, AdvancesFrom
    <2> QED  BY <1>5, <2>2, <2>6, <2>9 DEF TablesKept, r
<1>7. CASE ~(op.token = NoToken /\ CanSubmit(h))
    <2>1. r = FailLogin(h, op.conn, op.account)
        BY <1>1, <1>7
    <2>2. GameInv(r) /\ TablesKept(h, r) /\ Advances(h, r, op.conn, op.account)
        BY <1>3, <1>5, <2>1, FailLoginKeepsInv DEF Advances
    <2>3. Advances(g, r, op.conn, op.account)
        BY <1>3, <1>5, <2>2, AdvancesFrom
    <2> QED  BY <1>5, <2>2, <2>3 DEF TablesKept, r
<1> QED  BY <1>6, <1>7

LEMMA PlayerLoadedKeepsInv ==
    ASSUME NEW g, GameInv(g), NEW op \in LoadPlayerOps,
           NEW status \in {"ok", "not_found", "failed"}, NEW value,
           status = "ok" => value \in Records /\ value.account = op.account,
           WithinBounds(OnPlayerLoaded(g, op, status, value))
    PROVE  LET r == OnPlayerLoaded(g, op, status, value)
           IN  /\ GameInv(r) /\ r.online_players = g.online_players
               /\ Advances(g, r, op.conn, op.account)
<1> DEFINE r == OnPlayerLoaded(g, op, status, value)
<1>1. /\ ~StillPending(g, op.conn) => r = Forget(g, op.conn, op.account)
      /\ StillPending(g, op.conn) =>
           /\ status = "ok" => r = ContinueLogin(g, op.conn, value, op.token)
           /\ status = "failed" => r = FailLogin(g, op.conn, op.account)
           /\ status = "not_found" => r = PlayerNotFound(g, op)
    BY DEF OnPlayerLoaded
<1>2. WithinBounds(r)
    OBVIOUS
<1>3. op.conn \in Connections /\ op.token \in 0 .. MaxLogins + 1
    BY DEF LoadPlayerOps
<1> HIDE DEF r
<1>4. CASE ~StillPending(g, op.conn)
    <2>1. GameInv(r) /\ TablesKept(g, r) /\ Advances(g, r, op.conn, op.account)
        <3>1. r = Forget(g, op.conn, op.account)
            BY <1>1, <1>4
        <3> QED  BY <1>3, <3>1, ForgetKeepsInv DEF Advances
    <2> QED  BY <2>1 DEF TablesKept, r
<1>5. CASE StillPending(g, op.conn) /\ status = "ok"
    <2>1. /\ GameInv(r) /\ r.online_players = g.online_players
          /\ Advances(g, r, op.conn, value.account)
        <3>1. value \in Records /\ r = ContinueLogin(g, op.conn, value, op.token)
            BY <1>1, <1>5
        <3> QED  BY <1>2, <1>3, <3>1, ContinueLoginKeepsInv
    <2> QED  BY <1>5, <2>1 DEF r
<1>6. CASE StillPending(g, op.conn) /\ status = "failed"
    <2>1. GameInv(r) /\ TablesKept(g, r) /\ Advances(g, r, op.conn, op.account)
        <3>1. r = FailLogin(g, op.conn, op.account)
            BY <1>1, <1>6
        <3> QED  BY <1>3, <3>1, FailLoginKeepsInv DEF Advances
    <2> QED  BY <2>1 DEF TablesKept, r
<1>7. CASE StillPending(g, op.conn) /\ status = "not_found"
    <2>1. /\ GameInv(r) /\ r.online_players = g.online_players
          /\ Advances(g, r, op.conn, op.account)
        BY <1>1, <1>2, <1>7, PlayerNotFoundKeepsInv
    <2> QED  BY <2>1 DEF r
<1> QED  BY <1>4, <1>5, <1>6, <1>7

LEMMA PlayerCreatedKeepsInv ==
    ASSUME NEW g, GameInv(g), NEW op \in CreatePlayerOps, NEW status,
           WithinBounds(OnPlayerCreated(g, op, status))
    PROVE  LET r == OnPlayerCreated(g, op, status)
           IN  /\ GameInv(r) /\ r.online_players = g.online_players
               /\ Advances(g, r, op.conn, op.player.account)
<1> DEFINE r == OnPlayerCreated(g, op, status)
<1>1. PICK none \in 0 .. MaxLogins + 1 : none = NoToken
    BY GameAssumption DEF NoToken
<1>2. r = IF status = "ok" THEN ContinueLogin(g, op.conn, op.player, none)
                           ELSE FailLogin(g, op.conn, op.player.account)
    BY <1>1 DEF OnPlayerCreated
<1>3. WithinBounds(r)
    OBVIOUS
<1>4. op.conn \in Connections /\ op.player \in Records
    BY DEF CreatePlayerOps
<1> HIDE DEF r
<1>5. CASE status = "ok"
    <2>1. r = ContinueLogin(g, op.conn, op.player, none)
        BY <1>2, <1>5
    <2>2. /\ GameInv(r) /\ r.online_players = g.online_players
          /\ Advances(g, r, op.conn, op.player.account)
        BY <1>3, <1>4, <2>1, ContinueLoginKeepsInv
    <2> QED  BY <2>2 DEF r
<1>6. CASE status # "ok"
    <2>1. r = FailLogin(g, op.conn, op.player.account)
        BY <1>2, <1>6
    <2>2. GameInv(r) /\ TablesKept(g, r) /\ Advances(g, r, op.conn, op.player.account)
        BY <1>4, <2>1, FailLoginKeepsInv DEF Advances
    <2> QED  BY <2>2 DEF TablesKept, r
<1> QED  BY <1>5, <1>6

LEMMA SessionLoadedKeepsInv ==
    ASSUME NEW g, GameInv(g), NEW op \in LoadSessionOps, NEW status, NEW value,
           WithinBounds(OnSessionLoaded(g, op, status, value))
    PROVE  LET r == OnSessionLoaded(g, op, status, value)
           IN  /\ GameInv(r) /\ r.online_players = g.online_players
               /\ Advances(g, r, op.conn, op.player.account)
<1> DEFINE r == OnSessionLoaded(g, op, status, value)
<1>1. PICK yes \in BOOLEAN : yes = TRUE
    OBVIOUS
<1>2. r = IF status = "ok" /\ value = op.token
            THEN StoreSessionAndFinish(g, op.conn, op.player, yes)
            ELSE FailLogin(g, op.conn, op.player.account)
    BY <1>1 DEF OnSessionLoaded
<1>3. WithinBounds(r)
    OBVIOUS
<1>4. op.conn \in Connections /\ op.player \in Records
    BY DEF LoadSessionOps
<1> HIDE DEF r
<1>5. CASE status = "ok" /\ value = op.token
    <2>1. r = StoreSessionAndFinish(g, op.conn, op.player, yes)
        BY <1>2, <1>5
    <2>2. /\ GameInv(r) /\ r.online_players = g.online_players
          /\ Advances(g, r, op.conn, op.player.account)
        BY <1>3, <1>4, <2>1, StoreSessionKeepsInv
    <2> QED  BY <2>2 DEF r
<1>6. CASE ~(status = "ok" /\ value = op.token)
    <2>1. r = FailLogin(g, op.conn, op.player.account)
        BY <1>2, <1>6
    <2>2. GameInv(r) /\ TablesKept(g, r) /\ Advances(g, r, op.conn, op.player.account)
        BY <1>4, <2>1, FailLoginKeepsInv DEF Advances
    <2> QED  BY <2>2 DEF TablesKept, r
<1> QED  BY <1>5, <1>6

LEMMA SessionStoredKeepsInv ==
    ASSUME NEW g, GameInv(g), NEW op \in StoreSessionOps, NEW status
    PROVE  LET r == OnSessionStored(g, op, status)
           IN  /\ GameInv(r) /\ PlayerStep(g.online_players, r.online_players)
               /\ Advances(g, r, op.conn, op.player.account)
<1> DEFINE r == OnSessionStored(g, op, status)
<1>1. /\ op.conn \in Connections /\ op.player \in Records
      /\ op.token \in Tokens /\ op.replace \in BOOLEAN
    BY DEF StoreSessionOps
<1>2. CASE status = "ok"
    <2>1. r = FinishLogin(g, op.conn, op.player, op.token, op.replace)
        BY <1>2 DEF OnSessionStored
    <2> HIDE DEF r
    <2>2. /\ GameInv(r) /\ PlayerStep(g.online_players, r.online_players)
          /\ Advances(g, r, op.conn, op.player.account)
        BY <1>1, <2>1, FinishLoginKeepsInv DEF Advances
    <2> QED  BY <2>2 DEF r
<1>3. CASE status # "ok"
    <2>1. r = FailLogin(g, op.conn, op.player.account)
        BY <1>3 DEF OnSessionStored
    <2> HIDE DEF r
    <2>2. GameInv(r) /\ TablesKept(g, r) /\ Advances(g, r, op.conn, op.player.account)
        BY <1>1, <2>1, FailLoginKeepsInv DEF Advances
    <2>3. PlayerStep(g.online_players, r.online_players)
        BY <2>2 DEF TablesKept, PlayerStep
    <2> QED  BY <2>2, <2>3 DEF r
<1> QED  BY <1>2, <1>3

\* Whatever completes, its callback keeps the tables in agreement.
LEMMA CompleteKeepsInv ==
    ASSUME NEW g, GameInv(g), NEW done \in Results, ResultOK(done),
           WithinBounds(Complete(g, done))
    PROVE  LET r == Complete(g, done)
           IN  /\ GameInv(r) /\ PlayerStep(g.online_players, r.online_players)
               /\ \/ Advances(g, r, done.op.conn, AccountOf(done.op))
                  \/ done.op.kind = "SavePlayer" /\ r = g
<1> DEFINE r == Complete(g, done)
<1>1. /\ done.op.kind = "LoadPlayer" =>
           r = OnPlayerLoaded(g, done.op, done.status, done.value)
      /\ done.op.kind = "CreatePlayer" => r = OnPlayerCreated(g, done.op, done.status)
      /\ done.op.kind = "LoadSession" =>
           r = OnSessionLoaded(g, done.op, done.status, done.value)
      /\ done.op.kind = "StoreSession" => r = OnSessionStored(g, done.op, done.status)
      /\ done.op.kind = "SavePlayer" => r = g
    BY DEF Complete
<1>2. WithinBounds(r)
    OBVIOUS
<1>3. done.op \in AllOps /\ done.status \in {"ok", "not_found", "failed"}
    BY DEF Results
<1> HIDE DEF r
<1>4. CASE done.op \in LoadPlayerOps
    <2>1. done.op.kind = "LoadPlayer"
        BY <1>4 DEF LoadPlayerOps
    <2>2. done.status = "ok" => done.value \in Records /\ done.value.account = done.op.account
        BY <2>1 DEF ResultOK
    <2>3. r = OnPlayerLoaded(g, done.op, done.status, done.value)
        BY <1>1, <2>1
    <2>4. /\ GameInv(r) /\ r.online_players = g.online_players
          /\ Advances(g, r, done.op.conn, done.op.account)
        BY <1>2, <1>3, <1>4, <2>2, <2>3, PlayerLoadedKeepsInv
    <2>5. AccountOf(done.op) = done.op.account
        BY <2>1 DEF AccountOf
    <2> QED  BY <2>4, <2>5 DEF r, PlayerStep
<1>5. CASE done.op \in CreatePlayerOps
    <2>1. r = OnPlayerCreated(g, done.op, done.status)
        BY <1>1, <1>5 DEF CreatePlayerOps
    <2>2. /\ GameInv(r) /\ r.online_players = g.online_players
          /\ Advances(g, r, done.op.conn, done.op.player.account)
        BY <1>2, <1>5, <2>1, PlayerCreatedKeepsInv
    <2>3. AccountOf(done.op) = done.op.player.account
        BY <1>5 DEF AccountOf, CreatePlayerOps
    <2> QED  BY <2>2, <2>3 DEF r, PlayerStep
<1>6. CASE done.op \in LoadSessionOps
    <2>1. r = OnSessionLoaded(g, done.op, done.status, done.value)
        BY <1>1, <1>6 DEF LoadSessionOps
    <2>2. /\ GameInv(r) /\ r.online_players = g.online_players
          /\ Advances(g, r, done.op.conn, done.op.player.account)
        BY <1>2, <1>6, <2>1, SessionLoadedKeepsInv
    <2>3. AccountOf(done.op) = done.op.player.account
        BY <1>6 DEF AccountOf, LoadSessionOps
    <2> QED  BY <2>2, <2>3 DEF r, PlayerStep
<1>7. CASE done.op \in StoreSessionOps
    <2>1. r = OnSessionStored(g, done.op, done.status)
        BY <1>1, <1>7 DEF StoreSessionOps
    <2>2. /\ GameInv(r) /\ PlayerStep(g.online_players, r.online_players)
          /\ Advances(g, r, done.op.conn, done.op.player.account)
        BY <1>7, <2>1, SessionStoredKeepsInv
    <2>3. AccountOf(done.op) = done.op.player.account
        BY <1>7 DEF AccountOf, StoreSessionOps
    <2> QED  BY <2>2, <2>3 DEF r
<1>8. CASE done.op \in SavePlayerOps
    <2>1. r = g /\ done.op.kind = "SavePlayer"
        BY <1>1, <1>8 DEF SavePlayerOps
    <2> QED  BY <2>1 DEF r, PlayerStep
<1> QED  BY <1>3, <1>4, <1>5, <1>6, <1>7, <1>8 DEF AllOps

-----------------------------------------------------------------------------
(* The messages.                                                           *)

\* The connection waits for its login, and the account is locked.
Waiting(g, c, account) ==
    [g EXCEPT !.pending_connections[c] = account,
              !.pending_accounts = @ \cup {account}]

LEMMA WaitingKeepsInv ==
    ASSUME NEW g, GameInv(g), NEW c \in g.conns, NEW account \in Accounts,
           g.connection_players[c] = NoPlayer
    PROVE  LET h == Waiting(g, c, account)
           IN  /\ GameInv(h) /\ TablesKept(g, h)
               /\ \A r : Advances(h, r, c, account) =>
                            Shrinks(g, r) \/ Starts(g, r, c, account)
<1> DEFINE h == Waiting(g, c, account)
<1>1. /\ DOMAIN g = GameFields /\ c \in Connections
      /\ g.pending_connections \in [Connections -> Accounts \cup {NoAccount}]
    BY DEF GameInv, GameTypeOK
<1>2. /\ DOMAIN h = GameFields
      /\ h.conns = g.conns
      /\ h.marked_for_close = g.marked_for_close
      /\ h.online_players = g.online_players
      /\ h.connection_players = g.connection_players
      /\ h.world = g.world
      /\ h.player_sequence = g.player_sequence
      /\ h.tokens = g.tokens
      /\ h.tasks = g.tasks
      /\ h.pending_accounts = g.pending_accounts \cup {account}
      /\ h.pending_connections = [g.pending_connections EXCEPT ![c] = account]
    BY <1>1 DEF GameFields, Waiting
<1> HIDE DEF h
<1>3. GameTypeOK(h)
    BY <1>1, <1>2 DEF GameInv, GameTypeOK
<1>4. Agree(h)
    BY <1>2 DEF GameInv, Agree
<1>5. PendingFree(h)
    BY <1>1, <1>2 DEF GameInv, PendingFree
<1>6. ASSUME NEW r, Advances(h, r, c, account)
      PROVE  Shrinks(g, r) \/ Starts(g, r, c, account)
    <2>1. /\ h.pending_connections[c] = account
          /\ \A d \in Connections \ {c} : h.pending_connections[d] = g.pending_connections[d]
          /\ Queued(h) = Queued(g)
        BY <1>1, <1>2 DEF Queued
    <2>2. CASE Settled(r, c, account)
        BY <1>2, <1>6, <2>1, <2>2 DEF Advances, Shrinks, Settled
    <2>3. CASE GoesOn(r, c, account)
        BY <1>1, <1>2, <1>6, <2>1, <2>3 DEF Advances, Shrinks, Starts
    <2> QED  BY <1>6, <2>2, <2>3 DEF Advances
<1> QED  BY <1>2, <1>3, <1>4, <1>5, <1>6 DEF h, GameInv, TablesKept

LEMMA HandleLoginKeepsInv ==
    ASSUME NEW g, GameInv(g), NEW c \in g.conns, NEW account \in Accounts \cup {NoAccount},
           NEW token \in 0 .. MaxLogins + 1
    PROVE  LET r == HandleLogin(g, c, account, token)
           IN  /\ GameInv(r) /\ TablesKept(g, r)
               /\ Shrinks(g, r) \/ Starts(g, r, c, account)
<1> DEFINE bad == \/ account = NoAccount
                  \/ g.connection_players[c] # NoPlayer
                  \/ g.pending_connections[c] # NoAccount
                  \/ account \in g.pending_accounts
           h  == Waiting(g, c, account)
           op == [kind |-> "LoadPlayer", conn |-> c, account |-> account, token |-> token]
           s  == IF CanSubmit(h) THEN Submit(h, op) ELSE FailLogin(h, c, account)
           r  == HandleLogin(g, c, account, token)
<1>1. r = IF bad THEN FailLogin(g, c, NoAccount) ELSE s
    BY DEF HandleLogin, Waiting
<1>2. c \in Connections
    BY DEF GameInv, GameTypeOK
<1> HIDE DEF r
<1>3. CASE bad
    <2>1. r = FailLogin(g, c, NoAccount)
        BY <1>1, <1>3
    <2>2. GameInv(r) /\ TablesKept(g, r) /\ Shrinks(g, r)
        BY <1>2, <2>1, FailLoginKeepsInv
    <2> QED  BY <2>2 DEF r
<1>4. CASE ~bad
    <2>1. account \in Accounts /\ g.connection_players[c] = NoPlayer
        BY <1>4
    <2>2. r = s
        BY <1>1, <1>4
    <2>3. /\ GameInv(h) /\ TablesKept(g, h)
          /\ \A q : Advances(h, q, c, account) =>
                       Shrinks(g, q) \/ Starts(g, q, c, account)
        BY <2>1, WaitingKeepsInv
    <2>4. op \in AllOps /\ OfLogin(op, c, account)
        BY <1>2, <2>1 DEF AllOps, LoadPlayerOps, OfLogin, AccountOf
    <2> HIDE DEF h, op
    <2>5. GameInv(s) /\ TablesKept(h, s) /\ Advances(h, s, c, account)
        BY <1>2, <2>3, <2>4, SubmitOrFail
    <2> HIDE DEF s
    <2>6. TablesKept(g, s)
        BY <2>3, <2>5 DEF TablesKept
    <2>7. Shrinks(g, s) \/ Starts(g, s, c, account)
        BY <2>3, <2>5
    <2> QED  BY <2>2, <2>5, <2>6, <2>7 DEF r
<1> QED  BY <1>3, <1>4

\* The player's position is changed, in the world and in its record.
Moved(g, id, position) ==
    [g EXCEPT !.world = MovePlayer(@, id, position),
              !.online_players[id].record.position = position]

LEMMA MovedKeepsInv ==
    ASSUME NEW g, GameInv(g), NEW id \in PlayerIds, NEW position \in Positions,
           g.online_players[id] # Offline
    PROVE  LET h == Moved(g, id, position)
           IN  /\ GameInv(h) /\ SameCounters(g, h) /\ Shrinks(g, h)
               /\ PlayerStep(g.online_players, h.online_players)
<1> DEFINE h == Moved(g, id, position)
           old == g.online_players[id]
           entry == [old EXCEPT !.record = [old.record EXCEPT !.position = position]]
<1>1. /\ DOMAIN g = GameFields
      /\ g.online_players \in [PlayerIds -> {Offline} \cup Entries]
      /\ g.connection_players \in [Connections -> PlayerIds \cup {NoPlayer}]
    BY DEF GameInv, GameTypeOK
<1>2. old \in Entries
    BY <1>1
<1>3. /\ entry \in Entries /\ entry # Offline /\ entry.conn = old.conn
      /\ entry.record.id = old.record.id /\ entry.record.position = position
    <2>1. entry \in Entries /\ entry.conn = old.conn
          /\ entry.record.id = old.record.id /\ entry.record.position = position
        BY <1>2 DEF Entries, Records
    <2> QED  BY <2>1, NothingIsNothing
<1>4. /\ DOMAIN h = GameFields
      /\ h.conns = g.conns
      /\ h.marked_for_close = g.marked_for_close
      /\ h.online_players = [g.online_players EXCEPT ![id] = entry]
      /\ h.connection_players = g.connection_players
      /\ h.pending_connections = g.pending_connections
      /\ h.pending_accounts = g.pending_accounts
      /\ h.player_sequence = g.player_sequence
      /\ h.tokens = g.tokens
      /\ h.tasks = g.tasks
      /\ h.world = MovePlayer(g.world, id, position)
    BY <1>1 DEF Moved, GameFields
<1> HIDE DEF h, entry
<1>5. id \in DOMAIN g.world.players
    BY DEF GameInv, Agree
<1>6. /\ DOMAIN h.world.players = DOMAIN g.world.players
      /\ h.world.players[id].position = position
      /\ \A i \in DOMAIN g.world.players \ {id} : h.world.players[i] = g.world.players[i]
    <2>1. h.world.players = [g.world.players EXCEPT ![id] =
                               [position |-> position, grid |-> GridIndexFor(position)]]
        BY <1>4 DEF MovePlayer
    <2> QED  BY <1>5, <2>1
<1>7. /\ h.online_players[id] = entry
      /\ \A i \in PlayerIds \ {id} : h.online_players[i] = g.online_players[i]
    BY <1>1, <1>4
<1>8. GameTypeOK(h)
    <2>1. h.online_players \in [PlayerIds -> {Offline} \cup Entries]
        BY <1>1, <1>3, <1>4
    <2> QED  BY <1>4, <2>1 DEF GameInv, GameTypeOK
<1>9. Agree(h)
    <2>1. ASSUME NEW d \in Connections, h.connection_players[d] # NoPlayer
          PROVE  /\ d \in h.conns
                 /\ h.online_players[h.connection_players[d]].conn = d
        <3>1. /\ d \in g.conns /\ g.connection_players[d] \in PlayerIds
              /\ g.online_players[g.connection_players[d]].conn = d
            BY <1>1, <1>4, <2>1 DEF GameInv, Agree
        <3> QED  BY <1>3, <1>4, <1>7, <3>1
    <2>2. ASSUME NEW i \in PlayerIds
          PROVE  /\ i \in DOMAIN h.world.players <=> h.online_players[i] # Offline
                 /\ h.online_players[i] # Offline =>
                      /\ h.connection_players[h.online_players[i].conn] = i
                      /\ h.online_players[i].record.id = i
                      /\ h.world.players[i].position = h.online_players[i].record.position
        <3>1. CASE i = id
            <4>1. g.connection_players[old.conn] = id /\ old.record.id = id
                BY DEF GameInv, Agree
            <4> HIDE DEF old
            <4> QED  BY <1>3, <1>4, <1>5, <1>6, <1>7, <3>1, <4>1
        <3>2. CASE i # id
            <4>1. h.online_players[i] = g.online_players[i]
                BY <1>7, <3>2
            <4>2. i \in DOMAIN h.world.players <=> i \in DOMAIN g.world.players
                BY <1>6
            <4>3. CASE g.online_players[i] = Offline
                BY <4>1, <4>2, <4>3 DEF GameInv, Agree
            <4>4. CASE g.online_players[i] # Offline
                <5>1. /\ i \in DOMAIN g.world.players
                      /\ g.connection_players[g.online_players[i].conn] = i
                      /\ g.online_players[i].record.id = i
                      /\ g.world.players[i].position = g.online_players[i].record.position
                    BY <4>4 DEF GameInv, Agree
                <5> QED  BY <1>4, <1>6, <3>2, <4>1, <4>2, <4>4, <5>1
            <4> QED  BY <4>3, <4>4
        <3> QED  BY <3>1, <3>2
    <2> QED  BY <2>1, <2>2 DEF Agree
<1>10. PendingFree(h)
    BY <1>4 DEF GameInv, PendingFree
<1>11. PlayerStep(g.online_players, h.online_players)
    BY <1>3, <1>4 DEF PlayerStep
<1>12. Shrinks(g, h)
    BY <1>4, SamePending
<1> QED  BY <1>4, <1>8, <1>9, <1>10, <1>11, <1>12 DEF h, GameInv, SameCounters

LEMMA SendMoverKeepsTables ==
    ASSUME NEW g, GameInv(g), NEW c, NEW enters, NEW leaves
    PROVE  LET h == SendMover(g, c, enters, leaves)
           IN  GameInv(h) /\ TablesKept(g, h) /\ Shrinks(g, h)
<1> DEFINE C == {c}
           s == Send(g, C, enters, leaves)
<1>1. GameInv(s) /\ TablesKept(g, s) /\ Shrinks(g, s)
    <2> HIDE DEF C
    <2> QED  BY SendKeepsTables
<1>2. SendMover(g, c, enters, leaves) = g \/ SendMover(g, c, enters, leaves) = s
    BY DEF SendMover
<1>3. TablesKept(g, g) /\ Shrinks(g, g)
    BY SamePending DEF TablesKept
<1> HIDE DEF s
<1> QED  BY <1>1, <1>2, <1>3

LEMMA HandleMoveKeepsInv ==
    ASSUME NEW g, GameInv(g), NEW c \in Connections, NEW position \in Positions
    PROVE  LET r == HandleMove(g, c, position)
           IN  /\ GameInv(r) /\ SameCounters(g, r) /\ Shrinks(g, r)
               /\ PlayerStep(g.online_players, r.online_players)
<1> DEFINE r == HandleMove(g, c, position)
           id == g.connection_players[c]
           h  == Moved(g, id, position)
           delta == ViewDelta(g.world, h.world, id)
           mover == ViewsOf(h, {id})
           C1 == ConnectionsOf(h, delta.stayed)
           C2 == ConnectionsOf(h, delta.entered)
           C3 == ConnectionsOf(h, delta.left)
           L  == {id}
           stayed  == Send(h, C1, mover, {})
           entered == Send(stayed, C2, mover, {})
           left    == Send(entered, C3, {}, L)
           E4 == ViewsOf(h, delta.entered)
           L4 == Found(h, delta.left)
           last == SendMover(left, c, E4, L4)
           can == HasPlayer(g, c) /\ CanMove(g.world, id, position)
<1>1. r = IF can THEN last ELSE g
    BY DEF HandleMove, Moved
<1> HIDE DEF r, L, L4, E4, C1, C2, C3, mover, delta
<1>2. CASE ~can
    <2>1. r = g /\ Shrinks(g, g)
        BY <1>1, <1>2, SamePending
    <2> QED  BY <2>1 DEF r, SameCounters, PlayerStep
<1>3. CASE can
    <2>1. id \in PlayerIds /\ g.online_players[id] # Offline
        <3>1. g.connection_players \in [Connections -> PlayerIds \cup {NoPlayer}]
            BY DEF GameInv, GameTypeOK
        <3> QED  BY <1>3, <3>1 DEF HasPlayer, IsOnline
    <2> HIDE DEF id
    <2>2. /\ GameInv(h) /\ SameCounters(g, h) /\ Shrinks(g, h)
          /\ PlayerStep(g.online_players, h.online_players)
        BY <2>1, MovedKeepsInv
    <2> HIDE DEF h
    <2>3. GameInv(stayed) /\ TablesKept(h, stayed) /\ Shrinks(h, stayed)
        BY <2>2, SendKeepsTables
    <2> HIDE DEF stayed
    <2>4. GameInv(entered) /\ TablesKept(stayed, entered) /\ Shrinks(stayed, entered)
        BY <2>3, SendKeepsTables
    <2> HIDE DEF entered
    <2>5. GameInv(left) /\ TablesKept(entered, left) /\ Shrinks(entered, left)
        BY <2>4, SendKeepsTables
    <2> HIDE DEF left
    <2>6. GameInv(last) /\ TablesKept(left, last) /\ Shrinks(left, last)
        BY <2>5, SendMoverKeepsTables
    <2> HIDE DEF last
    <2>7. SameCounters(g, last) /\ last.online_players = h.online_players
        BY <2>2, <2>3, <2>4, <2>5, <2>6 DEF SameCounters, TablesKept
    <2>8. r = last
        BY <1>1, <1>3
    <2>9. Shrinks(g, last)
        BY <2>2, <2>3, <2>4, <2>5, <2>6, ShrinksOn
    <2> QED  BY <2>2, <2>6, <2>7, <2>8, <2>9 DEF r
<1> QED  BY <1>2, <1>3

LEMMA HandleChatKeepsInv ==
    ASSUME NEW g, GameInv(g), NEW c
    PROVE  LET r == HandleChat(g, c)
           IN  GameInv(r) /\ TablesKept(g, r) /\ Shrinks(g, r)
<1> DEFINE C == ConnectionsOf(g, PlayerIds)
           s == Send(g, C, {}, {})
<1>1. HandleChat(g, c) = g \/ HandleChat(g, c) = s
    BY DEF HandleChat
<1> HIDE DEF C
<1>2. GameInv(s) /\ TablesKept(g, s) /\ Shrinks(g, s)
    BY SendKeepsTables
<1>3. TablesKept(g, g) /\ Shrinks(g, g)
    BY SamePending DEF TablesKept
<1> HIDE DEF s
<1> QED  BY <1>1, <1>2, <1>3

LEMMA HandleHeartbeatKeepsInv ==
    ASSUME NEW g, GameInv(g), NEW c
    PROVE  LET r == HandleHeartbeat(g, c)
           IN  GameInv(r) /\ TablesKept(g, r) /\ Shrinks(g, r)
<1> DEFINE C == {c}
           s == Send(g, C, {}, {})
<1>1. HandleHeartbeat(g, c) = s
    BY DEF HandleHeartbeat
<1> HIDE DEF C
<1>2. GameInv(s) /\ TablesKept(g, s) /\ Shrinks(g, s)
    BY SendKeepsTables
<1> HIDE DEF s
<1> QED  BY <1>1, <1>2

-----------------------------------------------------------------------------
(* The system.                                                             *)

LEMMA InitSystemInv ==
    ASSUME SystemInit
    PROVE  SystemInv
<1>1. GameTypeOK(game)
    <2>1. DOMAIN game = GameFields
        BY DEF SystemInit, GameInit, GameFields
    <2>2. /\ game.conns = {} /\ game.marked_for_close = {}
          /\ game.online_players = [id \in PlayerIds |-> Offline]
          /\ game.connection_players = [c \in Connections |-> NoPlayer]
          /\ game.pending_connections = [c \in Connections |-> NoAccount]
          /\ game.pending_accounts = {}
          /\ game.player_sequence = 0 /\ game.tokens = <<>> /\ game.tasks = <<>>
        BY DEF SystemInit, GameInit
    <2>3. Len(game.tasks) <= QueueCapacity
        BY <2>2, GameAssumption
    <2> QED  BY <2>1, <2>2, <2>3 DEF GameTypeOK
<1>2. Agree(game)
    <2>1. /\ game.online_players = [id \in PlayerIds |-> Offline]
          /\ game.connection_players = [c \in Connections |-> NoPlayer]
          /\ game.world = EmptyWorld
        BY DEF SystemInit, GameInit
    <2>2. \A id : id \notin DOMAIN game.world.players
        BY <2>1 DEF EmptyWorld
    <2> QED  BY <2>1, <2>2 DEF Agree
<1>3. PendingFree(game)
    BY DEF SystemInit, GameInit, PendingFree
<1>4. WithinBounds(game)
    BY GameAssumption DEF SystemInit, GameInit, WithinBounds
<1>5. /\ running \in [Workers -> Hands]
      /\ \A w \in Workers : running[w].stage = "done" => ResultOK(running[w])
    BY DEF SystemInit, Hands, Idle
<1>6. /\ completions \in Seq(Results)
      /\ \A i \in 1 .. Len(completions) : ResultOK(completions[i])
    BY DEF SystemInit
<1>7. /\ players \in [Accounts -> Records \cup {NoRecord}]
      /\ \A a \in Accounts : players[a] # NoRecord => players[a].account = a
      /\ sessions \in [PlayerIds -> Tokens \cup {NoToken}]
      /\ phase \in Phases /\ accepted \in Nat
      /\ current \in Connections \cup {NoConnection}
    BY DEF SystemInit, Phases
<1> QED  BY <1>1, <1>2, <1>3, <1>4, <1>5, <1>6, <1>7 DEF SystemInv, GameInv

\* Steps of the event loop that leave the workers' hands, the completions and
\* the stores alone.
LEMMA GameStep ==
    ASSUME SystemInv, GameInv(game'), WithinBounds(game'),
           UNCHANGED <<running, completions, stores>>,
           phase' \in Phases, accepted' \in Nat,
           current' \in Connections \cup {NoConnection}
    PROVE  SystemInv'
BY DEF SystemInv, stores

LEMMA BoundsKept ==
    ASSUME NEW g, NEW h, WithinBounds(g), SameCounters(g, h)
    PROVE  WithinBounds(h)
BY DEF WithinBounds, SameCounters

\* The steps that touch only conns, marked_for_close, broken or accepting.
LEMMA TransportKeepsInv ==
    ASSUME NEW g, NEW h, GameInv(g), DOMAIN h = GameFields,
           g.conns \subseteq h.conns, h.conns \subseteq Connections,
           h.marked_for_close \subseteq h.conns,
           h.online_players = g.online_players,
           h.connection_players = g.connection_players,
           h.world = g.world,
           h.pending_connections = g.pending_connections,
           h.pending_accounts = g.pending_accounts,
           h.player_sequence = g.player_sequence,
           h.tokens = g.tokens,
           h.tasks = g.tasks
    PROVE  GameInv(h) /\ SameCounters(g, h) /\ Shrinks(g, h)
<1>1. GameTypeOK(h)
    BY DEF GameInv, GameTypeOK
<1>2. Agree(h)
    BY DEF GameInv, Agree
<1>3. PendingFree(h)
    BY DEF GameInv, PendingFree
<1>4. Shrinks(g, h)
    BY SamePending
<1> QED  BY <1>1, <1>2, <1>3, <1>4 DEF GameInv, SameCounters

LEMMA AcceptReadyKeepsInv ==
    ASSUME SystemInv, AcceptReady
    PROVE  SystemInv' /\ Shrinks(game, game')
<1>1. GameInv(game) /\ DOMAIN game = GameFields /\ WithinBounds(game) /\ accepted \in Nat
    BY DEF SystemInv, GameInv, GameTypeOK
<1>2. game' = [game EXCEPT !.conns = @ \cup {accepted + 1}] /\ accepted + 1 \in Connections
    BY DEF AcceptReady
<1>3. /\ DOMAIN game' = GameFields
      /\ game'.conns = game.conns \cup {accepted + 1}
      /\ game'.marked_for_close = game.marked_for_close
      /\ game'.online_players = game.online_players
      /\ game'.connection_players = game.connection_players
      /\ game'.world = game.world
      /\ game'.pending_connections = game.pending_connections
      /\ game'.pending_accounts = game.pending_accounts
      /\ game'.player_sequence = game.player_sequence
      /\ game'.tokens = game.tokens
      /\ game'.tasks = game.tasks
    BY <1>1, <1>2 DEF GameFields
<1>4. /\ game.conns \subseteq game'.conns /\ game'.conns \subseteq Connections
      /\ game'.marked_for_close \subseteq game'.conns
    BY <1>1, <1>2, <1>3 DEF GameInv, GameTypeOK
<1>5. GameInv(game') /\ SameCounters(game, game') /\ Shrinks(game, game')
    BY <1>1, <1>3, <1>4, TransportKeepsInv
<1>6. WithinBounds(game')
    BY <1>1, <1>5, BoundsKept
<1>7. phase' \in Phases /\ accepted' \in Nat /\ current' \in Connections \cup {NoConnection}
    BY <1>1 DEF AcceptReady, SystemInv, eventLoop
<1> QED  BY <1>5, <1>6, <1>7, GameStep DEF AcceptReady

LEMMA PeerBreaksKeepsInv ==
    ASSUME SystemInv, NEW c \in Connections, PeerBreaks(c)
    PROVE  SystemInv' /\ Shrinks(game, game')
<1>1. GameInv(game) /\ DOMAIN game = GameFields /\ WithinBounds(game)
    BY DEF SystemInv, GameInv, GameTypeOK
<1>2. game' = [game EXCEPT !.broken = @ \cup {c}]
    BY DEF PeerBreaks
<1>3. /\ DOMAIN game' = GameFields
      /\ game'.conns = game.conns
      /\ game'.marked_for_close = game.marked_for_close
      /\ game'.online_players = game.online_players
      /\ game'.connection_players = game.connection_players
      /\ game'.world = game.world
      /\ game'.pending_connections = game.pending_connections
      /\ game'.pending_accounts = game.pending_accounts
      /\ game'.player_sequence = game.player_sequence
      /\ game'.tokens = game.tokens
      /\ game'.tasks = game.tasks
    BY <1>1, <1>2 DEF GameFields
<1>4. /\ game.conns \subseteq game'.conns /\ game'.conns \subseteq Connections
      /\ game'.marked_for_close \subseteq game'.conns
    BY <1>1, <1>3 DEF GameInv, GameTypeOK
<1>5. GameInv(game') /\ SameCounters(game, game') /\ Shrinks(game, game')
    BY <1>1, <1>3, <1>4, TransportKeepsInv
<1>6. WithinBounds(game')
    BY <1>1, <1>5, BoundsKept
<1>7. phase' \in Phases /\ accepted' \in Nat /\ current' \in Connections \cup {NoConnection}
    BY DEF PeerBreaks, SystemInv, eventLoop
<1> QED  BY <1>5, <1>6, <1>7, GameStep DEF PeerBreaks

\* The tokens a client has presented are no table of the game.
Presenting(g, c, token) == [g EXCEPT !.presented[c] = @ \cup {token}]

LEMMA PresentingKeepsInv ==
    ASSUME NEW g, GameInv(g), NEW c, NEW token
    PROVE  LET h == Presenting(g, c, token)
           IN  /\ GameInv(h) /\ TablesKept(g, h)
               /\ \A r, a : Shrinks(h, r) \/ Starts(h, r, c, a) =>
                               Shrinks(g, r) \/ Starts(g, r, c, a)
<1> DEFINE h == Presenting(g, c, token)
<1>1. DOMAIN g = GameFields
    BY DEF GameInv, GameTypeOK
<1>2. /\ DOMAIN h = GameFields
      /\ h.conns = g.conns
      /\ h.marked_for_close = g.marked_for_close
      /\ h.online_players = g.online_players
      /\ h.connection_players = g.connection_players
      /\ h.world = g.world
      /\ h.pending_connections = g.pending_connections
      /\ h.pending_accounts = g.pending_accounts
      /\ h.player_sequence = g.player_sequence
      /\ h.tokens = g.tokens
      /\ h.tasks = g.tasks
    BY <1>1 DEF GameFields, Presenting
<1> HIDE DEF h
<1>3. /\ g.conns \subseteq h.conns /\ h.conns \subseteq Connections
      /\ h.marked_for_close \subseteq h.conns
    BY <1>2 DEF GameInv, GameTypeOK
<1>4. GameInv(h)
    BY <1>2, <1>3, TransportKeepsInv
<1>5. \A r, a : Shrinks(h, r) \/ Starts(h, r, c, a) => Shrinks(g, r) \/ Starts(g, r, c, a)
    <2>1. Queued(h) = Queued(g)
        BY <1>2 DEF Queued
    <2>2. \A r : Shrinks(h, r) => Shrinks(g, r)
        BY <1>2, <2>1 DEF Shrinks
    <2>3. \A r, a : Starts(h, r, c, a) => Starts(g, r, c, a)
        BY <1>2, <2>1 DEF Starts
    <2> QED  BY <2>2, <2>3
<1> QED  BY <1>2, <1>4, <1>5 DEF h, TablesKept

\* A token a client can present is none, one of those issued, or a wrong one.
LEMMA PresentableTokens ==
    ASSUME SystemInv
    PROVE  Presentable \subseteq 0 .. MaxLogins + 1
<1>1. /\ game.tokens \in Seq(PlayerIds) /\ Len(game.tokens) <= MaxLogins
    BY DEF SystemInv, GameInv, GameTypeOK, WithinBounds
<1>2. Len(game.tokens) \in Nat
    BY <1>1, LenProperties
<1> QED  BY <1>1, <1>2, GameAssumption DEF Presentable, NoToken

LEMMA FrameTakesPlace ==
    ASSUME SystemInv, NEW c \in Connections, InFrame(c), GameInv(game'), WithinBounds(game')
    PROVE  SystemInv'
<1>1. /\ UNCHANGED <<running, completions, stores>>
      /\ phase' \in Phases /\ accepted' \in Nat
      /\ current' \in Connections \cup {NoConnection}
    BY DEF InFrame, SystemInv, Phases
<1> QED  BY <1>1, GameStep

LEMMA LoginFrameKeepsInv ==
    ASSUME SystemInv, NEW c \in Connections, LoginFrame(c)
    PROVE  GameInv(game') /\ SameCounters(game, game') /\ SystemInv'
           /\ game'.online_players = game.online_players
           /\ \E a : Shrinks(game, game') \/ Starts(game, game', c, a)
<1>1. GameInv(game) /\ WithinBounds(game) /\ c \in game.conns
    BY DEF SystemInv, LoginFrame, InFrame, IsConnected
<1>2. PICK account \in Asks[c] \cup {NoAccount}, token \in Presentable :
        game' = HandleLogin(Presenting(game, c, token), c, account, token)
    BY DEF LoginFrame, Presenting
<1>3. account \in Accounts \cup {NoAccount} /\ token \in 0 .. MaxLogins + 1
    BY <1>2, SystemAssumption, PresentableTokens
<1> DEFINE g == Presenting(game, c, token)
<1>4. /\ GameInv(g) /\ TablesKept(game, g)
      /\ \A r, a : Shrinks(g, r) \/ Starts(g, r, c, a) =>
                      Shrinks(game, r) \/ Starts(game, r, c, a)
    BY <1>1, PresentingKeepsInv
<1>5. game' = HandleLogin(g, c, account, token)
    BY <1>2
<1> HIDE DEF g
<1>6. c \in g.conns
    BY <1>1, <1>4 DEF TablesKept
<1>7. /\ GameInv(game') /\ TablesKept(g, game')
      /\ Shrinks(g, game') \/ Starts(g, game', c, account)
    BY <1>3, <1>4, <1>5, <1>6, HandleLoginKeepsInv
<1>8. SameCounters(game, game') /\ game'.online_players = game.online_players
    BY <1>4, <1>7 DEF TablesKept, SameCounters
<1>9. WithinBounds(game')
    BY <1>1, <1>8, BoundsKept
<1>10. Shrinks(game, game') \/ Starts(game, game', c, account)
    BY <1>4, <1>7
<1> QED  BY <1>7, <1>8, <1>9, <1>10, FrameTakesPlace DEF LoginFrame

LEMMA MoveFrameKeepsInv ==
    ASSUME SystemInv, NEW c \in Connections, MoveFrame(c)
    PROVE  SystemInv' /\ Shrinks(game, game')
<1>1. GameInv(game) /\ WithinBounds(game)
    BY DEF SystemInv
<1>2. PICK position \in Positions : game' = HandleMove(game, c, position)
    BY DEF MoveFrame
<1>3. GameInv(game') /\ SameCounters(game, game') /\ Shrinks(game, game')
    BY <1>1, <1>2, HandleMoveKeepsInv
<1>4. WithinBounds(game')
    BY <1>1, <1>3, BoundsKept
<1> QED  BY <1>3, <1>4, FrameTakesPlace DEF MoveFrame

LEMMA ChatFrameKeepsInv ==
    ASSUME SystemInv, NEW c \in Connections, ChatFrame(c) \/ HeartbeatFrame(c)
    PROVE  SystemInv' /\ Shrinks(game, game') /\ game'.online_players = game.online_players
<1>1. GameInv(game) /\ WithinBounds(game)
    BY DEF SystemInv
<1>2. GameInv(game') /\ TablesKept(game, game') /\ Shrinks(game, game')
    <2>1. CASE ChatFrame(c)
        <3>1. game' = HandleChat(game, c)
            BY <2>1 DEF ChatFrame
        <3> QED  BY <1>1, <3>1, HandleChatKeepsInv
    <2>2. CASE HeartbeatFrame(c)
        <3>1. game' = HandleHeartbeat(game, c)
            BY <2>2 DEF HeartbeatFrame
        <3> QED  BY <1>1, <3>1, HandleHeartbeatKeepsInv
    <2> QED  BY <2>1, <2>2
<1>3. WithinBounds(game') /\ game'.online_players = game.online_players
    BY <1>1, <1>2, KeptCounters, BoundsKept DEF TablesKept
<1> QED  BY <1>2, <1>3, FrameTakesPlace DEF ChatFrame, HeartbeatFrame

\* A step that closes a connection.
LEMMA ClosingKeepsInv ==
    ASSUME SystemInv, NEW c \in Connections, game' = CloseConnection(game, c)
    PROVE  /\ GameInv(game') /\ WithinBounds(game')
           /\ WithoutPlayerOf(game, game', c) /\ Shrinks(game, game')
<1>1. GameInv(game) /\ WithinBounds(game)
    BY DEF SystemInv
<1>2. GameInv(game') /\ WithoutPlayerOf(game, game', c) /\ Shrinks(game, game')
    BY <1>1, CloseKeepsInv
<1>3. SameCounters(game, game')
    BY <1>2 DEF WithoutPlayerOf, SameCounters
<1> QED  BY <1>1, <1>2, <1>3, BoundsKept

LEMMA UnknownFrameKeepsInv ==
    ASSUME SystemInv, NEW c \in Connections, UnknownFrame(c)
    PROVE  SystemInv' /\ Shrinks(game, game')
BY ClosingKeepsInv, FrameTakesPlace DEF UnknownFrame

LEMMA ClientEndKeepsInv ==
    ASSUME SystemInv, NEW c \in Connections, ClientEnd(c)
    PROVE  SystemInv' /\ Shrinks(game, game') /\ game'.online_players = game.online_players
<1>1. GameInv(game) /\ DOMAIN game = GameFields /\ WithinBounds(game)
    BY DEF SystemInv, GameInv, GameTypeOK
<1>2. /\ GameInv(game') /\ SameCounters(game, game') /\ Shrinks(game, game')
      /\ game'.online_players = game.online_players
    <2>1. CASE game' = game
        BY <1>1, <2>1, SamePending DEF SameCounters
    <2>2. CASE c \in game.conns /\ game' = [game EXCEPT !.marked_for_close = @ \cup {c}]
        <3>1. /\ DOMAIN game' = GameFields
              /\ game'.conns = game.conns
              /\ game'.marked_for_close = game.marked_for_close \cup {c}
              /\ game'.online_players = game.online_players
              /\ game'.connection_players = game.connection_players
              /\ game'.world = game.world
              /\ game'.pending_connections = game.pending_connections
              /\ game'.pending_accounts = game.pending_accounts
              /\ game'.player_sequence = game.player_sequence
              /\ game'.tokens = game.tokens
              /\ game'.tasks = game.tasks
            BY <1>1, <2>2 DEF GameFields
        <3>2. /\ game.conns \subseteq game'.conns /\ game'.conns \subseteq Connections
              /\ game'.marked_for_close \subseteq game'.conns
            BY <1>1, <2>2, <3>1 DEF GameInv, GameTypeOK
        <3> QED  BY <1>1, <3>1, <3>2, TransportKeepsInv
    <2> QED  BY <2>1, <2>2 DEF ClientEnd, IsConnected
<1>3. WithinBounds(game')
    BY <1>1, <1>2, BoundsKept
<1>4. phase' \in Phases /\ accepted' \in Nat /\ current' \in Connections \cup {NoConnection}
    BY DEF ClientEnd, AfterEvent, Phases, SystemInv
<1> QED  BY <1>2, <1>3, <1>4, GameStep DEF ClientEnd

LEMMA CloseMarkedKeepsInv ==
    ASSUME SystemInv, CloseMarked \/ CloseOnTeardown
    PROVE  SystemInv' /\ Shrinks(game, game')
<1>1. PICK c \in Connections : game' = CloseConnection(game, c)
    BY DEF SystemInv, GameInv, GameTypeOK, CloseMarked, CloseOnTeardown
<1>2. GameInv(game') /\ WithinBounds(game') /\ Shrinks(game, game')
    BY <1>1, ClosingKeepsInv
<1>3. phase' \in Phases /\ accepted' \in Nat /\ current' \in Connections \cup {NoConnection}
    BY DEF CloseMarked, CloseOnTeardown, AfterEvent, Phases, SystemInv, eventLoop
<1> QED  BY <1>2, <1>3, GameStep DEF CloseMarked, CloseOnTeardown

\* The first completion, and the rest.
LEMMA FirstResult ==
    ASSUME SystemInv, completions # <<>>
    PROVE  /\ Head(completions) \in Results /\ ResultOK(Head(completions))
           /\ Tail(completions) \in Seq(Results)
           /\ \A i \in 1 .. Len(Tail(completions)) : ResultOK(Tail(completions)[i])
<1>1. completions \in Seq(Results) /\ \A i \in 1 .. Len(completions) : ResultOK(completions[i])
    BY DEF SystemInv
<1>2. Len(completions) \in Nat \ {0}
    BY <1>1, EmptySeq, LenProperties
<1>3. Head(completions) = completions[1] /\ completions[1] \in Results
    BY <1>1, <1>2
<1>4. /\ Tail(completions) \in Seq(Results) /\ Len(Tail(completions)) = Len(completions) - 1
      /\ \A i \in 1 .. Len(Tail(completions)) : Tail(completions)[i] = completions[i + 1]
    BY <1>1, HeadTailProperties
<1>5. 1 \in 1 .. Len(completions)
      /\ \A i \in 1 .. Len(Tail(completions)) : i + 1 \in 1 .. Len(completions)
    BY <1>2, <1>4
<1> QED  BY <1>1, <1>3, <1>4, <1>5

LEMMA DrainOneKeepsInv ==
    ASSUME SystemInv, DrainOne
    PROVE  SystemInv'
<1>1. GameInv(game)
    BY DEF SystemInv
<1> DEFINE done == Head(completions)
<1>2. /\ done \in Results /\ ResultOK(done)
      /\ completions' \in Seq(Results)
      /\ \A i \in 1 .. Len(completions') : ResultOK(completions'[i])
    BY FirstResult DEF DrainOne, TakesCompletion
<1>3. game' = Complete(game, done) /\ WithinBounds(game')
    BY DEF DrainOne
<1> HIDE DEF done
<1>4. GameInv(game')
    BY <1>1, <1>2, <1>3, CompleteKeepsInv
<1>5. UNCHANGED <<running, players, sessions, accepted, current>> /\ phase' \in Phases
    BY DEF DrainOne, TakesCompletion, SystemInv, Phases, stores
<1> QED  BY <1>2, <1>3, <1>4, <1>5 DEF SystemInv

\* The steps that only move the event loop on.
LEMMA PhaseStepKeepsInv ==
    ASSUME SystemInv, DrainEnd \/ StopServer \/ Joined \/ FinalDrainEnd
    PROVE  SystemInv'
<1>1. /\ UNCHANGED <<game, accepted, running, completions, players, sessions, current>>
      /\ phase' \in Phases
    BY DEF DrainEnd, StopServer, Joined, FinalDrainEnd, AfterEvent, Phases, stores
<1> QED  BY <1>1 DEF SystemInv

LEMMA ShutdownKeepsInv ==
    ASSUME SystemInv, Shutdown
    PROVE  SystemInv' /\ Shrinks(game, game') /\ game'.online_players = game.online_players
<1>1. GameInv(game) /\ DOMAIN game = GameFields /\ WithinBounds(game)
    BY DEF SystemInv, GameInv, GameTypeOK
<1>2. game' = [game EXCEPT !.accepting = FALSE]
    BY DEF Shutdown
<1>3. /\ DOMAIN game' = GameFields
      /\ game'.conns = game.conns
      /\ game'.marked_for_close = game.marked_for_close
      /\ game'.online_players = game.online_players
      /\ game'.connection_players = game.connection_players
      /\ game'.world = game.world
      /\ game'.pending_connections = game.pending_connections
      /\ game'.pending_accounts = game.pending_accounts
      /\ game'.player_sequence = game.player_sequence
      /\ game'.tokens = game.tokens
      /\ game'.tasks = game.tasks
    BY <1>1, <1>2 DEF GameFields
<1>4. /\ game.conns \subseteq game'.conns /\ game'.conns \subseteq Connections
      /\ game'.marked_for_close \subseteq game'.conns
    BY <1>1, <1>3 DEF GameInv, GameTypeOK
<1>5. GameInv(game') /\ SameCounters(game, game') /\ Shrinks(game, game')
    BY <1>1, <1>3, <1>4, TransportKeepsInv
<1>6. WithinBounds(game')
    BY <1>1, <1>5, BoundsKept
<1>7. phase' \in Phases /\ accepted' \in Nat /\ current' \in Connections \cup {NoConnection}
    BY DEF Shutdown, SystemInv, Phases
<1> QED  BY <1>3, <1>5, <1>6, <1>7, GameStep DEF Shutdown

-----------------------------------------------------------------------------
(* The workers.                                                            *)

TakenHands == [stage : {"taken"}, op : AllOps]
DoneHands == [stage : {"done"}, op : AllOps, status : {"ok", "not_found", "failed"},
              value : Records \cup {NoRecord} \cup Tokens \cup {NoToken}]

LEMMA HandStages ==
    ASSUME NEW h \in Hands
    PROVE  /\ h.stage = "taken" => h \in TakenHands
           /\ h.stage = "done" => h \in DoneHands
BY DEF Hands, Idle, TakenHands, DoneHands

LEMMA TakeTaskKeepsInv ==
    ASSUME SystemInv, NEW w \in Workers, TakeTask(w)
    PROVE  SystemInv' /\ game'.online_players = game.online_players
<1>1. /\ GameInv(game) /\ DOMAIN game = GameFields /\ WithinBounds(game)
      /\ game.tasks \in Seq(AllOps) /\ Len(game.tasks) <= QueueCapacity
      /\ running \in [Workers -> Hands]
    BY DEF SystemInv, GameInv, GameTypeOK
<1>2. game.tasks # <<>> /\ game' = [game EXCEPT !.tasks = Tail(@)]
    BY DEF TakeTask
<1>3. /\ Tail(game.tasks) \in Seq(AllOps) /\ Head(game.tasks) \in AllOps
      /\ Len(Tail(game.tasks)) = Len(game.tasks) - 1 /\ Len(game.tasks) \in Nat
    BY <1>1, <1>2, HeadTailProperties, LenProperties
<1>4. Len(Tail(game.tasks)) <= QueueCapacity
    BY <1>1, <1>3, GameAssumption
<1>5. /\ DOMAIN game' = GameFields
      /\ game'.conns = game.conns
      /\ game'.marked_for_close = game.marked_for_close
      /\ game'.online_players = game.online_players
      /\ game'.connection_players = game.connection_players
      /\ game'.world = game.world
      /\ game'.pending_connections = game.pending_connections
      /\ game'.pending_accounts = game.pending_accounts
      /\ game'.player_sequence = game.player_sequence
      /\ game'.tokens = game.tokens
      /\ game'.tasks = Tail(game.tasks)
    BY <1>1, <1>2 DEF GameFields
<1>6. GameInv(game')
    <2>1. GameTypeOK(game')
        BY <1>1, <1>3, <1>4, <1>5 DEF GameInv, GameTypeOK
    <2>2. Agree(game')
        BY <1>1, <1>5 DEF GameInv, Agree
    <2>3. PendingFree(game')
        BY <1>1, <1>5 DEF GameInv, PendingFree
    <2> QED  BY <2>1, <2>2, <2>3 DEF GameInv
<1>7. WithinBounds(game')
    BY <1>1, <1>5 DEF WithinBounds
<1> DEFINE hand == [stage |-> "taken", op |-> Head(game.tasks)]
<1>8. hand \in Hands /\ hand.stage = "taken"
    BY <1>3 DEF Hands
<1>9. running' = [running EXCEPT ![w] = hand]
    BY DEF TakeTask
<1> HIDE DEF hand
<1>10. /\ running' \in [Workers -> Hands]
       /\ \A v \in Workers : running'[v].stage = "done" => ResultOK(running'[v])
    BY <1>1, <1>8, <1>9 DEF SystemInv
<1>11. UNCHANGED <<accepted, completions, players, sessions, phase, current>>
    BY DEF TakeTask, stores, eventLoop
<1> QED  BY <1>5, <1>6, <1>7, <1>10, <1>11 DEF SystemInv

\* What every step of a worker against a store comes down to.
LEMMA DoneKeepsInv ==
    ASSUME SystemInv, NEW w \in Workers, running[w].stage = "taken",
           NEW status \in {"ok", "not_found", "failed"},
           NEW value \in Records \cup {NoRecord} \cup Tokens \cup {NoToken},
           Done(w, status, value),
           running[w].op.kind = "LoadPlayer" /\ status = "ok" =>
               value \in Records /\ value.account = running[w].op.account,
           players' \in [Accounts -> Records \cup {NoRecord}],
           \A a \in Accounts : players'[a] # NoRecord => players'[a].account = a,
           sessions' \in [PlayerIds -> Tokens \cup {NoToken}],
           UNCHANGED <<game, accepted, completions, phase, current>>
    PROVE  SystemInv'
<1> DEFINE op == running[w].op
           hand == [stage |-> "done", op |-> op, status |-> status, value |-> value]
<1>1. running \in [Workers -> Hands]
    BY DEF SystemInv
<1>2. op \in AllOps
    BY <1>1, HandStages DEF TakenHands
<1>3. running' = [running EXCEPT ![w] = hand]
    BY DEF Done
<1>4. hand \in Hands /\ hand.op = op /\ hand.status = status /\ hand.value = value
    BY <1>2 DEF Hands
<1>5. ResultOK(hand)
    BY <1>4 DEF ResultOK
<1> HIDE DEF hand, op
<1>6. /\ running' \in [Workers -> Hands]
      /\ \A v \in Workers : running'[v].stage = "done" => ResultOK(running'[v])
    BY <1>1, <1>3, <1>4, <1>5 DEF SystemInv
<1> QED  BY <1>6 DEF SystemInv

\* What the operation in a worker's hand holds, by its kind.
LEMMA OperationInHand ==
    ASSUME SystemInv, NEW w \in Workers, running[w].stage = "taken"
    PROVE  LET op == running[w].op
           IN  /\ op \in AllOps
               /\ op.kind = "LoadPlayer" => op.account \in Accounts
               /\ op.kind \in {"CreatePlayer", "SavePlayer", "StoreSession", "LoadSession"} =>
                    op.player \in Records
               /\ op.kind = "StoreSession" => op.token \in Tokens
<1> DEFINE op == running[w].op
<1>1. op \in AllOps
    BY HandStages DEF SystemInv, TakenHands
<1> HIDE DEF op
<1>2. /\ op.kind = "LoadPlayer" => op.account \in Accounts
      /\ op.kind \in {"CreatePlayer", "SavePlayer", "StoreSession", "LoadSession"} =>
           op.player \in Records
      /\ op.kind = "StoreSession" => op.token \in Tokens
    BY <1>1 DEF AllOps, LoadPlayerOps, CreatePlayerOps, LoadSessionOps, StoreSessionOps,
                SavePlayerOps
<1> QED  BY <1>1, <1>2 DEF op

\* Save writes a player's record under its own account.
LEMMA SavedRecord ==
    ASSUME SystemInv, NEW record \in Records,
           players' = [players EXCEPT ![record.account] = record]
    PROVE  /\ players' \in [Accounts -> Records \cup {NoRecord}]
           /\ \A a \in Accounts : players'[a] # NoRecord => players'[a].account = a
<1>1. record.account \in Accounts
    BY DEF Records
<1> QED  BY <1>1 DEF SystemInv

LEMMA StoredToken ==
    ASSUME SystemInv, NEW id \in PlayerIds, NEW token \in Tokens \cup {NoToken},
           sessions' = [sessions EXCEPT ![id] = token]
    PROVE  sessions' \in [PlayerIds -> Tokens \cup {NoToken}]
BY DEF SystemInv

LEMMA OperateSucceedsKeepsInv ==
    ASSUME SystemInv, NEW w \in Workers, OperateSucceeds(w)
    PROVE  SystemInv'
<1> DEFINE op == running[w].op
<1>1. /\ running[w].stage = "taken"
      /\ UNCHANGED <<game, accepted, completions, phase, current>>
      /\ Load(w) \/ Save(w) \/ Store(w) \/ LoadToken(w)
    BY DEF OperateSucceeds, HasOp, StoreOperation, eventLoop
<1>2. /\ op \in AllOps
      /\ op.kind = "LoadPlayer" => op.account \in Accounts
      /\ op.kind \in {"CreatePlayer", "SavePlayer", "StoreSession", "LoadSession"} =>
           op.player \in Records
      /\ op.kind = "StoreSession" => op.token \in Tokens
    BY <1>1, OperationInHand
<1>3. /\ players \in [Accounts -> Records \cup {NoRecord}]
      /\ \A a \in Accounts : players[a] # NoRecord => players[a].account = a
      /\ sessions \in [PlayerIds -> Tokens \cup {NoToken}]
    BY DEF SystemInv
<1>4. \A record \in Records : record.id \in PlayerIds
    BY DEF Records
<1>5. CASE Load(w)
    <2> DEFINE record == players[op.account]
    <2>1. op.kind = "LoadPlayer" /\ UNCHANGED <<players, sessions>>
        BY <1>5 DEF Load, stores
    <2>2. record \in Records \cup {NoRecord} /\ (record # NoRecord => record.account = op.account)
        BY <1>2, <1>3, <2>1
    <2>3. CASE record = NoRecord
        <3>1. Done(w, "not_found", NoRecord)
            BY <1>5, <2>3 DEF Load
        <3> QED  BY <1>1, <1>3, <2>1, <3>1, DoneKeepsInv
    <2>4. CASE record # NoRecord
        <3>1. Done(w, "ok", record)
            BY <1>5, <2>4 DEF Load
        <3> HIDE DEF record
        <3> QED  BY <1>1, <1>3, <2>1, <2>2, <2>4, <3>1, DoneKeepsInv
    <2> QED  BY <2>3, <2>4
<1>6. CASE Save(w)
    <2>1. /\ op.kind \in {"CreatePlayer", "SavePlayer"} /\ sessions' = sessions
          /\ players' = [players EXCEPT ![op.player.account] = op.player]
          /\ Done(w, "ok", NoRecord)
        BY <1>6 DEF Save, Saves
    <2>2. op.player \in Records /\ op.kind # "LoadPlayer"
        BY <1>2, <2>1
    <2>3. /\ players' \in [Accounts -> Records \cup {NoRecord}]
          /\ \A a \in Accounts : players'[a] # NoRecord => players'[a].account = a
        BY <2>1, <2>2, SavedRecord
    <2> QED  BY <1>1, <1>3, <2>1, <2>2, <2>3, DoneKeepsInv
<1>7. CASE Store(w)
    <2>1. /\ op.kind = "StoreSession" /\ players' = players
          /\ sessions' = [sessions EXCEPT ![op.player.id] = op.token]
          /\ Done(w, "ok", NoRecord)
        BY <1>7 DEF Store
    <2>2. sessions' \in [PlayerIds -> Tokens \cup {NoToken}]
        BY <1>2, <1>4, <2>1, StoredToken
    <2> QED  BY <1>1, <1>3, <2>1, <2>2, DoneKeepsInv
<1>8. CASE LoadToken(w)
    <2> DEFINE token == sessions[op.player.id]
    <2>1. op.kind = "LoadSession" /\ UNCHANGED <<players, sessions>>
        BY <1>8 DEF LoadToken, stores
    <2>2. token \in Tokens \cup {NoToken}
        BY <1>2, <1>3, <1>4, <2>1
    <2>3. CASE token = NoToken
        <3>1. Done(w, "not_found", NoToken)
            BY <1>8, <2>3 DEF LoadToken
        <3> QED  BY <1>1, <1>3, <2>1, <3>1, DoneKeepsInv
    <2>4. CASE token # NoToken
        <3>1. Done(w, "ok", token)
            BY <1>8, <2>4 DEF LoadToken
        <3> HIDE DEF token
        <3> QED  BY <1>1, <1>3, <2>1, <2>2, <3>1, DoneKeepsInv
    <2> QED  BY <2>3, <2>4
<1> QED  BY <1>1, <1>5, <1>6, <1>7, <1>8

LEMMA OperateFailsKeepsInv ==
    ASSUME SystemInv, NEW w \in Workers, OperateFails(w)
    PROVE  SystemInv'
<1> DEFINE op == running[w].op
<1>1. /\ running[w].stage = "taken"
      /\ UNCHANGED <<game, accepted, completions, phase, current>>
      /\ Done(w, "failed", NoRecord)
    BY DEF OperateFails, HasOp, eventLoop
<1>2. /\ op.kind \in {"CreatePlayer", "SavePlayer", "StoreSession", "LoadSession"} =>
           op.player \in Records
      /\ op.kind = "StoreSession" => op.token \in Tokens
    BY <1>1, OperationInHand
<1>3. /\ players' \in [Accounts -> Records \cup {NoRecord}]
      /\ \A a \in Accounts : players'[a] # NoRecord => players'[a].account = a
      /\ sessions' \in [PlayerIds -> Tokens \cup {NoToken}]
    <2>1. CASE UNCHANGED <<players, sessions>>
        BY <2>1 DEF SystemInv
    <2>2. CASE /\ op.kind \in {"CreatePlayer", "SavePlayer"}
               /\ players' = [players EXCEPT ![op.player.account] = op.player]
               /\ UNCHANGED sessions
        <3>1. op.player \in Records
            BY <1>2, <2>2
        <3> QED  BY <2>2, <3>1, SavedRecord DEF SystemInv
    <2>3. CASE /\ op.kind = "StoreSession"
               /\ sessions' = [sessions EXCEPT ![op.player.id] = op.token]
               /\ UNCHANGED players
        <3>1. op.player.id \in PlayerIds /\ op.token \in Tokens
            BY <1>2, <2>3 DEF Records
        <3> QED  BY <2>3, <3>1, StoredToken DEF SystemInv
    <2> QED  BY <2>1, <2>2, <2>3 DEF OperateFails, Saves, stores
<1> QED  BY <1>1, <1>3, DoneKeepsInv

LEMMA PushResultKeepsInv ==
    ASSUME SystemInv, NEW w \in Workers, PushResult(w)
    PROVE  SystemInv'
<1> DEFINE hand == running[w]
           result == [op |-> hand.op, status |-> hand.status, value |-> hand.value]
<1>1. /\ running \in [Workers -> Hands]
      /\ completions \in Seq(Results)
      /\ \A i \in 1 .. Len(completions) : ResultOK(completions[i])
      /\ \A v \in Workers : running[v].stage = "done" => ResultOK(running[v])
    BY DEF SystemInv
<1>2. hand.stage = "done" /\ completions' = Append(completions, result)
      /\ running' = [running EXCEPT ![w] = Idle]
    BY DEF PushResult, HasOp
<1>3. hand \in DoneHands /\ ResultOK(hand)
    BY <1>1, <1>2, HandStages
<1> HIDE DEF hand
<1>4. result \in Results
    BY <1>3 DEF Results, DoneHands
<1>5. ResultOK(result)
    BY <1>3 DEF ResultOK
<1> HIDE DEF result
<1>6. /\ completions' \in Seq(Results)
      /\ \A i \in 1 .. Len(completions') : ResultOK(completions'[i])
    <2>1. /\ completions' \in Seq(Results) /\ Len(completions') = Len(completions) + 1
          /\ completions'[Len(completions) + 1] = result
          /\ \A i \in 1 .. Len(completions) : completions'[i] = completions[i]
        BY <1>1, <1>2, <1>4, AppendProperties
    <2>2. Len(completions) \in Nat
        BY <1>1, LenProperties
    <2>3. \A i \in 1 .. Len(completions') :
            i \in 1 .. Len(completions) \/ i = Len(completions) + 1
        BY <2>1, <2>2
    <2> QED  BY <1>1, <1>5, <2>1, <2>3
<1>7. /\ running' \in [Workers -> Hands]
      /\ \A v \in Workers : running'[v].stage = "done" => ResultOK(running'[v])
    BY <1>1, <1>2 DEF Hands, Idle
<1>8. UNCHANGED <<game, accepted, players, sessions, phase, current>>
    BY DEF PushResult, stores, eventLoop
<1> QED  BY <1>6, <1>7, <1>8 DEF SystemInv

LEMMA SessionExpiresKeepsInv ==
    ASSUME SystemInv, NEW id \in PlayerIds, SessionExpires(id)
    PROVE  SystemInv'
<1>1. /\ sessions' = [sessions EXCEPT ![id] = NoToken]
      /\ UNCHANGED <<game, accepted, running, completions, players, phase, current>>
    BY DEF SessionExpires, eventLoop
<1>2. sessions' \in [PlayerIds -> Tokens \cup {NoToken}]
    BY <1>1, StoredToken
<1> QED  BY <1>1, <1>2 DEF SystemInv

-----------------------------------------------------------------------------
(* The theorems.                                                           *)

LEMMA NextSystemInv ==
    ASSUME SystemInv, [SystemNext]_systemVars
    PROVE  SystemInv'
<1>1. CASE AcceptReady
    BY <1>1, AcceptReadyKeepsInv
<1>2. ASSUME NEW c \in Connections, PeerBreaks(c) \/ ClientFrame(c) \/ ClientEnd(c)
      PROVE  SystemInv'
    <2>1. CASE PeerBreaks(c)
        BY <2>1, PeerBreaksKeepsInv
    <2>2. CASE LoginFrame(c)
        BY <2>2, LoginFrameKeepsInv
    <2>3. CASE MoveFrame(c)
        BY <2>3, MoveFrameKeepsInv
    <2>4. CASE ChatFrame(c) \/ HeartbeatFrame(c)
        BY <2>4, ChatFrameKeepsInv
    <2>5. CASE UnknownFrame(c)
        BY <2>5, UnknownFrameKeepsInv
    <2>6. CASE ClientEnd(c)
        BY <2>6, ClientEndKeepsInv
    <2> QED  BY <1>2, <2>1, <2>2, <2>3, <2>4, <2>5, <2>6 DEF ClientFrame
<1>3. CASE DrainOne
    BY <1>3, DrainOneKeepsInv
<1>4. CASE DrainEnd \/ StopServer \/ Joined \/ FinalDrainEnd
    BY <1>4, PhaseStepKeepsInv
<1>5. CASE CloseMarked \/ CloseOnTeardown
    BY <1>5, CloseMarkedKeepsInv
<1>6. ASSUME NEW w \in Workers, WorkerStep(w)
      PROVE  SystemInv'
    <2>1. CASE TakeTask(w)
        BY <2>1, TakeTaskKeepsInv
    <2>2. CASE OperateSucceeds(w)
        BY <2>2, OperateSucceedsKeepsInv
    <2>3. CASE OperateFails(w)
        BY <2>3, OperateFailsKeepsInv
    <2>4. CASE PushResult(w)
        BY <2>4, PushResultKeepsInv
    <2> QED  BY <1>6, <2>1, <2>2, <2>3, <2>4 DEF WorkerStep
<1>7. ASSUME NEW id \in PlayerIds, SessionExpires(id)
      PROVE  SystemInv'
    BY <1>7, SessionExpiresKeepsInv
<1>8. CASE Shutdown
    BY <1>8, ShutdownKeepsInv
<1>9. CASE UNCHANGED systemVars
    BY <1>9 DEF systemVars, stores, eventLoop, SystemInv
<1> QED
    BY <1>1, <1>2, <1>3, <1>4, <1>5, <1>6, <1>7, <1>8, <1>9 DEF SystemNext, TeardownStep

\* The inductive invariant: the tables agree and have their types, the results
\* on their way hold what their operations asked for, and the repository keeps
\* every record under its own account.
THEOREM SystemInvariant == SystemSpec => []SystemInv
<1>1. SystemInit => SystemInv
    BY InitSystemInv
<1>2. SystemInv /\ [SystemNext]_systemVars => SystemInv'
    BY NextSystemInv
<1> QED  BY <1>1, <1>2, PTL DEF SystemSpec

LEMMA OperationsTyped ==
    ASSUME SystemInv
    PROVE  \A op \in Operations : op \in AllOps
<1>1. \A i \in 1 .. Len(game.tasks) : game.tasks[i] \in AllOps
    BY ElementOfSeq DEF SystemInv, GameInv, GameTypeOK
<1>2. \A w \in Workers : running[w] # Idle => running[w].op \in AllOps
    BY DEF SystemInv, Hands
<1>3. \A i \in 1 .. Len(completions) : completions[i].op \in AllOps
    <2>1. completions \in Seq(Results)
        BY DEF SystemInv
    <2>2. \A i \in 1 .. Len(completions) : completions[i] \in Results
        BY <2>1, ElementOfSeq
    <2> QED  BY <2>2 DEF Results
<1> QED  BY <1>1, <1>2, <1>3 DEF Operations

\* The state keeps its types, and the database pool's queue its bound, whatever
\* the handlers of GameService submit (TrySubmit, bounded_thread_pool.cpp).
THEOREM SystemTypeCorrect == SystemSpec => []SystemTypeOK
<1>1. SystemInv => SystemTypeOK
    <2> SUFFICES ASSUME SystemInv
                 PROVE  SystemTypeOK
        OBVIOUS
    <2>1. \A op \in Operations : OperationOK(op)
        BY OperationsTyped DEF OperationOK, AllOps, LoadPlayerOps, CreatePlayerOps,
                               LoadSessionOps, StoreSessionOps, SavePlayerOps
    <2> QED  BY <2>1 DEF SystemInv, GameInv, GameTypeOK, Entries, SystemTypeOK
<1> QED  BY <1>1, SystemInvariant, PTL

\* connection_players_, online_players_, the transport's connections and the
\* world agree after every handler and callback of GameService, in whatever
\* order the results of the logins arrive: no .value() of VisiblePlayers fails
\* (game_service.cpp:254, 409).
THEOREM SystemTablesAgree == SystemSpec => []TablesAgree
<1>1. SystemInv => Agree(game)
    BY DEF SystemInv, GameInv
<1>2. Agree(game) => TablesAgree
    BY Zenon DEF Agree, TablesAgree, Contains, IsOnline
<1> QED  BY <1>1, <1>2, SystemInvariant, PTL

-----------------------------------------------------------------------------
(* Who is in the world, seen from outside.                                 *)

\* A step of any handler changes at most one entry of online_players_.
LEMMA NextPlayerStep ==
    ASSUME SystemInv, [SystemNext]_systemVars
    PROVE  PlayerStep(game.online_players, game'.online_players)
<1> DEFINE o == game.online_players
           n == game'.online_players
<1>1. GameInv(game) /\ DOMAIN game = GameFields
    BY DEF SystemInv, GameInv, GameTypeOK
<1>2. n = o => PlayerStep(o, n)
    BY DEF PlayerStep
<1>3. CASE AcceptReady
    <2>1. n = o
        BY <1>1, <1>3 DEF AcceptReady, GameFields
    <2> QED  BY <1>2, <2>1
<1>4. ASSUME NEW c \in Connections, game' = CloseConnection(game, c)
      PROVE  PlayerStep(o, n)
    <2>1. WithoutPlayerOf(game, game', c)
        BY <1>4, ClosingKeepsInv
    <2> QED  BY <1>1, <2>1, OneLeaves
<1>5. ASSUME NEW c \in Connections, PeerBreaks(c) \/ ClientFrame(c) \/ ClientEnd(c)
      PROVE  PlayerStep(o, n)
    <2>1. CASE PeerBreaks(c)
        <3>1. n = o
            BY <1>1, <2>1 DEF PeerBreaks, GameFields
        <3> QED  BY <1>2, <3>1
    <2>2. CASE LoginFrame(c)
        BY <1>2, <2>2, LoginFrameKeepsInv
    <2>3. CASE MoveFrame(c)
        <3>1. PICK position \in Positions : game' = HandleMove(game, c, position)
            BY <2>3 DEF MoveFrame
        <3> QED  BY <1>1, <3>1, HandleMoveKeepsInv
    <2>4. CASE ChatFrame(c) \/ HeartbeatFrame(c)
        BY <1>2, <2>4, ChatFrameKeepsInv
    <2>5. CASE UnknownFrame(c)
        BY <1>4, <2>5 DEF UnknownFrame
    <2>6. CASE ClientEnd(c)
        BY <1>2, <2>6, ClientEndKeepsInv
    <2> QED  BY <1>5, <2>1, <2>2, <2>3, <2>4, <2>5, <2>6 DEF ClientFrame
<1>6. CASE DrainOne
    <2> DEFINE done == Head(completions)
    <2>1. /\ done \in Results /\ ResultOK(done)
          /\ game' = Complete(game, done) /\ WithinBounds(game')
        BY <1>6, FirstResult DEF DrainOne, TakesCompletion
    <2> HIDE DEF done
    <2> QED  BY <1>1, <2>1, CompleteKeepsInv
<1>7. CASE DrainEnd \/ StopServer \/ Joined \/ FinalDrainEnd
    BY <1>2, <1>7 DEF DrainEnd, StopServer, Joined, FinalDrainEnd
<1>8. CASE CloseMarked \/ CloseOnTeardown
    <2>1. PICK c \in Connections : game' = CloseConnection(game, c)
        BY <1>8 DEF SystemInv, GameInv, GameTypeOK, CloseMarked, CloseOnTeardown
    <2> QED  BY <1>4, <2>1
<1>9. ASSUME NEW w \in Workers, WorkerStep(w)
      PROVE  PlayerStep(o, n)
    <2>1. CASE TakeTask(w)
        BY <1>2, <2>1, TakeTaskKeepsInv
    <2>2. CASE OperateSucceeds(w) \/ OperateFails(w) \/ PushResult(w)
        BY <1>2, <2>2 DEF OperateSucceeds, OperateFails, PushResult
    <2> QED  BY <1>9, <2>1, <2>2 DEF WorkerStep
<1>10. ASSUME NEW id \in PlayerIds, SessionExpires(id)
       PROVE  PlayerStep(o, n)
    BY <1>2, <1>10 DEF SessionExpires
<1>11. CASE Shutdown
    BY <1>2, <1>11, ShutdownKeepsInv
<1>12. CASE UNCHANGED systemVars
    BY <1>2, <1>12 DEF systemVars
<1> QED
    BY <1>3, <1>5, <1>6, <1>7, <1>8, <1>9, <1>10, <1>11, <1>12 DEF SystemNext, TeardownStep

\* Where the entries of online_players_ put a player.
PlaceOf(entry) ==
    IF entry # Offline
      THEN [conn |-> entry.conn, position |-> entry.record.position]
      ELSE Absent

LEMMA PlacesOfEntries ==
    /\ Presences = [id \in PlayerIds |-> PlaceOf(game.online_players[id])]
    /\ PlaceOf(Offline) = Absent
    /\ \A entry \in Entries :
         /\ PlaceOf(entry) # Absent
         /\ PlaceOf(entry).conn = entry.conn
         /\ PlaceOf(entry).position = entry.record.position
         /\ PlaceOf(entry).position \in Positions \cup {Start}
         /\ PlaceOf(entry) = [conn |-> entry.conn, position |-> entry.record.position]
<1>1. Presences = [id \in PlayerIds |-> PlaceOf(game.online_players[id])]
    BY DEF Presences, PlaceOf, IsOnline
<1>2. PlaceOf(Offline) = Absent
    BY DEF PlaceOf
<1>3. ASSUME NEW entry \in Entries
      PROVE  /\ PlaceOf(entry) # Absent
             /\ PlaceOf(entry).conn = entry.conn
             /\ PlaceOf(entry).position = entry.record.position
             /\ PlaceOf(entry).position \in Positions \cup {Start}
             /\ PlaceOf(entry) = [conn |-> entry.conn, position |-> entry.record.position]
    <2>1. entry # Offline /\ entry.conn \in Connections /\ entry.record \in Records
        BY NothingIsNothing DEF Entries
    <2>2. PlaceOf(entry) = [conn |-> entry.conn, position |-> entry.record.position]
        BY <2>1 DEF PlaceOf
    <2>3. entry.conn # NoConnection
        BY <2>1, NothingIsNothing
    <2>4. entry.record.position \in Positions \cup {Start}
        BY <2>1 DEF Records
    <2> QED  BY <2>2, <2>3, <2>4 DEF Absent
<1> QED  BY <1>1, <1>2, <1>3

LEMMA PlayerStepIsPresenceStep ==
    ASSUME SystemInv, PlayerStep(game.online_players, game'.online_players)
    PROVE  [World!PresenceNext]_Presences
<1> DEFINE o == game.online_players
           n == game'.online_players
           P == Presences
           Q == Presences'
           used == {P[q].conn : q \in {i \in PlayerIds : P[i] # Absent}}
<1>1. o \in [PlayerIds -> {Offline} \cup Entries]
    BY DEF SystemInv, GameInv, GameTypeOK
<1>2. P = [id \in PlayerIds |-> PlaceOf(o[id])]
    BY PlacesOfEntries
<1>3. Q = [id \in PlayerIds |-> PlaceOf(n[id])]
    BY DEF Presences, PlaceOf, IsOnline
<1>4. \A entry \in Entries :
         /\ PlaceOf(entry) # Absent
         /\ PlaceOf(entry).conn = entry.conn
         /\ PlaceOf(entry).position = entry.record.position
         /\ PlaceOf(entry).position \in Positions \cup {Start}
         /\ PlaceOf(entry) = [conn |-> entry.conn, position |-> entry.record.position]
    BY PlacesOfEntries
<1>5. PlaceOf(Offline) = Absent
    BY PlacesOfEntries
<1>6. World!PresenceNext <=>
        \E p \in PlayerIds :
          \/ /\ P[p] = Absent
             /\ \E c \in Connections \ used, at \in Positions \cup {Start} :
                  Q = [P EXCEPT ![p] = [conn |-> c, position |-> at]]
          \/ /\ P[p] # Absent
             /\ \E at \in Positions \cup {Start} : Q = [P EXCEPT ![p].position = at]
          \/ /\ P[p] # Absent
             /\ \E c \in Connections \ used : Q = [P EXCEPT ![p].conn = c]
          \/ P[p] # Absent /\ Q = [P EXCEPT ![p] = Absent]
    BY DEF World!PresenceNext, World!Enter, World!Move, World!TakeOver, World!Leave, World!Used
<1> HIDE DEF P, Q, o, n
<1>7. CASE n = o
    BY <1>2, <1>3, <1>7 DEF P, Q
<1>8. ASSUME NEW id \in PlayerIds, o[id] # Offline, n = [o EXCEPT ![id] = Offline]
      PROVE  World!PresenceNext
    <2>1. P[id] # Absent
        BY <1>1, <1>2, <1>4, <1>8
    <2>2. Q = [P EXCEPT ![id] = Absent]
        BY <1>1, <1>2, <1>3, <1>5, <1>8
    <2> QED  BY <1>6, <2>1, <2>2
<1>9. ASSUME NEW id \in PlayerIds, NEW entry \in Entries, n = [o EXCEPT ![id] = entry],
             \A i \in PlayerIds : o[i].conn # entry.conn,
             o[id] # Offline => entry.record = o[id].record
      PROVE  World!PresenceNext
    <2>1. Q = [P EXCEPT ![id] = [conn |-> entry.conn, position |-> entry.record.position]]
        BY <1>1, <1>2, <1>3, <1>4, <1>9
    <2>2. entry.conn \in Connections \ used /\ entry.record.position \in Positions \cup {Start}
        <3>1. entry.conn \in Connections
            BY DEF Entries
        <3>2. ASSUME NEW i \in PlayerIds, P[i] # Absent
              PROVE  P[i].conn # entry.conn
            <4>1. o[i] \in Entries /\ P[i] = PlaceOf(o[i])
                BY <1>1, <1>2, <1>5, <3>2
            <4> QED  BY <1>4, <1>9, <4>1
        <3> QED  BY <1>4, <3>1, <3>2
    <2>3. CASE o[id] = Offline
        <3>1. P[id] = Absent
            BY <1>2, <1>5, <2>3
        <3> HIDE DEF used
        <3> QED  BY <1>6, <2>1, <2>2, <3>1
    <2>4. CASE o[id] # Offline
        <3>1. /\ P[id] # Absent
              /\ P[id] = [conn |-> o[id].conn, position |-> entry.record.position]
            BY <1>1, <1>2, <1>4, <1>9, <2>4
        <3>2. Q = [P EXCEPT ![id].conn = entry.conn]
            <4>1. [P[id] EXCEPT !.conn = entry.conn]
                    = [conn |-> entry.conn, position |-> entry.record.position]
                BY <3>1
            <4> QED  BY <2>1, <4>1
        <3> HIDE DEF used
        <3> QED  BY <1>6, <2>2, <3>1, <3>2
    <2> QED  BY <2>3, <2>4
<1>10. ASSUME NEW id \in PlayerIds, NEW entry \in Entries, n = [o EXCEPT ![id] = entry],
              o[id] # Offline, entry.conn = o[id].conn
       PROVE  World!PresenceNext
    <2>1. Q = [P EXCEPT ![id] = [conn |-> entry.conn, position |-> entry.record.position]]
        BY <1>1, <1>2, <1>3, <1>4, <1>10
    <2>2. /\ P[id] # Absent
          /\ P[id] = [conn |-> entry.conn, position |-> o[id].record.position]
        BY <1>1, <1>2, <1>4, <1>10
    <2>3. Q = [P EXCEPT ![id].position = entry.record.position]
        <3>1. [P[id] EXCEPT !.position = entry.record.position]
                = [conn |-> entry.conn, position |-> entry.record.position]
            BY <2>2
        <3> QED  BY <2>1, <3>1
    <2>4. entry.record.position \in Positions \cup {Start}
        BY <1>4
    <2> QED  BY <1>6, <2>2, <2>3, <2>4
<1>11. PlayerStep(o, n)
    BY DEF o, n
<1> QED  BY <1>7, <1>8, <1>9, <1>10, <1>11 DEF PlayerStep

\* Seen from outside, the server is the abstract world of Presence: players
\* come, move, are taken over without leaving their place, and leave, one at a
\* time and each on a connection of its own; the refinement mapping is
\* Presences, and no step of a handler or of its callbacks escapes it.
THEOREM SystemImplementsPresence == SystemSpec => ImplementsPresence
<1>1. SystemInit => World!PresenceInit
    <2> SUFFICES ASSUME SystemInit
                 PROVE  World!PresenceInit
        OBVIOUS
    <2>1. game.online_players = [id \in PlayerIds |-> Offline]
        BY DEF SystemInit, GameInit
    <2>2. Presences = [id \in PlayerIds |-> PlaceOf(game.online_players[id])]
          /\ PlaceOf(Offline) = Absent
        BY PlacesOfEntries
    <2>3. Presences = [id \in PlayerIds |-> Absent]
        BY <2>1, <2>2
    <2> QED  BY <2>3 DEF World!PresenceInit
<1>2. SystemInv /\ [SystemNext]_systemVars => [World!PresenceNext]_Presences
    BY NextPlayerStep, PlayerStepIsPresenceStep
<1> QED  BY <1>1, <1>2, SystemInvariant, PTL DEF SystemSpec, ImplementsPresence, World!PresenceSpec

-----------------------------------------------------------------------------
(* Every login in progress is being worked on.                             *)

\* Every connection that waits, and every account that is locked, has an
\* operation of its own under way.
Served ==
    /\ \A c \in Connections :
         game.pending_connections[c] # NoAccount =>
             \E op \in Operations : OfLogin(op, c, game.pending_connections[c])
    /\ \A a \in game.pending_accounts :
         \E op \in Operations : \E c : OfLogin(op, c, a)

LEMMA InitServed ==
    ASSUME SystemInit
    PROVE  Served
<1>1. /\ game.pending_connections = [c \in Connections |-> NoAccount]
      /\ game.pending_accounts = {}
    BY DEF SystemInit, GameInit
<1> QED  BY <1>1 DEF Served

\* A step that starts no login and loses no operation.
LEMMA ShrinkingKeepsServed ==
    ASSUME Served, Shrinks(game, game'), Operations \subseteq Operations'
    PROVE  Served'
BY DEF Served, Shrinks

\* The operations in the workers' hands and in the completion queue.
InHand == {running[w].op : w \in {v \in Workers : running[v] # Idle}}
Completed == {completions[i].op : i \in 1 .. Len(completions)}

LEMMA WhereOperationsAre == Operations = Queued(game) \cup InHand \cup Completed
BY DEF Operations, Queued, InHand, Completed

\* The event loop's steps leave the operations under way where they are.
LEMMA LoopKeepsOperations ==
    ASSUME UNCHANGED <<running, completions>>, Queued(game) \subseteq Queued(game')
    PROVE  Operations \subseteq Operations' /\ Queued(game') \subseteq Operations'
BY DEF Operations, Queued

LEMMA LoopKeepsServed ==
    ASSUME Served, Shrinks(game, game'), UNCHANGED <<running, completions>>
    PROVE  Served'
<1>1. Queued(game) \subseteq Queued(game')
    BY DEF Shrinks
<1> QED  BY <1>1, LoopKeepsOperations, ShrinkingKeepsServed

\* A login starts with an operation of its own.
LEMMA StartKeepsServed ==
    ASSUME Served, NEW c \in Connections, NEW a, Starts(game, game', c, a),
           UNCHANGED <<running, completions>>
    PROVE  Served'
<1>1. /\ Operations \subseteq Operations' /\ Queued(game') \subseteq Operations'
    BY LoopKeepsOperations DEF Starts
<1>2. PICK op \in Operations' : OfLogin(op, c, a)
    BY <1>1 DEF Starts, GoesOn
<1>3. ASSUME NEW d \in Connections, game'.pending_connections[d] # NoAccount
      PROVE  \E o \in Operations' : OfLogin(o, d, game'.pending_connections[d])
    <2>1. CASE d = c
        BY <1>2, <1>3, <2>1 DEF Starts
    <2>2. CASE d # c
        <3>1. game'.pending_connections[d] = game.pending_connections[d]
            BY <1>3, <2>2 DEF Starts
        <3> QED  BY <1>1, <1>3, <3>1 DEF Served
    <2> QED  BY <2>1, <2>2
<1>4. ASSUME NEW b \in game'.pending_accounts
      PROVE  \E o \in Operations' : \E d : OfLogin(o, d, b)
    <2>1. CASE b = a
        BY <1>2, <2>1
    <2>2. CASE b # a
        <3>1. b \in game.pending_accounts
            BY <2>2 DEF Starts
        <3> QED  BY <1>1, <3>1 DEF Served
    <2> QED  BY <2>1, <2>2
<1> QED  BY <1>3, <1>4 DEF Served

\* A callback settles its own login or goes on with it; the operations of all
\* others are still there.
LEMMA DrainOneKeepsServed ==
    ASSUME SystemInv, Served, DrainOne
    PROVE  Served'
<1> DEFINE done == Head(completions)
           c == done.op.conn
           a == AccountOf(done.op)
<1>1. GameInv(game) /\ completions \in Seq(Results)
    BY DEF SystemInv
<1>2. /\ done \in Results /\ ResultOK(done)
      /\ game' = Complete(game, done) /\ WithinBounds(game')
      /\ completions # <<>> /\ completions' = Tail(completions) /\ running' = running
    BY FirstResult DEF DrainOne, TakesCompletion
<1>3. \A op \in Completed : op = done.op \/ op \in Completed'
    <2>1. /\ done = completions[1] /\ Len(completions) \in Nat
          /\ Len(completions') = Len(completions) - 1
          /\ \A i \in 1 .. Len(completions') : completions'[i] = completions[i + 1]
        BY <1>1, <1>2, HeadTailProperties, LenProperties
    <2> SUFFICES ASSUME NEW i \in 1 .. Len(completions), i # 1
                 PROVE  completions[i].op \in Completed'
        BY <2>1 DEF Completed
    <2>2. i - 1 \in 1 .. Len(completions') /\ completions'[i - 1] = completions[i]
        BY <2>1
    <2> QED  BY <2>2 DEF Completed
<1> HIDE DEF done
<1>4. Advances(game, game', c, a) \/ (done.op.kind = "SavePlayer" /\ game' = game)
    BY <1>1, <1>2, CompleteKeepsInv
<1>5. Shrinks(game, game')
    BY <1>4, SamePending DEF Advances
<1>6. Queued(game) \subseteq Queued(game') /\ Queued(game') \subseteq Operations'
    BY <1>5 DEF Shrinks, Operations, Queued
<1>7. \A op \in Operations : op = done.op \/ op \in Operations'
    <2>1. InHand' = InHand
        BY <1>2 DEF InHand
    <2>2. Operations' = Queued(game') \cup InHand' \cup Completed'
        BY DEF Operations, Queued, InHand, Completed
    <2> QED  BY <1>3, <1>6, <2>1, <2>2, WhereOperationsAre
<1>8. ASSUME NEW d \in Connections, game'.pending_connections[d] # NoAccount
      PROVE  \E o \in Operations' : OfLogin(o, d, game'.pending_connections[d])
    <2>1. game'.pending_connections[d] = game.pending_connections[d]
        BY <1>5, <1>8 DEF Shrinks
    <2>2. PICK op \in Operations : OfLogin(op, d, game.pending_connections[d])
        BY <1>8, <2>1 DEF Served
    <2>3. CASE op = done.op
        <3>1. d = c /\ game.pending_connections[d] = a /\ done.op.kind # "SavePlayer"
            BY <2>2, <2>3 DEF OfLogin
        <3>2. GoesOn(game', c, a)
            BY <1>4, <1>8, <3>1 DEF Advances, Settled
        <3> QED  BY <1>6, <2>1, <3>1, <3>2 DEF GoesOn
    <2> QED  BY <1>7, <2>1, <2>2, <2>3
<1>9. ASSUME NEW b \in game'.pending_accounts
      PROVE  \E o \in Operations' : \E d : OfLogin(o, d, b)
    <2>1. b \in game.pending_accounts
        BY <1>5 DEF Shrinks
    <2>2. PICK op \in Operations : \E d : OfLogin(op, d, b)
        BY <2>1 DEF Served
    <2>3. CASE op = done.op
        <3>1. b = a /\ done.op.kind # "SavePlayer"
            BY <2>2, <2>3 DEF OfLogin
        <3>2. GoesOn(game', c, a)
            BY <1>4, <3>1 DEF Advances, Settled
        <3> QED  BY <1>6, <3>1, <3>2 DEF GoesOn
    <2> QED  BY <1>7, <2>2, <2>3
<1> QED  BY <1>8, <1>9 DEF Served

\* A worker carries an operation from the queue to the completions.
LEMMA WorkerKeepsServed ==
    ASSUME SystemInv, Served, NEW w \in Workers, WorkerStep(w)
    PROVE  Served'
<1>1. /\ running \in [Workers -> Hands] /\ DOMAIN game = GameFields
      /\ game.tasks \in Seq(AllOps) /\ completions \in Seq(Results)
    BY DEF SystemInv, GameInv, GameTypeOK
<1>2. /\ Operations = Queued(game) \cup InHand \cup Completed
      /\ Operations' = Queued(game') \cup InHand' \cup Completed'
    BY DEF Operations, Queued, InHand, Completed
<1>3. CASE TakeTask(w)
    <2>1. /\ game.tasks # <<>> /\ game'.tasks = Tail(game.tasks) /\ running[w] = Idle
          /\ running' = [running EXCEPT ![w] = [stage |-> "taken", op |-> Head(game.tasks)]]
          /\ completions' = completions
          /\ game'.pending_connections = game.pending_connections
          /\ game'.pending_accounts = game.pending_accounts
        BY <1>1, <1>3 DEF TakeTask, GameFields
    <2>2. Head(game.tasks) \in InHand' /\ InHand \subseteq InHand'
        BY <1>1, <2>1 DEF InHand, Idle
    <2>3. Queued(game) \subseteq Queued(game') \cup {Head(game.tasks)}
        <3>1. /\ Head(game.tasks) = game.tasks[1] /\ Len(game.tasks) \in Nat
              /\ Len(game'.tasks) = Len(game.tasks) - 1
              /\ \A i \in 1 .. Len(game'.tasks) : game'.tasks[i] = game.tasks[i + 1]
            BY <1>1, <2>1, HeadTailProperties, LenProperties
        <3> SUFFICES ASSUME NEW i \in 1 .. Len(game.tasks), i # 1
                     PROVE  game.tasks[i] \in Queued(game')
            BY <3>1 DEF Queued
        <3>2. i - 1 \in 1 .. Len(game'.tasks) /\ game'.tasks[i - 1] = game.tasks[i]
            BY <3>1
        <3> QED  BY <3>2 DEF Queued
    <2>4. Completed' = Completed
        BY <2>1 DEF Completed
    <2>5. Operations \subseteq Operations'
        BY <1>2, <2>2, <2>3, <2>4
    <2> QED  BY <2>1, <2>5 DEF Served
<1>4. CASE OperateSucceeds(w) \/ OperateFails(w)
    <2>1. /\ game' = game /\ completions' = completions /\ running[w].stage = "taken"
          /\ \E status, value : Done(w, status, value)
        BY <1>4 DEF OperateSucceeds, OperateFails, HasOp, StoreOperation, Load, Save, Store,
                    LoadToken
    <2>2. PICK status, value : Done(w, status, value)
        BY <2>1
    <2>3. /\ running'[w].op = running[w].op /\ running'[w] # Idle
          /\ \A v \in Workers \ {w} : running'[v] = running[v]
        BY <1>1, <2>2 DEF Done, Idle
    <2>4. InHand \subseteq InHand'
        BY <2>3 DEF InHand
    <2>5. Operations \subseteq Operations'
        BY <1>2, <2>1, <2>4 DEF Completed
    <2> QED  BY <2>1, <2>5 DEF Served
<1>5. CASE PushResult(w)
    <2> DEFINE result == [op |-> running[w].op, status |-> running[w].status,
                          value |-> running[w].value]
    <2>1. /\ game' = game /\ completions' = Append(completions, result)
          /\ running' = [running EXCEPT ![w] = Idle] /\ running[w].stage = "done"
        BY <1>5 DEF PushResult, HasOp
    <2>2. result \in Results /\ result.op = running[w].op
        <3>1. running[w] \in DoneHands
            BY <1>1, <2>1, HandStages
        <3> QED  BY <3>1 DEF Results, DoneHands
    <2> HIDE DEF result
    <2>3. /\ Len(completions') = Len(completions) + 1 /\ Len(completions) \in Nat
          /\ completions'[Len(completions) + 1] = result
          /\ \A i \in 1 .. Len(completions) : completions'[i] = completions[i]
        BY <1>1, <2>1, <2>2, AppendProperties, LenProperties
    <2>4. /\ Len(completions) + 1 \in 1 .. Len(completions')
          /\ 1 .. Len(completions) \subseteq 1 .. Len(completions')
        BY <2>3
    <2>5. Completed \subseteq Completed' /\ running[w].op \in Completed'
        BY <2>2, <2>3, <2>4 DEF Completed
    <2>6. \A v \in Workers \ {w} : running'[v] = running[v]
        BY <1>1, <2>1
    <2>7. InHand \subseteq InHand' \cup {running[w].op}
        BY <2>6 DEF InHand
    <2>8. Operations \subseteq Operations'
        BY <1>2, <2>1, <2>5, <2>7
    <2> QED  BY <2>1, <2>8 DEF Served
<1> QED  BY <1>3, <1>4, <1>5 DEF WorkerStep

LEMMA NextServed ==
    ASSUME SystemInv, Served, [SystemNext]_systemVars
    PROVE  Served'
<1>1. CASE AcceptReady
    BY <1>1, AcceptReadyKeepsInv, LoopKeepsServed DEF AcceptReady
<1>2. ASSUME NEW c \in Connections, PeerBreaks(c) \/ ClientFrame(c) \/ ClientEnd(c)
      PROVE  Served'
    <2>1. CASE PeerBreaks(c)
        BY <2>1, PeerBreaksKeepsInv, LoopKeepsServed DEF PeerBreaks
    <2>2. CASE LoginFrame(c)
        <3>1. UNCHANGED <<running, completions>>
            BY <2>2 DEF LoginFrame, InFrame
        <3>2. PICK a : Shrinks(game, game') \/ Starts(game, game', c, a)
            BY <2>2, LoginFrameKeepsInv
        <3> QED  BY <3>1, <3>2, LoopKeepsServed, StartKeepsServed
    <2>3. CASE MoveFrame(c)
        BY <2>3, MoveFrameKeepsInv, LoopKeepsServed DEF MoveFrame, InFrame
    <2>4. CASE ChatFrame(c) \/ HeartbeatFrame(c)
        BY <2>4, ChatFrameKeepsInv, LoopKeepsServed DEF ChatFrame, HeartbeatFrame, InFrame
    <2>5. CASE UnknownFrame(c)
        BY <2>5, UnknownFrameKeepsInv, LoopKeepsServed DEF UnknownFrame, InFrame
    <2>6. CASE ClientEnd(c)
        BY <2>6, ClientEndKeepsInv, LoopKeepsServed DEF ClientEnd
    <2> QED  BY <1>2, <2>1, <2>2, <2>3, <2>4, <2>5, <2>6 DEF ClientFrame
<1>3. CASE DrainOne
    BY <1>3, DrainOneKeepsServed
<1>4. CASE UNCHANGED <<game, running, completions>>
    BY <1>4, SamePending, LoopKeepsServed
<1>5. CASE DrainEnd \/ StopServer \/ Joined \/ FinalDrainEnd
    BY <1>4, <1>5 DEF DrainEnd, StopServer, Joined, FinalDrainEnd
<1>6. CASE CloseMarked \/ CloseOnTeardown
    BY <1>6, CloseMarkedKeepsInv, LoopKeepsServed DEF CloseMarked, CloseOnTeardown
<1>7. ASSUME NEW w \in Workers, WorkerStep(w)
      PROVE  Served'
    BY <1>7, WorkerKeepsServed
<1>8. ASSUME NEW id \in PlayerIds, SessionExpires(id)
      PROVE  Served'
    BY <1>4, <1>8 DEF SessionExpires
<1>9. CASE Shutdown
    BY <1>9, ShutdownKeepsInv, LoopKeepsServed DEF Shutdown
<1>10. CASE UNCHANGED systemVars
    BY <1>4, <1>10 DEF systemVars
<1> QED
    BY <1>1, <1>2, <1>3, <1>5, <1>6, <1>7, <1>8, <1>9, <1>10 DEF SystemNext, TeardownStep

\* Whatever fails, is refused, closed or overtaken, a connection that waits for
\* its login and a locked account have an operation queued, running or
\* completed, whose callback will settle them (pending_accounts_ and
\* pending_connections_, game_service.cpp:78-79): none is left behind.
THEOREM SystemPendingIsServed == SystemSpec => []PendingIsServed
<1>1. SystemInit => Served
    BY InitServed
<1>2. SystemInv /\ Served /\ [SystemNext]_systemVars => Served'
    BY NextServed
<1>3. SystemInv /\ Served => PendingIsServed
    <2> SUFFICES ASSUME SystemInv, Served
                 PROVE  PendingIsServed
        OBVIOUS
    <2>1. PendingFree(game)
        BY DEF SystemInv, GameInv
    <2> QED  BY <2>1 DEF Served, PendingIsServed, PendingFree, LoginOperations, OfLogin
<1> QED  BY <1>1, <1>2, <1>3, SystemInvariant, PTL DEF SystemSpec
=============================================================================
