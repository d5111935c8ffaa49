-------------------------- MODULE GameClientsProofs -------------------------
(***************************************************************************)
(* What the game owes its clients, for every number of them: what a client *)
(* has been sent adds up to what its player can see; nobody takes over a   *)
(* player without a token that was issued for it; and, with one worker and *)
(* room in its queue, whoever has left is found where it was last seen.    *)
(*                                                                         *)
(* All rest on the invariant of GameSystemProofs, and follow the handlers  *)
(* a second time.  For the clients most of them are calm, in that they     *)
(* touch neither what the clients see nor who is online; for the positions *)
(* most of them leave the books as they are.                               *)
(***************************************************************************)
EXTENDS GameSystemProofs, AoiGridProofs, FiniteSetTheorems

-----------------------------------------------------------------------------
(* What a player sees of a world.                                          *)

\* A player and where it is.
Fact(w, q) == [id |-> q, position |-> w.players[q].position]

Facts(w, ids) == {Fact(w, q) : q \in ids}

\* Who is around a player, and where.
Sight(w, id) == Facts(w, Around(w, id))

\* Some facts, without those about players that are gone.
Without(facts, gone) == {f \in facts : f.id \notin gone}

LEMMA FactsKnown ==
    ASSUME NEW w, NEW v, NEW ids, \A q \in ids : v.players[q] = w.players[q]
    PROVE  Facts(v, ids) = Facts(w, ids)
<1>1. \A q \in ids : Fact(v, q) = Fact(w, q)
    BY DEF Fact
<1> QED  BY <1>1 DEF Facts

LEMMA FactsWithout ==
    ASSUME NEW w, NEW ids, NEW gone
    PROVE  Without(Facts(w, ids), gone) = Facts(w, ids \ gone)
<1>1. \A q : Fact(w, q).id = q
    BY DEF Fact
<1> QED  BY <1>1 DEF Facts, Without

LEMMA FactsOfBoth ==
    ASSUME NEW w, NEW A, NEW B
    PROVE  Facts(w, A) \cup Facts(w, B) = Facts(w, A \cup B)
BY DEF Facts

LEMMA FactsAbout ==
    ASSUME NEW w, NEW ids
    PROVE  {f.id : f \in Facts(w, ids)} = ids
<1>1. \A q : Fact(w, q).id = q
    BY DEF Fact
<1> QED  BY <1>1 DEF Facts

\* What another player sees when it forgets this one, and is told of it again
\* if it is in sight.
SeesAgain(w, v, id, q) ==
    /\ id \in Around(v, q) =>
         Sight(v, q) = Without(Sight(w, q), {id}) \cup Facts(v, {id})
    /\ id \notin Around(v, q) => Sight(v, q) = Without(Sight(w, q), {id})
    /\ id \notin Around(v, q) /\ id \notin Around(w, q) => Sight(v, q) = Sight(w, q)

\* When one player comes, moves or goes, that is how the others see the world
\* as it is.
LEMMA SightOfOthers ==
    ASSUME NEW w, NEW v, NEW id, AlikeBut(w, v, id), NEW q \in DOMAIN w.players, q # id
    PROVE  SeesAgain(w, v, id, q)
<1> DEFINE A == Around(w, q)
           B == Around(v, q)
<1>1. B \ {id} = A \ {id}
    BY OthersSeeTheSame
<1>2. \A i \in A \ {id} : v.players[i] = w.players[i]
    BY DEF Around, AlikeBut
<1>3. Sight(w, q) = Facts(w, A) /\ Sight(v, q) = Facts(v, B)
    BY DEF Sight
<1> HIDE DEF A, B
<1>4. Without(Facts(w, A), {id}) = Facts(v, B \ {id})
    <2> DEFINE gone == {id}
    <2>1. Without(Facts(w, A), gone) = Facts(w, A \ gone)
        BY FactsWithout
    <2>2. Facts(v, A \ {id}) = Facts(w, A \ {id})
        BY <1>2, FactsKnown
    <2> QED  BY <1>1, <2>1, <2>2
<1>5. ASSUME id \in B
      PROVE  Facts(v, B) = Facts(v, B \ {id}) \cup Facts(v, {id})
    <2>1. (B \ {id}) \cup {id} = B
        BY <1>5
    <2> QED  BY <2>1, FactsOfBoth
<1>6. id \notin B => B \ {id} = B
    OBVIOUS
<1>7. id \notin A => A \ {id} = A
    OBVIOUS
<1>8. ASSUME id \notin A, id \notin B
      PROVE  Facts(v, B) = Facts(w, A)
    <2>1. B = A /\ \A i \in A : v.players[i] = w.players[i]
        BY <1>1, <1>2, <1>6, <1>7, <1>8
    <2> QED  BY <2>1, FactsKnown
<1> QED  BY <1>3, <1>4, <1>5, <1>6, <1>8 DEF A, B, SeesAgain

\* What a player sees when it forgets who has come into sight or gone out of
\* it, and is told of those who have come.
MoverSees(w, v, id, came, left) ==
    /\ Sight(v, id) = Without(Sight(w, id), left \cup came) \cup Facts(v, came)
    /\ came = {} /\ left = {} => Sight(v, id) = Sight(w, id)

\* A player that moves sees the world as it is from its new place.
LEMMA SightOfMover ==
    ASSUME NEW w, NEW v, NEW id, AlikeBut(w, v, id), NEW came, NEW left,
           came = Around(v, id) \ Around(w, id), left = Around(w, id) \ Around(v, id)
    PROVE  MoverSees(w, v, id, came, left)
<1> DEFINE A == Around(w, id)
           B == Around(v, id)
<1>1. \A i \in A : v.players[i] = w.players[i]
    BY DEF Around, AlikeBut
<1>2. Sight(w, id) = Facts(w, A) /\ Sight(v, id) = Facts(v, B)
    BY DEF Sight
<1>3. came = B \ A /\ left = A \ B
    OBVIOUS
<1> HIDE DEF A, B
<1>4. Without(Facts(w, A), left \cup came) = Facts(v, A \cap B)
    <2> DEFINE gone == left \cup came
    <2>1. Without(Facts(w, A), gone) = Facts(w, A \ gone)
        BY FactsWithout
    <2>2. A \ gone = A \cap B
        BY <1>3
    <2>3. Facts(v, A \cap B) = Facts(w, A \cap B)
        BY <1>1, FactsKnown
    <2> QED  BY <2>1, <2>2, <2>3
<1>5. Facts(v, A \cap B) \cup Facts(v, came) = Facts(v, B)
    <2>1. (A \cap B) \cup came = B
        BY <1>3
    <2> QED  BY <2>1, FactsOfBoth
<1>6. ASSUME came = {}, left = {}
      PROVE  Facts(v, B) = Facts(w, A)
    <2>1. A = B
        BY <1>3, <1>6
    <2> QED  BY <1>1, <2>1, FactsKnown
<1> QED  BY <1>2, <1>4, <1>5, <1>6 DEF MoverSees

-----------------------------------------------------------------------------
(* Tokens, and the operations that carry them.                             *)

\* The token was issued for this player.
IssuedTo(g, t, id) == t \in 1 .. Len(g.tokens) /\ g.tokens[t] = id

\* The connection has presented a token that was issued for this player.
HasProof(g, c, id) == \E t \in g.presented[c] : IssuedTo(g, t, id)

\* What is known of the tokens in an operation, as long as its connection is
\* open: those to be looked up have been presented, those to be stored were
\* issued for the player, and a login may replace another one only if its
\* connection has shown a proof.
Vouched(g, op) ==
    /\ op.kind = "LoadPlayer" /\ op.conn \in g.conns =>
         op.token \in g.presented[op.conn]
    /\ op.kind = "LoadSession" /\ op.conn \in g.conns =>
         op.token \in g.presented[op.conn]
    /\ op.kind = "StoreSession" =>
         /\ IssuedTo(g, op.token, op.player.id)
         /\ op.replace /\ op.conn \in g.conns => HasProof(g, op.conn, op.player.id)

\* An operation as a handler submits it.
Proper(g, op) == Vouched(g, op) /\ (op.kind # "SavePlayer" => op.conn \in g.conns)

\* Tokens are never issued twice or taken back.
TokensLast(g, h) == \A t, id : IssuedTo(g, t, id) => IssuedTo(h, t, id)

\* Who is there, who is online and where, and what has been sent and
\* presented, stay; connections may be marked.
Still(g, h) ==
    /\ h.conns = g.conns
    /\ h.online_players = g.online_players
    /\ h.connection_players = g.connection_players
    /\ h.world = g.world
    /\ h.presented = g.presented
    /\ g.marked_for_close \subseteq h.marked_for_close
    /\ DOMAIN g.view = Connections => DOMAIN h.view = Connections
    /\ \A c \in Connections : h.view[c] = g.view[c]

\* The operations that have joined the queue are proper ones.
QueuesProper(g, h) == \A op \in Queued(h) : op \in Queued(g) \/ Proper(h, op)

\* A handler that neither lets anyone in or out nor moves anyone.
Calm(g, h) == Still(g, h) /\ TokensLast(g, h) /\ QueuesProper(g, h)

\* What is known of an operation stays known: connections close, tokens last.
LEMMA VouchedStays ==
    ASSUME NEW g, NEW h, NEW op, Vouched(g, op), TokensLast(g, h),
           h.conns \subseteq g.conns,
           \A c \in h.conns : h.presented[c] = g.presented[c]
    PROVE  Vouched(h, op)
BY DEF Vouched, TokensLast, HasProof

LEMMA CalmOn ==
    ASSUME NEW g, NEW h, NEW k, Calm(g, h), Calm(h, k)
    PROVE  Calm(g, k)
<1>1. Still(g, k)
    BY DEF Calm, Still
<1>2. TokensLast(g, k) /\ TokensLast(h, k)
    BY DEF Calm, TokensLast
<1>3. ASSUME NEW op \in Queued(k) PROVE op \in Queued(g) \/ Proper(k, op)
    <2>1. op \in Queued(h) \/ Proper(k, op)
        BY DEF Calm, QueuesProper
    <2>2. op \in Queued(h) => op \in Queued(g) \/ Proper(h, op)
        BY DEF Calm, QueuesProper
    <2>3. k.conns = h.conns /\ k.presented = h.presented
        BY DEF Calm, Still
    <2>4. Vouched(h, op) => Vouched(k, op)
        BY <1>2, <2>3, VouchedStays
    <2> QED  BY <2>1, <2>2, <2>3, <2>4 DEF Proper
<1> QED  BY <1>1, <1>2, <1>3 DEF Calm, QueuesProper

\* A step that changes none of the fields that matter here.
LEMMA CalmStep ==
    ASSUME NEW g, NEW h,
           h.conns = g.conns,
           h.online_players = g.online_players,
           h.connection_players = g.connection_players,
           h.world = g.world,
           h.presented = g.presented,
           g.marked_for_close \subseteq h.marked_for_close,
           h.view = g.view,
           h.tokens = g.tokens,
           Queued(h) \subseteq Queued(g)
    PROVE  Calm(g, h)
BY DEF Calm, Still, TokensLast, IssuedTo, QueuesProper

LEMMA CalmSelf ==
    ASSUME NEW g
    PROVE  Calm(g, g)
BY CalmStep

\* A message that tells nobody of anyone.
LEMMA SendIsCalm ==
    ASSUME NEW g, GameInv(g), NEW C
    PROVE  Calm(g, Send(g, C, {}, {}))
<1> DEFINE h == Send(g, C, {}, {})
<1>1. DOMAIN g = GameFields
    BY DEF GameInv, GameTypeOK
<1>2. /\ h.conns = g.conns /\ h.online_players = g.online_players
      /\ h.connection_players = g.connection_players /\ h.world = g.world
      /\ g.marked_for_close \subseteq h.marked_for_close
      /\ h.tokens = g.tokens /\ h.tasks = g.tasks
    BY <1>1, SendFrame
<1>3. h.presented = g.presented
    BY <1>1 DEF Send, GameFields
<1>4. h.view = [c \in Connections |->
                  IF c \in (C \cap g.conns) \ g.broken
                    THEN {v \in g.view[c] : v.id \notin {} \cup {e.id : e \in {}}} \cup {}
                    ELSE g.view[c]]
    BY <1>1 DEF Send, GameFields
<1> HIDE DEF h
<1>5. DOMAIN h.view = Connections /\ \A c \in Connections : h.view[c] = g.view[c]
    BY <1>4
<1> QED
    BY <1>2, <1>3, <1>5 DEF h, Calm, Still, TokensLast, IssuedTo, QueuesProper, Queued

\* The steps of the handlers that touch only what is pending.
LEMMA ForgetIsCalm ==
    ASSUME NEW g, GameInv(g), NEW c, NEW account
    PROVE  /\ Calm(g, Forget(g, c, account))
           /\ Calm(g, DropPending(g, c))
           /\ Calm(g, [g EXCEPT !.pending_accounts = @ \ {account}])
           /\ Calm(g, Waiting(g, c, account))
           /\ Calm(g, Numbered(g, account))
<1>1. DOMAIN g = GameFields
    BY DEF GameInv, GameTypeOK
<1>2. Calm(g, Forget(g, c, account))
    <2> DEFINE h == Forget(g, c, account)
    <2>1. /\ h.conns = g.conns /\ h.online_players = g.online_players
          /\ h.connection_players = g.connection_players /\ h.world = g.world
          /\ h.presented = g.presented /\ h.marked_for_close = g.marked_for_close
          /\ h.view = g.view /\ h.tokens = g.tokens /\ h.tasks = g.tasks
        BY <1>1 DEF Forget, GameFields
    <2> HIDE DEF h
    <2>2. Calm(g, h)
        BY <2>1, CalmStep DEF Queued
    <2> QED  BY <2>2 DEF h
<1>3. Calm(g, DropPending(g, c))
    <2> DEFINE h == DropPending(g, c)
    <2>1. /\ h.conns = g.conns /\ h.online_players = g.online_players
          /\ h.connection_players = g.connection_players /\ h.world = g.world
          /\ h.presented = g.presented /\ h.marked_for_close = g.marked_for_close
          /\ h.view = g.view /\ h.tokens = g.tokens /\ h.tasks = g.tasks
        BY <1>1 DEF DropPending, GameFields
    <2> HIDE DEF h
    <2>2. Calm(g, h)
        BY <2>1, CalmStep DEF Queued
    <2> QED  BY <2>2 DEF h
<1>4. Calm(g, [g EXCEPT !.pending_accounts = @ \ {account}])
    BY <1>1, CalmStep DEF GameFields, Queued
<1>5. Calm(g, Waiting(g, c, account))
    <2> DEFINE h == Waiting(g, c, account)
    <2>1. /\ h.conns = g.conns /\ h.online_players = g.online_players
          /\ h.connection_players = g.connection_players /\ h.world = g.world
          /\ h.presented = g.presented /\ h.marked_for_close = g.marked_for_close
          /\ h.view = g.view /\ h.tokens = g.tokens /\ h.tasks = g.tasks
        BY <1>1 DEF Waiting, GameFields
    <2> HIDE DEF h
    <2>2. Calm(g, h)
        BY <2>1, CalmStep DEF Queued
    <2> QED  BY <2>2 DEF h
<1>6. Calm(g, Numbered(g, account))
    BY <1>1, CalmStep DEF Numbered, GameFields, Queued
<1> QED  BY <1>2, <1>3, <1>4, <1>5, <1>6

LEMMA FailLoginIsCalm ==
    ASSUME NEW g, GameInv(g), NEW c \in Connections, NEW account
    PROVE  Calm(g, FailLogin(g, c, account))
<1> DEFINE u == [g EXCEPT !.pending_accounts = @ \ {account}]
           h == DropPending(u, c)
           C == {c}
           s == Send(h, C, {}, {})
<1>1. GameInv(u) /\ Calm(g, u)
    BY UnlockKeepsInv, ForgetIsCalm
<1> HIDE DEF u
<1>2. GameInv(h) /\ Calm(u, h)
    BY <1>1, DropPendingKeepsInv, ForgetIsCalm
<1> HIDE DEF h, C
<1>3. Calm(h, s)
    BY <1>2, SendIsCalm
<1>4. FailLogin(g, c, account) = IF IsConnected(h, c) THEN s ELSE h
    BY DEF FailLogin, u, h, s, C
<1> HIDE DEF s
<1>5. Calm(g, h) /\ Calm(g, s)
    BY <1>1, <1>2, <1>3, CalmOn
<1> QED  BY <1>4, <1>5

\* The queue after a submission holds one more operation.
LEMMA SubmitAddsOne ==
    ASSUME NEW g, GameInv(g), NEW op
    PROVE  Queued(Submit(g, op)) \subseteq Queued(g) \cup {op}
<1> DEFINE h == Submit(g, op)
           S == AllOps \cup {op}
<1>1. DOMAIN g = GameFields /\ g.tasks \in Seq(AllOps)
    BY DEF GameInv, GameTypeOK
<1>2. h.tasks = Append(g.tasks, op)
    BY <1>1, SubmitFrame
<1>3. g.tasks \in Seq(S)
    BY <1>1, SeqMonotonic
<1> HIDE DEF h
<1>4. /\ Len(h.tasks) = Len(g.tasks) + 1 /\ h.tasks[Len(g.tasks) + 1] = op
      /\ \A i \in 1 .. Len(g.tasks) : h.tasks[i] = g.tasks[i]
      /\ Len(g.tasks) \in Nat
    BY <1>2, <1>3, AppendProperties, LenProperties
<1>5. \A i \in 1 .. Len(h.tasks) : i \in 1 .. Len(g.tasks) \/ i = Len(g.tasks) + 1
    BY <1>4
<1> QED  BY <1>4, <1>5 DEF Queued, h

LEMMA SubmitIsCalm ==
    ASSUME NEW g, GameInv(g), NEW op, Proper(g, op)
    PROVE  Calm(g, Submit(g, op))
<1> DEFINE h == Submit(g, op)
<1>1. DOMAIN g = GameFields
    BY DEF GameInv, GameTypeOK
<1>2. /\ h.conns = g.conns /\ h.online_players = g.online_players
      /\ h.connection_players = g.connection_players /\ h.world = g.world
      /\ g.marked_for_close = h.marked_for_close
      /\ h.tokens = g.tokens
    BY <1>1, SubmitFrame
<1>3. h.presented = g.presented /\ h.view = g.view
    BY <1>1 DEF Submit, GameFields
<1>4. Queued(h) \subseteq Queued(g) \cup {op}
    BY SubmitAddsOne
<1> HIDE DEF h
<1>5. Still(g, h) /\ TokensLast(g, h)
    BY <1>2, <1>3 DEF Still, TokensLast, IssuedTo
<1>6. Proper(h, op)
    BY <1>2, <1>3, <1>5, VouchedStays DEF Proper
<1> QED  BY <1>4, <1>5, <1>6 DEF Calm, QueuesProper, h

LEMMA SubmitOrFailIsCalm ==
    ASSUME NEW g, GameInv(g), NEW c \in Connections, NEW account, NEW op, Proper(g, op)
    PROVE  Calm(g, IF CanSubmit(g) THEN Submit(g, op) ELSE FailLogin(g, c, account))
BY SubmitIsCalm, FailLoginIsCalm

\* A token is issued: the earlier ones stay, and the new one is the player's.
LEMMA IssuedIsCalm ==
    ASSUME NEW g, GameInv(g), NEW id \in PlayerIds
    PROVE  /\ Calm(g, Issued(g, id))
           /\ IssuedTo(Issued(g, id), Len(g.tokens) + 1, id)
<1> DEFINE h == Issued(g, id)
<1>1. DOMAIN g = GameFields /\ g.tokens \in Seq(PlayerIds)
    BY DEF GameInv, GameTypeOK
<1>2. /\ h.conns = g.conns /\ h.online_players = g.online_players
      /\ h.connection_players = g.connection_players /\ h.world = g.world
      /\ h.presented = g.presented /\ h.marked_for_close = g.marked_for_close
      /\ h.view = g.view /\ h.tokens = Append(g.tokens, id) /\ h.tasks = g.tasks
    BY <1>1 DEF Issued, GameFields
<1> HIDE DEF h
<1>3. /\ Len(h.tokens) = Len(g.tokens) + 1 /\ h.tokens[Len(g.tokens) + 1] = id
      /\ \A i \in 1 .. Len(g.tokens) : h.tokens[i] = g.tokens[i]
      /\ Len(g.tokens) \in Nat
    BY <1>1, <1>2, AppendProperties, LenProperties
<1>4. /\ 1 .. Len(g.tokens) \subseteq 1 .. Len(h.tokens)
      /\ Len(g.tokens) + 1 \in 1 .. Len(h.tokens)
    BY <1>3
<1>5. TokensLast(g, h) /\ IssuedTo(h, Len(g.tokens) + 1, id)
    BY <1>3, <1>4 DEF TokensLast, IssuedTo
<1>6. Still(g, h)
    BY <1>2 DEF Still
<1>7. QueuesProper(g, h)
    BY <1>2 DEF QueuesProper, Queued
<1> QED  BY <1>5, <1>6, <1>7 DEF Calm, h

\* StoreSessionAndFinish: the token to be stored is the one just issued, and
\* the right to replace comes with a proof.
LEMMA StoreSessionIsCalm ==
    ASSUME NEW g, GameInv(g), NEW c \in Connections, NEW player \in Records,
           NEW replace \in BOOLEAN,
           replace /\ c \in g.conns => HasProof(g, c, player.id)
    PROVE  Calm(g, StoreSessionAndFinish(g, c, player, replace))
<1> DEFINE r == StoreSessionAndFinish(g, c, player, replace)
           token == Len(g.tokens) + 1
           h == Issued(g, player.id)
           op == [kind |-> "StoreSession", conn |-> c, player |-> player,
                  token |-> token, replace |-> replace]
           s == IF CanSubmit(h) THEN Submit(h, op) ELSE FailLogin(h, c, player.account)
<1>1. r = IF ~StillPending(g, c) THEN Forget(g, c, player.account)
          ELSE IF IsOnline(g, player.id) /\ ~replace THEN FailLogin(g, c, player.account)
          ELSE s
    BY DEF StoreSessionAndFinish, Issued
<1>2. player.id \in PlayerIds
    BY DEF Records
<1> HIDE DEF r
<1>3. Calm(g, Forget(g, c, player.account)) /\ Calm(g, FailLogin(g, c, player.account))
    BY ForgetIsCalm, FailLoginIsCalm
<1>4. ASSUME StillPending(g, c) PROVE Calm(g, s)
    <2>1. GameInv(h) /\ Calm(g, h) /\ IssuedTo(h, token, player.id)
        BY <1>2, IssuedKeepsInv, IssuedIsCalm
    <2> HIDE DEF h, token
    <2>2. c \in g.conns /\ h.conns = g.conns /\ h.presented = g.presented
        BY <1>4, <2>1 DEF StillPending, IsConnected, Calm, Still
    <2>3. replace => HasProof(h, c, player.id)
        BY <2>1, <2>2 DEF HasProof, Calm, TokensLast
    <2>4. Proper(h, op)
        BY <2>1, <2>2, <2>3 DEF Proper, Vouched
    <2> HIDE DEF op
    <2>5. Calm(h, s)
        BY <2>1, <2>4, SubmitOrFailIsCalm
    <2> HIDE DEF s
    <2> QED  BY <2>1, <2>5, CalmOn
<1> HIDE DEF s
<1>5. Calm(g, r)
    BY <1>1, <1>3, <1>4
<1> QED  BY <1>5 DEF r

\* ContinueLogin: a token that is looked up is the one presented.
LEMMA ContinueLoginIsCalm ==
    ASSUME NEW g, GameInv(g), NEW c \in Connections, NEW player \in Records, NEW token,
           token # NoToken /\ c \in g.conns => token \in g.presented[c]
    PROVE  Calm(g, ContinueLogin(g, c, player, token))
<1> DEFINE r == ContinueLogin(g, c, player, token)
           op == [kind |-> "LoadSession", conn |-> c, player |-> player,
                  token |-> token]
           s == IF CanSubmit(g) THEN Submit(g, op) ELSE FailLogin(g, c, player.account)
           new == StoreSessionAndFinish(g, c, player, FALSE)
<1>1. r = IF ~StillPending(g, c) THEN Forget(g, c, player.account)
          ELSE IF token = NoToken THEN new ELSE s
    BY DEF ContinueLogin
<1> HIDE DEF r
<1>2. Calm(g, Forget(g, c, player.account))
    BY ForgetIsCalm
<1>3. Calm(g, new)
    <2> DEFINE replace == FALSE
    <2>1. replace \in BOOLEAN /\ ~replace
        OBVIOUS
    <2> HIDE DEF replace
    <2>2. Calm(g, StoreSessionAndFinish(g, c, player, replace))
        BY <2>1, StoreSessionIsCalm
    <2> QED  BY <2>2 DEF replace
<1> HIDE DEF new
<1>4. ASSUME StillPending(g, c), token # NoToken PROVE Calm(g, s)
    <2>1. c \in g.conns
        BY <1>4 DEF StillPending, IsConnected
    <2>2. Proper(g, op)
        BY <1>4, <2>1 DEF Proper, Vouched
    <2> HIDE DEF op
    <2> QED  BY <2>2, SubmitOrFailIsCalm
<1> HIDE DEF s
<1>5. Calm(g, r)
    BY <1>1, <1>2, <1>3, <1>4
<1> QED  BY <1>5 DEF r

LEMMA PlayerNotFoundIsCalm ==
    ASSUME NEW g, GameInv(g), NEW op \in LoadPlayerOps, StillPending(g, op.conn)
    PROVE  Calm(g, PlayerNotFound(g, op))
<1> DEFINE n == g.player_sequence + 1
           player == NewPlayer(g, op.account)
           h == Numbered(g, n)
           create == [kind |-> "CreatePlayer", conn |-> op.conn, player |-> player]
           s == Submit(h, create)
           t == FailLogin(h, op.conn, op.account)
           r == PlayerNotFound(g, op)
<1>1. r = IF op.token = NoToken /\ CanSubmit(h) THEN s ELSE t
    BY DEF PlayerNotFound, NewPlayer, Numbered
<1>2. n \in Nat
    BY DEF GameInv, GameTypeOK
<1>3. GameInv(h) /\ Calm(g, h)
    BY <1>2, NumberedKeepsInv, ForgetIsCalm
<1>4. op.conn \in Connections
    BY DEF LoadPlayerOps
<1> HIDE DEF r, h, n, player
<1>5. op.conn \in h.conns
    BY <1>3 DEF StillPending, IsConnected, Calm, Still
<1>6. Proper(h, create)
    BY <1>5 DEF Proper, Vouched
<1> HIDE DEF create
<1>7. Calm(h, s) /\ Calm(h, t)
    BY <1>3, <1>4, <1>6, SubmitIsCalm, FailLoginIsCalm
<1> HIDE DEF s, t
<1>8. Calm(g, s) /\ Calm(g, t)
    BY <1>3, <1>7, CalmOn
<1>9. Calm(g, r)
    BY <1>1, <1>8
<1> QED  BY <1>9 DEF r

LEMMA PlayerLoadedIsCalm ==
    ASSUME NEW g, GameInv(g), NEW op \in LoadPlayerOps, Vouched(g, op),
           NEW status \in {"ok", "not_found", "failed"}, NEW value,
           status = "ok" => value \in Records
    PROVE  Calm(g, OnPlayerLoaded(g, op, status, value))
<1> DEFINE r == OnPlayerLoaded(g, op, status, value)
<1>1. /\ ~StillPending(g, op.conn) => r = Forget(g, op.conn, op.account)
      /\ StillPending(g, op.conn) =>
           /\ status = "ok" => r = ContinueLogin(g, op.conn, value, op.token)
           /\ status = "failed" => r = FailLogin(g, op.conn, op.account)
           /\ status = "not_found" => r = PlayerNotFound(g, op)
    BY DEF OnPlayerLoaded
<1>2. /\ op.conn \in Connections
      /\ op.conn \in g.conns => op.token \in g.presented[op.conn]
    BY DEF LoadPlayerOps, Vouched
<1> HIDE DEF r
<1>3. CASE ~StillPending(g, op.conn)
    <2>1. r = Forget(g, op.conn, op.account)
        BY <1>1, <1>3
    <2>2. Calm(g, Forget(g, op.conn, op.account))
        BY ForgetIsCalm
    <2> QED  BY <2>1, <2>2 DEF r
<1>4. CASE StillPending(g, op.conn) /\ status = "ok"
    BY <1>1, <1>2, <1>4, ContinueLoginIsCalm DEF r
<1>5. CASE StillPending(g, op.conn) /\ status = "failed"
    BY <1>1, <1>2, <1>5, FailLoginIsCalm DEF r
<1>6. CASE StillPending(g, op.conn) /\ status = "not_found"
    BY <1>1, <1>6, PlayerNotFoundIsCalm DEF r
<1> QED  BY <1>3, <1>4, <1>5, <1>6

LEMMA PlayerCreatedIsCalm ==
    ASSUME NEW g, GameInv(g), NEW op \in CreatePlayerOps, NEW status
    PROVE  Calm(g, OnPlayerCreated(g, op, status))
<1> DEFINE r == OnPlayerCreated(g, op, status)
<1>1. r = IF status = "ok" THEN ContinueLogin(g, op.conn, op.player, NoToken)
                           ELSE FailLogin(g, op.conn, op.player.account)
    BY DEF OnPlayerCreated
<1>2. op.conn \in Connections /\ op.player \in Records
    BY DEF CreatePlayerOps
<1> HIDE DEF r
<1>3. PICK token : token = NoToken
    OBVIOUS
<1>4. Calm(g, ContinueLogin(g, op.conn, op.player, token))
    BY <1>2, <1>3, ContinueLoginIsCalm
<1>5. Calm(g, FailLogin(g, op.conn, op.player.account))
    BY <1>2, FailLoginIsCalm
<1>6. Calm(g, r)
    BY <1>1, <1>3, <1>4, <1>5
<1> QED  BY <1>6 DEF r

\* OnSessionLoaded: the token that was presented is the one in the session
\* store, and that one was issued for the player.
LEMMA SessionLoadedIsCalm ==
    ASSUME NEW g, GameInv(g), NEW op \in LoadSessionOps, Vouched(g, op), NEW status, NEW value,
           status = "ok" => IssuedTo(g, value, op.player.id)
    PROVE  Calm(g, OnSessionLoaded(g, op, status, value))
<1> DEFINE r == OnSessionLoaded(g, op, status, value)
           right == status = "ok" /\ value = op.token
           s == StoreSessionAndFinish(g, op.conn, op.player, TRUE)
<1>1. r = IF right THEN s ELSE FailLogin(g, op.conn, op.player.account)
    BY DEF OnSessionLoaded
<1>2. op.conn \in Connections /\ op.player \in Records /\ op.kind = "LoadSession"
    BY DEF LoadSessionOps
<1> HIDE DEF r
<1>3. ASSUME right PROVE Calm(g, s)
    <2>1. op.conn \in g.conns => HasProof(g, op.conn, op.player.id)
        BY <1>2, <1>3 DEF Vouched, HasProof
    <2>2. PICK replace \in BOOLEAN : replace = TRUE
        OBVIOUS
    <2>3. Calm(g, StoreSessionAndFinish(g, op.conn, op.player, replace))
        BY <1>2, <2>1, StoreSessionIsCalm
    <2> QED  BY <2>2, <2>3
<1> HIDE DEF s
<1>4. Calm(g, FailLogin(g, op.conn, op.player.account))
    BY <1>2, FailLoginIsCalm
<1>5. Calm(g, r)
    BY <1>1, <1>3, <1>4
<1> QED  BY <1>5 DEF r

LEMMA HandleLoginIsCalm ==
    ASSUME NEW g, GameInv(g), NEW c \in g.conns, NEW account \in Accounts \cup {NoAccount},
           NEW token \in g.presented[c]
    PROVE  Calm(g, HandleLogin(g, c, account, token))
<1> DEFINE bad == \/ account = NoAccount
                  \/ g.connection_players[c] # NoPlayer
                  \/ g.pending_connections[c] # NoAccount
                  \/ account \in g.pending_accounts
           h  == Waiting(g, c, account)
           op == [kind |-> "LoadPlayer", conn |-> c, account |-> account, token |-> token]
           s  == IF CanSubmit(h) THEN Submit(h, op) ELSE FailLogin(h, c, account)
           r  == HandleLogin(g, c, account, token)
<1>1. r = IF bad THEN FailLogin(g, c, NoAccount) ELSE s
    BY DEF HandleLogin, Waiting
<1>2. c \in Connections
    BY DEF GameInv, GameTypeOK
<1> HIDE DEF r
<1>3. Calm(g, FailLogin(g, c, NoAccount))
    BY <1>2, FailLoginIsCalm
<1>4. ASSUME ~bad PROVE Calm(g, s)
    <2>1. account \in Accounts /\ g.connection_players[c] = NoPlayer
        BY <1>4
    <2>2. GameInv(h) /\ Calm(g, h)
        BY <2>1, WaitingKeepsInv, ForgetIsCalm
    <2> HIDE DEF h
    <2>3. h.conns = g.conns /\ h.presented = g.presented
        BY <2>2 DEF Calm, Still
    <2>4. Proper(h, op)
        BY <2>3 DEF Proper, Vouched
    <2> HIDE DEF op
    <2>5. Calm(h, s)
        BY <1>2, <2>2, <2>4, SubmitOrFailIsCalm
    <2> HIDE DEF s
    <2> QED  BY <2>2, <2>5, CalmOn
<1> HIDE DEF s
<1>5. Calm(g, r)
    BY <1>1, <1>3, <1>4
<1> QED  BY <1>5 DEF r

LEMMA ChatIsCalm ==
    ASSUME NEW g, GameInv(g), NEW c
    PROVE  Calm(g, HandleChat(g, c)) /\ Calm(g, HandleHeartbeat(g, c))
<1>1. \A C : Calm(g, Send(g, C, {}, {}))
    BY SendIsCalm
<1>2. \E C : HandleChat(g, c) \in {g, Send(g, C, {}, {})}
    BY DEF HandleChat
<1>3. \E C : HandleHeartbeat(g, c) = Send(g, C, {}, {})
    BY DEF HandleHeartbeat
<1> QED  BY <1>1, <1>2, <1>3, CalmSelf

-----------------------------------------------------------------------------
(* What every handler keeps, the ones that are not calm too.               *)

\* Connections go but do not come, their clients' tokens stay known, and the
\* operations that join the queue are vouched for and come from connections
\* that were open.
Keeps(g, h) ==
    /\ h.conns \subseteq g.conns
    /\ DOMAIN g.presented = Connections => DOMAIN h.presented = Connections
    /\ \A c \in h.conns : h.presented[c] = g.presented[c]
    /\ TokensLast(g, h)
    /\ \A op \in Queued(h) :
         \/ op \in Queued(g)
         \/ Vouched(h, op) /\ (op.kind # "SavePlayer" => op.conn \in g.conns)

LEMMA CalmKeeps ==
    ASSUME NEW g, NEW h, Calm(g, h)
    PROVE  Keeps(g, h)
BY DEF Calm, Still, QueuesProper, Proper, Keeps

LEMMA KeepsOn ==
    ASSUME NEW g, NEW h, NEW k, Keeps(g, h), Keeps(h, k)
    PROVE  Keeps(g, k)
<1>1. /\ k.conns \subseteq g.conns /\ \A c \in k.conns : k.presented[c] = g.presented[c]
      /\ DOMAIN g.presented = Connections => DOMAIN k.presented = Connections
    BY DEF Keeps
<1>2. TokensLast(g, k)
    BY DEF Keeps, TokensLast
<1>3. ASSUME NEW op \in Queued(k)
      PROVE  \/ op \in Queued(g)
             \/ Vouched(k, op) /\ (op.kind # "SavePlayer" => op.conn \in g.conns)
    <2>1. CASE op \in Queued(h)
        <3>1. \/ op \in Queued(g)
              \/ Vouched(h, op) /\ (op.kind # "SavePlayer" => op.conn \in g.conns)
            BY <2>1 DEF Keeps
        <3>2. /\ TokensLast(h, k) /\ k.conns \subseteq h.conns
              /\ \A c \in k.conns : k.presented[c] = h.presented[c]
            BY DEF Keeps
        <3>3. Vouched(h, op) => Vouched(k, op)
            BY <3>2, VouchedStays
        <3> QED  BY <3>1, <3>3
    <2>2. CASE op \notin Queued(h)
        BY <2>2 DEF Keeps
    <2> QED  BY <2>1, <2>2
<1> QED  BY <1>1, <1>2, <1>3 DEF Keeps

LEMMA KeepsStep ==
    ASSUME NEW g, NEW h, h.conns = g.conns, h.presented = g.presented,
           h.tokens = g.tokens, h.tasks = g.tasks
    PROVE  Keeps(g, h)
BY DEF Keeps, TokensLast, IssuedTo, Queued

LEMMA SendKeeps ==
    ASSUME NEW g, GameInv(g), NEW C, NEW enters, NEW leaves
    PROVE  Keeps(g, Send(g, C, enters, leaves))
<1> DEFINE h == Send(g, C, enters, leaves)
<1>1. DOMAIN g = GameFields
    BY DEF GameInv, GameTypeOK
<1>2. h.conns = g.conns /\ h.tokens = g.tokens /\ h.tasks = g.tasks
    BY <1>1, SendFrame
<1>3. h.presented = g.presented
    BY <1>1 DEF Send, GameFields
<1> HIDE DEF h
<1>4. Keeps(g, h)
    BY <1>2, <1>3, KeepsStep
<1> QED  BY <1>4 DEF h

\* The record of a player is saved, if at all, by an operation without tokens.
LEMMA SavePositionIsCalm ==
    ASSUME NEW g, GameInv(g), NEW record
    PROVE  Calm(g, SavePosition(g, record))
<1> DEFINE op == [kind |-> "SavePlayer", player |-> record]
<1>1. SavePosition(g, record) = IF CanSubmit(g) THEN Submit(g, op) ELSE g
    BY DEF SavePosition
<1>2. Proper(g, op)
    BY DEF Proper, Vouched
<1> HIDE DEF op
<1>3. Calm(g, Submit(g, op)) /\ Calm(g, g)
    BY <1>2, SubmitIsCalm, CalmSelf
<1> QED  BY <1>1, <1>3

-----------------------------------------------------------------------------
(* What the clients see.                                                   *)

\* A client without a player has been told of nobody; one with a player, that
\* is not about to be closed, of everyone its player can see.
Sees(g, c) ==
    /\ g.connection_players[c] = NoPlayer => g.view[c] = {}
    /\ g.connection_players[c] # NoPlayer /\ IsConnected(g, c) =>
         g.view[c] = Sight(g.world, g.connection_players[c])

\* The two indices of the world agree, and every client has a view.
WorldOK(g) ==
    /\ Coherent(g.world)
    /\ DOMAIN g.world.players \subseteq PlayerIds
    /\ DOMAIN g.view = Connections

SeeIn(g, C) == WorldOK(g) /\ \A c \in C : Sees(g, c)

LEMMA CalmSees ==
    ASSUME NEW g, NEW h, NEW C, C \subseteq Connections, SeeIn(g, C), Calm(g, h)
    PROVE  SeeIn(h, C)
<1>1. WorldOK(h)
    BY DEF SeeIn, WorldOK, Calm, Still
<1>2. ASSUME NEW c \in C PROVE Sees(h, c)
    BY DEF SeeIn, Sees, Calm, Still, IsConnected
<1> QED  BY <1>1, <1>2 DEF SeeIn

\* A message to the connections of C: whoever has not got it is marked, unless
\* it was not meant for it.
Tells(g, h, C, enters, gone) ==
    /\ DOMAIN h.view = Connections
    /\ \A d \in Connections :
         /\ IsConnected(h, d) => IsConnected(g, d)
         /\ d \notin C => h.view[d] = g.view[d]
         /\ d \in C /\ IsConnected(h, d) =>
              h.view[d] = Without(g.view[d], gone) \cup enters

LEMMA SendTells ==
    ASSUME NEW g, GameInv(g), NEW C, NEW enters, NEW leaves, NEW gone,
           gone = leaves \cup {e.id : e \in enters}
    PROVE  Tells(g, Send(g, C, enters, leaves), C, enters, gone)
<1> DEFINE h == Send(g, C, enters, leaves)
<1>1. DOMAIN g = GameFields
    BY DEF GameInv, GameTypeOK
<1>2. /\ h.conns = g.conns
      /\ h.marked_for_close = g.marked_for_close \cup (C \cap g.conns \cap g.broken)
      /\ h.view = [c \in Connections |->
                     IF c \in (C \cap g.conns) \ g.broken
                       THEN {v \in g.view[c] : v.id \notin gone} \cup enters
                       ELSE g.view[c]]
    BY <1>1 DEF Send, GameFields
<1> HIDE DEF h
<1>3. DOMAIN h.view = Connections
    BY <1>2
<1>4. ASSUME NEW d \in Connections
      PROVE  /\ IsConnected(h, d) => IsConnected(g, d)
             /\ d \notin C => h.view[d] = g.view[d]
             /\ d \in C /\ IsConnected(h, d) =>
                  h.view[d] = Without(g.view[d], gone) \cup enters
    <2>1. IsConnected(h, d) => IsConnected(g, d) /\ (d \in C => d \in (C \cap g.conns) \ g.broken)
        BY <1>2 DEF IsConnected
    <2>2. h.view[d] = IF d \in (C \cap g.conns) \ g.broken
                        THEN Without(g.view[d], gone) \cup enters
                        ELSE g.view[d]
        BY <1>2 DEF Without
    <2> QED  BY <2>1, <2>2
<1> QED  BY <1>3, <1>4 DEF Tells, h

\* Everyone in the world is online, so that PlayerById finds everyone the world
\* names, FillView tells where it is, and the message goes to its connection.
LEMMA EveryoneIsFound ==
    ASSUME NEW g, GameInv(g), WorldOK(g), NEW ids, ids \subseteq DOMAIN g.world.players
    PROVE  /\ Found(g, ids) = ids
           /\ ViewsOf(g, ids) = Facts(g.world, ids)
           /\ \A d \in Connections :
                d \in ConnectionsOf(g, ids) <=> g.connection_players[d] \in ids
<1>1. ASSUME NEW q \in ids
      PROVE  /\ q \in PlayerIds /\ IsOnline(g, q)
             /\ g.online_players[q].record.position = g.world.players[q].position
             /\ \A d \in Connections :
                  g.online_players[q].conn = d <=> g.connection_players[d] = q
    <2>1. q \in PlayerIds /\ q \in DOMAIN g.world.players
        BY DEF WorldOK
    <2>2. IsOnline(g, q) /\ g.online_players[q].record.position = g.world.players[q].position
        BY <2>1 DEF GameInv, Agree, IsOnline
    <2> QED  BY <2>1, <2>2, PlayerOfConnection
<1>2. Found(g, ids) = ids
    BY <1>1 DEF Found
<1>3. ViewsOf(g, ids) = Facts(g.world, ids)
    BY <1>1, <1>2 DEF ViewsOf, Facts, Fact
<1>4. ASSUME NEW d \in Connections
      PROVE  d \in ConnectionsOf(g, ids) <=> g.connection_players[d] \in ids
    BY <1>1, <1>2 DEF ConnectionsOf
<1> QED  BY <1>2, <1>3, <1>4

\* One player comes, moves or goes; the clients that had it in view, or have it
\* in view now, are told, and no other.
LEMMA TheOthersSee ==
    ASSUME NEW g, NEW s, NEW id, NEW d \in Connections, NEW p,
           Sees(g, d), AlikeBut(g.world, s.world, id),
           p = g.connection_players[d], p = s.connection_players[d], p # id,
           IsConnected(s, d) => IsConnected(g, d),
           p = NoPlayer => s.view[d] = g.view[d],
           p # NoPlayer => p \in DOMAIN g.world.players,
           p # NoPlayer /\ IsConnected(s, d) =>
             /\ id \in Around(s.world, p) =>
                  s.view[d] = Without(g.view[d], {id}) \cup Facts(s.world, {id})
             /\ id \notin Around(s.world, p) /\ id \in Around(g.world, p) =>
                  s.view[d] = Without(g.view[d], {id})
             /\ id \notin Around(s.world, p) /\ id \notin Around(g.world, p) =>
                  s.view[d] = g.view[d]
    PROVE  Sees(s, d)
<1>1. CASE p = NoPlayer
    BY <1>1 DEF Sees
<1>2. CASE p # NoPlayer
    <2>1. SUFFICES ASSUME IsConnected(s, d) PROVE s.view[d] = Sight(s.world, p)
        BY <1>2 DEF Sees
    <2>4. g.view[d] = Sight(g.world, p)
        BY <1>2, <2>1 DEF Sees
    <2> DEFINE w == g.world
               v == s.world
    <2>2. p \in DOMAIN w.players /\ AlikeBut(w, v, id)
        BY <1>2
    <2> HIDE DEF w, v
    <2>3. SeesAgain(w, v, id, p)
        BY <2>2, SightOfOthers
    <2> QED  BY <1>2, <2>1, <2>3, <2>4 DEF w, v, SeesAgain
<1> QED  BY <1>1, <1>2

-----------------------------------------------------------------------------
(* Leaving.                                                                *)

\* Who sees the player that leaves is told; the client that leaves is not.
LEMMA PlayerLeavesIsSeen ==
    ASSUME NEW g, GameInv(g), SeeIn(g, Connections), NEW c \in Connections,
           NEW id \in PlayerIds, g.connection_players[c] = id
    PROVE  LET h == PlayerLeaves(g, c, id)
           IN  SeeIn(h, Connections \ {c}) /\ Keeps(g, h)
<1> DEFINE w == g.world
           r == RemoveOnline(g, c, id)
           v == r.world
           ids == VisiblePlayers(w, id)
           C == ConnectionsOf(r, ids)
           L == {id}
           s == Send(r, C, {}, L)
           record == g.online_players[id].record
           h == SavePosition(s, record)
<1>1. WorldOK(g) /\ DOMAIN g = GameFields /\ id \in DOMAIN w.players
    <2>1. WorldOK(g) /\ DOMAIN g = GameFields
        BY DEF SeeIn, GameInv, GameTypeOK
    <2>2. id # NoPlayer
        BY NothingIsNothing
    <2>3. id \in DOMAIN g.world.players
        BY <2>2, PlayerOfConnection
    <2> QED  BY <2>1, <2>3
<1>2. ids = Around(w, id)
    BY <1>1, VisibleIsAround DEF WorldOK
<1>3. /\ GameInv(r) /\ WithoutPlayerOf(g, r, c) /\ r.conns = g.conns
      /\ r.marked_for_close = g.marked_for_close
    BY RemoveOnlineKeepsInv
<1>4. /\ v = RemovePlayer(w, id) /\ r.view = g.view /\ r.presented = g.presented
      /\ r.tokens = g.tokens /\ r.tasks = g.tasks
    BY <1>1 DEF RemoveOnline, GameFields
<1>5. /\ Coherent(v) /\ DOMAIN v.players = DOMAIN w.players \ {id}
      /\ \A q \in DOMAIN w.players \ {id} : v.players[q] = w.players[q]
    BY <1>1, <1>4, RemoveKeepsCoherent DEF WorldOK, Contains
<1> HIDE DEF r
<1>6. WorldOK(r) /\ AlikeBut(w, v, id) /\ ids \subseteq DOMAIN v.players
    BY <1>1, <1>2, <1>4, <1>5 DEF WorldOK, AlikeBut, Around
<1> HIDE DEF ids
<1>7. \A d \in Connections : d \in C <=> r.connection_players[d] \in ids
    BY <1>3, <1>6, EveryoneIsFound
<1>8. L = L \cup {e.id : e \in {}}
    OBVIOUS
<1> HIDE DEF C, L
<1>9. Tells(r, s, C, {}, L)
    BY <1>3, <1>8, SendTells
<1>10. Keeps(g, r) /\ Keeps(r, s)
    BY <1>3, <1>4, KeepsStep, SendKeeps
<1>11. GameInv(s) /\ TablesKept(r, s)
    BY <1>3, SendKeepsTables
<1> HIDE DEF s
<1>12. s.world = v /\ s.connection_players = r.connection_players
    BY <1>11 DEF TablesKept
<1>13. WorldOK(s)
    BY <1>6, <1>9, <1>12 DEF WorldOK, Tells
<1>14. ASSUME NEW d \in Connections \ {c} PROVE Sees(s, d)
    <2> DEFINE p == g.connection_players[d]
    <2>1. /\ p = s.connection_players[d] /\ p = r.connection_players[d]
        <3>1. g.connection_players \in [Connections -> PlayerIds \cup {NoPlayer}]
            BY DEF GameInv, GameTypeOK
        <3>2. r.connection_players[d] = g.connection_players[d]
            BY <1>3, <3>1 DEF WithoutPlayerOf
        <3> QED  BY <1>12, <3>2
    <2>2. /\ p # NoPlayer => p \in DOMAIN w.players
          /\ p # id
        <3>1. p # NoPlayer => p \in DOMAIN w.players /\ p \in PlayerIds
            BY PlayerOfConnection
        <3>2. g.online_players[id].conn = c
            BY PlayerOfConnection
        <3>3. p # id
            BY <3>2, PlayerOfConnection
        <3> QED  BY <3>1, <3>3
    <2>3. Sees(g, d)
        BY DEF SeeIn
    <2>4. /\ IsConnected(s, d) => IsConnected(g, d)
          /\ d \notin C => s.view[d] = g.view[d]
          /\ d \in C /\ IsConnected(s, d) => s.view[d] = Without(g.view[d], L)
        BY <1>3, <1>4, <1>9 DEF Tells, IsConnected
    <2>5. d \in C <=> p \in ids
        BY <1>7, <2>1
    <2>12. d \in Connections /\ p = g.connection_players[d]
        OBVIOUS
    <2> HIDE DEF p
    <2>6. NoPlayer \notin ids
        BY <1>1, <1>5, <1>6, NothingIsNothing DEF WorldOK
    <2>7. id \notin Around(v, p)
        BY <1>5 DEF Around
    <2>8. p # NoPlayer => (p \in ids <=> id \in Around(w, p))
        BY <1>1, <1>2, <2>2, AroundIsMutual DEF WorldOK
    <2>9. AlikeBut(g.world, s.world, id)
        BY <1>6, <1>12
    <2>10. p = NoPlayer => s.view[d] = g.view[d]
        BY <2>4, <2>5, <2>6
    <2>11. p # NoPlayer /\ IsConnected(s, d) =>
             /\ id \in Around(s.world, p) =>
                  s.view[d] = Without(g.view[d], {id}) \cup Facts(s.world, {id})
             /\ id \notin Around(s.world, p) /\ id \in Around(g.world, p) =>
                  s.view[d] = Without(g.view[d], {id})
             /\ id \notin Around(s.world, p) /\ id \notin Around(g.world, p) =>
                  s.view[d] = g.view[d]
        BY <1>12, <2>4, <2>5, <2>7, <2>8 DEF L
    <2>13. IsConnected(s, d) => IsConnected(g, d)
        BY <2>4
    <2>14. p = s.connection_players[d] /\ p # id /\ (p # NoPlayer => p \in DOMAIN g.world.players)
        BY <2>1, <2>2
    <2> QED  BY <2>3, <2>9, <2>10, <2>11, <2>12, <2>13, <2>14, TheOthersSee
<1>15. SeeIn(s, Connections \ {c})
    BY <1>13, <1>14 DEF SeeIn
<1>16. Calm(s, h)
    BY <1>11, SavePositionIsCalm
<1>17. PlayerLeaves(g, c, id) = h
    BY DEF PlayerLeaves, r, ids, C, L, s
<1> HIDE DEF h, w, v
<1>18. SeeIn(h, Connections \ {c})
    <2>1. PICK D : D = Connections \ {c} /\ D \subseteq Connections
        OBVIOUS
    <2> QED  BY <1>15, <1>16, <2>1, CalmSees
<1>19. Keeps(g, h)
    BY <1>10, <1>16, CalmKeeps, KeepsOn
<1> QED  BY <1>17, <1>18, <1>19

LEMMA OnDisconnectedIsSeen ==
    ASSUME NEW g, GameInv(g), SeeIn(g, Connections), NEW c \in Connections
    PROVE  LET h == OnDisconnected(g, c)
           IN  SeeIn(h, Connections \ {c}) /\ Keeps(g, h)
<1> DEFINE d == DropPending(g, c)
           id == d.connection_players[c]
           h == OnDisconnected(g, c)
           D == Connections \ {c}
<1>1. GameInv(d) /\ Calm(g, d)
    BY DropPendingKeepsInv, ForgetIsCalm
<1>2. h = CASE id = NoPlayer   -> d
            [] HasPlayer(d, c) -> PlayerLeaves(d, c, id)
            [] OTHER           -> [d EXCEPT !.connection_players[c] = NoPlayer]
    BY DEF OnDisconnected
<1> HIDE DEF d, h
<1>3. SeeIn(d, Connections) /\ Keeps(g, d)
    BY <1>1, CalmSees, CalmKeeps
<1>4. CASE id = NoPlayer
    <2>1. ~HasPlayer(d, c)
        BY <1>4 DEF HasPlayer
    <2>2. h = d
        BY <1>2, <1>4, <2>1
    <2>3. SeeIn(d, D)
        BY <1>3 DEF SeeIn
    <2> QED  BY <1>3, <2>2, <2>3 DEF h
<1>5. CASE id # NoPlayer
    <2>1. id \in PlayerIds /\ d.online_players[id] # Offline
        BY <1>1, <1>5, PlayerOfConnection
    <2>2. HasPlayer(d, c)
        BY <1>5, <2>1 DEF HasPlayer, IsOnline
    <2>3. h = PlayerLeaves(d, c, id)
        BY <1>2, <1>5, <2>2
    <2>4. SeeIn(PlayerLeaves(d, c, id), D) /\ Keeps(d, PlayerLeaves(d, c, id))
        BY <1>1, <1>3, <2>1, PlayerLeavesIsSeen
    <2>5. SeeIn(h, D) /\ Keeps(d, h)
        BY <2>3, <2>4
    <2>6. Keeps(g, h)
        BY <1>3, <2>5, KeepsOn
    <2> QED  BY <2>5, <2>6 DEF h
<1> QED  BY <1>4, <1>5

\* CloseConnection: what the client knew goes with it.
LEMMA CloseIsSeen ==
    ASSUME NEW g, GameInv(g), SeeIn(g, Connections), NEW c \in Connections,
           DOMAIN g.presented = Connections
    PROVE  LET h == CloseConnection(g, c)
           IN  SeeIn(h, Connections) /\ Keeps(g, h)
<1> DEFINE h == CloseConnection(g, c)
<1>1. DOMAIN g = GameFields
    BY DEF GameInv, GameTypeOK
<1>2. CASE c \notin g.conns
    <2>1. h = [g EXCEPT !.marked_for_close = @ \ {c}]
        BY <1>2 DEF CloseConnection
    <2> HIDE DEF h
    <2>2. /\ h.conns = g.conns /\ h.marked_for_close = g.marked_for_close \ {c}
          /\ h.connection_players = g.connection_players /\ h.world = g.world
          /\ h.view = g.view /\ h.presented = g.presented
          /\ h.tokens = g.tokens /\ h.tasks = g.tasks
        BY <1>1, <2>1 DEF GameFields
    <2>3. \A d \in Connections : IsConnected(h, d) => IsConnected(g, d)
        BY <1>2, <2>2 DEF IsConnected
    <2>4. SeeIn(h, Connections)
        BY <2>2, <2>3 DEF SeeIn, WorldOK, Sees
    <2>5. Keeps(g, h)
        BY <2>2, KeepsStep
    <2> QED  BY <2>4, <2>5 DEF h
<1>3. CASE c \in g.conns
    <2> DEFINE d == OnDisconnected(g, c)
               D == Connections \ {c}
    <2>1. h = [d EXCEPT !.conns = @ \ {c}, !.marked_for_close = @ \ {c},
                        !.broken = @ \ {c}, !.view[c] = {}, !.presented[c] = {}]
        BY <1>3 DEF CloseConnection
    <2>2. GameInv(d) /\ WithoutPlayerOf(g, d, c) /\ d.conns = g.conns
        BY OnDisconnectedKeepsInv
    <2>3. SeeIn(d, D) /\ Keeps(g, d)
        BY OnDisconnectedIsSeen
    <2> HIDE DEF d, h
    <2>4. DOMAIN d = GameFields
        BY <2>2 DEF GameInv, GameTypeOK
    <2>5. /\ h.conns = d.conns \ {c}
          /\ h.marked_for_close = d.marked_for_close \ {c}
          /\ h.connection_players = d.connection_players
          /\ h.world = d.world
          /\ h.tokens = d.tokens
          /\ h.tasks = d.tasks
          /\ h.view = [d.view EXCEPT ![c] = {}]
          /\ h.presented = [d.presented EXCEPT ![c] = {}]
        BY <2>1, <2>4 DEF GameFields
    <2>6. d.connection_players[c] = NoPlayer
        <3>1. g.connection_players \in [Connections -> PlayerIds \cup {NoPlayer}]
            BY DEF GameInv, GameTypeOK
        <3> QED  BY <2>2, <3>1 DEF WithoutPlayerOf
    <2>7. WorldOK(h)
        BY <2>3, <2>5 DEF SeeIn, WorldOK
    <2>8. ASSUME NEW e \in Connections PROVE Sees(h, e)
        <3>1. CASE e = c
            BY <2>3, <2>5, <2>6, <3>1 DEF Sees, SeeIn, WorldOK
        <3>2. CASE e # c
            <4>1. h.view[e] = d.view[e] /\ (IsConnected(h, e) => IsConnected(d, e))
                BY <2>3, <2>5, <3>2 DEF IsConnected, SeeIn, WorldOK
            <4> QED  BY <2>3, <2>5, <3>2, <4>1 DEF Sees, SeeIn
        <3> QED  BY <3>1, <3>2
    <2>9. SeeIn(h, Connections)
        BY <2>7, <2>8 DEF SeeIn
    <2>10. Keeps(d, h)
        <3>1. /\ DOMAIN h.presented = Connections
              /\ \A e \in h.conns : h.presented[e] = d.presented[e]
            BY <2>2, <2>3, <2>5 DEF Keeps, GameInv, GameTypeOK
        <3>2. TokensLast(d, h) /\ Queued(h) = Queued(d)
            BY <2>5 DEF TokensLast, IssuedTo, Queued
        <3> QED  BY <2>5, <3>1, <3>2 DEF Keeps
    <2>11. Keeps(g, h)
        BY <2>3, <2>10, KeepsOn
    <2> QED  BY <2>9, <2>11 DEF h
<1> QED  BY <1>2, <1>3

-----------------------------------------------------------------------------
(* Coming in.                                                              *)

\* The end of FinishLogin: the player is put online, is told of those it can
\* see, and they are told of it.
Greeted(k, c, player, token) ==
    LET h       == PutOnline(k, c, player, token)
        visible == VisiblePlayers(h.world, player.id)
        told    == Send(h, {c}, ViewsOf(h, visible), {})
    IN  Send(told, ConnectionsOf(told, visible), ViewsOf(told, {player.id}), {})

LEMMA GreetedIsSeen ==
    ASSUME NEW k, GameInv(k), SeeIn(k, Connections), NEW c \in k.conns,
           NEW player \in Records, NEW token \in Tokens,
           k.connection_players[c] = NoPlayer,
           k.pending_connections[c] = NoAccount,
           k.online_players[player.id] = Offline,
           CanAdd(k.world, player.id, player.position)
    PROVE  LET r == Greeted(k, c, player, token)
           IN  SeeIn(r, Connections) /\ Keeps(k, r)
<1> DEFINE w == k.world
           id == player.id
           h == PutOnline(k, c, player, token)
           v == h.world
           ids == VisiblePlayers(v, id)
           D == {c}
           E == ViewsOf(h, ids)
           told == Send(h, D, E, {})
           C == ConnectionsOf(told, ids)
           L == {id}
           F == ViewsOf(told, L)
           last == Send(told, C, F, {})
           r == Greeted(k, c, player, token)
<1>1. r = last
    BY DEF Greeted
<1>2. WorldOK(k) /\ DOMAIN k = GameFields /\ id \in PlayerIds /\ c \in Connections
    BY DEF SeeIn, GameInv, GameTypeOK, Records
<1>3. player.position \in Places
    BY PositionsAssumption DEF Records, Places
<1>4. GameInv(h) /\ h.conns = k.conns
    BY PutOnlineKeepsInv
<1>5. /\ v = AddPlayer(w, id, player.position)
      /\ h.connection_players = [k.connection_players EXCEPT ![c] = id]
      /\ h.view = k.view /\ h.presented = k.presented
      /\ h.tokens = k.tokens /\ h.tasks = k.tasks
      /\ h.marked_for_close = k.marked_for_close
    BY <1>2 DEF PutOnline, GameFields
<1> HIDE DEF h, r, id
<1>6. /\ Coherent(v) /\ DOMAIN v.players = DOMAIN w.players \cup {id}
      /\ id \notin DOMAIN w.players
      /\ \A q \in DOMAIN w.players : v.players[q] = w.players[q]
    <2>1. Coherent(w) /\ CanAdd(w, id, player.position)
        BY <1>2 DEF WorldOK, id
    <2> HIDE DEF w, v
    <2> QED  BY <1>3, <1>5, <2>1, AddKeepsCoherent
<1>7. WorldOK(h) /\ AlikeBut(w, v, id)
    BY <1>2, <1>5, <1>6 DEF WorldOK, AlikeBut
<1>8. ids = Around(v, id) /\ ids \subseteq DOMAIN v.players /\ id \notin ids
    <2>1. ids = Around(v, id)
        BY <1>6, VisibleIsAround
    <2> QED  BY <2>1 DEF Around
<1> HIDE DEF ids
<1>9. E = Facts(v, ids)
    BY <1>4, <1>7, <1>8, EveryoneIsFound
<1>10. ids = {} \cup {e.id : e \in E}
    BY <1>9, FactsAbout
<1> HIDE DEF D, E
<1>11. Tells(h, told, D, E, ids)
    BY <1>4, <1>10, SendTells
<1>12. GameInv(told) /\ TablesKept(h, told)
    BY <1>4, SendKeepsTables
<1>13. Keeps(k, h) /\ Keeps(h, told)
    BY <1>4, <1>5, KeepsStep, SendKeeps
<1> HIDE DEF told
<1>14. told.world = v /\ told.connection_players = h.connection_players
    BY <1>12 DEF TablesKept
<1>15. WorldOK(told)
    BY <1>7, <1>11, <1>14 DEF WorldOK, Tells
<1>16. \A d \in Connections : d \in C <=> h.connection_players[d] \in ids
    BY <1>8, <1>12, <1>14, <1>15, EveryoneIsFound
<1>17. F = Facts(v, L)
    <2>1. L \subseteq DOMAIN told.world.players
        BY <1>6, <1>14
    <2> HIDE DEF L
    <2> QED  BY <1>12, <1>14, <1>15, <2>1, EveryoneIsFound
<1>18. L = {} \cup {e.id : e \in F}
    BY <1>17, FactsAbout
<1> HIDE DEF C, F, L
<1>19. Tells(told, last, C, F, L)
    BY <1>12, <1>18, SendTells
<1>20. GameInv(last) /\ TablesKept(told, last)
    BY <1>12, SendKeepsTables
<1>21. Keeps(told, last)
    BY <1>12, SendKeeps
<1> HIDE DEF last
<1>22. last.world = v /\ last.connection_players = h.connection_players
    BY <1>14, <1>20 DEF TablesKept
<1>23. WorldOK(last)
    BY <1>7, <1>19, <1>22 DEF WorldOK, Tells
<1>24. k.connection_players \in [Connections -> PlayerIds \cup {NoPlayer}]
    BY DEF GameInv, GameTypeOK
<1>25. Sees(last, c)
    <2>1. last.connection_players[c] = id /\ c \notin C
        BY <1>2, <1>5, <1>8, <1>16, <1>22, <1>24
    <2>2. k.view[c] = {}
        BY <1>2 DEF SeeIn, Sees
    <2>3. Without(k.view[c], ids) = {}
        BY <2>2 DEF Without
    <2>4. IsConnected(last, c) => last.view[c] = Without(h.view[c], ids) \cup E
        BY <1>2, <1>11, <1>19, <2>1 DEF Tells, D
    <2>5. IsConnected(last, c) => last.view[c] = Sight(v, id)
        BY <1>5, <1>8, <1>9, <2>3, <2>4 DEF Sight
    <2> QED  BY <1>2, <1>22, <2>1, <2>5, NothingIsNothing DEF Sees
<1>26. ASSUME NEW d \in Connections, d # c PROVE Sees(last, d)
    <2> DEFINE p == k.connection_players[d]
    <2>1. p = last.connection_players[d] /\ p = h.connection_players[d]
        BY <1>2, <1>5, <1>22, <1>24, <1>26
    <2>2. p # NoPlayer => p \in DOMAIN w.players
        BY PlayerOfConnection
    <2>3. p # id
        BY <1>2, <1>6, <2>2, NothingIsNothing
    <2>4. Sees(k, d)
        BY DEF SeeIn
    <2>5. /\ IsConnected(last, d) => IsConnected(k, d)
          /\ d \notin C => last.view[d] = k.view[d]
          /\ d \in C /\ IsConnected(last, d) => last.view[d] = Without(k.view[d], L) \cup F
        <3>1. /\ IsConnected(told, d) => IsConnected(k, d)
              /\ told.view[d] = k.view[d]
            BY <1>4, <1>5, <1>11, <1>26 DEF Tells, IsConnected, D
        <3> QED  BY <1>19, <3>1 DEF Tells
    <2>6. d \in C <=> p \in ids
        BY <1>16, <2>1
    <2>7. p = k.connection_players[d]
        OBVIOUS
    <2> HIDE DEF p
    <2>8. NoPlayer \notin ids
        BY <1>2, <1>6, <1>7, <1>8, NothingIsNothing DEF WorldOK
    <2>9. id \notin Around(w, p)
        BY <1>6 DEF Around
    <2>10. p # NoPlayer => (p \in ids <=> id \in Around(v, p))
        BY <1>6, <1>8, <2>2, AroundIsMutual
    <2>11. AlikeBut(k.world, last.world, id)
        BY <1>7, <1>22
    <2>12. p = NoPlayer => last.view[d] = k.view[d]
        BY <2>5, <2>6, <2>8
    <2>13. p # NoPlayer /\ IsConnected(last, d) =>
             /\ id \in Around(last.world, p) =>
                  last.view[d] = Without(k.view[d], {id}) \cup Facts(last.world, {id})
             /\ id \notin Around(last.world, p) /\ id \in Around(k.world, p) =>
                  last.view[d] = Without(k.view[d], {id})
             /\ id \notin Around(last.world, p) /\ id \notin Around(k.world, p) =>
                  last.view[d] = k.view[d]
        BY <1>17, <1>22, <2>5, <2>6, <2>9, <2>10 DEF L
    <2>14. IsConnected(last, d) => IsConnected(k, d)
        BY <2>5
    <2>15. p # NoPlayer => p \in DOMAIN k.world.players
        BY <2>2
    <2>16. p = last.connection_players[d]
        BY <2>1
    <2> QED
        BY <2>3, <2>4, <2>7, <2>11, <2>12, <2>13, <2>14, <2>15, <2>16, TheOthersSee
<1>27. SeeIn(last, Connections)
    BY <1>23, <1>25, <1>26 DEF SeeIn
<1>28. Keeps(k, last)
    BY <1>13, <1>21, KeepsOn
<1> QED  BY <1>1, <1>27, <1>28 DEF r

\* Everyone who stays online does so on the same connection, but for those of
\* ids, who may be on c.
OnTheirConnections(g, h, ids, c) ==
    \A id \in PlayerIds :
        LET old == g.online_players[id].conn
            new == h.online_players[id].conn
        IN  \/ new = old \/ NoConnection \in {old, new}
            \/ id \in ids /\ new = c

LEMMA LeavingIsNoTakeover ==
    ASSUME NEW g, NEW h, NEW d, NEW c, WithoutPlayerOf(g, h, d)
    PROVE  OnTheirConnections(g, h, {}, c)
BY DEF WithoutPlayerOf, OnTheirConnections, Offline

LEMMA CalmIsNoTakeover ==
    ASSUME NEW g, NEW h, NEW c, h.online_players = g.online_players
    PROVE  OnTheirConnections(g, h, {}, c)
BY DEF OnTheirConnections

\* FinishLogin: the views are right, and if a player changes its connection,
\* it is the one that is logged in, and the login may replace another.
LEMMA FinishLoginIsSeen ==
    ASSUME NEW g, GameInv(g), SeeIn(g, Connections), DOMAIN g.presented = Connections,
           NEW c \in Connections, NEW loaded \in Records,
           NEW token \in Tokens, NEW replace \in BOOLEAN
    PROVE  LET r == FinishLogin(g, c, loaded, token, replace)
           IN  /\ SeeIn(r, Connections) /\ Keeps(g, r)
               /\ \/ OnTheirConnections(g, r, {}, c)
                  \/ replace /\ c \in g.conns
                       /\ OnTheirConnections(g, r, {loaded.id}, c)
<1> DEFINE account == loaded.account
           id      == loaded.id
           present == IsOnline(g, id)
           player  == IF present THEN g.online_players[id].record ELSE loaded
           f       == IF present THEN CloseConnection(g, g.online_players[id].conn) ELSE g
           k       == Forget(f, c, account)
           last    == Greeted(k, c, player, token)
           r       == FinishLogin(g, c, loaded, token, replace)
           none    == {}
           one     == {id}
<1>2. id \in PlayerIds /\ account \in Accounts
    BY DEF Records
<1>3. /\ g.online_players \in [PlayerIds -> {Offline} \cup Entries]
      /\ g.connection_players \in [Connections -> PlayerIds \cup {NoPlayer}]
    BY DEF GameInv, GameTypeOK
<1>0. player.id = id
    BY <1>2 DEF IsOnline, GameInv, Agree
<1>1. r = CASE ~StillPending(g, c) -> Forget(g, c, account)
            [] StillPending(g, c) /\ present /\ ~replace -> FailLogin(g, c, account)
            [] StillPending(g, c) /\ (present => replace)
                   /\ ~CanAdd(f.world, id, player.position) -> FailLogin(f, c, account)
            [] OTHER -> last
    BY <1>0 DEF FinishLogin, Greeted, PutOnline
<1> SUFFICES /\ SeeIn(r, Connections) /\ Keeps(g, r)
             /\ \/ OnTheirConnections(g, r, none, c)
                \/ replace /\ c \in g.conns /\ OnTheirConnections(g, r, one, c)
    OBVIOUS
<1> HIDE DEF r, none, one, last
<1>4. ASSUME Calm(g, r)
      PROVE  SeeIn(r, Connections) /\ Keeps(g, r) /\ OnTheirConnections(g, r, none, c)
    <2>1. SeeIn(r, Connections) /\ Keeps(g, r)
        BY <1>4, CalmSees, CalmKeeps
    <2>2. r.online_players = g.online_players
        BY <1>4 DEF Calm, Still
    <2> QED  BY <2>1, <2>2, CalmIsNoTakeover DEF none
<1>5. CASE ~StillPending(g, c)
    <2>1. r = Forget(g, c, account)
        BY <1>1, <1>5
    <2>2. Calm(g, r)
        BY <2>1, ForgetIsCalm
    <2> QED  BY <1>4, <2>2
<1>6. CASE StillPending(g, c) /\ present /\ ~replace
    <2>1. r = FailLogin(g, c, account)
        BY <1>1, <1>6
    <2>2. Calm(g, r)
        BY <2>1, FailLoginIsCalm
    <2> QED  BY <1>4, <2>2
<1>7. CASE StillPending(g, c) /\ (present => replace)
    <2>1. c \in g.conns /\ g.connection_players[c] = NoPlayer
        BY <1>7 DEF StillPending, IsConnected, GameInv, PendingFree
    <2>2. /\ GameInv(f) /\ SeeIn(f, Connections) /\ Keeps(g, f)
          /\ c \in f.conns /\ f.connection_players[c] = NoPlayer
          /\ f.online_players[id] = Offline /\ player \in Records
          /\ OnTheirConnections(g, f, none, c)
          /\ \A i \in PlayerIds \ {id} :
               f.online_players[i].conn \in {g.online_players[i].conn, NoConnection}
          /\ present \/ f.online_players = g.online_players
        <3>1. CASE ~present
            <4>1. f = g /\ Calm(g, g)
                BY <3>1, CalmSelf
            <4> HIDE DEF f
            <4>2. Keeps(g, f) /\ OnTheirConnections(g, f, none, c)
                BY <4>1, CalmKeeps, CalmIsNoTakeover DEF none
            <4> QED  BY <2>1, <3>1, <4>1, <4>2 DEF IsOnline
        <3>2. CASE present
            <4> DEFINE d == g.online_players[id].conn
            <4>1. g.online_players[id] \in Entries /\ g.online_players[id] # Offline
                BY <1>2, <1>3, <3>2 DEF IsOnline
            <4>2. d \in Connections /\ g.online_players[id].record \in Records
                BY <4>1 DEF Entries
            <4>3. g.connection_players[d] = id
                BY <1>2, <4>1 DEF GameInv, Agree
            <4>4. d # c
                BY <1>2, <2>1, <4>3, NothingIsNothing
            <4>5. f = CloseConnection(g, d) /\ player = g.online_players[id].record
                BY <3>2
            <4> HIDE DEF d, f, player
            <4>6. GameInv(f) /\ WithoutPlayerOf(g, f, d) /\ f.conns = g.conns \ {d}
                BY <4>2, <4>5, CloseKeepsInv
            <4>7. SeeIn(f, Connections) /\ Keeps(g, f)
                BY <4>2, <4>5, CloseIsSeen
            <4>8. f.connection_players[c] = NoPlayer /\ f.online_players[id] = Offline
                BY <1>2, <1>3, <2>1, <4>2, <4>4, <4>6 DEF WithoutPlayerOf, d
            <4>9. OnTheirConnections(g, f, none, c)
                BY <4>6, LeavingIsNoTakeover DEF none
            <4>10. \A i \in PlayerIds \ {id} :
                     f.online_players[i].conn \in {g.online_players[i].conn, NoConnection}
                BY <4>6 DEF WithoutPlayerOf, Offline
            <4> QED
                BY <2>1, <3>2, <4>2, <4>4, <4>5, <4>6, <4>7, <4>8, <4>9, <4>10
        <3> QED  BY <3>1, <3>2
    <2> HIDE DEF f, player, present
    <2>3. CASE ~CanAdd(f.world, id, player.position)
        <3>1. r = FailLogin(f, c, account)
            BY <1>1, <1>7, <2>3
        <3>2. Calm(f, r)
            BY <2>2, <3>1, FailLoginIsCalm
        <3>3. SeeIn(r, Connections) /\ Keeps(f, r) /\ r.online_players = f.online_players
            BY <2>2, <3>2, CalmSees, CalmKeeps DEF Calm, Still
        <3>4. Keeps(g, r)
            BY <2>2, <3>3, KeepsOn
        <3>5. OnTheirConnections(g, r, none, c)
            BY <2>2, <3>3 DEF OnTheirConnections
        <3> QED  BY <3>3, <3>4, <3>5
    <2>4. CASE CanAdd(f.world, id, player.position)
        <3>1. r = last
            BY <1>1, <1>7, <2>4
        <3>2. /\ GameInv(k) /\ TablesKept(f, k) /\ Calm(f, k)
              /\ k.pending_connections = [f.pending_connections EXCEPT ![c] = NoAccount]
            BY <1>2, <2>2, ForgetKeepsInv, ForgetIsCalm
        <3> HIDE DEF k
        <3>3. /\ c \in k.conns /\ k.connection_players[c] = NoPlayer
              /\ k.online_players = f.online_players
              /\ k.pending_connections[c] = NoAccount /\ k.world = f.world
            <4>1. f.pending_connections \in [Connections -> Accounts \cup {NoAccount}]
                BY <2>2 DEF GameInv, GameTypeOK
            <4> QED  BY <2>2, <3>2, <4>1 DEF TablesKept
        <3>4. SeeIn(k, Connections) /\ Keeps(f, k)
            BY <2>2, <3>2, CalmSees, CalmKeeps
        <3>5. /\ k.online_players[player.id] = Offline
              /\ CanAdd(k.world, player.id, player.position)
            BY <1>0, <2>2, <2>4, <3>3
        <3>6. SeeIn(last, Connections) /\ Keeps(k, last)
            BY <2>2, <3>2, <3>3, <3>4, <3>5, GreetedIsSeen DEF last
        <3>7. Keeps(g, last)
            BY <2>2, <3>4, <3>6, KeepsOn
        <3> DEFINE h == PutOnline(k, c, player, token)
        <3>8. GameInv(h) /\ CameOnline(k, h, player, c, token)
            BY <2>2, <3>2, <3>3, <3>5, PutOnlineKeepsInv
        <3>9. last.online_players = h.online_players
            <4>1. \E told, C1, C2, E1, E2 :
                    told = Send(h, C1, E1, {}) /\ last = Send(told, C2, E2, {})
                BY DEF last, Greeted
            <4> HIDE DEF h
            <4>2. PICK told, C1, C2, E1, E2 :
                    told = Send(h, C1, E1, {}) /\ last = Send(told, C2, E2, {})
                BY <4>1
            <4>3. GameInv(told) /\ TablesKept(h, told)
                BY <3>8, <4>2, SendKeepsTables
            <4>4. TablesKept(told, last)
                BY <4>2, <4>3, SendKeepsTables
            <4> QED  BY <4>3, <4>4 DEF TablesKept
        <3> HIDE DEF h
        <3>10. /\ last.online_players[id].conn = c
               /\ \A i \in PlayerIds \ {id} :
                    last.online_players[i] = f.online_players[i]
            BY <1>0, <3>3, <3>8, <3>9 DEF CameOnline, EntryOf
        <3>11. OnTheirConnections(g, last, one, c)
            BY <2>2, <3>10 DEF OnTheirConnections, one
        <3>12. CASE present
            BY <1>7, <2>1, <3>1, <3>6, <3>7, <3>11, <3>12
        <3>13. CASE ~present
            <4>1. g.online_players[id].conn = NoConnection
                BY <2>2, <3>13 DEF Offline
            <4>2. OnTheirConnections(g, last, none, c)
                BY <3>11, <4>1 DEF OnTheirConnections, one
            <4> QED  BY <3>1, <3>6, <3>7, <4>2
        <3> QED  BY <3>12, <3>13
    <2> QED  BY <2>3, <2>4
<1> QED  BY <1>5, <1>6, <1>7

-----------------------------------------------------------------------------
(* Moving.                                                                 *)

\* PlayerMove, PlayerEnter and PlayerLeave, to those who see the mover before
\* or after the move, leave each of them with what it now sees of the world;
\* what the mover is told, too, adds up to what it sees from its new place.
LEMMA HandleMoveIsSeen ==
    ASSUME NEW g, GameInv(g), SeeIn(g, Connections), NEW c \in Connections,
           NEW position \in Positions
    PROVE  LET r == HandleMove(g, c, position)
           IN  /\ SeeIn(r, Connections) /\ Keeps(g, r)
               /\ OnTheirConnections(g, r, {}, c)
<1> DEFINE r == HandleMove(g, c, position)
           none == {}
           id == g.connection_players[c]
           h  == Moved(g, id, position)
           w  == g.world
           v  == h.world
           delta == ViewDelta(w, v, id)
           same == delta.stayed
           came == delta.entered
           gone == delta.left
           L  == {id}
           M  == ViewsOf(h, L)
           C1 == ConnectionsOf(h, same)
           C2 == ConnectionsOf(h, came)
           C3 == ConnectionsOf(h, gone)
           stayed  == Send(h, C1, M, {})
           entered == Send(stayed, C2, M, {})
           left    == Send(entered, C3, {}, L)
           E4 == ViewsOf(h, came)
           L4 == Found(h, gone)
           C4 == {c}
           last == SendMover(left, c, E4, L4)
           can == HasPlayer(g, c) /\ CanMove(w, id, position)
<1>1. r = IF can THEN last ELSE g
    BY DEF HandleMove, Moved
<1> SUFFICES SeeIn(r, Connections) /\ Keeps(g, r) /\ OnTheirConnections(g, r, none, c)
    OBVIOUS
<1> HIDE DEF r, last, none
<1>2. CASE ~can
    <2>1. r = g /\ Calm(g, g)
        BY <1>1, <1>2, CalmSelf
    <2> QED  BY <2>1, CalmKeeps DEF OnTheirConnections
<1>3. CASE can
    <2>1. /\ WorldOK(g) /\ DOMAIN g = GameFields /\ id \in PlayerIds
          /\ g.online_players[id] # Offline
          /\ g.online_players \in [PlayerIds -> {Offline} \cup Entries]
          /\ g.connection_players \in [Connections -> PlayerIds \cup {NoPlayer}]
        BY <1>3 DEF HasPlayer, IsOnline, GameInv, GameTypeOK, SeeIn
    <2>2. position \in Places /\ Coherent(w) /\ CanMove(w, id, position)
        BY <1>3, <2>1, PositionsAssumption DEF Places, WorldOK
    <2>3. id = g.connection_players[c]
        OBVIOUS
    <2> HIDE DEF id
    <2>4. GameInv(h)
        BY <2>1, MovedKeepsInv
    <2>5. /\ v = MovePlayer(w, id, position)
          /\ h.connection_players = g.connection_players
          /\ h.conns = g.conns /\ h.marked_for_close = g.marked_for_close
          /\ h.view = g.view /\ h.presented = g.presented
          /\ h.tokens = g.tokens /\ h.tasks = g.tasks
          /\ h.online_players = [g.online_players EXCEPT ![id].record.position = position]
        BY <2>1 DEF Moved, GameFields
    <2> HIDE DEF h
    <2>6. OnTheirConnections(g, h, none, c)
        <3>1. ASSUME NEW i \in PlayerIds
              PROVE  h.online_players[i].conn = g.online_players[i].conn
            <4>1. CASE i # id
                BY <2>1, <2>5, <4>1
            <4>2. CASE i = id
                <5>1. g.online_players[i] \in Entries
                    BY <2>1, <4>2
                <5> QED  BY <2>1, <2>5, <4>2, <5>1 DEF Entries
            <4> QED  BY <4>1, <4>2
        <3> QED  BY <3>1 DEF OnTheirConnections
    <2>7. /\ Coherent(v) /\ DOMAIN v.players = DOMAIN w.players /\ id \in DOMAIN w.players
          /\ \A q \in DOMAIN w.players \ {id} : v.players[q] = w.players[q]
        <3> HIDE DEF w, v
        <3> QED  BY <2>2, <2>5, MoveKeepsCoherent
    <2>8. WorldOK(h) /\ AlikeBut(w, v, id)
        BY <2>1, <2>5, <2>7 DEF WorldOK, AlikeBut
    <2>9. VisiblePlayers(w, id) = Around(w, id) /\ VisiblePlayers(v, id) = Around(v, id)
        BY <2>2, <2>7, VisibleIsAround
    <2>10. /\ same = Around(w, id) \cap Around(v, id)
           /\ came = Around(v, id) \ Around(w, id)
           /\ gone = Around(w, id) \ Around(v, id)
        BY <2>9 DEF ViewDelta
    <2>11. /\ same \subseteq DOMAIN v.players /\ came \subseteq DOMAIN v.players
           /\ gone \subseteq DOMAIN v.players /\ L \subseteq DOMAIN v.players
        BY <2>7, <2>10 DEF Around
    <2>12. id \notin Around(w, id) /\ id \notin Around(v, id)
        BY DEF Around
    <2> HIDE DEF same, came, gone, L
    <2>13. M = Facts(v, L) /\ E4 = Facts(v, came) /\ L4 = gone
        BY <2>4, <2>8, <2>11, EveryoneIsFound
    <2>14. \A d \in Connections :
             /\ d \in C1 <=> g.connection_players[d] \in same
             /\ d \in C2 <=> g.connection_players[d] \in came
             /\ d \in C3 <=> g.connection_players[d] \in gone
        BY <2>4, <2>5, <2>8, <2>11, EveryoneIsFound
    <2>15. /\ L = {} \cup {e.id : e \in M}
           /\ L = L \cup {e.id : e \in {}}
        BY <2>13, FactsAbout
    <2> HIDE DEF M, C1, C2, C3, E4, L4
    <2>16. GameInv(stayed) /\ TablesKept(h, stayed)
        BY <2>4, SendKeepsTables
    <2>17. Tells(h, stayed, C1, M, L) /\ Keeps(h, stayed)
        BY <2>4, <2>15, SendTells, SendKeeps
    <2> HIDE DEF stayed
    <2>18. GameInv(entered) /\ TablesKept(stayed, entered)
        BY <2>16, SendKeepsTables
    <2>19. Tells(stayed, entered, C2, M, L) /\ Keeps(stayed, entered)
        BY <2>15, <2>16, SendTells, SendKeeps
    <2> HIDE DEF entered
    <2>20. GameInv(left) /\ TablesKept(entered, left)
        BY <2>18, SendKeepsTables
    <2>21. Tells(entered, left, C3, {}, L) /\ Keeps(entered, left)
        BY <2>15, <2>18, SendTells, SendKeeps
    <2> HIDE DEF left
    <2> DEFINE quiet == E4 = {} /\ L4 = {}
               s == Send(left, C4, E4, L4)
    <2>22. last = IF quiet THEN left ELSE s
        BY DEF last, SendMover
    <2> DEFINE G == gone \cup came
    <2>23. G = L4 \cup {e.id : e \in E4}
        BY <2>13, FactsAbout
    <2> HIDE DEF C4, G
    <2>24. /\ TablesKept(left, s) /\ Tells(left, s, C4, E4, G) /\ Keeps(left, s)
        BY <2>20, <2>23, SendKeepsTables, SendTells, SendKeeps
    <2> HIDE DEF s, quiet
    <2>25. /\ TablesKept(left, last) /\ Keeps(left, last)
           /\ \/ quiet /\ last = left
              \/ Tells(left, last, C4, E4, G)
        <3>1. TablesKept(left, left) /\ Keeps(left, left)
            BY KeepsStep DEF TablesKept
        <3> QED  BY <2>22, <2>24, <3>1
    <2>26. /\ last.world = v /\ last.connection_players = g.connection_players
           /\ last.online_players = h.online_players
        BY <2>5, <2>16, <2>18, <2>20, <2>25 DEF TablesKept
    <2>27. WorldOK(last)
        BY <2>8, <2>21, <2>25, <2>26 DEF WorldOK, Tells
    <2>28. Keeps(g, last)
        <3>1. Keeps(g, h)
            BY <2>5, KeepsStep
        <3>2. Keeps(g, stayed)
            BY <3>1, <2>17, KeepsOn
        <3>3. Keeps(g, entered)
            BY <3>2, <2>19, KeepsOn
        <3>4. Keeps(g, left)
            BY <3>3, <2>21, KeepsOn
        <3> QED  BY <3>4, <2>25, KeepsOn
    <2>29. Sees(last, c)
        <3>1. c \notin C1 /\ c \notin C2 /\ c \notin C3
            BY <2>3, <2>10, <2>12, <2>14
        <3>2. left.view[c] = g.view[c] /\ (IsConnected(left, c) => IsConnected(g, c))
            BY <2>5, <2>17, <2>19, <2>21, <3>1 DEF Tells, IsConnected
        <3>3. IsConnected(g, c) => g.view[c] = Sight(w, id)
            BY <2>1, <2>3, NothingIsNothing DEF SeeIn, Sees
        <3> HIDE DEF w, v
        <3>4. /\ Sight(v, id) = Without(Sight(w, id), G) \cup Facts(v, came)
              /\ came = {} /\ gone = {} => Sight(v, id) = Sight(w, id)
            <4>1. /\ AlikeBut(w, v, id) /\ came = Around(v, id) \ Around(w, id)
                  /\ gone = Around(w, id) \ Around(v, id)
                BY <2>8, <2>10
            <4>2. MoverSees(w, v, id, came, gone)
                BY <4>1, SightOfMover
            <4> QED  BY <4>2 DEF G, MoverSees
        <3>5. quiet => came = {} /\ gone = {}
            BY <2>13 DEF quiet, Facts
        <3>6. ASSUME IsConnected(last, c) PROVE last.view[c] = Sight(v, id)
            <4>1. CASE quiet /\ last = left
                BY <3>2, <3>3, <3>4, <3>5, <3>6, <4>1
            <4>2. CASE Tells(left, last, C4, E4, G)
                <5>1. last.view[c] = Without(left.view[c], G) \cup E4 /\ IsConnected(left, c)
                    BY <3>6, <4>2 DEF Tells, C4
                <5> QED  BY <2>13, <3>2, <3>3, <3>4, <5>1
            <4> QED  BY <2>25, <4>1, <4>2
        <3> QED  BY <2>1, <2>3, <2>26, <3>6, NothingIsNothing DEF Sees
    <2>30. ASSUME NEW d \in Connections, d # c PROVE Sees(last, d)
        <3> DEFINE p == g.connection_players[d]
        <3>1. p = g.connection_players[d] /\ p = last.connection_players[d]
            BY <2>26
        <3>2. p # NoPlayer => p \in DOMAIN g.world.players
            BY PlayerOfConnection
        <3>3. p # id
            <4>1. g.online_players[id].conn = c
                BY <2>1, <2>3, PlayerOfConnection
            <4> QED  BY <2>1, <2>30, <4>1, PlayerOfConnection
        <3>4. Sees(g, d)
            BY DEF SeeIn
        <3> HIDE DEF p
        <3>5. /\ IsConnected(last, d) => IsConnected(left, d)
              /\ last.view[d] = left.view[d]
            BY <2>25, <2>30 DEF Tells, C4
        <3>6. IsConnected(last, d) =>
                /\ IsConnected(stayed, d) /\ IsConnected(entered, d)
                /\ IsConnected(left, d) /\ IsConnected(g, d)
            BY <2>5, <2>17, <2>19, <2>21, <3>5 DEF Tells, IsConnected
        <3>7. /\ d \in C1 <=> p \in same
              /\ d \in C2 <=> p \in came
              /\ d \in C3 <=> p \in gone
            BY <2>14, <3>1
        <3>8. p = NoPlayer => p \notin same /\ p \notin came /\ p \notin gone
            BY <2>7, <2>8, <2>11, NothingIsNothing DEF WorldOK
        <3>9. p = NoPlayer => last.view[d] = g.view[d]
            BY <2>5, <2>17, <2>19, <2>21, <3>5, <3>7, <3>8 DEF Tells
        <3>10. AlikeBut(g.world, last.world, id)
            BY <2>8, <2>26
        <3>11. p # NoPlayer =>
                 /\ id \in Around(w, p) <=> p \in Around(w, id)
                 /\ id \in Around(v, p) <=> p \in Around(v, id)
            BY <2>2, <2>7, <3>2, AroundIsMutual
        <3>12. ASSUME IsConnected(last, d)
               PROVE  /\ p \in same \cup came =>
                           last.view[d] = Without(g.view[d], L) \cup M
                      /\ p \in gone => last.view[d] = Without(g.view[d], L)
                      /\ p \notin same \cup came \cup gone => last.view[d] = g.view[d]
            <4>1. /\ p \in same => p \notin came /\ p \notin gone
                  /\ p \in came => p \notin gone
                BY <2>10
            <4>2. stayed.view[d] = IF p \in same THEN Without(g.view[d], L) \cup M
                                                 ELSE g.view[d]
                BY <2>5, <2>17, <3>6, <3>7, <3>12 DEF Tells
            <4>3. entered.view[d] = IF p \in came THEN Without(stayed.view[d], L) \cup M
                                                  ELSE stayed.view[d]
                BY <2>19, <3>6, <3>7, <3>12 DEF Tells
            <4>4. left.view[d] = IF p \in gone THEN Without(entered.view[d], L) \cup {}
                                               ELSE entered.view[d]
                BY <2>21, <3>6, <3>7, <3>12 DEF Tells
            <4> QED  BY <3>5, <4>1, <4>2, <4>3, <4>4
        <3>13. p # NoPlayer /\ IsConnected(last, d) =>
                 /\ id \in Around(last.world, p) =>
                      last.view[d] = Without(g.view[d], {id}) \cup Facts(last.world, {id})
                 /\ id \notin Around(last.world, p) /\ id \in Around(g.world, p) =>
                      last.view[d] = Without(g.view[d], {id})
                 /\ id \notin Around(last.world, p) /\ id \notin Around(g.world, p) =>
                      last.view[d] = g.view[d]
            BY <2>10, <2>13, <2>26, <3>11, <3>12 DEF L
        <3>14. IsConnected(last, d) => IsConnected(g, d)
            BY <3>6
        <3> QED
            BY <3>1, <3>2, <3>3, <3>4, <3>9, <3>10, <3>13, <3>14, TheOthersSee
    <2>31. SeeIn(last, Connections)
        BY <2>27, <2>29, <2>30 DEF SeeIn
    <2>32. OnTheirConnections(g, last, none, c)
        BY <2>6, <2>26 DEF OnTheirConnections
    <2>33. r = last
        BY <1>1, <1>3
    <2> QED  BY <2>28, <2>31, <2>32, <2>33
<1> QED  BY <1>2, <1>3

-----------------------------------------------------------------------------
(* The callbacks of the data service.                                      *)

\* A player that changes its connection without going offline has come to one
\* that has shown a token of the player's.
ByProof(g, h) ==
    \A id \in PlayerIds :
        LET old == g.online_players[id].conn
            new == h.online_players[id].conn
        IN  old # new /\ NoConnection \notin {old, new} => HasProof(g, new, id)

\* What every handler does for the clients.
Serves(g, h) == SeeIn(h, Connections) /\ Keeps(g, h) /\ ByProof(g, h)

LEMMA CalmServes ==
    ASSUME NEW g, NEW h, SeeIn(g, Connections), Calm(g, h)
    PROVE  Serves(g, h)
<1>1. SeeIn(h, Connections) /\ Keeps(g, h)
    BY CalmSees, CalmKeeps
<1>2. ByProof(g, h)
    BY DEF Calm, Still, ByProof
<1> QED  BY <1>1, <1>2 DEF Serves

\* A session that was loaded is one of the player it was loaded for.
Genuine(g, r) ==
    r.op.kind = "LoadSession" /\ r.status = "ok" => IssuedTo(g, r.value, r.op.player.id)

\* OnSessionStored: the one callback that lets somebody in.
LEMMA SessionStoredServes ==
    ASSUME NEW g, GameInv(g), SeeIn(g, Connections), DOMAIN g.presented = Connections,
           NEW op \in StoreSessionOps, Vouched(g, op), NEW status
    PROVE  Serves(g, OnSessionStored(g, op, status))
<1> DEFINE c == op.conn
           r == OnSessionStored(g, op, status)
           f == FinishLogin(g, c, op.player, op.token, op.replace)
           t == FailLogin(g, c, op.player.account)
<1>1. r = IF status = "ok" THEN f ELSE t
    BY DEF OnSessionStored
<1>2. /\ c \in Connections /\ op.player \in Records /\ op.token \in Tokens
      /\ op.replace \in BOOLEAN /\ op.kind = "StoreSession"
    BY DEF StoreSessionOps
<1> HIDE DEF c
<1>3. Serves(g, t)
    <2>1. Calm(g, t)
        BY <1>2, FailLoginIsCalm
    <2> HIDE DEF t
    <2> QED  BY <2>1, CalmServes
<1>4. Serves(g, f)
    <2> DEFINE none == {}
               one == {op.player.id}
    <2>1. /\ SeeIn(f, Connections) /\ Keeps(g, f)
          /\ \/ OnTheirConnections(g, f, none, c)
             \/ op.replace /\ c \in g.conns /\ OnTheirConnections(g, f, one, c)
        BY <1>2, FinishLoginIsSeen
    <2> HIDE DEF f, none, one
    <2>2. ByProof(g, f)
        <3>1. CASE OnTheirConnections(g, f, none, c)
            BY <3>1 DEF OnTheirConnections, ByProof, none
        <3>2. CASE op.replace /\ c \in g.conns /\ OnTheirConnections(g, f, one, c)
            <4>1. HasProof(g, c, op.player.id)
                BY <1>2, <3>2 DEF Vouched, c
            <4> QED  BY <3>2, <4>1 DEF OnTheirConnections, ByProof, one
        <3> QED  BY <2>1, <3>1, <3>2
    <2> QED  BY <2>1, <2>2 DEF Serves
<1> HIDE DEF f, t, r
<1>5. Serves(g, r)
    BY <1>1, <1>3, <1>4
<1> QED  BY <1>5 DEF r

LEMMA CompleteServes ==
    ASSUME NEW g, GameInv(g), SeeIn(g, Connections), DOMAIN g.presented = Connections,
           NEW done \in Results, ResultOK(done), Vouched(g, done.op), Genuine(g, done)
    PROVE  Serves(g, Complete(g, done))
<1> DEFINE r == Complete(g, done)
           op == done.op
<1>1. /\ op.kind = "LoadPlayer" => r = OnPlayerLoaded(g, op, done.status, done.value)
      /\ op.kind = "CreatePlayer" => r = OnPlayerCreated(g, op, done.status)
      /\ op.kind = "LoadSession" => r = OnSessionLoaded(g, op, done.status, done.value)
      /\ op.kind = "StoreSession" => r = OnSessionStored(g, op, done.status)
      /\ op.kind = "SavePlayer" => r = g
    BY DEF Complete
<1>2. op \in AllOps /\ done.status \in {"ok", "not_found", "failed"}
    BY DEF Results
<1>3. /\ op.kind = "LoadPlayer" /\ done.status = "ok" => done.value \in Records
      /\ op.kind = "LoadSession" /\ done.status = "ok" =>
           IssuedTo(g, done.value, op.player.id)
    BY DEF ResultOK, Genuine
<1>4. Vouched(g, op)
    OBVIOUS
<1> HIDE DEF r, op
<1>5. CASE op \in LoadPlayerOps
    <2>1. op.kind = "LoadPlayer"
        BY <1>5 DEF LoadPlayerOps
    <2>2. Calm(g, r)
        BY <1>1, <1>2, <1>3, <1>4, <1>5, <2>1, PlayerLoadedIsCalm
    <2> QED  BY <2>2, CalmServes DEF r
<1>6. CASE op \in CreatePlayerOps
    <2>1. Calm(g, r)
        BY <1>1, <1>6, PlayerCreatedIsCalm DEF CreatePlayerOps
    <2> QED  BY <2>1, CalmServes DEF r
<1>7. CASE op \in LoadSessionOps
    <2>1. op.kind = "LoadSession"
        BY <1>7 DEF LoadSessionOps
    <2>2. Calm(g, r)
        BY <1>1, <1>3, <1>4, <1>7, <2>1, SessionLoadedIsCalm
    <2> QED  BY <2>2, CalmServes DEF r
<1>8. CASE op \in StoreSessionOps
    <2>1. r = OnSessionStored(g, op, done.status)
        BY <1>1, <1>8 DEF StoreSessionOps
    <2>2. Serves(g, r)
        BY <1>4, <1>8, <2>1, SessionStoredServes
    <2> QED  BY <2>2 DEF r
<1>9. CASE op \in SavePlayerOps
    <2>1. r = g
        BY <1>1, <1>9 DEF SavePlayerOps
    <2>2. Calm(g, r)
        BY <2>1, CalmSelf
    <2> QED  BY <2>2, CalmServes DEF r
<1> QED  BY <1>2, <1>5, <1>6, <1>7, <1>8, <1>9 DEF AllOps

LEMMA CloseServes ==
    ASSUME NEW g, GameInv(g), SeeIn(g, Connections), DOMAIN g.presented = Connections,
           NEW c \in Connections
    PROVE  Serves(g, CloseConnection(g, c))
<1> DEFINE h == CloseConnection(g, c)
<1>1. SeeIn(h, Connections) /\ Keeps(g, h)
    BY CloseIsSeen
<1>2. WithoutPlayerOf(g, h, c)
    BY CloseKeepsInv
<1> HIDE DEF h
<1>3. ByProof(g, h)
    BY <1>2 DEF WithoutPlayerOf, Offline, ByProof
<1> QED  BY <1>1, <1>3 DEF h, Serves

LEMMA MoveServes ==
    ASSUME NEW g, GameInv(g), SeeIn(g, Connections), NEW c \in Connections,
           NEW position \in Positions
    PROVE  Serves(g, HandleMove(g, c, position))
<1> DEFINE h == HandleMove(g, c, position)
           none == {}
<1>1. SeeIn(h, Connections) /\ Keeps(g, h) /\ OnTheirConnections(g, h, none, c)
    BY HandleMoveIsSeen
<1> HIDE DEF h, none
<1>2. ByProof(g, h)
    BY <1>1 DEF OnTheirConnections, ByProof, none
<1> QED  BY <1>1, <1>2 DEF h, Serves

-----------------------------------------------------------------------------
(* The steps of the server.                                                *)

\* An operation whose tokens are known, and whose connection is not a later one.
Trusted(g, a, op) == Vouched(g, op) /\ (op.kind # "SavePlayer" => op.conn <= a)

\* Where tokens are, they are the right ones: in the operations under way, in
\* the session store, and in the results on their way back.  Connection ids
\* are not used twice, so that no operation of a closed connection is taken
\* for one of a later connection.
TokenInv ==
    /\ DOMAIN game.presented = Connections
    /\ \A c \in game.conns : c <= accepted
    /\ \A op \in Operations : Trusted(game, accepted, op)
    /\ \A id \in PlayerIds : sessions[id] # NoToken => IssuedTo(game, sessions[id], id)
    /\ \A w \in Workers : running[w].stage = "done" => Genuine(game, running[w])
    /\ \A i \in 1 .. Len(completions) : Genuine(game, completions[i])

\* The inductive invariant, beside SystemInv.
ClientsInv == SeeIn(game, Connections) /\ TokenInv

LEMMA InitClientsInv ==
    ASSUME SystemInit
    PROVE  ClientsInv
<1> DEFINE g == GameInit
<1>1. game = g /\ running = [w \in Workers |-> Idle] /\ completions = <<>>
      /\ sessions = [id \in PlayerIds |-> NoToken]
    BY DEF SystemInit
<1>2. /\ g.conns = {} /\ g.world = EmptyWorld /\ g.tasks = <<>>
      /\ g.connection_players = [c \in Connections |-> NoPlayer]
      /\ g.view = [c \in Connections |-> {}]
      /\ g.presented = [c \in Connections |-> {}]
    BY DEF GameInit
<1> HIDE DEF g
<1>3. WorldOK(g)
    <2>1. Coherent(EmptyWorld) /\ DOMAIN EmptyWorld.players = {}
        BY DEF EmptyWorld, Coherent
    <2> QED  BY <1>2, <2>1 DEF WorldOK
<1>4. SeeIn(g, Connections)
    BY <1>2, <1>3 DEF SeeIn, Sees
<1>5. Operations = {}
    BY <1>1, <1>2 DEF Operations
<1>6. Len(completions) = 0 /\ \A w \in Workers : running[w].stage # "done"
    BY <1>1 DEF Idle
<1> QED  BY <1>1, <1>2, <1>4, <1>5, <1>6 DEF ClientsInv, TokenInv

LEMMA GenuineStays ==
    ASSUME NEW g, NEW h, NEW r, TokensLast(g, h), Genuine(g, r)
    PROVE  Genuine(h, r)
BY DEF Genuine, TokensLast

\* A step of a handler, or of a worker: g is the game as the handler finds it,
\* the token of a login request counted as presented.
LEMMA TokenStep ==
    ASSUME TokenInv, NEW g,
           g.conns = game.conns, g.tokens = game.tokens, g.tasks = game.tasks,
           DOMAIN g.presented = Connections, game.conns \subseteq Connections,
           \A c \in Connections : game.presented[c] \subseteq g.presented[c],
           Keeps(g, game'), accepted' = accepted,
           Operations' \subseteq Operations \cup Queued(game'),
           \A id \in PlayerIds :
             sessions'[id] # NoToken => IssuedTo(game, sessions'[id], id),
           \A w \in Workers : running'[w].stage = "done" => Genuine(game, running'[w]),
           \A i \in 1 .. Len(completions') : Genuine(game, completions'[i])
    PROVE  TokenInv'
<1> DEFINE h == game'
<1>1. /\ DOMAIN h.presented = Connections /\ h.conns \subseteq g.conns /\ TokensLast(g, h)
      /\ \A c \in h.conns : h.presented[c] = g.presented[c]
    BY DEF Keeps
<1>2. TokensLast(game, g) /\ TokensLast(game, h)
    BY <1>1 DEF TokensLast, IssuedTo
<1>3. Queued(g) = Queued(game) /\ Queued(game) \subseteq Operations
    BY DEF Queued, Operations
<1>4. ASSUME NEW op, Trusted(game, accepted, op) PROVE Trusted(h, accepted, op)
    <2>1. Vouched(game, op) /\ (op.kind # "SavePlayer" => op.conn <= accepted)
        BY <1>4 DEF Trusted
    <2>2. Vouched(g, op)
        BY <1>2, <2>1 DEF Vouched, TokensLast, HasProof
    <2>3. Vouched(h, op)
        BY <1>1, <2>2, VouchedStays
    <2> QED  BY <2>1, <2>3 DEF Trusted
<1> HIDE DEF h
<1>5. ASSUME NEW op \in Operations' PROVE Trusted(h, accepted, op)
    <2>1. CASE op \in Operations
        BY <1>4, <2>1 DEF TokenInv
    <2>2. CASE op \notin Operations
        <3>1. op \in Queued(h) /\ op \notin Queued(g)
            BY <1>3, <2>2 DEF h
        <3>2. Vouched(h, op) /\ (op.kind # "SavePlayer" => op.conn \in g.conns)
            BY <3>1 DEF Keeps, h
        <3> QED  BY <3>2 DEF Trusted, TokenInv
    <2> QED  BY <2>1, <2>2
<1>6. \A c \in h.conns : c <= accepted
    BY <1>1 DEF TokenInv
<1>7. /\ \A id \in PlayerIds : sessions'[id] # NoToken => IssuedTo(h, sessions'[id], id)
      /\ \A w \in Workers : running'[w].stage = "done" => Genuine(h, running'[w])
      /\ \A i \in 1 .. Len(completions') : Genuine(h, completions'[i])
    BY <1>2, GenuineStays DEF TokensLast
<1> QED  BY <1>1, <1>5, <1>6, <1>7 DEF TokenInv, h

\* The event loop's own steps.
LEMMA LoopKeepsTokens ==
    ASSUME TokenInv, GameInv(game), Keeps(game, game'),
           UNCHANGED <<accepted, running, completions, sessions>>
    PROVE  TokenInv'
<1> DEFINE g == game
<1>1. /\ g.conns = game.conns /\ g.tokens = game.tokens /\ g.tasks = game.tasks
      /\ DOMAIN g.presented = Connections /\ game.conns \subseteq Connections
      /\ \A c \in Connections : game.presented[c] \subseteq g.presented[c]
    BY DEF TokenInv, GameInv, GameTypeOK
<1>2. Operations' \subseteq Operations \cup Queued(game')
    BY DEF Operations, Queued
<1>3. /\ \A id \in PlayerIds : sessions'[id] # NoToken => IssuedTo(game, sessions'[id], id)
      /\ \A w \in Workers : running'[w].stage = "done" => Genuine(game, running'[w])
      /\ \A i \in 1 .. Len(completions') : Genuine(game, completions'[i])
    BY DEF TokenInv
<1>4. Keeps(g, game')
    OBVIOUS
<1> HIDE DEF g
<1> QED  BY <1>1, <1>2, <1>3, <1>4, TokenStep

LEMMA LoopServes ==
    ASSUME SystemInv, ClientsInv, Serves(game, game'),
           UNCHANGED <<accepted, running, completions, sessions>>
    PROVE  ClientsInv' /\ ByProof(game, game')
<1>1. TokenInv'
    BY LoopKeepsTokens DEF ClientsInv, SystemInv, Serves
<1> QED  BY <1>1 DEF ClientsInv, Serves

\* A new connection has a new number: no operation under way is its own.
LEMMA AcceptReadyServes ==
    ASSUME SystemInv, ClientsInv, AcceptReady
    PROVE  ClientsInv' /\ ByProof(game, game')
<1> DEFINE n == accepted + 1
           h == game'
<1>1. /\ GameInv(game) /\ DOMAIN game = GameFields /\ accepted \in Nat
      /\ game.conns \subseteq Connections
    BY DEF SystemInv, GameInv, GameTypeOK
<1>2. /\ h = [game EXCEPT !.conns = @ \cup {n}] /\ n \in Connections /\ accepted' = n
      /\ UNCHANGED <<running, completions, sessions>>
    BY DEF AcceptReady, stores
<1>3. /\ h.conns = game.conns \cup {n} /\ h.marked_for_close = game.marked_for_close
      /\ h.online_players = game.online_players
      /\ h.connection_players = game.connection_players /\ h.world = game.world
      /\ h.view = game.view /\ h.presented = game.presented
      /\ h.tokens = game.tokens /\ h.tasks = game.tasks
    BY <1>1, <1>2 DEF GameFields
<1>4. /\ \A c \in Connections : Sees(game, c)
      /\ WorldOK(game) /\ TokenInv
    BY DEF ClientsInv, SeeIn
<1> HIDE DEF h
<1>5. SeeIn(h, Connections)
    <2>1. WorldOK(h)
        BY <1>3, <1>4 DEF WorldOK
    <2>2. ASSUME NEW c \in Connections PROVE Sees(h, c)
        <3>1. game.connection_players[c] # NoPlayer => c \in game.conns
            BY <1>1, PlayerOfConnection
        <3> QED  BY <1>3, <1>4, <3>1 DEF Sees, IsConnected
    <2> QED  BY <2>1, <2>2 DEF SeeIn
<1>6. Operations' = Operations
    BY <1>2, <1>3 DEF Operations, h
<1>7. ASSUME NEW op \in Operations PROVE Trusted(h, n, op)
    <2>1. Vouched(game, op) /\ (op.kind # "SavePlayer" => op.conn <= accepted)
        BY <1>4 DEF TokenInv, Trusted
    <2>2. op.kind \in {"LoadPlayer", "CreatePlayer", "LoadSession", "StoreSession", "SavePlayer"}
          /\ (op.kind # "SavePlayer" => op.conn \in Nat)
        BY OperationsTyped, GameAssumption
           DEF AllOps, LoadPlayerOps, CreatePlayerOps, LoadSessionOps, StoreSessionOps,
               SavePlayerOps
    <2>3. op.kind # "SavePlayer" => op.conn # n /\ op.conn <= n
        BY <1>1, <2>1, <2>2
    <2>4. op.kind # "SavePlayer" /\ op.conn \in h.conns => op.conn \in game.conns
        BY <1>3, <2>3
    <2>5. \A t, id : IssuedTo(game, t, id) => IssuedTo(h, t, id)
        BY <1>3 DEF IssuedTo
    <2>6. Vouched(h, op)
        BY <1>3, <2>1, <2>4, <2>5 DEF Vouched, HasProof
    <2> QED  BY <2>3, <2>6 DEF Trusted
<1>8. \A c \in h.conns : c <= n
    <2>1. \A c \in game.conns : c \in Nat /\ c <= accepted
        BY <1>1, <1>4, GameAssumption DEF TokenInv
    <2> QED  BY <1>1, <1>3, <2>1
<1>9. /\ \A id \in PlayerIds : sessions'[id] # NoToken => IssuedTo(h, sessions'[id], id)
      /\ \A w \in Workers : running'[w].stage = "done" => Genuine(h, running'[w])
      /\ \A i \in 1 .. Len(completions') : Genuine(h, completions'[i])
    BY <1>2, <1>3, <1>4 DEF TokenInv, Genuine, IssuedTo
<1>10. TokenInv'
    BY <1>2, <1>3, <1>4, <1>6, <1>7, <1>8, <1>9 DEF TokenInv, h
<1>11. ByProof(game, h)
    BY <1>3 DEF ByProof
<1> QED  BY <1>5, <1>10, <1>11 DEF ClientsInv, h

\* The transport's other steps, and the teardown's, tell nobody anything.
LEMMA TransportServes ==
    ASSUME SystemInv, ClientsInv,
           (\E c \in Connections : PeerBreaks(c) \/ ClientEnd(c)) \/ Shutdown
    PROVE  ClientsInv' /\ ByProof(game, game')
<1>1. DOMAIN game = GameFields /\ SeeIn(game, Connections)
    BY DEF SystemInv, GameInv, GameTypeOK, ClientsInv
<1>2. UNCHANGED <<accepted, running, completions, sessions>>
    BY DEF PeerBreaks, ClientEnd, Shutdown, stores
<1>3. \/ game' = game
      \/ \E x : \/ game' = [game EXCEPT !.broken = x]
                \/ game' = [game EXCEPT !.accepting = x]
      \/ \E x : game' = [game EXCEPT !.marked_for_close = @ \cup x]
    BY DEF PeerBreaks, ClientEnd, Shutdown
<1>4. /\ game'.conns = game.conns /\ game'.online_players = game.online_players
      /\ game'.connection_players = game.connection_players /\ game'.world = game.world
      /\ game'.presented = game.presented
      /\ game.marked_for_close \subseteq game'.marked_for_close
      /\ game'.view = game.view /\ game'.tokens = game.tokens /\ game'.tasks = game.tasks
    BY <1>1, <1>3 DEF GameFields
<1>5. Calm(game, game')
    BY <1>4, CalmStep DEF Queued
<1>6. Serves(game, game')
    BY <1>1, <1>5, CalmServes
<1> QED  BY <1>2, <1>6, LoopServes

\* A login request presents its token, and is then handled.
LEMMA LoginFrameServes ==
    ASSUME SystemInv, ClientsInv, NEW c \in Connections, LoginFrame(c)
    PROVE  ClientsInv' /\ ByProof(game, game')
<1>1. /\ GameInv(game) /\ c \in game.conns /\ DOMAIN game = GameFields
      /\ game.conns \subseteq Connections
      /\ SeeIn(game, Connections) /\ TokenInv /\ DOMAIN game.presented = Connections
    BY DEF SystemInv, LoginFrame, InFrame, IsConnected, GameInv, GameTypeOK, ClientsInv,
           TokenInv
<1>2. UNCHANGED <<accepted, running, completions, sessions>>
    BY DEF LoginFrame, InFrame, stores
<1>3. PICK account \in Asks[c] \cup {NoAccount}, token \in Presentable :
        game' = HandleLogin(Presenting(game, c, token), c, account, token)
    BY DEF LoginFrame, Presenting
<1>4. account \in Accounts \cup {NoAccount}
    BY <1>3, SystemAssumption
<1> DEFINE g == Presenting(game, c, token)
<1>5. GameInv(g)
    BY <1>1, PresentingKeepsInv
<1>6. /\ g.conns = game.conns /\ g.marked_for_close = game.marked_for_close
      /\ g.online_players = game.online_players
      /\ g.connection_players = game.connection_players /\ g.world = game.world
      /\ g.view = game.view /\ g.tokens = game.tokens /\ g.tasks = game.tasks
      /\ g.presented = [game.presented EXCEPT ![c] = @ \cup {token}]
    BY <1>1 DEF Presenting, GameFields
<1> HIDE DEF g
<1>7. /\ DOMAIN g.presented = Connections /\ token \in g.presented[c]
      /\ \A d \in Connections : game.presented[d] \subseteq g.presented[d]
    BY <1>1, <1>6
<1>8. SeeIn(g, Connections)
    BY <1>1, <1>6 DEF SeeIn, WorldOK, Sees, IsConnected
<1>9. Calm(g, game')
    BY <1>1, <1>3, <1>4, <1>5, <1>6, <1>7, HandleLoginIsCalm DEF g
<1>10. SeeIn(game', Connections) /\ Keeps(g, game')
    BY <1>8, <1>9, CalmSees, CalmKeeps
<1>11. Operations' \subseteq Operations \cup Queued(game')
    BY <1>2 DEF Operations, Queued
<1>12. /\ \A id \in PlayerIds : sessions'[id] # NoToken => IssuedTo(game, sessions'[id], id)
       /\ \A w \in Workers : running'[w].stage = "done" => Genuine(game, running'[w])
       /\ \A i \in 1 .. Len(completions') : Genuine(game, completions'[i])
    BY <1>1, <1>2 DEF TokenInv
<1>13. TokenInv'
    BY <1>1, <1>2, <1>6, <1>7, <1>10, <1>11, <1>12, TokenStep
<1>14. ByProof(game, game')
    BY <1>6, <1>9 DEF ByProof, Calm, Still
<1> QED  BY <1>10, <1>13, <1>14 DEF ClientsInv

\* The other frames, and the closing of marked connections.
LEMMA FrameServes ==
    ASSUME SystemInv, ClientsInv, NEW c \in Connections,
           \/ MoveFrame(c) \/ ChatFrame(c) \/ HeartbeatFrame(c) \/ UnknownFrame(c)
           \/ CloseMarked \/ CloseOnTeardown
    PROVE  ClientsInv' /\ ByProof(game, game')
<1>1. /\ GameInv(game) /\ SeeIn(game, Connections) /\ DOMAIN game.presented = Connections
      /\ game.conns \subseteq Connections /\ game.marked_for_close \subseteq game.conns
    BY DEF SystemInv, GameInv, GameTypeOK, ClientsInv, TokenInv
<1>2. UNCHANGED <<accepted, running, completions, sessions>>
    BY DEF MoveFrame, ChatFrame, HeartbeatFrame, UnknownFrame, CloseMarked, CloseOnTeardown,
           InFrame, stores
<1>3. CASE MoveFrame(c)
    <2>1. PICK position \in Positions : game' = HandleMove(game, c, position)
        BY <1>3 DEF MoveFrame
    <2>2. Serves(game, game')
        BY <1>1, <2>1, MoveServes
    <2> QED  BY <1>2, <2>2, LoopServes
<1>4. CASE ChatFrame(c) \/ HeartbeatFrame(c)
    <2>1. game' = HandleChat(game, c) \/ game' = HandleHeartbeat(game, c)
        BY <1>4 DEF ChatFrame, HeartbeatFrame
    <2>2. Calm(game, game')
        BY <1>1, <2>1, ChatIsCalm
    <2>3. Serves(game, game')
        BY <1>1, <2>2, CalmServes
    <2> QED  BY <1>2, <2>3, LoopServes
<1>5. CASE UnknownFrame(c) \/ CloseMarked \/ CloseOnTeardown
    <2>1. PICK d \in Connections : game' = CloseConnection(game, d)
        BY <1>1, <1>5 DEF UnknownFrame, CloseMarked, CloseOnTeardown
    <2>2. Serves(game, game')
        BY <1>1, <2>1, CloseServes
    <2> QED  BY <1>2, <2>2, LoopServes
<1> QED  BY <1>3, <1>4, <1>5

\* A callback: its operation and its result are ones the invariant speaks of.
LEMMA DrainOneServes ==
    ASSUME SystemInv, ClientsInv, DrainOne
    PROVE  ClientsInv' /\ ByProof(game, game')
<1> DEFINE done == Head(completions)
           g == game
<1>1. /\ GameInv(game) /\ SeeIn(game, Connections) /\ TokenInv
      /\ DOMAIN game.presented = Connections /\ game.conns \subseteq Connections
      /\ completions \in Seq(Results)
    BY DEF SystemInv, GameInv, GameTypeOK, ClientsInv, TokenInv
<1>2. /\ done \in Results /\ ResultOK(done) /\ game' = Complete(game, done)
      /\ completions # <<>> /\ completions' = Tail(completions)
      /\ UNCHANGED <<accepted, running, sessions>>
    BY FirstResult DEF DrainOne, TakesCompletion, stores
<1>3. /\ done = completions[1] /\ Len(completions) \in Nat \ {0}
      /\ Len(completions') = Len(completions) - 1
      /\ \A i \in 1 .. Len(completions') : completions'[i] = completions[i + 1]
    BY <1>1, <1>2, HeadTailProperties, LenProperties, EmptySeq
<1>4. 1 \in 1 .. Len(completions)
      /\ \A i \in 1 .. Len(completions') : i + 1 \in 1 .. Len(completions)
    BY <1>3
<1>5. Genuine(game, done) /\ \A i \in 1 .. Len(completions') : Genuine(game, completions'[i])
    BY <1>1, <1>3, <1>4 DEF TokenInv
<1>6. done.op \in Completed /\ Completed' \subseteq Completed
    BY <1>3, <1>4 DEF Completed
<1>7. Vouched(game, done.op)
    BY <1>1, <1>6, WhereOperationsAre DEF TokenInv, Trusted
<1> HIDE DEF done
<1>8. Serves(game, game')
    BY <1>1, <1>2, <1>5, <1>7, CompleteServes
<1>9. Operations' \subseteq Operations \cup Queued(game')
    <2>1. Operations' = Queued(game') \cup InHand' \cup Completed'
        BY DEF Operations, Queued, InHand, Completed
    <2>2. InHand' = InHand
        BY <1>2 DEF InHand
    <2> QED  BY <1>6, <2>1, <2>2, WhereOperationsAre
<1>10. /\ \A id \in PlayerIds : sessions'[id] # NoToken => IssuedTo(game, sessions'[id], id)
       /\ \A w \in Workers : running'[w].stage = "done" => Genuine(game, running'[w])
    BY <1>1, <1>2 DEF TokenInv
<1>11. /\ g.conns = game.conns /\ g.tokens = game.tokens /\ g.tasks = game.tasks
       /\ DOMAIN g.presented = Connections /\ Keeps(g, game')
       /\ \A c \in Connections : game.presented[c] \subseteq g.presented[c]
    BY <1>1, <1>8 DEF Serves
<1> HIDE DEF g
<1>12. TokenInv'
    BY <1>1, <1>2, <1>5, <1>9, <1>10, <1>11, TokenStep
<1> QED  BY <1>8, <1>12 DEF ClientsInv, Serves

\* The workers take operations from the queue and bring results back; none of
\* them makes one up.
LEMMA WorkerServes ==
    ASSUME SystemInv, ClientsInv, NEW w \in Workers, WorkerStep(w)
    PROVE  ClientsInv' /\ ByProof(game, game')
<1> DEFINE g == game
           op == running[w].op
<1>1. /\ GameInv(game) /\ DOMAIN game = GameFields /\ SeeIn(game, Connections) /\ TokenInv
      /\ game.conns \subseteq Connections /\ DOMAIN game.presented = Connections
      /\ game.tasks \in Seq(AllOps) /\ completions \in Seq(Results)
      /\ running \in [Workers -> Hands] /\ sessions \in [PlayerIds -> Tokens \cup {NoToken}]
    BY DEF SystemInv, GameInv, GameTypeOK, ClientsInv, TokenInv
<1>2. /\ Operations = Queued(game) \cup InHand \cup Completed
      /\ Operations' = Queued(game') \cup InHand' \cup Completed'
    BY DEF Operations, Queued, InHand, Completed
<1>3. /\ \A id \in PlayerIds : sessions[id] # NoToken => IssuedTo(game, sessions[id], id)
      /\ \A v \in Workers : running[v].stage = "done" => Genuine(game, running[v])
      /\ \A i \in 1 .. Len(completions) : Genuine(game, completions[i])
      /\ \A o \in Operations : Vouched(game, o)
    BY <1>1 DEF TokenInv, Trusted
<1>4. running[w] # Idle => op \in Operations
    BY <1>2 DEF InHand
<1>5. ASSUME Calm(game, game'), accepted' = accepted, Operations' \subseteq Operations,
             \A id \in PlayerIds : sessions'[id] # NoToken => IssuedTo(game, sessions'[id], id),
             \A v \in Workers : running'[v].stage = "done" => Genuine(game, running'[v]),
             \A i \in 1 .. Len(completions') : Genuine(game, completions'[i])
      PROVE  ClientsInv' /\ ByProof(game, game')
    <2>1. Serves(game, game')
        BY <1>1, <1>5, CalmServes
    <2>2. /\ g.conns = game.conns /\ g.tokens = game.tokens /\ g.tasks = game.tasks
          /\ DOMAIN g.presented = Connections /\ Keeps(g, game')
          /\ \A c \in Connections : game.presented[c] \subseteq g.presented[c]
        BY <1>1, <2>1 DEF Serves
    <2> HIDE DEF g
    <2>3. TokenInv'
        BY <1>1, <1>5, <2>2, TokenStep
    <2> QED  BY <2>1, <2>3 DEF ClientsInv, Serves
<1>6. CASE TakeTask(w)
    <2>1. /\ game.tasks # <<>> /\ game'.tasks = Tail(game.tasks) /\ running[w] = Idle
          /\ running' = [running EXCEPT ![w] = [stage |-> "taken", op |-> Head(game.tasks)]]
          /\ UNCHANGED <<accepted, completions, sessions>>
          /\ game'.conns = game.conns /\ game'.online_players = game.online_players
          /\ game'.connection_players = game.connection_players /\ game'.world = game.world
          /\ game'.presented = game.presented
          /\ game'.marked_for_close = game.marked_for_close
          /\ game'.view = game.view /\ game'.tokens = game.tokens
        BY <1>1, <1>6 DEF TakeTask, GameFields, stores
    <2>2. /\ Head(game.tasks) = game.tasks[1] /\ Len(game.tasks) \in Nat \ {0}
          /\ Len(game'.tasks) = Len(game.tasks) - 1
          /\ \A i \in 1 .. Len(game'.tasks) : game'.tasks[i] = game.tasks[i + 1]
        BY <1>1, <2>1, HeadTailProperties, LenProperties, EmptySeq
    <2>3. /\ 1 \in 1 .. Len(game.tasks)
          /\ \A i \in 1 .. Len(game'.tasks) : i + 1 \in 1 .. Len(game.tasks)
        BY <2>2
    <2>4. Head(game.tasks) \in Queued(game) /\ Queued(game') \subseteq Queued(game)
        <3>1. Head(game.tasks) \in Queued(game)
            BY <2>2, <2>3 DEF Queued
        <3>2. ASSUME NEW i \in 1 .. Len(game'.tasks)
              PROVE  game'.tasks[i] \in Queued(game)
            <4>1. PICK j \in 1 .. Len(game.tasks) : game'.tasks[i] = game.tasks[j]
                BY <2>2, <2>3
            <4> QED  BY <4>1 DEF Queued
        <3> QED  BY <3>1, <3>2 DEF Queued
    <2>5. /\ running'[w].op = Head(game.tasks) /\ running'[w].stage = "taken"
          /\ \A v \in Workers \ {w} : running'[v] = running[v]
        BY <1>1, <2>1
    <2>6. InHand' \subseteq InHand \cup Queued(game)
        BY <2>4, <2>5 DEF InHand
    <2>7. Operations' \subseteq Operations
        BY <1>2, <2>1, <2>4, <2>6 DEF Completed
    <2>8. Calm(game, game')
        BY <2>1, <2>4, CalmStep
    <2> QED  BY <1>3, <1>5, <2>1, <2>5, <2>7, <2>8
<1>7. CASE OperateSucceeds(w) \/ OperateFails(w)
    <2>1. /\ UNCHANGED <<game, accepted, completions>> /\ running[w].stage = "taken"
          /\ running[w] # Idle
        BY <1>7 DEF OperateSucceeds, OperateFails, HasOp, Idle
    <2>2. op.kind \in {"LoadSession", "StoreSession"} => op.player.id \in PlayerIds
        <3>1. op.kind \in {"LoadSession", "StoreSession"} => op.player \in Records
            BY <2>1, OperationInHand
        <3> QED  BY <3>1 DEF Records
    <2>3. PICK status, value : /\ Done(w, status, value)
                               /\ op.kind = "LoadSession" /\ status = "ok" =>
                                    /\ value = sessions[op.player.id] /\ value # NoToken
        <3>1. CASE OperateSucceeds(w)
            BY <3>1 DEF OperateSucceeds, StoreOperation, Load, Save, Saves, Store, LoadToken
        <3>2. CASE OperateFails(w)
            BY <3>2 DEF OperateFails
        <3> QED  BY <1>7, <3>1, <3>2
    <2>4. \/ sessions' = sessions
          \/ op.kind = "StoreSession" /\ sessions' = [sessions EXCEPT ![op.player.id] = op.token]
        BY <1>7 DEF OperateSucceeds, OperateFails, StoreOperation, Load, Save, Store, LoadToken,
                    stores
    <2> DEFINE hand == [stage |-> "done", op |-> op, status |-> status, value |-> value]
    <2>5. running' = [running EXCEPT ![w] = hand]
        BY <2>3 DEF Done
    <2>6. hand.op = op /\ hand.status = status /\ hand.value = value
        OBVIOUS
    <2> HIDE DEF hand
    <2>7. running'[w] = hand /\ \A v \in Workers \ {w} : running'[v] = running[v]
        BY <1>1, <2>5
    <2>8. Genuine(game, hand)
        BY <1>3, <2>2, <2>3, <2>6 DEF Genuine
    <2>9. \A v \in Workers : running'[v].stage = "done" => Genuine(game, running'[v])
        BY <1>3, <2>7, <2>8
    <2>10. InHand' \subseteq InHand
        BY <2>1, <2>6, <2>7 DEF InHand
    <2>11. Operations' \subseteq Operations
        BY <1>2, <2>1, <2>10 DEF Completed
    <2>12. \A id \in PlayerIds : sessions'[id] # NoToken => IssuedTo(game, sessions'[id], id)
        <3>1. CASE sessions' = sessions
            BY <1>3, <3>1
        <3>2. CASE /\ op.kind = "StoreSession"
                   /\ sessions' = [sessions EXCEPT ![op.player.id] = op.token]
            <4>1. IssuedTo(game, op.token, op.player.id)
                BY <1>3, <1>4, <2>1, <3>2 DEF Vouched
            <4> QED  BY <1>1, <1>3, <2>2, <3>2, <4>1
        <3> QED  BY <2>4, <3>1, <3>2
    <2>13. Calm(game, game')
        BY <2>1, CalmSelf
    <2> QED  BY <1>3, <1>5, <2>1, <2>9, <2>11, <2>12, <2>13
<1>8. CASE PushResult(w)
    <2> DEFINE result == [op |-> op, status |-> running[w].status, value |-> running[w].value]
    <2>1. /\ UNCHANGED <<game, accepted, sessions>>
          /\ completions' = Append(completions, result)
          /\ running' = [running EXCEPT ![w] = Idle] /\ running[w].stage = "done"
          /\ running[w] # Idle
        BY <1>8 DEF PushResult, HasOp, stores, Idle
    <2>2. result \in Results
        <3>1. running[w] \in DoneHands
            BY <1>1, <2>1, HandStages
        <3> QED  BY <3>1 DEF Results, DoneHands
    <2>3. Genuine(game, result) /\ result.op = op
        BY <1>3, <2>1 DEF Genuine
    <2> HIDE DEF result
    <2>4. /\ Len(completions') = Len(completions) + 1 /\ Len(completions) \in Nat
          /\ completions'[Len(completions) + 1] = result
          /\ \A i \in 1 .. Len(completions) : completions'[i] = completions[i]
        BY <1>1, <2>1, <2>2, AppendProperties, LenProperties
    <2>5. \A i \in 1 .. Len(completions') :
            i \in 1 .. Len(completions) \/ i = Len(completions) + 1
        BY <2>4
    <2>6. \A i \in 1 .. Len(completions') : Genuine(game, completions'[i])
        BY <1>3, <2>3, <2>4, <2>5
    <2>7. Completed' \subseteq Completed \cup {op}
        BY <2>3, <2>4, <2>5 DEF Completed
    <2>8. running'[w] = Idle /\ \A v \in Workers \ {w} : running'[v] = running[v]
        BY <1>1, <2>1
    <2>9. InHand' \subseteq InHand
        BY <2>8 DEF InHand
    <2>10. Operations' \subseteq Operations
        BY <1>2, <1>4, <2>1, <2>7, <2>9
    <2>11. \A v \in Workers : running'[v].stage = "done" => Genuine(game, running'[v])
        BY <1>3, <2>8 DEF Idle
    <2>12. Calm(game, game')
        BY <2>1, CalmSelf
    <2> QED  BY <1>3, <1>5, <2>1, <2>6, <2>10, <2>11, <2>12
<1> QED  BY <1>6, <1>7, <1>8 DEF WorkerStep

\* A session that expires is gone; the others are whose they were.
LEMMA SessionExpiresServes ==
    ASSUME SystemInv, ClientsInv, NEW id \in PlayerIds, SessionExpires(id)
    PROVE  ClientsInv' /\ ByProof(game, game')
<1>1. /\ sessions' = [sessions EXCEPT ![id] = NoToken]
      /\ UNCHANGED <<game, accepted, running, completions>>
    BY DEF SessionExpires
<1>2. sessions \in [PlayerIds -> Tokens \cup {NoToken}]
    BY DEF SystemInv
<1>3. Operations' = Operations
    BY <1>1 DEF Operations
<1>4. \A i \in PlayerIds : sessions'[i] # NoToken => IssuedTo(game, sessions'[i], i)
    BY <1>1, <1>2 DEF ClientsInv, TokenInv
<1>5. TokenInv'
    BY <1>1, <1>3, <1>4 DEF ClientsInv, TokenInv
<1> QED  BY <1>1, <1>5 DEF ClientsInv, ByProof

LEMMA NextServes ==
    ASSUME SystemInv, ClientsInv, [SystemNext]_systemVars
    PROVE  ClientsInv' /\ ByProof(game, game')
<1>1. CASE AcceptReady
    BY <1>1, AcceptReadyServes
<1>2. ASSUME NEW c \in Connections, PeerBreaks(c) \/ ClientFrame(c) \/ ClientEnd(c)
      PROVE  ClientsInv' /\ ByProof(game, game')
    <2>1. CASE PeerBreaks(c) \/ ClientEnd(c)
        BY <2>1, TransportServes
    <2>2. CASE LoginFrame(c)
        BY <2>2, LoginFrameServes
    <2>3. CASE MoveFrame(c) \/ ChatFrame(c) \/ HeartbeatFrame(c) \/ UnknownFrame(c)
        BY <2>3, FrameServes
    <2> QED  BY <1>2, <2>1, <2>2, <2>3 DEF ClientFrame
<1>3. CASE DrainOne
    BY <1>3, DrainOneServes
<1>4. CASE UNCHANGED <<game, accepted, running, completions, sessions>>
    <2>1. Serves(game, game')
        BY <1>4, CalmSelf, CalmServes DEF ClientsInv
    <2> QED  BY <1>4, <2>1, LoopServes
<1>5. CASE DrainEnd \/ StopServer \/ Joined \/ FinalDrainEnd
    BY <1>4, <1>5 DEF DrainEnd, StopServer, Joined, FinalDrainEnd, stores
<1>6. CASE CloseMarked \/ CloseOnTeardown
    <2>1. \E c : c \in Connections
        BY <1>6 DEF CloseMarked, CloseOnTeardown, SystemInv, GameInv, GameTypeOK
    <2> QED  BY <1>6, <2>1, FrameServes
<1>7. ASSUME NEW w \in Workers, WorkerStep(w)
      PROVE  ClientsInv' /\ ByProof(game, game')
    BY <1>7, WorkerServes
<1>8. ASSUME NEW id \in PlayerIds, SessionExpires(id)
      PROVE  ClientsInv' /\ ByProof(game, game')
    BY <1>8, SessionExpiresServes
<1>9. CASE Shutdown
    BY <1>9, TransportServes
<1>10. CASE UNCHANGED systemVars
    BY <1>4, <1>10 DEF systemVars, stores
<1> QED
    BY <1>1, <1>2, <1>3, <1>5, <1>6, <1>7, <1>8, <1>9, <1>10 DEF SystemNext, TeardownStep

-----------------------------------------------------------------------------
(* The theorems.                                                           *)

\* The inductive invariant, beside that of GameSystemProofs: every client sees
\* what its player can see, and tokens are the players' they were issued for,
\* wherever they are.
THEOREM ClientsInvariant == SystemSpec => []ClientsInv
<1>1. SystemInit => ClientsInv
    BY InitClientsInv
<1>2. SystemInv /\ ClientsInv /\ [SystemNext]_systemVars => ClientsInv'
    BY NextServes
<1> QED  BY <1>1, <1>2, SystemInvariant, PTL DEF SystemSpec

\* What HandleMove, FinishLogin and OnDisconnected send (game_service.cpp:307,
\* 217, 391) adds up: for every number of clients and any overlap of logins,
\* moves, takeovers and failing peers, a client's view is what its player can
\* see, each player at its current position.
THEOREM SystemClientsSeeTheWorld == SystemSpec => []ClientsSeeTheWorld
<1>1. SystemInv /\ ClientsInv => ClientsSeeTheWorld
    <2> SUFFICES ASSUME SystemInv, ClientsInv, NEW id \in PlayerIds, IsOnline(game, id),
                        IsConnected(game, game.online_players[id].conn)
                 PROVE  game.view[game.online_players[id].conn] =
                          ViewsOf(game, VisiblePlayers(game.world, id))
        BY DEF ClientsSeeTheWorld
    <2> DEFINE c == game.online_players[id].conn
               w == game.world
               ids == VisiblePlayers(w, id)
    <2>1. GameInv(game) /\ SeeIn(game, Connections) /\ WorldOK(game)
        BY DEF SystemInv, ClientsInv, SeeIn
    <2>2. c \in Connections /\ game.connection_players[c] = id /\ id \in DOMAIN w.players
        BY <2>1 DEF GameInv, GameTypeOK, Agree, IsOnline, IsConnected
    <2>3. ids = Around(w, id)
        BY <2>1, <2>2, VisibleIsAround DEF WorldOK
    <2>4. ids \subseteq DOMAIN w.players
        BY <2>3 DEF Around
    <2> HIDE DEF ids
    <2>5. ViewsOf(game, ids) = Facts(w, ids)
        BY <2>1, <2>4, EveryoneIsFound
    <2>6. id # NoPlayer
        BY NothingIsNothing
    <2>7. game.view[c] = Sight(w, id)
        BY <2>1, <2>2, <2>6 DEF SeeIn, Sees
    <2> QED  BY <2>3, <2>5, <2>7 DEF Sight, ids
<1> QED  BY <1>1, SystemInvariant, ClientsInvariant, PTL

\* FinishLogin replaces a player's connection only for a login that
\* ContinueLogin has compared the tokens of (game_service.cpp:164): however
\* logins overlap, and whatever the connections of an account do, nobody is
\* taken over without a token that was issued for that player.
THEOREM SystemTakeoverNeedsToken == SystemSpec => TakeoverNeedsToken
<1>1. SystemInv /\ ClientsInv /\ [SystemNext]_systemVars => ByProof(game, game')
    BY NextServes
<1>2. ByProof(game, game') =>
        \A id \in PlayerIds :
          LET old == game.online_players[id].conn
              new == game'.online_players[id].conn
          IN  old # new /\ NoConnection \notin {old, new} =>
                \E t \in game.presented[new] :
                    t \in 1 .. Len(game.tokens) /\ game.tokens[t] = id
    BY DEF ByProof, HasProof, IssuedTo
<1> QED
    BY <1>1, <1>2, SystemInvariant, ClientsInvariant, PTL DEF SystemSpec, TakeoverNeedsToken

-----------------------------------------------------------------------------
(* The books: whose ids have been given out, and where everyone was.       *)

\* The id of a record has been given out, and for this account.
Known(own, n, r) == r.id <= n /\ own[r.id] = r.account

KnownOp(own, n, op) == op.kind # "LoadPlayer" => Known(own, n, op.player)

KnownResult(own, n, r) ==
    r.op.kind = "LoadPlayer" /\ r.status = "ok" => Known(own, n, r.value)

\* Only players whose ids have been given out are or have been online.
Booked(own, g) ==
    /\ DOMAIN g.last_position = PlayerIds
    /\ \A id \in PlayerIds :
         /\ IsOnline(g, id) => Known(own, g.player_sequence, g.online_players[id].record)
         /\ g.last_position[id] # Nowhere => id <= g.player_sequence

Online(g) == {id \in PlayerIds : IsOnline(g, id)}

\* What login requests have led to and is still there: an operation in the
\* queue, or a player.
Weight(g) == Len(g.tasks) + Cardinality(Online(g))

\* The player has not gone offline.
Stays(g, h, id) ==
    h.last_position[id] = g.last_position[id] /\ (IsOnline(g, id) => IsOnline(h, id))

\* One operation joins the queue.  A record is created for a new id only, and
\* saved only when its player leaves.
Queues(own, g, h, op) ==
    /\ h.tasks = Append(g.tasks, op)
    /\ KnownOp(own, h.player_sequence, op)
    /\ op.kind = "CreatePlayer" => op.player.id > g.player_sequence
    /\ op.kind = "SavePlayer" => h.last_position[op.player.id] = op.player.position
    /\ \A id \in PlayerIds :
         Stays(g, h, id) \/ (op.kind = "SavePlayer" /\ op.player.id = id)

\* What every handler does to the books.  Whoever leaves is saved.
Files(own, g, h, d) ==
    /\ Booked(own, h)
    /\ h.accepting = g.accepting
    /\ h.conns \subseteq g.conns
    /\ g.player_sequence <= h.player_sequence
    /\ \/ h.tasks = g.tasks /\ \A id \in PlayerIds : Stays(g, h, id)
       \/ \E op : Queues(own, g, h, op)
    /\ Weight(h) <= Weight(g) + d

\* A step that the books do not see.
Rests(g, h) ==
    /\ h.conns \subseteq g.conns
    /\ h.online_players = g.online_players
    /\ h.last_position = g.last_position
    /\ h.player_sequence = g.player_sequence
    /\ h.tasks = g.tasks
    /\ h.accepting = g.accepting

LEMMA WeightIsNat ==
    ASSUME NEW g, GameInv(g)
    PROVE  /\ Weight(g) \in Nat /\ Len(g.tasks) \in Nat
           /\ IsFiniteSet(Online(g)) /\ Cardinality(Online(g)) \in Nat
<1>1. IsFiniteSet(PlayerIds)
    BY GameAssumption, FS_Interval DEF PlayerIds
<1>2. Online(g) \subseteq PlayerIds
    BY DEF Online
<1>3. IsFiniteSet(Online(g)) /\ Cardinality(Online(g)) \in Nat
    BY <1>1, <1>2, FS_Subset, FS_CardinalityType
<1>4. Len(g.tasks) \in Nat
    BY LenProperties DEF GameInv, GameTypeOK
<1> QED  BY <1>3, <1>4 DEF Weight

LEMMA RestsOn ==
    ASSUME NEW g, NEW h, NEW k, Rests(g, h), Rests(h, k)
    PROVE  Rests(g, k)
BY DEF Rests

LEMMA SameBooks ==
    ASSUME NEW g, NEW h, Rests(g, h)
    PROVE  /\ Weight(h) = Weight(g)
           /\ \A own : Booked(own, g) => Booked(own, h)
           /\ \A id : Stays(g, h, id)
BY DEF Rests, Weight, Online, IsOnline, Booked, Stays

LEMMA RestsFiles ==
    ASSUME NEW own, NEW g, NEW h, GameInv(g), Booked(own, g), Rests(g, h)
    PROVE  Files(own, g, h, 0) /\ Files(own, g, h, 1)
<1>1. g.player_sequence \in Nat /\ Weight(g) \in Nat
    BY WeightIsNat DEF GameInv, GameTypeOK
<1> QED  BY <1>1, SameBooks DEF Rests, Files

LEMMA FilesThenRests ==
    ASSUME NEW own, NEW g, NEW h, NEW k, NEW d, Files(own, g, h, d), Rests(h, k)
    PROVE  Files(own, g, k, d)
<1>1. /\ Weight(k) = Weight(h) /\ Booked(own, k)
      /\ k.tasks = h.tasks /\ k.player_sequence = h.player_sequence
      /\ k.last_position = h.last_position /\ k.accepting = h.accepting
      /\ k.conns \subseteq h.conns
      /\ \A id : IsOnline(k, id) <=> IsOnline(h, id)
    BY SameBooks DEF Files, Rests, IsOnline
<1>2. \A id : Stays(g, h, id) => Stays(g, k, id)
    BY <1>1 DEF Stays
<1>3. \A op : Queues(own, g, h, op) => Queues(own, g, k, op)
    BY <1>1, <1>2 DEF Queues
<1> QED  BY <1>1, <1>2, <1>3 DEF Files

LEMMA FilesAtMost ==
    ASSUME NEW own, NEW g, NEW h, GameInv(g), GameInv(h), Files(own, g, h, 0)
    PROVE  Files(own, g, h, 1)
<1>1. Weight(h) <= Weight(g) + 1
    BY WeightIsNat DEF Files
<1> QED  BY <1>1 DEF Files

LEMMA RestsThenFiles ==
    ASSUME NEW own, NEW g, NEW h, NEW k, NEW d, Rests(g, h), Files(own, h, k, d)
    PROVE  Files(own, g, k, d)
<1>1. /\ Weight(h) = Weight(g)
      /\ h.tasks = g.tasks /\ h.player_sequence = g.player_sequence
      /\ h.last_position = g.last_position /\ h.accepting = g.accepting
      /\ h.conns \subseteq g.conns
      /\ \A id : IsOnline(h, id) <=> IsOnline(g, id)
    BY SameBooks DEF Rests, IsOnline
<1>2. \A id : Stays(h, k, id) => Stays(g, k, id)
    BY <1>1 DEF Stays
<1>3. \A op : Queues(own, h, k, op) => Queues(own, g, k, op)
    BY <1>1, <1>2 DEF Queues
<1> QED  BY <1>1, <1>2, <1>3 DEF Files

-----------------------------------------------------------------------------
(* The small steps.                                                        *)

LEMMA SendRests ==
    ASSUME NEW g, GameInv(g), NEW C, NEW enters, NEW leaves
    PROVE  Rests(g, Send(g, C, enters, leaves))
<1>1. DOMAIN g = GameFields
    BY DEF GameInv, GameTypeOK
<1> DEFINE h == Send(g, C, enters, leaves)
<1>2. h.last_position = g.last_position
    BY <1>1 DEF Send, GameFields
<1>3. /\ h.conns = g.conns /\ h.online_players = g.online_players /\ h.tasks = g.tasks
      /\ h.player_sequence = g.player_sequence /\ h.accepting = g.accepting
    BY <1>1, SendFrame
<1> HIDE DEF h
<1>4. Rests(g, h)
    BY <1>2, <1>3 DEF Rests
<1> QED  BY <1>4 DEF h

LEMMA PendingRests ==
    ASSUME NEW g, GameInv(g), NEW c, NEW account
    PROVE  /\ Rests(g, Forget(g, c, account))
           /\ Rests(g, DropPending(g, c))
           /\ Rests(g, [g EXCEPT !.pending_accounts = @ \ {account}])
           /\ Rests(g, Waiting(g, c, account))
           /\ Rests(g, Issued(g, account))
           /\ Rests(g, Presenting(g, c, account))
<1>1. DOMAIN g = GameFields
    BY DEF GameInv, GameTypeOK
<1>2. Rests(g, Forget(g, c, account))
    BY <1>1 DEF Rests, Forget, GameFields
<1>3. Rests(g, DropPending(g, c))
    BY <1>1 DEF Rests, DropPending, GameFields
<1>4. Rests(g, [g EXCEPT !.pending_accounts = @ \ {account}])
    BY <1>1 DEF Rests, GameFields
<1>5. Rests(g, Waiting(g, c, account))
    BY <1>1 DEF Rests, Waiting, GameFields
<1>6. Rests(g, Issued(g, account))
    BY <1>1 DEF Rests, Issued, GameFields
<1>7. Rests(g, Presenting(g, c, account))
    BY <1>1 DEF Rests, Presenting, GameFields
<1> QED  BY <1>2, <1>3, <1>4, <1>5, <1>6, <1>7

LEMMA FailLoginRests ==
    ASSUME NEW g, GameInv(g), NEW c \in Connections, NEW account
    PROVE  Rests(g, FailLogin(g, c, account))
<1> DEFINE u == [g EXCEPT !.pending_accounts = @ \ {account}]
           h == DropPending(u, c)
           C == {c}
           s == Send(h, C, {}, {})
<1>1. GameInv(u) /\ Rests(g, u)
    BY UnlockKeepsInv, PendingRests
<1> HIDE DEF u
<1>2. GameInv(h) /\ Rests(u, h)
    BY <1>1, DropPendingKeepsInv, PendingRests
<1> HIDE DEF h, C
<1>3. Rests(h, s)
    BY <1>2, SendRests
<1>4. FailLogin(g, c, account) = IF IsConnected(h, c) THEN s ELSE h
    BY DEF FailLogin, u, h, s, C
<1> HIDE DEF s
<1>5. Rests(g, h) /\ Rests(g, s)
    BY <1>1, <1>2, <1>3, RestsOn
<1> QED  BY <1>4, <1>5

\* An operation that writes no record.
LEMMA SubmitFiles ==
    ASSUME NEW own, NEW g, GameInv(g), Booked(own, g), NEW op,
           KnownOp(own, g.player_sequence, op),
           op.kind \notin {"CreatePlayer", "SavePlayer"}
    PROVE  Files(own, g, Submit(g, op), 1)
<1> DEFINE h == Submit(g, op)
<1>1. DOMAIN g = GameFields /\ g.player_sequence \in Nat /\ g.tasks \in Seq(AllOps)
    BY DEF GameInv, GameTypeOK
<1>2. h.last_position = g.last_position
    BY <1>1 DEF Submit, GameFields
<1>3. /\ h.conns = g.conns /\ h.online_players = g.online_players
      /\ h.tasks = Append(g.tasks, op)
      /\ h.player_sequence = g.player_sequence /\ h.accepting = g.accepting
    BY <1>1, SubmitFrame
<1> HIDE DEF h
<1>4. \A id : Stays(g, h, id)
    BY <1>2, <1>3 DEF Stays, IsOnline
<1>5. Booked(own, h)
    BY <1>2, <1>3 DEF Booked, IsOnline
<1>6. Len(h.tasks) = Len(g.tasks) + 1
    <2>1. PICK S : S = AllOps \cup {op}
        OBVIOUS
    <2>2. g.tasks \in Seq(S)
        BY <1>1, <2>1, SeqMonotonic
    <2> QED  BY <1>3, <2>1, <2>2, AppendProperties
<1>7. Weight(h) <= Weight(g) + 1
    <2>1. Online(h) = Online(g)
        BY <1>3 DEF Online, IsOnline
    <2> QED  BY <1>6, <2>1, WeightIsNat DEF Weight
<1>8. Queues(own, g, h, op)
    BY <1>3, <1>4 DEF Queues
<1>9. Files(own, g, h, 1)
    BY <1>1, <1>3, <1>5, <1>7, <1>8 DEF Files
<1> QED  BY <1>9 DEF h

LEMMA SubmitOrFailFiles ==
    ASSUME NEW own, NEW g, GameInv(g), Booked(own, g), NEW c \in Connections, NEW account,
           NEW op, KnownOp(own, g.player_sequence, op),
           op.kind \notin {"CreatePlayer", "SavePlayer"}
    PROVE  Files(own, g, IF CanSubmit(g) THEN Submit(g, op) ELSE FailLogin(g, c, account), 1)
<1>1. Files(own, g, Submit(g, op), 1)
    BY SubmitFiles
<1>2. Files(own, g, FailLogin(g, c, account), 1)
    BY FailLoginRests, RestsFiles
<1> QED  BY <1>1, <1>2

-----------------------------------------------------------------------------
(* Logging in, up to the player's entry.                                   *)

LEMMA StoreSessionFiles ==
    ASSUME NEW own, NEW g, GameInv(g), Booked(own, g), NEW c \in Connections,
           NEW player \in Records, Known(own, g.player_sequence, player), NEW replace
    PROVE  Files(own, g, StoreSessionAndFinish(g, c, player, replace), 1)
<1> DEFINE r == StoreSessionAndFinish(g, c, player, replace)
           h == Issued(g, player.id)
           op == [kind |-> "StoreSession", conn |-> c, player |-> player,
                  token |-> Len(g.tokens) + 1, replace |-> replace]
           s == IF CanSubmit(h) THEN Submit(h, op) ELSE FailLogin(h, c, player.account)
<1>1. r = IF ~StillPending(g, c) THEN Forget(g, c, player.account)
          ELSE IF IsOnline(g, player.id) /\ ~replace THEN FailLogin(g, c, player.account)
          ELSE s
    BY DEF StoreSessionAndFinish, Issued
<1> HIDE DEF r
<1>2. /\ Files(own, g, Forget(g, c, player.account), 1)
      /\ Files(own, g, FailLogin(g, c, player.account), 1)
    BY PendingRests, FailLoginRests, RestsFiles
<1>3. GameInv(h) /\ Rests(g, h)
    BY IssuedKeepsInv, PendingRests DEF Records
<1> HIDE DEF h
<1>4. Booked(own, h) /\ h.player_sequence = g.player_sequence
    BY <1>3, SameBooks DEF Rests
<1>5. /\ KnownOp(own, h.player_sequence, op)
      /\ op.kind \notin {"CreatePlayer", "SavePlayer"}
    BY <1>4 DEF KnownOp
<1> HIDE DEF op
<1>6. Files(own, h, s, 1)
    BY <1>3, <1>4, <1>5, SubmitOrFailFiles
<1> HIDE DEF s
<1>7. Files(own, g, s, 1)
    BY <1>3, <1>6, RestsThenFiles
<1>8. Files(own, g, r, 1)
    BY <1>1, <1>2, <1>7
<1> QED  BY <1>8 DEF r

LEMMA ContinueLoginFiles ==
    ASSUME NEW own, NEW g, GameInv(g), Booked(own, g), NEW c \in Connections,
           NEW player \in Records, Known(own, g.player_sequence, player), NEW token
    PROVE  Files(own, g, ContinueLogin(g, c, player, token), 1)
<1> DEFINE r == ContinueLogin(g, c, player, token)
           op == [kind |-> "LoadSession", conn |-> c, player |-> player,
                  token |-> token]
           s == IF CanSubmit(g) THEN Submit(g, op) ELSE FailLogin(g, c, player.account)
           new == StoreSessionAndFinish(g, c, player, FALSE)
<1>1. r = IF ~StillPending(g, c) THEN Forget(g, c, player.account)
          ELSE IF token = NoToken THEN new ELSE s
    BY DEF ContinueLogin
<1> HIDE DEF r
<1>2. Files(own, g, Forget(g, c, player.account), 1)
    BY PendingRests, RestsFiles
<1>3. Files(own, g, new, 1)
    BY StoreSessionFiles
<1> HIDE DEF new
<1>4. KnownOp(own, g.player_sequence, op) /\ op.kind \notin {"CreatePlayer", "SavePlayer"}
    BY DEF KnownOp
<1> HIDE DEF op
<1>5. Files(own, g, s, 1)
    BY <1>4, SubmitOrFailFiles
<1> HIDE DEF s
<1>6. Files(own, g, r, 1)
    BY <1>1, <1>2, <1>3, <1>5
<1> QED  BY <1>6 DEF r

\* A new player's id follows all the others.
LEMMA PlayerNotFoundFiles ==
    ASSUME NEW own, NEW g, GameInv(g), Booked(own, g), NEW op \in LoadPlayerOps,
           own[g.player_sequence + 1] = op.account
    PROVE  Files(own, g, PlayerNotFound(g, op), 1)
<1> DEFINE n == g.player_sequence + 1
           player == NewPlayer(g, op.account)
           h == Numbered(g, n)
           create == [kind |-> "CreatePlayer", conn |-> op.conn, player |-> player]
           s == Submit(h, create)
           t == FailLogin(h, op.conn, op.account)
           r == PlayerNotFound(g, op)
<1>1. r = IF op.token = NoToken /\ CanSubmit(h) THEN s ELSE t
    BY DEF PlayerNotFound, NewPlayer, Numbered
<1>2. /\ g.player_sequence \in Nat /\ n \in Nat /\ n > g.player_sequence
      /\ DOMAIN g = GameFields /\ g.tasks \in Seq(AllOps) /\ op.conn \in Connections
    BY DEF GameInv, GameTypeOK, LoadPlayerOps
<1>3. /\ player.id = n /\ player.account = op.account
      /\ create.kind = "CreatePlayer" /\ create.player = player
    BY DEF NewPlayer
<1>4. own[n] = op.account
    OBVIOUS
<1>5. GameInv(h)
    BY <1>2, NumberedKeepsInv
<1>6. /\ DOMAIN h = GameFields /\ h.conns = g.conns /\ h.online_players = g.online_players
      /\ h.last_position = g.last_position /\ h.tasks = g.tasks
      /\ h.player_sequence = n /\ h.accepting = g.accepting
    BY <1>2 DEF Numbered, GameFields
<1> HIDE DEF r, h, n, player, create
<1>7. Booked(own, h)
    <2>1. ASSUME NEW id \in PlayerIds
          PROVE  /\ IsOnline(h, id) => Known(own, n, h.online_players[id].record)
                 /\ h.last_position[id] # Nowhere => id <= n
        <3>1. id \in Nat
            BY GameAssumption DEF PlayerIds
        <3>2. g.online_players[id] # Offline => g.online_players[id].record.id \in Nat
            <4>1. g.online_players[id] # Offline => g.online_players[id] \in Entries
                BY DEF GameInv, GameTypeOK
            <4>2. \A e \in Entries : e.record.id \in PlayerIds
                BY DEF Entries, Records
            <4> QED  BY <4>1, <4>2, GameAssumption DEF PlayerIds
        <3> QED  BY <1>2, <1>6, <3>1, <3>2 DEF Booked, IsOnline, Known
    <2> QED  BY <1>6, <2>1 DEF Booked
<1>8. Files(own, g, h, 1)
    <2>1. \A id : Stays(g, h, id)
        BY <1>6 DEF Stays, IsOnline
    <2>2. Weight(h) = Weight(g) /\ Weight(g) \in Nat
        BY <1>6, WeightIsNat DEF Weight, Online, IsOnline
    <2> QED  BY <1>2, <1>6, <1>7, <2>1, <2>2 DEF Files
<1>9. Files(own, g, t, 1)
    BY <1>2, <1>5, <1>8, FailLoginRests, FilesThenRests
<1>10. Files(own, g, s, 1)
    <2>1. s.last_position = h.last_position
        BY <1>6 DEF Submit, GameFields
    <2>2. /\ s.conns = h.conns /\ s.online_players = h.online_players
          /\ s.tasks = Append(h.tasks, create)
          /\ s.player_sequence = h.player_sequence /\ s.accepting = h.accepting
        BY <1>6, SubmitFrame
    <2> HIDE DEF s
    <2>3. \A id : Stays(g, s, id)
        BY <1>6, <2>1, <2>2 DEF Stays, IsOnline
    <2>4. Booked(own, s)
        BY <1>7, <2>1, <2>2 DEF Booked, IsOnline
    <2>5. Len(s.tasks) = Len(g.tasks) + 1
        <3>1. PICK S : S = AllOps \cup {create}
            OBVIOUS
        <3>2. g.tasks \in Seq(S)
            BY <1>2, <3>1, SeqMonotonic
        <3> QED  BY <1>6, <2>2, <3>1, <3>2, AppendProperties
    <2>6. Weight(s) <= Weight(g) + 1
        <3>1. Online(s) = Online(g)
            BY <1>6, <2>2 DEF Online, IsOnline
        <3> QED  BY <2>5, <3>1, WeightIsNat DEF Weight
    <2>7. Known(own, n, player)
        BY <1>2, <1>3, <1>4 DEF Known
    <2>8. Queues(own, g, s, create)
        BY <1>2, <1>3, <1>6, <2>2, <2>3, <2>7 DEF Queues, KnownOp
    <2> QED  BY <1>2, <1>6, <2>2, <2>4, <2>6, <2>8 DEF Files
<1> HIDE DEF s, t
<1>11. Files(own, g, r, 1)
    BY <1>1, <1>9, <1>10
<1> QED  BY <1>11 DEF r

LEMMA HandleLoginFiles ==
    ASSUME NEW own, NEW g, GameInv(g), Booked(own, g), NEW c \in g.conns,
           NEW account \in Accounts \cup {NoAccount}, NEW token
    PROVE  Files(own, g, HandleLogin(g, c, account, token), 1)
<1> DEFINE bad == \/ account = NoAccount
                  \/ g.connection_players[c] # NoPlayer
                  \/ g.pending_connections[c] # NoAccount
                  \/ account \in g.pending_accounts
           h  == Waiting(g, c, account)
           op == [kind |-> "LoadPlayer", conn |-> c, account |-> account, token |-> token]
           s  == IF CanSubmit(h) THEN Submit(h, op) ELSE FailLogin(h, c, account)
           r  == HandleLogin(g, c, account, token)
<1>1. r = IF bad THEN FailLogin(g, c, NoAccount) ELSE s
    BY DEF HandleLogin, Waiting
<1>2. c \in Connections
    BY DEF GameInv, GameTypeOK
<1> HIDE DEF r
<1>3. Files(own, g, FailLogin(g, c, NoAccount), 1)
    BY <1>2, FailLoginRests, RestsFiles
<1>4. ASSUME ~bad PROVE Files(own, g, s, 1)
    <2>1. account \in Accounts /\ g.connection_players[c] = NoPlayer
        BY <1>4
    <2>2. GameInv(h) /\ Rests(g, h)
        BY <2>1, WaitingKeepsInv, PendingRests
    <2> HIDE DEF h
    <2>3. Booked(own, h)
        BY <2>2, SameBooks
    <2>4. KnownOp(own, h.player_sequence, op) /\ op.kind \notin {"CreatePlayer", "SavePlayer"}
        BY DEF KnownOp
    <2> HIDE DEF op
    <2>5. Files(own, h, s, 1)
        BY <1>2, <2>2, <2>3, <2>4, SubmitOrFailFiles
    <2> HIDE DEF s
    <2> QED  BY <2>2, <2>5, RestsThenFiles
<1> HIDE DEF s
<1>5. Files(own, g, r, 1)
    BY <1>1, <1>3, <1>4
<1> QED  BY <1>5 DEF r

-----------------------------------------------------------------------------
(* Leaving.                                                                *)

\* The pool takes an operation as long as there is anyone to leave.
Roomy(g) == g.conns # {} => CanSubmit(g)

\* The player has left, and its record is in the queue.
LEMMA PlayerLeavesFiles ==
    ASSUME NEW own, NEW g, GameInv(g), Booked(own, g), CanSubmit(g),
           NEW c \in Connections, NEW id \in PlayerIds, g.connection_players[c] = id
    PROVE  Files(own, g, PlayerLeaves(g, c, id), 0)
<1> DEFINE r == RemoveOnline(g, c, id)
           C == ConnectionsOf(r, VisiblePlayers(g.world, id))
           L == {id}
           s == Send(r, C, {}, L)
           record == g.online_players[id].record
           op == [kind |-> "SavePlayer", player |-> record]
           h == Submit(s, op)
<1>1. /\ DOMAIN g = GameFields /\ g.player_sequence \in Nat /\ g.tasks \in Seq(AllOps)
      /\ g.online_players \in [PlayerIds -> {Offline} \cup Entries]
      /\ DOMAIN g.last_position = PlayerIds
    BY DEF GameInv, GameTypeOK, Booked
<1>2. /\ IsOnline(g, id) /\ record \in Records /\ record.id = id
      /\ Known(own, g.player_sequence, record)
    <2>1. id # NoPlayer
        BY NothingIsNothing
    <2>2. g.online_players[id] # Offline /\ g.online_players[id] \in Entries
        BY <2>1, PlayerOfConnection
    <2>3. record.id = id
        BY <2>2 DEF GameInv, Agree
    <2> QED  BY <2>2, <2>3 DEF Entries, IsOnline, Booked
<1>3. /\ GameInv(r) /\ r.conns = g.conns
    BY RemoveOnlineKeepsInv
<1>4. /\ DOMAIN r = GameFields
      /\ r.online_players = [g.online_players EXCEPT ![id] = Offline]
      /\ r.last_position = [g.last_position EXCEPT ![id] = record.position]
      /\ r.player_sequence = g.player_sequence
      /\ r.tasks = g.tasks /\ r.accepting = g.accepting
    BY <1>1 DEF RemoveOnline, GameFields
<1> HIDE DEF r, C, L, record
<1>5. Rests(r, s) /\ DOMAIN s = GameFields /\ s.conns = r.conns
    BY <1>3, <1>4, SendRests, SendFrame
<1> HIDE DEF s
<1>6. h.last_position = s.last_position
    BY <1>5 DEF Submit, GameFields
<1>7. /\ h.conns = s.conns /\ h.online_players = s.online_players
      /\ h.tasks = Append(s.tasks, op)
      /\ h.player_sequence = s.player_sequence /\ h.accepting = s.accepting
    <2> HIDE DEF op
    <2> QED  BY <1>5, SubmitFrame
<1>8. PlayerLeaves(g, c, id) = h
    <2>1. PlayerLeaves(g, c, id) = SavePosition(s, record)
        BY DEF PlayerLeaves, r, C, L, s, record
    <2>2. CanSubmit(s)
        BY <1>4, <1>5 DEF CanSubmit, Rests
    <2> QED  BY <2>1, <2>2 DEF SavePosition
<1>9. op.kind = "SavePlayer" /\ op.player = record
    OBVIOUS
<1> HIDE DEF h, op
<1>10. /\ h.online_players = [g.online_players EXCEPT ![id] = Offline]
       /\ h.last_position = [g.last_position EXCEPT ![id] = record.position]
       /\ h.player_sequence = g.player_sequence /\ h.accepting = g.accepting
       /\ h.conns = g.conns /\ h.tasks = Append(g.tasks, op)
    BY <1>3, <1>4, <1>5, <1>6, <1>7 DEF Rests
<1>11. /\ h.last_position[id] = record.position /\ ~IsOnline(h, id)
       /\ \A i \in PlayerIds \ {id} : /\ h.last_position[i] = g.last_position[i]
                                      /\ h.online_players[i] = g.online_players[i]
       /\ DOMAIN h.last_position = PlayerIds
    BY <1>1, <1>10 DEF IsOnline
<1>12. Booked(own, h)
    <2>1. ASSUME NEW i \in PlayerIds
          PROVE  /\ IsOnline(h, i) => Known(own, h.player_sequence, h.online_players[i].record)
                 /\ h.last_position[i] # Nowhere => i <= h.player_sequence
        <3>1. CASE i = id
            BY <1>2, <1>10, <1>11, <3>1 DEF Known
        <3>2. CASE i # id
            BY <1>10, <1>11, <3>2 DEF Booked, IsOnline
        <3> QED  BY <3>1, <3>2
    <2> QED  BY <1>11, <2>1 DEF Booked
<1>13. Queues(own, g, h, op)
    <2>1. KnownOp(own, h.player_sequence, op)
        BY <1>2, <1>9, <1>10 DEF KnownOp
    <2>2. \A i \in PlayerIds : Stays(g, h, i) \/ op.player.id = i
        BY <1>2, <1>9, <1>11 DEF Stays, IsOnline
    <2> QED  BY <1>2, <1>9, <1>10, <1>11, <2>1, <2>2 DEF Queues
<1>14. Weight(h) <= Weight(g)
    <2>1. Len(h.tasks) = Len(g.tasks) + 1
        <3>1. PICK S : S = AllOps \cup {op}
            OBVIOUS
        <3>2. g.tasks \in Seq(S)
            BY <1>1, <3>1, SeqMonotonic
        <3> QED  BY <1>10, <3>1, <3>2, AppendProperties
    <2>2. Online(h) = Online(g) \ {id} /\ id \in Online(g)
        BY <1>2, <1>11 DEF Online, IsOnline
    <2>3. Cardinality(Online(h)) = Cardinality(Online(g)) - 1
        <3>1. PICK S : S = Online(g)
            OBVIOUS
        <3>2. Cardinality(S \ {id}) = Cardinality(S) - 1
            BY <2>2, <3>1, WeightIsNat, FS_RemoveElement
        <3> QED  BY <2>2, <3>1, <3>2
    <2> QED  BY <2>1, <2>3, WeightIsNat DEF Weight
<1>15. Files(own, g, h, 0)
    BY <1>1, <1>10, <1>12, <1>13, <1>14, WeightIsNat DEF Files
<1> QED  BY <1>8, <1>15

\* CloseConnection.
LEMMA CloseFiles ==
    ASSUME NEW own, NEW g, GameInv(g), Booked(own, g), Roomy(g), NEW c \in Connections
    PROVE  Files(own, g, CloseConnection(g, c), 0)
<1> DEFINE k == CloseConnection(g, c)
<1>1. DOMAIN g = GameFields
    BY DEF GameInv, GameTypeOK
<1>2. CASE c \notin g.conns
    <2>1. Rests(g, k)
        BY <1>1, <1>2 DEF CloseConnection, Rests, GameFields
    <2> HIDE DEF k
    <2>2. Files(own, g, k, 0)
        BY <2>1, RestsFiles
    <2> QED  BY <2>2 DEF k
<1>3. CASE c \in g.conns
    <2> DEFINE d == DropPending(g, c)
               id == d.connection_players[c]
               h == OnDisconnected(g, c)
    <2>1. GameInv(d) /\ Rests(g, d)
        BY DropPendingKeepsInv, PendingRests
    <2>2. h = CASE id = NoPlayer   -> d
                [] HasPlayer(d, c) -> PlayerLeaves(d, c, id)
                [] OTHER           -> [d EXCEPT !.connection_players[c] = NoPlayer]
        BY DEF OnDisconnected
    <2>3. GameInv(h)
        BY OnDisconnectedKeepsInv
    <2>4. k = [h EXCEPT !.conns = @ \ {c}, !.marked_for_close = @ \ {c},
                        !.broken = @ \ {c}, !.view[c] = {}, !.presented[c] = {}]
        BY <1>3 DEF CloseConnection
    <2>5. CanSubmit(d)
        BY <1>3, <2>1 DEF Rests, Roomy, CanSubmit
    <2>6. Booked(own, d)
        BY <2>1, SameBooks
    <2> HIDE DEF d, h, k
    <2>7. Files(own, g, h, 0)
        <3>1. CASE id = NoPlayer
            <4>1. h = d
                BY <2>2, <3>1 DEF HasPlayer
            <4> QED  BY <2>1, <4>1, RestsFiles
        <3>2. CASE id # NoPlayer
            <4>1. id \in PlayerIds /\ HasPlayer(d, c)
                BY <2>1, <3>2, PlayerOfConnection DEF HasPlayer, IsOnline
            <4>2. h = PlayerLeaves(d, c, id)
                BY <2>2, <3>2, <4>1
            <4>3. Files(own, d, h, 0)
                BY <2>1, <2>5, <2>6, <4>1, <4>2, PlayerLeavesFiles
            <4> QED  BY <2>1, <4>3, RestsThenFiles
        <3> QED  BY <3>1, <3>2
    <2>8. DOMAIN h = GameFields
        BY <2>3 DEF GameInv, GameTypeOK
    <2>9. Rests(h, k)
        BY <2>4, <2>8 DEF Rests, GameFields
    <2>10. Files(own, g, k, 0)
        BY <2>7, <2>9, FilesThenRests
    <2> QED  BY <2>10 DEF k
<1> QED  BY <1>2, <1>3

-----------------------------------------------------------------------------
(* Coming online, and moving.                                              *)

\* Nothing is queued and nobody leaves.
ComesOn(own, g, h, d) ==
    /\ Booked(own, h)
    /\ h.conns \subseteq g.conns
    /\ h.last_position = g.last_position
    /\ h.player_sequence = g.player_sequence
    /\ h.tasks = g.tasks
    /\ h.accepting = g.accepting
    /\ \A id \in PlayerIds : IsOnline(g, id) => IsOnline(h, id)
    /\ Weight(h) <= Weight(g) + d

LEMMA FilesThenComesOn ==
    ASSUME NEW own, NEW g, NEW h, NEW k, NEW d \in Nat, GameInv(g), GameInv(h), GameInv(k),
           Files(own, g, h, 0), ComesOn(own, h, k, d)
    PROVE  Files(own, g, k, d)
<1>1. /\ k.tasks = h.tasks /\ k.player_sequence = h.player_sequence
      /\ k.last_position = h.last_position /\ k.accepting = h.accepting
      /\ k.conns \subseteq h.conns /\ Booked(own, k)
      /\ \A id \in PlayerIds : IsOnline(h, id) => IsOnline(k, id)
    BY DEF ComesOn
<1>2. Weight(k) <= Weight(g) + d
    BY WeightIsNat DEF Files, ComesOn
<1>3. \A id \in PlayerIds : Stays(g, h, id) => Stays(g, k, id)
    BY <1>1 DEF Stays
<1>4. \A op : Queues(own, g, h, op) => Queues(own, g, k, op)
    BY <1>1, <1>3 DEF Queues
<1> QED  BY <1>1, <1>2, <1>3, <1>4 DEF Files

LEMMA PutOnlineComesOn ==
    ASSUME NEW own, NEW k, GameInv(k), Booked(own, k), NEW c \in Connections,
           NEW player \in Records, Known(own, k.player_sequence, player), NEW token
    PROVE  ComesOn(own, k, PutOnline(k, c, player, token), 1)
<1> DEFINE h == PutOnline(k, c, player, token)
           entry == EntryOf(player, c, token)
<1>1. /\ DOMAIN k = GameFields
      /\ k.online_players \in [PlayerIds -> {Offline} \cup Entries]
    BY DEF GameInv, GameTypeOK
<1>2. PICK id \in PlayerIds : id = player.id
    BY DEF Records
<1>3. entry.record = player /\ entry # Offline
    BY NothingIsNothing DEF EntryOf, Offline
<1>4. /\ h.conns = k.conns
      /\ h.online_players = [k.online_players EXCEPT ![id] = entry]
      /\ h.last_position = k.last_position
      /\ h.player_sequence = k.player_sequence
      /\ h.tasks = k.tasks
      /\ h.accepting = k.accepting
    BY <1>1, <1>2 DEF PutOnline, EntryOf, GameFields
<1> HIDE DEF h, entry
<1>5. /\ h.online_players[id] = entry
      /\ \A i \in PlayerIds \ {id} : h.online_players[i] = k.online_players[i]
    BY <1>1, <1>4
<1>6. Booked(own, h)
    <2>1. ASSUME NEW i \in PlayerIds
          PROVE  /\ IsOnline(h, i) => Known(own, h.player_sequence, h.online_players[i].record)
                 /\ h.last_position[i] # Nowhere => i <= h.player_sequence
        <3>1. CASE i = id
            BY <1>3, <1>4, <1>5, <3>1 DEF Booked
        <3>2. CASE i # id
            BY <1>4, <1>5, <3>2 DEF Booked, IsOnline
        <3> QED  BY <3>1, <3>2
    <2> QED  BY <1>4, <2>1 DEF Booked
<1>7. Online(h) = Online(k) \cup {id}
    BY <1>3, <1>5 DEF Online, IsOnline
<1>8. Weight(h) <= Weight(k) + 1
    <2>1. PICK S : S = Online(k)
        OBVIOUS
    <2>2. IsFiniteSet(S) /\ Cardinality(S) \in Nat
        BY <2>1, WeightIsNat
    <2>3. Cardinality(S \cup {id}) <= Cardinality(S) + 1 /\ Cardinality(S \cup {id}) \in Nat
        <3>1. Cardinality(S \cup {id}) =
                IF id \in S THEN Cardinality(S) ELSE Cardinality(S) + 1
            BY <2>2, FS_AddElement
        <3> QED  BY <2>2, <3>1
    <2> QED  BY <1>4, <1>7, <2>1, <2>2, <2>3, WeightIsNat DEF Weight
<1>9. \A i \in PlayerIds : IsOnline(k, i) => IsOnline(h, i)
    BY <1>3, <1>5 DEF IsOnline
<1>10. ComesOn(own, k, h, 1)
    BY <1>4, <1>6, <1>8, <1>9 DEF ComesOn
<1> QED  BY <1>10 DEF h

LEMMA MovedComesOn ==
    ASSUME NEW own, NEW g, GameInv(g), Booked(own, g), NEW id \in PlayerIds, NEW position,
           g.online_players[id] # Offline
    PROVE  ComesOn(own, g, Moved(g, id, position), 0)
<1> DEFINE h == Moved(g, id, position)
           old == g.online_players[id]
           entry == [old EXCEPT !.record = [old.record EXCEPT !.position = position]]
<1>1. /\ DOMAIN g = GameFields
      /\ g.online_players \in [PlayerIds -> {Offline} \cup Entries]
    BY DEF GameInv, GameTypeOK
<1>2. old \in Entries
    BY <1>1
<1>3. /\ entry.record.id = old.record.id /\ entry.record.account = old.record.account
      /\ entry.conn = old.conn
    BY <1>2 DEF Entries, Records
<1>4. entry # Offline
    BY <1>2, <1>3, NothingIsNothing DEF Entries, Offline
<1>5. /\ h.conns = g.conns
      /\ h.online_players = [g.online_players EXCEPT ![id] = entry]
      /\ h.last_position = g.last_position
      /\ h.player_sequence = g.player_sequence
      /\ h.tasks = g.tasks
      /\ h.accepting = g.accepting
    BY <1>1 DEF Moved, GameFields
<1> HIDE DEF h, entry
<1>6. /\ h.online_players[id] = entry
      /\ \A i \in PlayerIds \ {id} : h.online_players[i] = g.online_players[i]
    BY <1>1, <1>5
<1>7. \A i \in PlayerIds : IsOnline(h, i) <=> IsOnline(g, i)
    BY <1>4, <1>6 DEF IsOnline
<1>8. Booked(own, h)
    <2>1. ASSUME NEW i \in PlayerIds
          PROVE  /\ IsOnline(h, i) => Known(own, h.player_sequence, h.online_players[i].record)
                 /\ h.last_position[i] # Nowhere => i <= h.player_sequence
        <3>1. CASE i = id
            <4>1. Known(own, g.player_sequence, old.record)
                BY DEF Booked, IsOnline
            <4> QED  BY <1>3, <1>5, <1>6, <3>1, <4>1 DEF Booked, Known
        <3>2. CASE i # id
            BY <1>5, <1>6, <3>2 DEF Booked, IsOnline
        <3> QED  BY <3>1, <3>2
    <2> QED  BY <1>5, <2>1 DEF Booked
<1>9. Weight(h) <= Weight(g) + 0
    <2>1. Online(h) = Online(g)
        BY <1>7 DEF Online
    <2> QED  BY <1>5, <2>1, WeightIsNat DEF Weight
<1>10. ComesOn(own, g, h, 0)
    BY <1>5, <1>7, <1>8, <1>9 DEF ComesOn
<1> QED  BY <1>10 DEF h

\* HandleMove.
LEMMA HandleMoveFiles ==
    ASSUME NEW own, NEW g, GameInv(g), Booked(own, g), NEW c \in Connections,
           NEW position \in Positions
    PROVE  Files(own, g, HandleMove(g, c, position), 0)
<1> DEFINE r == HandleMove(g, c, position)
           id == g.connection_players[c]
           h  == Moved(g, id, position)
           delta == ViewDelta(g.world, h.world, id)
           mover == ViewsOf(h, {id})
           C1 == ConnectionsOf(h, delta.stayed)
           C2 == ConnectionsOf(h, delta.entered)
           C3 == ConnectionsOf(h, delta.left)
           C4 == {c}
           L  == {id}
           stayed  == Send(h, C1, mover, {})
           entered == Send(stayed, C2, mover, {})
           left    == Send(entered, C3, {}, L)
           E4 == ViewsOf(h, delta.entered)
           L4 == Found(h, delta.left)
           sent == Send(left, C4, E4, L4)
           can == HasPlayer(g, c) /\ CanMove(g.world, id, position)
<1>1. r = IF can THEN (IF E4 = {} /\ L4 = {} THEN left ELSE sent) ELSE g
    BY DEF HandleMove, Moved, SendMover
<1>2. Rests(g, g)
    BY DEF Rests
<1> HIDE DEF r, L, L4, E4, C1, C2, C3, C4, mover, delta
<1>3. CASE ~can
    <2>1. Files(own, g, r, 0)
        BY <1>1, <1>2, <1>3, RestsFiles
    <2> QED  BY <2>1 DEF r
<1>4. CASE can
    <2>1. id \in PlayerIds /\ g.online_players[id] # Offline
        <3>1. g.connection_players \in [Connections -> PlayerIds \cup {NoPlayer}]
            BY DEF GameInv, GameTypeOK
        <3> QED  BY <1>4, <3>1 DEF HasPlayer, IsOnline
    <2> HIDE DEF id
    <2>2. GameInv(h) /\ ComesOn(own, g, h, 0)
        BY <2>1, MovedKeepsInv, MovedComesOn
    <2> HIDE DEF h
    <2>3. Files(own, g, h, 0)
        <3>1. PICK d \in Nat : d = 0
            OBVIOUS
        <3>2. Files(own, g, h, d)
            BY <1>2, <2>2, <3>1, RestsFiles, FilesThenComesOn
        <3> QED  BY <3>1, <3>2
    <2>4. GameInv(stayed) /\ Rests(h, stayed)
        BY <2>2, SendKeepsTables, SendRests
    <2> HIDE DEF stayed
    <2>5. GameInv(entered) /\ Rests(stayed, entered)
        BY <2>4, SendKeepsTables, SendRests
    <2> HIDE DEF entered
    <2>6. GameInv(left) /\ Rests(entered, left)
        BY <2>5, SendKeepsTables, SendRests
    <2> HIDE DEF left
    <2>7. Rests(left, sent)
        BY <2>6, SendRests
    <2> HIDE DEF sent
    <2>8. Rests(h, left) /\ Rests(h, sent)
        BY <2>4, <2>5, <2>6, <2>7, RestsOn
    <2>9. r = left \/ r = sent
        BY <1>1, <1>4
    <2>10. Files(own, g, r, 0)
        BY <2>3, <2>8, <2>9, FilesThenRests
    <2> QED  BY <2>10 DEF r
<1> QED  BY <1>3, <1>4

\* HandleChat, HandleHeartbeat.
LEMMA ChatRests ==
    ASSUME NEW g, GameInv(g), NEW c
    PROVE  Rests(g, HandleChat(g, c)) /\ Rests(g, HandleHeartbeat(g, c))
<1> DEFINE C == ConnectionsOf(g, PlayerIds)
           D == {c}
           s == Send(g, C, {}, {})
           t == Send(g, D, {}, {})
<1>1. /\ HandleChat(g, c) = g \/ HandleChat(g, c) = s
      /\ HandleHeartbeat(g, c) = t
    BY DEF HandleChat, HandleHeartbeat
<1> HIDE DEF C, D
<1>2. Rests(g, s) /\ Rests(g, t)
    BY SendRests
<1>3. Rests(g, g)
    BY DEF Rests
<1> HIDE DEF s, t
<1> QED  BY <1>1, <1>2, <1>3

\* FinishLogin: whoever is taken over is saved and comes back.
LEMMA FinishLoginFiles ==
    ASSUME NEW own, NEW g, GameInv(g), Booked(own, g), Roomy(g), NEW c \in Connections,
           NEW loaded \in Records, Known(own, g.player_sequence, loaded),
           NEW token \in Tokens, NEW replace \in BOOLEAN
    PROVE  Files(own, g, FinishLogin(g, c, loaded, token, replace), 1)
<1> DEFINE account == loaded.account
           id      == loaded.id
           present == IsOnline(g, id)
           player  == IF present THEN g.online_players[id].record ELSE loaded
           f       == IF present THEN CloseConnection(g, g.online_players[id].conn) ELSE g
           k       == Forget(f, c, account)
           h       == [k EXCEPT !.world = AddPlayer(@, id, player.position),
                                !.connection_players[c] = id,
                                !.online_players[id] =
                                    [record |-> player, conn |-> c, token |-> token]]
           visible == VisiblePlayers(h.world, id)
           C1      == {c}
           E1      == ViewsOf(h, visible)
           told    == Send(h, C1, E1, {})
           C2      == ConnectionsOf(told, visible)
           E2      == ViewsOf(told, {id})
           last    == Send(told, C2, E2, {})
           r       == FinishLogin(g, c, loaded, token, replace)
<1>1. r = CASE ~StillPending(g, c) -> Forget(g, c, account)
            [] StillPending(g, c) /\ present /\ ~replace -> FailLogin(g, c, account)
            [] StillPending(g, c) /\ (present => replace)
                   /\ ~CanAdd(f.world, id, player.position) -> FailLogin(f, c, account)
            [] OTHER -> last
    BY DEF FinishLogin
<1>2. id \in PlayerIds /\ account \in Accounts
    BY DEF Records
<1>3. /\ g.online_players \in [PlayerIds -> {Offline} \cup Entries]
      /\ g.connection_players \in [Connections -> PlayerIds \cup {NoPlayer}]
    BY DEF GameInv, GameTypeOK
<1> HIDE DEF r
<1>4. CASE ~StillPending(g, c)
    <2>1. r = Forget(g, c, account)
        BY <1>1, <1>4
    <2>2. Files(own, g, r, 1)
        BY <2>1, PendingRests, RestsFiles
    <2> QED  BY <2>2 DEF r
<1>5. CASE StillPending(g, c)
    <2>1. c \in g.conns /\ g.connection_players[c] = NoPlayer
        BY <1>5 DEF StillPending, IsConnected, GameInv, PendingFree
    <2>2. CASE present /\ ~replace
        <3>1. r = FailLogin(g, c, account)
            BY <1>1, <1>5, <2>2
        <3>2. Files(own, g, r, 1)
            BY <3>1, FailLoginRests, RestsFiles
        <3> QED  BY <3>2 DEF r
    <2>3. CASE present => replace
        <3>1. /\ GameInv(f) /\ f.player_sequence = g.player_sequence
              /\ Files(own, g, f, 0)
              /\ c \in f.conns /\ f.connection_players[c] = NoPlayer
              /\ f.online_players[id] = Offline
              /\ player \in Records /\ player.id = id
              /\ Known(own, g.player_sequence, player)
            <4>1. CASE ~present
                <5>1. Rests(g, g) /\ f = g /\ player = loaded
                    BY <4>1 DEF Rests
                <5>2. Files(own, g, g, 0)
                    BY <5>1, RestsFiles
                <5> QED  BY <2>1, <4>1, <5>1, <5>2 DEF IsOnline
            <4>2. CASE present
                <5> DEFINE d == g.online_players[id].conn
                <5>1. g.online_players[id] \in Entries /\ g.online_players[id] # Offline
                    BY <1>2, <1>3, <4>2 DEF IsOnline
                <5>2. d \in Connections /\ g.online_players[id].record \in Records
                    BY <5>1 DEF Entries
                <5>3. g.connection_players[d] = id /\ g.online_players[id].record.id = id
                    BY <1>2, <5>1 DEF GameInv, Agree
                <5>4. d # c
                    BY <1>2, <2>1, <5>3, NothingIsNothing
                <5>5. f = CloseConnection(g, d)
                    BY <4>2
                <5> HIDE DEF d, f
                <5>6. /\ GameInv(f) /\ WithoutPlayerOf(g, f, d) /\ f.conns = g.conns \ {d}
                    BY <5>2, <5>5, CloseKeepsInv
                <5>7. f.connection_players[c] = NoPlayer /\ f.online_players[id] = Offline
                    BY <1>2, <1>3, <2>1, <5>2, <5>4, <5>6 DEF WithoutPlayerOf, d
                <5>8. f.player_sequence = g.player_sequence
                    BY <5>6 DEF WithoutPlayerOf
                <5>9. player = g.online_players[id].record
                    BY <4>2
                <5>10. Files(own, g, f, 0)
                    BY <5>2, <5>5, CloseFiles
                <5>11. Known(own, g.player_sequence, g.online_players[id].record)
                    BY <1>2, <4>2 DEF Booked
                <5> QED
                    BY <2>1, <5>2, <5>3, <5>4, <5>6, <5>7, <5>8, <5>9, <5>10, <5>11
            <4> QED  BY <4>1, <4>2
        <3> HIDE DEF f, player, present
        <3>2. CASE ~CanAdd(f.world, id, player.position)
            <4>1. r = FailLogin(f, c, account)
                BY <1>1, <1>5, <2>3, <3>2
            <4>2. Files(own, g, r, 0)
                BY <3>1, <4>1, FailLoginRests, FilesThenRests
            <4>3. Files(own, g, r, 1)
                BY <3>1, <4>1, <4>2, FilesAtMost, FailLoginKeepsInv
            <4> QED  BY <4>3 DEF r
        <3>3. CASE CanAdd(f.world, id, player.position)
            <4>1. r = last
                BY <1>1, <1>5, <2>3, <3>3
            <4>2. /\ GameInv(k) /\ TablesKept(f, k)
                  /\ k.pending_connections = [f.pending_connections EXCEPT ![c] = NoAccount]
                  /\ Rests(f, k)
                BY <3>1, ForgetKeepsInv, PendingRests
            <4>3. /\ c \in k.conns /\ k.connection_players[c] = NoPlayer
                  /\ k.online_players[id] = Offline
                  /\ k.pending_connections[c] = NoAccount
                <5>1. f.pending_connections \in [Connections -> Accounts \cup {NoAccount}]
                    BY <3>1 DEF GameInv, GameTypeOK
                <5> QED  BY <3>1, <4>2, <5>1 DEF TablesKept
            <4>4. Files(own, g, k, 0)
                BY <3>1, <4>2, FilesThenRests
            <4> HIDE DEF k
            <4>5. /\ Booked(own, k) /\ Known(own, k.player_sequence, player)
                BY <3>1, <4>2, <4>4 DEF Files, Rests
            <4>6. h = PutOnline(k, c, player, token)
                BY <3>1 DEF PutOnline
            <4>7. GameInv(h) /\ ComesOn(own, k, h, 1)
                <5> HIDE DEF h
                <5>1. k.online_players[player.id] = Offline /\ player \in Records
                    BY <3>1, <4>3
                <5> DEFINE p == PutOnline(k, c, player, token)
                <5>2. GameInv(p)
                    BY <4>2, <4>3, <5>1, PutOnlineKeepsInv
                <5>3. ComesOn(own, k, p, 1)
                    BY <4>2, <4>5, <5>1, PutOnlineComesOn
                <5> HIDE DEF p
                <5> QED  BY <4>6, <5>2, <5>3 DEF p
            <4> HIDE DEF h, visible, C1, E1
            <4>8. Files(own, g, h, 1)
                <5>1. PICK d \in Nat : d = 1
                    OBVIOUS
                <5>2. Files(own, g, h, d)
                    BY <4>2, <4>4, <4>7, <5>1, FilesThenComesOn
                <5> QED  BY <5>1, <5>2
            <4>9. GameInv(told) /\ Rests(h, told)
                BY <4>7, SendKeepsTables, SendRests
            <4> HIDE DEF told, C2, E2
            <4>10. Rests(told, last)
                BY <4>9, SendRests
            <4> HIDE DEF last
            <4>11. Files(own, g, last, 1)
                BY <4>8, <4>9, <4>10, FilesThenRests
            <4> QED  BY <4>1, <4>11 DEF r
        <3> QED  BY <3>2, <3>3
    <2> QED  BY <2>2, <2>3
<1> QED  BY <1>4, <1>5

-----------------------------------------------------------------------------
(* The callbacks.                                                          *)

\* The account whose first login finds no record: the next id is for it.
NextIsFor(own, g, done) ==
    /\ done.op.kind = "LoadPlayer" /\ done.status = "not_found"
    /\ StillPending(g, done.op.conn)
    => own[g.player_sequence + 1] = done.op.account

LEMMA PlayerLoadedFiles ==
    ASSUME NEW own, NEW g, GameInv(g), Booked(own, g), NEW done \in Results,
           done.op \in LoadPlayerOps, ResultOK(done),
           KnownResult(own, g.player_sequence, done), NextIsFor(own, g, done)
    PROVE  Files(own, g, OnPlayerLoaded(g, done.op, done.status, done.value), 1)
<1> DEFINE op == done.op
           r == OnPlayerLoaded(g, op, done.status, done.value)
<1>1. /\ op \in LoadPlayerOps /\ op.kind = "LoadPlayer" /\ op.conn \in Connections
      /\ done.status \in {"ok", "not_found", "failed"}
    BY DEF LoadPlayerOps, Results
<1>2. /\ ~StillPending(g, op.conn) => r = Forget(g, op.conn, op.account)
      /\ StillPending(g, op.conn) =>
           /\ done.status = "ok" => r = ContinueLogin(g, op.conn, done.value, op.token)
           /\ done.status = "failed" => r = FailLogin(g, op.conn, op.account)
           /\ done.status = "not_found" => r = PlayerNotFound(g, op)
    BY DEF OnPlayerLoaded
<1>3. done.status = "ok" => /\ done.value \in Records
                            /\ Known(own, g.player_sequence, done.value)
    BY <1>1 DEF ResultOK, KnownResult
<1>4. done.status = "not_found" /\ StillPending(g, op.conn) =>
        own[g.player_sequence + 1] = op.account
    BY <1>1 DEF NextIsFor
<1> HIDE DEF op, r
<1>5. CASE ~StillPending(g, op.conn)
    BY <1>2, <1>5, PendingRests, RestsFiles DEF r, op
<1>6. CASE StillPending(g, op.conn) /\ done.status = "ok"
    <2>1. Files(own, g, r, 1)
        BY <1>1, <1>2, <1>3, <1>6, ContinueLoginFiles
    <2> QED  BY <2>1 DEF r, op
<1>7. CASE StillPending(g, op.conn) /\ done.status = "failed"
    <2>1. Files(own, g, r, 1)
        BY <1>1, <1>2, <1>7, FailLoginRests, RestsFiles
    <2> QED  BY <2>1 DEF r, op
<1>8. CASE StillPending(g, op.conn) /\ done.status = "not_found"
    <2>1. Files(own, g, r, 1)
        BY <1>1, <1>2, <1>4, <1>8, PlayerNotFoundFiles
    <2> QED  BY <2>1 DEF r, op
<1> QED  BY <1>1, <1>5, <1>6, <1>7, <1>8

\* Every callback of the data service.
LEMMA CompleteFiles ==
    ASSUME NEW own, NEW g, GameInv(g), Booked(own, g), Roomy(g), NEW done \in Results,
           ResultOK(done), KnownOp(own, g.player_sequence, done.op),
           KnownResult(own, g.player_sequence, done), NextIsFor(own, g, done)
    PROVE  Files(own, g, Complete(g, done), 1)
<1> DEFINE r == Complete(g, done)
<1>1. /\ done.op.kind = "LoadPlayer" =>
           r = OnPlayerLoaded(g, done.op, done.status, done.value)
      /\ done.op.kind = "CreatePlayer" => r = OnPlayerCreated(g, done.op, done.status)
      /\ done.op.kind = "LoadSession" =>
           r = OnSessionLoaded(g, done.op, done.status, done.value)
      /\ done.op.kind = "StoreSession" => r = OnSessionStored(g, done.op, done.status)
      /\ done.op.kind = "SavePlayer" => r = g
    BY DEF Complete
<1>2. done.op \in AllOps
    BY DEF Results
<1> HIDE DEF r
<1>3. CASE done.op \in LoadPlayerOps
    <2>1. r = OnPlayerLoaded(g, done.op, done.status, done.value)
        BY <1>1, <1>3 DEF LoadPlayerOps
    <2>2. Files(own, g, r, 1)
        BY <1>3, <2>1, PlayerLoadedFiles
    <2> QED  BY <2>2 DEF r
<1>4. CASE done.op \in CreatePlayerOps
    <2>1. /\ r = OnPlayerCreated(g, done.op, done.status)
          /\ done.op.conn \in Connections /\ done.op.player \in Records
          /\ Known(own, g.player_sequence, done.op.player)
        BY <1>1, <1>4 DEF CreatePlayerOps, KnownOp
    <2>2. r = IF done.status = "ok"
                THEN ContinueLogin(g, done.op.conn, done.op.player, NoToken)
                ELSE FailLogin(g, done.op.conn, done.op.player.account)
        BY <2>1 DEF OnPlayerCreated
    <2>3. /\ Files(own, g, ContinueLogin(g, done.op.conn, done.op.player, NoToken), 1)
          /\ Files(own, g, FailLogin(g, done.op.conn, done.op.player.account), 1)
        BY <2>1, ContinueLoginFiles, FailLoginRests, RestsFiles
    <2>4. Files(own, g, r, 1)
        BY <2>2, <2>3
    <2> QED  BY <2>4 DEF r
<1>5. CASE done.op \in LoadSessionOps
    <2>1. /\ r = OnSessionLoaded(g, done.op, done.status, done.value)
          /\ done.op.conn \in Connections /\ done.op.player \in Records
          /\ Known(own, g.player_sequence, done.op.player)
        BY <1>1, <1>5 DEF LoadSessionOps, KnownOp
    <2>2. r = IF done.status = "ok" /\ done.value = done.op.token
                THEN StoreSessionAndFinish(g, done.op.conn, done.op.player, TRUE)
                ELSE FailLogin(g, done.op.conn, done.op.player.account)
        BY <2>1 DEF OnSessionLoaded
    <2>3. /\ Files(own, g, StoreSessionAndFinish(g, done.op.conn, done.op.player, TRUE), 1)
          /\ Files(own, g, FailLogin(g, done.op.conn, done.op.player.account), 1)
        BY <2>1, StoreSessionFiles, FailLoginRests, RestsFiles
    <2>4. Files(own, g, r, 1)
        BY <2>2, <2>3
    <2> QED  BY <2>4 DEF r
<1>6. CASE done.op \in StoreSessionOps
    <2> DEFINE fin == FinishLogin(g, done.op.conn, done.op.player, done.op.token,
                                  done.op.replace)
    <2>1. /\ r = OnSessionStored(g, done.op, done.status)
          /\ done.op.conn \in Connections /\ done.op.player \in Records
          /\ done.op.token \in Tokens /\ done.op.replace \in BOOLEAN
          /\ Known(own, g.player_sequence, done.op.player)
        BY <1>1, <1>6 DEF StoreSessionOps, KnownOp
    <2>2. r = IF done.status = "ok" THEN fin
                ELSE FailLogin(g, done.op.conn, done.op.player.account)
        BY <2>1 DEF OnSessionStored
    <2>3. Files(own, g, fin, 1)
        BY <2>1, FinishLoginFiles
    <2> HIDE DEF fin
    <2>4. Files(own, g, FailLogin(g, done.op.conn, done.op.player.account), 1)
        BY <2>1, FailLoginRests, RestsFiles
    <2>5. Files(own, g, r, 1)
        BY <2>2, <2>3, <2>4
    <2> QED  BY <2>5 DEF r
<1>7. CASE done.op \in SavePlayerOps
    <2>1. r = g
        BY <1>1, <1>7 DEF SavePlayerOps
    <2>2. Rests(g, r)
        BY <2>1 DEF Rests
    <2>3. Files(own, g, r, 1)
        BY <2>2, RestsFiles
    <2> QED  BY <2>3 DEF r
<1> QED  BY <1>2, <1>3, <1>4, <1>5, <1>6, <1>7 DEF AllOps

-----------------------------------------------------------------------------
(* The books, across queue, worker, completion queue and repository.       *)

KnownTasks(own, n, tasks) == \A i \in 1 .. Len(tasks) : KnownOp(own, n, tasks[i])

KnownHands(own, n, hands) ==
    \A v \in Workers :
        hands[v] # Idle =>
            /\ KnownOp(own, n, hands[v].op)
            /\ hands[v].stage = "done" => KnownResult(own, n, hands[v])

KnownResults(own, n, results) ==
    \A i \in 1 .. Len(results) :
        KnownOp(own, n, results[i].op) /\ KnownResult(own, n, results[i])

KnownRecords(own, n, store) ==
    \A a \in Accounts : store[a] # NoRecord => Known(own, n, store[a])

\* An id is one account's wherever it turns up.
Books(own, g, hands, results, store) ==
    /\ Booked(own, g)
    /\ KnownTasks(own, g.player_sequence, g.tasks)
    /\ KnownHands(own, g.player_sequence, hands)
    /\ KnownResults(own, g.player_sequence, results)
    /\ KnownRecords(own, g.player_sequence, store)

\* What the proof needs of SystemInv.
Typed(g, hands, results, store) ==
    /\ GameInv(g)
    /\ hands \in [Workers -> Hands]
    /\ \A v \in Workers : hands[v].stage = "done" => ResultOK(hands[v])
    /\ results \in Seq(Results)
    /\ \A i \in 1 .. Len(results) : ResultOK(results[i])
    /\ store \in [Accounts -> Records \cup {NoRecord}]
    /\ \A a \in Accounts : store[a] # NoRecord => store[a].account = a

\* More ids may be given out; those that were stay where they are.
Extends(own, n, own2, m) ==
    /\ n <= m
    /\ \A id \in PlayerIds : id <= n => own2[id] = own[id]

LEMMA KnownOn ==
    ASSUME NEW own, NEW own2, NEW n \in Nat, NEW m \in Nat, Extends(own, n, own2, m)
    PROVE  /\ \A r \in Records : Known(own, n, r) => Known(own2, m, r)
           /\ \A op \in AllOps : KnownOp(own, n, op) => KnownOp(own2, m, op)
           /\ \A r : ResultOK(r) /\ KnownResult(own, n, r) => KnownResult(own2, m, r)
<1>1. ASSUME NEW r \in Records, Known(own, n, r)
      PROVE  Known(own2, m, r)
    <2>1. r.id \in PlayerIds /\ r.id \in Nat
        BY GameAssumption DEF Records, PlayerIds
    <2> QED  BY <1>1, <2>1 DEF Known, Extends
<1>2. ASSUME NEW op \in AllOps, KnownOp(own, n, op)
      PROVE  KnownOp(own2, m, op)
    <2>1. op.kind # "LoadPlayer" => op.player \in Records
        BY DEF AllOps, LoadPlayerOps, CreatePlayerOps, LoadSessionOps, StoreSessionOps,
               SavePlayerOps
    <2> QED  BY <1>1, <1>2, <2>1 DEF KnownOp
<1>3. ASSUME NEW r, ResultOK(r), KnownResult(own, n, r)
      PROVE  KnownResult(own2, m, r)
    BY <1>1, <1>3 DEF KnownResult, ResultOK
<1> QED  BY <1>1, <1>2, <1>3

LEMMA TypedElements ==
    ASSUME NEW g, NEW hands, NEW results, NEW store, Typed(g, hands, results, store)
    PROVE  /\ g.player_sequence \in Nat
           /\ \A i \in 1 .. Len(g.tasks) : g.tasks[i] \in AllOps
           /\ \A v \in Workers : hands[v] # Idle => hands[v].op \in AllOps
           /\ \A i \in 1 .. Len(results) : results[i] \in Results /\ results[i].op \in AllOps
           /\ \A a \in Accounts : store[a] # NoRecord => store[a] \in Records
<1>1. g.player_sequence \in Nat /\ g.tasks \in Seq(AllOps)
    BY DEF Typed, GameInv, GameTypeOK
<1>2. \A i \in 1 .. Len(g.tasks) : g.tasks[i] \in AllOps
    BY <1>1, ElementOfSeq
<1>3. \A v \in Workers : hands[v] # Idle => hands[v].op \in AllOps
    <2>1. \A v \in Workers : hands[v] \in Hands
        BY DEF Typed
    <2>2. \A x \in Hands : x # Idle => x.op \in AllOps
        BY DEF Hands
    <2> QED  BY <2>1, <2>2
<1>4. \A i \in 1 .. Len(results) : results[i] \in Results
    BY ElementOfSeq DEF Typed
<1>5. \A r \in Results : r.op \in AllOps
    BY DEF Results
<1>6. \A a \in Accounts : store[a] # NoRecord => store[a] \in Records
    BY DEF Typed
<1> QED  BY <1>1, <1>2, <1>3, <1>4, <1>5, <1>6

\* The same for everything but the game's own tables.
LEMMA BooksOn ==
    ASSUME NEW g, NEW hands, NEW results, NEW store, Typed(g, hands, results, store),
           NEW own, NEW own2, NEW m \in Nat, Extends(own, g.player_sequence, own2, m),
           Books(own, g, hands, results, store)
    PROVE  /\ KnownTasks(own2, m, g.tasks)
           /\ KnownHands(own2, m, hands)
           /\ KnownResults(own2, m, results)
           /\ KnownRecords(own2, m, store)
<1> DEFINE n == g.player_sequence
<1>1. n \in Nat
    BY TypedElements
<1>2. Extends(own, n, own2, m)
    OBVIOUS
<1>3. /\ KnownTasks(own, n, g.tasks) /\ KnownHands(own, n, hands)
      /\ KnownResults(own, n, results) /\ KnownRecords(own, n, store)
    BY DEF Books
<1> HIDE DEF n
<1>4. /\ \A r \in Records : Known(own, n, r) => Known(own2, m, r)
      /\ \A op \in AllOps : KnownOp(own, n, op) => KnownOp(own2, m, op)
      /\ \A r : ResultOK(r) /\ KnownResult(own, n, r) => KnownResult(own2, m, r)
    BY <1>1, <1>2, KnownOn
<1>5. KnownTasks(own2, m, g.tasks)
    BY <1>3, <1>4, TypedElements DEF KnownTasks
<1>6. KnownHands(own2, m, hands)
    <2>1. ASSUME NEW v \in Workers, hands[v] # Idle
          PROVE  /\ KnownOp(own2, m, hands[v].op)
                 /\ hands[v].stage = "done" => KnownResult(own2, m, hands[v])
        <3>1. hands[v].op \in AllOps
            BY <2>1, TypedElements
        <3>2. hands[v].stage = "done" => ResultOK(hands[v])
            BY DEF Typed
        <3> QED  BY <1>3, <1>4, <2>1, <3>1, <3>2 DEF KnownHands
    <2> QED  BY <2>1 DEF KnownHands
<1>7. KnownResults(own2, m, results)
    <2>1. ASSUME NEW i \in 1 .. Len(results)
          PROVE  KnownOp(own2, m, results[i].op) /\ KnownResult(own2, m, results[i])
        <3>1. results[i].op \in AllOps
            BY TypedElements
        <3>2. ResultOK(results[i])
            BY DEF Typed
        <3> QED  BY <1>3, <1>4, <3>1, <3>2 DEF KnownResults
    <2> QED  BY <2>1 DEF KnownResults
<1>8. KnownRecords(own2, m, store)
    BY <1>3, <1>4, TypedElements DEF KnownRecords
<1> QED  BY <1>5, <1>6, <1>7, <1>8

-----------------------------------------------------------------------------
(* Where a player's position is kept.                                      *)

\* Save writes a record of this player.
Writes(op, id) == op.kind \in {"CreatePlayer", "SavePlayer"} /\ op.player.id = id

NotIn(tasks, id) == \A i \in 1 .. Len(tasks) : ~Writes(tasks[i], id)

\* The last of the queued writes.
LastIn(tasks, id, p) ==
    \E i \in 1 .. Len(tasks) :
        /\ Writes(tasks[i], id) /\ tasks[i].player.position = p
        /\ \A j \in 1 .. Len(tasks) : j > i => ~Writes(tasks[j], id)

HandWrites(hand, id) == hand.stage = "taken" /\ Writes(hand.op, id)

\* The position is in the queue; or in the worker's hands and not overtaken
\* by one in the queue; or in the repository, with nothing on its way there.
Kept(tasks, hand, store, id, p) ==
    \/ LastIn(tasks, id, p)
    \/ /\ NotIn(tasks, id)
       /\ HandWrites(hand, id) /\ hand.op.player.position = p
    \/ /\ NotIn(tasks, id) /\ ~HandWrites(hand, id)
       /\ \A a \in Accounts : store[a].id = id => store[a].position = p

AllKept(g, hand, store) ==
    \A id \in PlayerIds :
        ~IsOnline(g, id) /\ g.last_position[id] # Nowhere =>
            Kept(g.tasks, hand, store, id, g.last_position[id])

LEMMA QueueGrows ==
    ASSUME NEW tasks \in Seq(AllOps), NEW op, NEW id
    PROVE  /\ ~Writes(op, id) =>
                /\ NotIn(tasks, id) => NotIn(Append(tasks, op), id)
                /\ \A p : LastIn(tasks, id, p) => LastIn(Append(tasks, op), id, p)
           /\ Writes(op, id) => LastIn(Append(tasks, op), id, op.player.position)
<1> DEFINE new == Append(tasks, op)
<1>1. /\ Len(tasks) \in Nat /\ Len(new) = Len(tasks) + 1
      /\ \A i \in 1 .. Len(tasks) : new[i] = tasks[i]
      /\ new[Len(tasks) + 1] = op
    <2>1. PICK S : S = AllOps \cup {op}
        OBVIOUS
    <2>2. tasks \in Seq(S) /\ op \in S
        BY <2>1, SeqMonotonic
    <2> QED  BY <2>2, AppendProperties, LenProperties
<1> HIDE DEF new
<1>2. ASSUME ~Writes(op, id), NotIn(tasks, id)
      PROVE  NotIn(new, id)
    BY <1>1, <1>2 DEF NotIn
<1>3. ASSUME ~Writes(op, id), NEW p, LastIn(tasks, id, p)
      PROVE  LastIn(new, id, p)
    <2>1. PICK i \in 1 .. Len(tasks) :
            /\ Writes(tasks[i], id) /\ tasks[i].player.position = p
            /\ \A j \in 1 .. Len(tasks) : j > i => ~Writes(tasks[j], id)
        BY <1>3 DEF LastIn
    <2>2. i \in 1 .. Len(new) /\ Writes(new[i], id) /\ new[i].player.position = p
        BY <1>1, <2>1
    <2>3. \A j \in 1 .. Len(new) : j > i => ~Writes(new[j], id)
        BY <1>1, <1>3, <2>1
    <2> QED  BY <2>2, <2>3 DEF LastIn
<1>4. ASSUME Writes(op, id)
      PROVE  LastIn(new, id, op.player.position)
    <2>1. PICK i \in 1 .. Len(new) : i = Len(tasks) + 1
        BY <1>1
    <2>2. Writes(new[i], id) /\ new[i].player.position = op.player.position
        BY <1>1, <1>4, <2>1
    <2>3. \A j \in 1 .. Len(new) : ~(j > i)
        BY <1>1, <2>1
    <2> QED  BY <2>2, <2>3 DEF LastIn
<1> QED  BY <1>2, <1>3, <1>4 DEF new

\* The worker takes the first task: nothing in the queue overtakes it.
LEMMA QueueShrinks ==
    ASSUME NEW tasks \in Seq(AllOps), tasks # <<>>, NEW id
    PROVE  /\ NotIn(tasks, id) => NotIn(Tail(tasks), id) /\ ~Writes(Head(tasks), id)
           /\ \A p : LastIn(tasks, id, p) =>
                \/ LastIn(Tail(tasks), id, p)
                \/ /\ NotIn(Tail(tasks), id)
                   /\ Writes(Head(tasks), id) /\ Head(tasks).player.position = p
<1> DEFINE new == Tail(tasks)
<1>1. /\ Len(tasks) \in Nat \ {0} /\ Len(new) = Len(tasks) - 1
      /\ \A i \in 1 .. Len(new) : new[i] = tasks[i + 1]
      /\ Head(tasks) = tasks[1]
    BY LenProperties, EmptySeq, HeadTailProperties
<1> HIDE DEF new
<1>2. ASSUME NotIn(tasks, id)
      PROVE  NotIn(new, id) /\ ~Writes(Head(tasks), id)
    BY <1>1, <1>2 DEF NotIn
<1>3. ASSUME NEW p, LastIn(tasks, id, p)
      PROVE  \/ LastIn(new, id, p)
             \/ /\ NotIn(new, id)
                /\ Writes(Head(tasks), id) /\ Head(tasks).player.position = p
    <2>1. PICK i \in 1 .. Len(tasks) :
            /\ Writes(tasks[i], id) /\ tasks[i].player.position = p
            /\ \A j \in 1 .. Len(tasks) : j > i => ~Writes(tasks[j], id)
        BY <1>3 DEF LastIn
    <2>2. CASE i = 1
        <3>1. NotIn(new, id)
            BY <1>1, <2>1, <2>2 DEF NotIn
        <3> QED  BY <1>1, <2>1, <2>2, <3>1
    <2>3. CASE i # 1
        <3>1. PICK k \in 1 .. Len(new) : k + 1 = i
            <4>1. i - 1 \in 1 .. Len(new) /\ (i - 1) + 1 = i
                BY <1>1, <2>1, <2>3
            <4> QED  BY <4>1
        <3>2. Writes(new[k], id) /\ new[k].player.position = p
            BY <1>1, <2>1, <3>1
        <3>3. \A j \in 1 .. Len(new) : j > k => ~Writes(new[j], id)
            <4>1. ASSUME NEW j \in 1 .. Len(new), j > k
                  PROVE  ~Writes(new[j], id)
                <5>1. j + 1 \in 1 .. Len(tasks) /\ j + 1 > i
                    BY <1>1, <3>1, <4>1
                <5> QED  BY <1>1, <2>1, <5>1
            <4> QED  BY <4>1
        <3> QED  BY <3>2, <3>3 DEF LastIn
    <2> QED  BY <2>2, <2>3
<1> QED  BY <1>2, <1>3 DEF new

-----------------------------------------------------------------------------
(* What a handler does to them.                                            *)

LEMMA FilesKeepsBooks ==
    ASSUME NEW g, NEW hands, NEW results, NEW store, Typed(g, hands, results, store),
           NEW own, Books(own, g, hands, results, store),
           NEW h, GameInv(h), NEW d, Files(own, g, h, d)
    PROVE  Books(own, h, hands, results, store)
<1> DEFINE m == h.player_sequence
<1>1. m \in Nat
    BY DEF GameInv, GameTypeOK
<1>2. Extends(own, g.player_sequence, own, m)
    BY DEF Extends, Files
<1> HIDE DEF m
<1>3. /\ KnownTasks(own, m, g.tasks)
      /\ KnownHands(own, m, hands)
      /\ KnownResults(own, m, results)
      /\ KnownRecords(own, m, store)
    BY <1>1, <1>2, BooksOn
<1>4. KnownTasks(own, m, h.tasks)
    <2>1. CASE h.tasks = g.tasks
        BY <1>3, <2>1
    <2>2. ASSUME NEW op, Queues(own, g, h, op)
          PROVE  KnownTasks(own, m, h.tasks)
        <3>1. h.tasks = Append(g.tasks, op) /\ KnownOp(own, m, op)
            BY <2>2 DEF Queues, m
        <3>2. /\ Len(g.tasks) \in Nat /\ Len(h.tasks) = Len(g.tasks) + 1
              /\ \A i \in 1 .. Len(g.tasks) : h.tasks[i] = g.tasks[i]
              /\ h.tasks[Len(g.tasks) + 1] = op
            <4>1. PICK S : S = AllOps \cup {op}
                OBVIOUS
            <4>2. g.tasks \in Seq(AllOps)
                BY DEF Typed, GameInv, GameTypeOK
            <4>3. g.tasks \in Seq(S) /\ op \in S
                BY <4>1, <4>2, SeqMonotonic
            <4> QED  BY <3>1, <4>3, AppendProperties, LenProperties
        <3> QED  BY <1>3, <3>1, <3>2 DEF KnownTasks
    <2> QED  BY <2>1, <2>2 DEF Files
<1>5. Booked(own, h)
    BY DEF Files
<1> QED  BY <1>3, <1>4, <1>5 DEF Books, m

LEMMA FilesKeepsKept ==
    ASSUME NEW own, NEW g, GameInv(g), Booked(own, g), NEW h, NEW d, Files(own, g, h, d),
           NEW hand, NEW store, AllKept(g, hand, store)
    PROVE  AllKept(h, hand, store)
<1> SUFFICES ASSUME NEW id \in PlayerIds, ~IsOnline(h, id), h.last_position[id] # Nowhere
             PROVE  Kept(h.tasks, hand, store, id, h.last_position[id])
    BY DEF AllKept
<1> DEFINE p == h.last_position[id]
<1>1. Stays(g, h, id) => Kept(g.tasks, hand, store, id, p)
    BY DEF Stays, AllKept
<1>2. CASE h.tasks = g.tasks /\ Stays(g, h, id)
    BY <1>1, <1>2
<1>3. ASSUME NEW op, Queues(own, g, h, op)
      PROVE  Kept(h.tasks, hand, store, id, p)
    <2>1. g.tasks \in Seq(AllOps) /\ g.player_sequence \in Nat
        BY DEF GameInv, GameTypeOK
    <2>2. h.tasks = Append(g.tasks, op)
        BY <1>3 DEF Queues
    <2>3. CASE Writes(op, id) /\ op.kind = "SavePlayer"
        <3>1. op.player.position = p
            BY <1>3, <2>3 DEF Queues, Writes
        <3> QED  BY <2>1, <2>2, <2>3, <3>1, QueueGrows DEF Kept
    <2>4. CASE Writes(op, id) /\ op.kind # "SavePlayer"
        <3>1. op.kind = "CreatePlayer" /\ op.player.id = id
            BY <2>4 DEF Writes
        <3>2. id > g.player_sequence /\ Stays(g, h, id)
            BY <1>3, <3>1 DEF Queues
        <3>3. id <= g.player_sequence
            BY <3>2 DEF Stays, Booked
        <3>4. id \in Nat
            BY GameAssumption DEF PlayerIds
        <3> QED  BY <2>1, <3>2, <3>3, <3>4
    <2>5. CASE ~Writes(op, id)
        <3>1. Stays(g, h, id)
            BY <1>3, <2>5 DEF Queues, Writes
        <3>2. Kept(g.tasks, hand, store, id, p)
            BY <1>1, <3>1
        <3> HIDE DEF p
        <3>3. /\ NotIn(g.tasks, id) => NotIn(h.tasks, id)
              /\ LastIn(g.tasks, id, p) => LastIn(h.tasks, id, p)
            BY <2>1, <2>2, <2>5, QueueGrows
        <3> QED  BY <3>2, <3>3 DEF Kept
    <2> QED  BY <2>3, <2>4, <2>5
<1> QED  BY <1>2, <1>3 DEF Files

\* A step that touches none of it.
SameLedger(g, h) ==
    /\ h.online_players = g.online_players
    /\ h.last_position = g.last_position
    /\ h.player_sequence = g.player_sequence
    /\ h.tasks = g.tasks

LEMMA LedgerKept ==
    ASSUME NEW g, NEW h, SameLedger(g, h)
    PROVE  /\ \A own, hands, results, store :
                Books(own, g, hands, results, store) => Books(own, h, hands, results, store)
           /\ \A hand, store : AllKept(g, hand, store) => AllKept(h, hand, store)
           /\ Weight(h) = Weight(g)
BY DEF SameLedger, Books, Booked, AllKept, Weight, Online, IsOnline

LEMMA FirstKnown ==
    ASSUME NEW own, NEW n, NEW results \in Seq(Results), results # <<>>,
           KnownResults(own, n, results)
    PROVE  /\ KnownResults(own, n, Tail(results))
           /\ KnownOp(own, n, Head(results).op)
           /\ KnownResult(own, n, Head(results))
<1> DEFINE rest == Tail(results)
<1>1. /\ Len(results) \in Nat \ {0} /\ Len(rest) = Len(results) - 1
      /\ \A i \in 1 .. Len(rest) : rest[i] = results[i + 1]
      /\ Head(results) = results[1]
    BY LenProperties, EmptySeq, HeadTailProperties
<1> HIDE DEF rest
<1>2. KnownResults(own, n, rest)
    <2>1. \A i \in 1 .. Len(rest) : i + 1 \in 1 .. Len(results)
        BY <1>1
    <2> QED  BY <1>1, <2>1 DEF KnownResults
<1>3. 1 \in 1 .. Len(results)
    BY <1>1
<1> QED  BY <1>1, <1>2, <1>3 DEF KnownResults, rest

Owners == [PlayerIds -> Accounts \cup {NoAccount}]

\* The next id is still free: it can be entered for the account that gets it.
LEMMA NextIdIsFree ==
    ASSUME NEW g, NEW hands, NEW results, NEW store, Typed(g, hands, results, store),
           NEW own \in Owners, Books(own, g, hands, results, store),
           NEW done \in Results, WithinBounds(Complete(g, done))
    PROVE  \E own2 \in Owners :
             Books(own2, g, hands, results, store) /\ NextIsFor(own2, g, done)
<1> DEFINE n == g.player_sequence
           op == done.op
           first == /\ done.op.kind = "LoadPlayer" /\ done.status = "not_found"
                    /\ StillPending(g, done.op.conn)
<1>1. CASE ~first
    BY <1>1 DEF NextIsFor
<1>2. CASE first
    <2>1. op \in LoadPlayerOps /\ op.conn \in Connections /\ op.account \in Accounts
        <3>1. op \in AllOps
            BY DEF Results
        <3>2. op \in LoadPlayerOps
            BY <1>2, <3>1 DEF AllOps, CreatePlayerOps, LoadSessionOps, StoreSessionOps,
                              SavePlayerOps
        <3> QED  BY <3>2 DEF LoadPlayerOps
    <2>2. n \in Nat /\ GameInv(g) /\ DOMAIN g = GameFields
        BY DEF Typed, GameInv, GameTypeOK
    <2> DEFINE next == n + 1
               h == Numbered(g, next)
               create == [kind |-> "CreatePlayer", conn |-> op.conn,
                          player |-> NewPlayer(g, op.account)]
               s == Submit(h, create)
               t == FailLogin(h, op.conn, op.account)
               r == Complete(g, done)
    <2>3. r = s \/ r = t
        <3>1. r = OnPlayerLoaded(g, op, done.status, done.value)
            BY <1>2 DEF Complete
        <3>2. r = PlayerNotFound(g, op)
            BY <1>2, <3>1 DEF OnPlayerLoaded
        <3> QED  BY <3>2 DEF PlayerNotFound, NewPlayer, Numbered
    <2>4. next \in PlayerIds
        <3>1. next \in Nat /\ next > 0
            BY <2>2
        <3>2. GameInv(h) /\ h.player_sequence = next /\ DOMAIN h = GameFields
            <4>1. GameInv(h)
                BY <2>2, <3>1, NumberedKeepsInv
            <4> QED  BY <2>2, <4>1 DEF Numbered, GameFields
        <3> HIDE DEF h, create
        <3>3. s.player_sequence = next /\ t.player_sequence = next
            BY <2>1, <3>2, SubmitFrame, FailLoginRests DEF Rests
        <3> HIDE DEF s, t
        <3>4. r.player_sequence <= MaxLogins
            BY DEF WithinBounds
        <3> HIDE DEF r, next
        <3> QED  BY <2>3, <3>1, <3>3, <3>4, GameAssumption DEF PlayerIds
    <2> HIDE DEF next
    <2> DEFINE own2 == [own EXCEPT ![next] = op.account]
    <2>5. own2 \in Owners /\ own2[next] = op.account
        BY <2>1, <2>4 DEF Owners
    <2>6. Extends(own, n, own2, n)
        <3>1. ASSUME NEW id \in PlayerIds, id <= n PROVE own2[id] = own[id]
            <4>1. id # next
                BY <2>2, <3>1, GameAssumption DEF PlayerIds, next
            <4> QED  BY <4>1 DEF Owners
        <3> QED  BY <2>2, <3>1 DEF Extends
    <2> HIDE DEF own2, n
    <2>7. /\ KnownTasks(own2, n, g.tasks)
          /\ KnownHands(own2, n, hands)
          /\ KnownResults(own2, n, results)
          /\ KnownRecords(own2, n, store)
        BY <2>2, <2>6, BooksOn DEF n
    <2>8. Booked(own2, g)
        <3>1. \A x \in Records : Known(own, n, x) => Known(own2, n, x)
            BY <2>2, <2>6, KnownOn
        <3>2. \A id \in PlayerIds : IsOnline(g, id) => g.online_players[id].record \in Records
            <4>1. g.online_players \in [PlayerIds -> {Offline} \cup Entries]
                BY <2>2 DEF GameInv, GameTypeOK
            <4> QED  BY <4>1 DEF IsOnline, Entries
        <3> QED  BY <3>1, <3>2 DEF Booked, Books, n
    <2>9. Books(own2, g, hands, results, store)
        BY <2>7, <2>8 DEF Books, n
    <2>10. NextIsFor(own2, g, done)
        BY <2>5 DEF NextIsFor, next, n
    <2> QED  BY <2>5, <2>9, <2>10
<1> QED  BY <1>1, <1>2

-----------------------------------------------------------------------------
(* The system, with one worker.                                            *)

Burden(hand) == IF hand.stage = "idle" THEN 0 ELSE 1

\* The books are in order, every position is kept, and every login request
\* accounts for one operation or player at the most.
Ledger(w, g, hands, results, store, requests) ==
    /\ \E own \in Owners : Books(own, g, hands, results, store)
    /\ AllKept(g, hands[w], store)
    /\ Weight(g) + Burden(hands[w]) + Len(results) <= requests

\* The pool takes operations until all connections are closed.
Closing ==
    ~game.accepting => game.conns = {} /\ phase \in {"join", "final", "stopped"}

\* The inductive invariant.
SavedInv(w) ==
    /\ failed_saves \in Nat
    /\ logins \in 0 .. MaxLogins
    /\ failed_saves = 0 => Closing /\ Ledger(w, game, running, completions, players, logins)

Room == Len(game.tasks) < QueueCapacity

LEMMA SystemIsTyped ==
    ASSUME SystemInv
    PROVE  /\ Typed(game, running, completions, players)
           /\ Weight(game) \in Nat /\ Len(completions) \in Nat
<1>1. GameInv(game) /\ completions \in Seq(Results)
    BY DEF SystemInv
<1>2. Typed(game, running, completions, players)
    BY DEF SystemInv, Typed
<1> QED  BY <1>1, <1>2, WeightIsNat, LenProperties

LEMMA BurdenIsNat == \A hand : Burden(hand) \in Nat
BY DEF Burden

\* A handler that runs for no completion.
LEMMA HandlerStep ==
    ASSUME NEW w \in Workers, NEW g, NEW hands, NEW results, NEW store, NEW n \in Nat,
           Typed(g, hands, results, store), Ledger(w, g, hands, results, store, n),
           NEW h, GameInv(h), NEW d \in {0, 1},
           \A own : Booked(own, g) => Files(own, g, h, d)
    PROVE  Ledger(w, h, hands, results, store, n + d)
<1>1. PICK own \in Owners : Books(own, g, hands, results, store)
    BY DEF Ledger
<1>2. Booked(own, g) /\ GameInv(g)
    BY <1>1 DEF Books, Typed
<1>3. Files(own, g, h, d)
    BY <1>2
<1>4. Books(own, h, hands, results, store)
    BY <1>1, <1>3, FilesKeepsBooks
<1>5. AllKept(h, hands[w], store)
    BY <1>2, <1>3, FilesKeepsKept DEF Ledger
<1>6. Weight(h) + Burden(hands[w]) + Len(results) <= n + d
    <2>1. Weight(h) \in Nat /\ Weight(g) \in Nat /\ Len(results) \in Nat
        BY <1>2, WeightIsNat, LenProperties DEF Typed
    <2> QED  BY <1>3, <2>1, BurdenIsNat DEF Files, Ledger
<1> QED  BY <1>1, <1>4, <1>5, <1>6 DEF Ledger

\* Drain hands the first completion to its callback.
LEMMA CallbackStep ==
    ASSUME NEW w \in Workers, NEW g, NEW hands, NEW results, NEW store, NEW n \in Nat,
           Typed(g, hands, results, store), Ledger(w, g, hands, results, store, n),
           Roomy(g), results # <<>>,
           WithinBounds(Complete(g, Head(results))), GameInv(Complete(g, Head(results)))
    PROVE  /\ Ledger(w, Complete(g, Head(results)), hands, Tail(results), store, n)
           /\ \E own : Files(own, g, Complete(g, Head(results)), 1)
<1> DEFINE done == Head(results)
           rest == Tail(results)
           h == Complete(g, done)
<1>1. /\ done \in Results /\ ResultOK(done) /\ rest \in Seq(Results)
      /\ Len(rest) = Len(results) - 1 /\ Len(results) \in Nat /\ Len(rest) \in Nat
      /\ GameInv(g)
    <2>1. results \in Seq(Results) /\ \A i \in 1 .. Len(results) : ResultOK(results[i])
        BY DEF Typed
    <2>2. Len(results) \in Nat \ {0} /\ done = results[1] /\ done \in Results
          /\ rest \in Seq(Results) /\ Len(rest) = Len(results) - 1
        BY <2>1, EmptySeq, LenProperties, HeadTailProperties
    <2>3. 1 \in 1 .. Len(results)
        BY <2>2
    <2> QED  BY <2>1, <2>2, <2>3 DEF Typed
<1>2. WithinBounds(h) /\ GameInv(h)
    OBVIOUS
<1>3. \A own, m : KnownResults(own, m, results) =>
          /\ KnownResults(own, m, rest)
          /\ KnownOp(own, m, done.op) /\ KnownResult(own, m, done)
    BY FirstKnown DEF Typed
<1> HIDE DEF done, rest
<1>4. PICK own \in Owners : Books(own, g, hands, results, store) /\ NextIsFor(own, g, done)
    <2>1. PICK own1 \in Owners : Books(own1, g, hands, results, store)
        BY DEF Ledger
    <2> QED  BY <1>1, <1>2, <2>1, NextIdIsFree
<1> HIDE DEF h
<1>5. /\ Booked(own, g) /\ KnownOp(own, g.player_sequence, done.op)
      /\ KnownResult(own, g.player_sequence, done)
    BY <1>3, <1>4 DEF Books
<1>6. Files(own, g, h, 1)
    BY <1>1, <1>4, <1>5, CompleteFiles DEF h
<1>7. Books(own, h, hands, results, store)
    BY <1>2, <1>4, <1>6, FilesKeepsBooks
<1>8. Books(own, h, hands, rest, store)
    BY <1>3, <1>7 DEF Books
<1>9. AllKept(h, hands[w], store)
    BY <1>1, <1>5, <1>6, FilesKeepsKept DEF Ledger
<1>10. Weight(h) + Burden(hands[w]) + Len(rest) <= n
    <2>1. Weight(h) \in Nat /\ Weight(g) \in Nat
        BY <1>1, <1>2, WeightIsNat
    <2> QED  BY <1>1, <1>6, <2>1, BurdenIsNat DEF Files, Ledger
<1>11. Ledger(w, h, hands, rest, store, n)
    BY <1>8, <1>9, <1>10 DEF Ledger
<1> QED  BY <1>6, <1>11 DEF h, done, rest

\* The worker takes the first task of the queue.
LEMMA TakeStep ==
    ASSUME NEW w, Workers = {w}, NEW g, NEW hands, NEW results, NEW store, NEW n \in Nat,
           Typed(g, hands, results, store), Ledger(w, g, hands, results, store, n),
           hands[w] = Idle, g.tasks # <<>>,
           NEW h, h.online_players = g.online_players, h.last_position = g.last_position,
           h.player_sequence = g.player_sequence, h.tasks = Tail(g.tasks)
    PROVE  Ledger(w, h, [hands EXCEPT ![w] = [stage |-> "taken", op |-> Head(g.tasks)]],
                  results, store, n)
<1> DEFINE hand == [stage |-> "taken", op |-> Head(g.tasks)]
           hands2 == [hands EXCEPT ![w] = hand]
           m == g.player_sequence
<1>1. /\ g.tasks \in Seq(AllOps) /\ GameInv(g) /\ hands \in [Workers -> Hands]
    BY DEF Typed, GameInv, GameTypeOK
<1>2. /\ Len(g.tasks) \in Nat \ {0} /\ Len(h.tasks) = Len(g.tasks) - 1
      /\ \A i \in 1 .. Len(h.tasks) : h.tasks[i] = g.tasks[i + 1]
      /\ Head(g.tasks) = g.tasks[1]
    BY <1>1, LenProperties, EmptySeq, HeadTailProperties
<1>3. hand.stage = "taken" /\ hand.op = Head(g.tasks)
    OBVIOUS
<1>4. hands2[w] = hand
    BY <1>1
<1> HIDE DEF hand
<1>5. PICK own \in Owners : Books(own, g, hands, results, store)
    BY DEF Ledger
<1>6. Books(own, h, hands2, results, store)
    <2>1. KnownTasks(own, m, g.tasks)
        BY <1>5 DEF Books
    <2>2. KnownTasks(own, m, h.tasks) /\ KnownOp(own, m, hand.op)
        <3>1. /\ 1 \in 1 .. Len(g.tasks)
              /\ \A i \in 1 .. Len(h.tasks) : i + 1 \in 1 .. Len(g.tasks)
            BY <1>2
        <3> QED  BY <1>2, <1>3, <2>1, <3>1 DEF KnownTasks
    <2>3. KnownHands(own, m, hands2)
        BY <1>3, <1>4, <2>2 DEF KnownHands
    <2>4. Booked(own, h)
        BY <1>5 DEF Books, Booked, IsOnline
    <2> HIDE DEF hands2
    <2> QED  BY <1>5, <2>2, <2>3, <2>4 DEF Books
<1>7. AllKept(h, hand, store)
    <2> SUFFICES ASSUME NEW id \in PlayerIds, ~IsOnline(h, id),
                        h.last_position[id] # Nowhere
                 PROVE  Kept(h.tasks, hand, store, id, h.last_position[id])
        BY DEF AllKept
    <2> DEFINE p == h.last_position[id]
    <2>1. Kept(g.tasks, Idle, store, id, p)
        BY DEF Ledger, AllKept, IsOnline
    <2>2. ~HandWrites(Idle, id)
        BY DEF HandWrites, Idle
    <2>3. /\ NotIn(g.tasks, id) => NotIn(h.tasks, id) /\ ~Writes(hand.op, id)
          /\ LastIn(g.tasks, id, p) =>
                \/ LastIn(h.tasks, id, p)
                \/ /\ NotIn(h.tasks, id)
                   /\ Writes(hand.op, id) /\ hand.op.player.position = p
        <3> HIDE DEF p
        <3> QED  BY <1>1, <1>3, QueueShrinks
    <2> HIDE DEF p
    <2>4. Kept(h.tasks, hand, store, id, p)
        <3>1. CASE LastIn(g.tasks, id, p)
            BY <1>3, <2>3, <3>1 DEF Kept, HandWrites
        <3>2. CASE ~LastIn(g.tasks, id, p)
            <4>1. /\ NotIn(g.tasks, id)
                  /\ \A a \in Accounts : store[a].id = id => store[a].position = p
                BY <2>1, <2>2, <3>2 DEF Kept
            <4> QED  BY <2>3, <4>1 DEF Kept, HandWrites
        <3> QED  BY <3>1, <3>2
    <2> QED  BY <2>4 DEF p
<1>8. Weight(h) + Burden(hand) + Len(results) <= n
    <2>1. Online(h) = Online(g)
        BY DEF Online, IsOnline
    <2>2. Weight(h) = Weight(g) - 1 /\ Weight(g) \in Nat
        BY <1>1, <1>2, <2>1, WeightIsNat DEF Weight
    <2>3. Burden(hands[w]) = 0 /\ Burden(hand) = 1
        BY <1>3 DEF Burden, Idle
    <2>4. Len(results) \in Nat
        BY LenProperties DEF Typed
    <2> QED  BY <2>2, <2>3, <2>4 DEF Ledger
<1> HIDE DEF hands2
<1>9. Ledger(w, h, hands2, results, store, n)
    BY <1>4, <1>5, <1>6, <1>7, <1>8 DEF Ledger
<1> QED  BY <1>9 DEF hands2, hand

\* The worker has run its operation.  A record that was in its hands is now
\* the only one of its player in the repository.
LEMMA OperateStep ==
    ASSUME NEW w, Workers = {w}, NEW g, NEW hands, NEW results, NEW store, NEW n \in Nat,
           Typed(g, hands, results, store), Ledger(w, g, hands, results, store, n),
           hands[w].stage = "taken",
           NEW hand, hand.stage = "done", hand.op = hands[w].op,
           \A own : Books(own, g, hands, results, store) =>
                        KnownResult(own, g.player_sequence, hand),
           NEW store2,
           IF hand.op.kind \in {"CreatePlayer", "SavePlayer"}
             THEN store2 = [store EXCEPT ![hand.op.player.account] = hand.op.player]
             ELSE store2 = store
    PROVE  Ledger(w, g, [hands EXCEPT ![w] = hand], results, store2, n)
<1> DEFINE hands2 == [hands EXCEPT ![w] = hand]
           op == hand.op
           record == op.player
           m == g.player_sequence
           saves == op.kind \in {"CreatePlayer", "SavePlayer"}
<1>1. /\ GameInv(g) /\ hands \in [Workers -> Hands] /\ m \in Nat
      /\ store \in [Accounts -> Records \cup {NoRecord}]
      /\ \A a \in Accounts : store[a] # NoRecord => store[a].account = a
    BY DEF Typed, GameInv, GameTypeOK
<1>2. hands2[w] = hand
    BY <1>1
<1>3. hands[w] # Idle /\ hand # Idle
    BY DEF Idle
<1>4. saves => record \in Records /\ record.account \in Accounts
    <2>1. op \in AllOps
        BY <1>3, TypedElements
    <2>2. \A x \in AllOps : x.kind \in {"CreatePlayer", "SavePlayer"} => x.player \in Records
        BY DEF AllOps, LoadPlayerOps, CreatePlayerOps, LoadSessionOps, StoreSessionOps,
               SavePlayerOps
    <2>3. \A x \in Records : x.account \in Accounts
        BY DEF Records
    <2> QED  BY <2>1, <2>2, <2>3
<1>5. /\ ~saves => store2 = store
      /\ saves => /\ store2[record.account] = record
                  /\ \A a \in Accounts \ {record.account} : store2[a] = store[a]
    BY <1>1, <1>4
<1>6. PICK own \in Owners : Books(own, g, hands, results, store)
    BY DEF Ledger
<1>7. KnownOp(own, m, op) /\ KnownResult(own, m, hand) /\ KnownRecords(own, m, store)
    <2>1. KnownHands(own, m, hands) /\ KnownRecords(own, m, store)
        BY <1>6 DEF Books
    <2> QED  BY <1>3, <1>6, <2>1 DEF KnownHands
<1>8. saves => Known(own, m, record)
    BY <1>7 DEF KnownOp
<1>9. Books(own, g, hands2, results, store2)
    <2>1. KnownHands(own, m, hands2)
        BY <1>2, <1>7 DEF KnownHands
    <2>2. KnownRecords(own, m, store2)
        <3>1. CASE ~saves
            BY <1>5, <1>7, <3>1
        <3>2. CASE saves
            BY <1>5, <1>7, <1>8, <3>2 DEF KnownRecords
        <3> QED  BY <3>1, <3>2
    <2> HIDE DEF hands2
    <2> QED  BY <1>6, <2>1, <2>2 DEF Books
<1>10. AllKept(g, hand, store2)
    <2> SUFFICES ASSUME NEW id \in PlayerIds, ~IsOnline(g, id),
                        g.last_position[id] # Nowhere
                 PROVE  Kept(g.tasks, hand, store2, id, g.last_position[id])
        BY DEF AllKept
    <2> DEFINE p == g.last_position[id]
    <2>1. Kept(g.tasks, hands[w], store, id, p)
        BY DEF Ledger, AllKept
    <2>2. ~HandWrites(hand, id)
        BY DEF HandWrites
    <2>3. HandWrites(hands[w], id) <=> saves /\ record.id = id
        BY DEF HandWrites, Writes
    <2> HIDE DEF p
    <2>4. CASE LastIn(g.tasks, id, p)
        BY <2>4 DEF Kept, p
    <2>5. CASE NotIn(g.tasks, id) /\ HandWrites(hands[w], id) /\ record.position = p
        <3>1. saves /\ record.id = id
            BY <2>3, <2>5
        <3>2. ASSUME NEW a \in Accounts, store2[a].id = id
              PROVE  store2[a].position = p
            <4>1. CASE a = record.account
                BY <1>5, <2>5, <3>1, <4>1
            <4>2. CASE a # record.account
                <5>1. store2[a] = store[a] /\ store[a].id = id
                    BY <1>5, <3>1, <3>2, <4>2
                <5>2. store[a] # NoRecord
                    BY <5>1, NothingIsNothing DEF NoRecord
                <5>3. own[id] = store[a].account /\ store[a].account = a
                    BY <1>1, <1>7, <5>1, <5>2 DEF KnownRecords, Known
                <5>4. own[id] = record.account
                    BY <1>8, <3>1 DEF Known
                <5> QED  BY <4>2, <5>3, <5>4
            <4> QED  BY <4>1, <4>2
        <3> QED  BY <2>2, <2>5, <3>2 DEF Kept, p
    <2>6. CASE /\ NotIn(g.tasks, id) /\ ~HandWrites(hands[w], id)
               /\ \A a \in Accounts : store[a].id = id => store[a].position = p
        <3>1. ASSUME NEW a \in Accounts, store2[a].id = id
              PROVE  store2[a].position = p
            <4>1. store2[a] = store[a]
                BY <1>5, <2>3, <2>6, <3>1
            <4> QED  BY <2>6, <3>1, <4>1
        <3> QED  BY <2>2, <2>6, <3>1 DEF Kept, p
    <2> QED  BY <2>1, <2>4, <2>5, <2>6 DEF Kept
<1>11. Burden(hand) = Burden(hands[w])
    BY DEF Burden
<1> HIDE DEF hands2
<1>12. Ledger(w, g, hands2, results, store2, n)
    BY <1>2, <1>6, <1>9, <1>10, <1>11 DEF Ledger
<1> QED  BY <1>12 DEF hands2

\* The result joins the completion queue.
LEMMA PushStep ==
    ASSUME NEW w, Workers = {w}, NEW g, NEW hands, NEW results, NEW store, NEW n \in Nat,
           Typed(g, hands, results, store), Ledger(w, g, hands, results, store, n),
           hands[w].stage = "done",
           NEW result \in Results, result.op = hands[w].op,
           result.status = hands[w].status, result.value = hands[w].value
    PROVE  Ledger(w, g, [hands EXCEPT ![w] = Idle], Append(results, result), store, n)
<1> DEFINE hands2 == [hands EXCEPT ![w] = Idle]
           results2 == Append(results, result)
           m == g.player_sequence
<1>1. /\ hands \in [Workers -> Hands] /\ results \in Seq(Results) /\ GameInv(g)
    BY DEF Typed
<1>2. hands2[w] = Idle /\ hands[w] # Idle
    BY <1>1 DEF Idle
<1>3. /\ Len(results) \in Nat /\ Len(results2) = Len(results) + 1
      /\ results2[Len(results) + 1] = result
      /\ \A i \in 1 .. Len(results) : results2[i] = results[i]
    BY <1>1, AppendProperties, LenProperties
<1>4. PICK own \in Owners : Books(own, g, hands, results, store)
    BY DEF Ledger
<1>5. KnownHands(own, m, hands) /\ KnownResults(own, m, results)
    BY <1>4 DEF Books
<1>6. KnownOp(own, m, result.op) /\ KnownResult(own, m, result)
    BY <1>2, <1>5 DEF KnownHands, KnownResult
<1> HIDE DEF results2
<1>7. KnownResults(own, m, results2)
    <2>1. \A i \in 1 .. Len(results2) : i \in 1 .. Len(results) \/ i = Len(results) + 1
        BY <1>3
    <2> QED  BY <1>3, <1>5, <1>6, <2>1 DEF KnownResults
<1>8. KnownHands(own, m, hands2)
    BY <1>2, <1>5 DEF KnownHands
<1>9. AllKept(g, Idle, store)
    <2>1. \A id : ~HandWrites(Idle, id) /\ ~HandWrites(hands[w], id)
        BY DEF HandWrites, Idle
    <2>2. AllKept(g, hands[w], store)
        BY DEF Ledger
    <2>3. \A id, p : Kept(g.tasks, hands[w], store, id, p) => Kept(g.tasks, Idle, store, id, p)
        BY <2>1 DEF Kept
    <2> QED  BY <2>2, <2>3 DEF AllKept
<1>10. Weight(g) + Burden(Idle) + Len(results2) <= n
    <2>1. Burden(Idle) = 0 /\ Burden(hands[w]) = 1
        BY DEF Burden, Idle
    <2> QED  BY <1>1, <1>3, <2>1, WeightIsNat DEF Ledger
<1> HIDE DEF hands2
<1>11. Books(own, g, hands2, results2, store)
    BY <1>4, <1>7, <1>8 DEF Books
<1>12. Ledger(w, g, hands2, results2, store, n)
    BY <1>2, <1>4, <1>9, <1>10, <1>11 DEF Ledger
<1> QED  BY <1>12 DEF hands2, results2

-----------------------------------------------------------------------------
(* The steps of the system, as long as no Save has failed.                 *)

LEMMA AcceptsWhileOpen ==
    ASSUME NEW w, SavedInv(w), failed_saves = 0,
           phase \notin {"join", "final", "stopped"}
    PROVE  game.accepting
BY DEF SavedInv, Closing

LEMMA RoomToLeave ==
    ASSUME NEW w, SavedInv(w), failed_saves = 0, Room
    PROVE  Roomy(game)
BY DEF SavedInv, Closing, Room, Roomy, CanSubmit

\* Handlers of a client's message, and CloseConnection.
LEMMA HandlerSaves ==
    ASSUME NEW w \in Workers, SystemInv, SystemInv', SavedInv(w), failed_saves = 0, game.accepting,
           NEW d \in {0, 1}, logins' = logins + d, logins' \in 0 .. MaxLogins,
           UNCHANGED <<failed_saves, running, completions, players>>,
           \A own : Booked(own, game) => Files(own, game, game', d)
    PROVE  SavedInv(w)'
<1>1. Typed(game, running, completions, players) /\ GameInv(game')
    BY SystemIsTyped DEF SystemInv
<1>2. logins \in Nat /\ Ledger(w, game, running, completions, players, logins)
    BY GameAssumption DEF SavedInv
<1>3. PICK n \in Nat : n = logins
    BY <1>2
<1>4. PICK h : h = game'
    OBVIOUS
<1>5. PICK results : results = completions
    OBVIOUS
<1>6. Ledger(w, h, running, results, players, n + d)
    BY <1>1, <1>2, <1>3, <1>4, <1>5, HandlerStep
<1>7. Ledger(w, game', running', completions', players', logins')
    BY <1>3, <1>4, <1>5, <1>6
<1>8. game'.accepting
    <2>1. PICK own : Booked(own, game)
        BY <1>2 DEF Ledger, Books
    <2> QED  BY <2>1 DEF Files
<1>9. failed_saves' = 0 /\ failed_saves' \in Nat
    OBVIOUS
<1> QED  BY <1>7, <1>8, <1>9 DEF SavedInv, Closing

LEMMA LoginFrameSaves ==
    ASSUME NEW w \in Workers, SystemInv, SystemInv', SavedInv(w), failed_saves = 0,
           NEW c \in Connections, LoginFrame(c)
    PROVE  SavedInv(w)'
<1>1. /\ GameInv(game) /\ c \in game.conns /\ phase \in {"idle", "client"}
      /\ logins' = logins + 1 /\ logins < MaxLogins
      /\ UNCHANGED <<failed_saves, running, completions, players>>
    BY DEF SystemInv, LoginFrame, InFrame, IsConnected, stores
<1>2. game.accepting
    BY <1>1, AcceptsWhileOpen
<1>3. PICK account \in Asks[c] \cup {NoAccount}, token \in Presentable :
        game' = HandleLogin(Presenting(game, c, token), c, account, token)
    BY DEF LoginFrame, Presenting
<1>4. account \in Accounts \cup {NoAccount}
    BY <1>3, SystemAssumption
<1> DEFINE g == Presenting(game, c, token)
<1>5. GameInv(g) /\ Rests(game, g) /\ TablesKept(game, g)
    BY <1>1, PresentingKeepsInv, PendingRests
<1>6. game' = HandleLogin(g, c, account, token)
    BY <1>3
<1> HIDE DEF g
<1>7. ASSUME NEW own, Booked(own, game)
      PROVE  Files(own, game, game', 1)
    <2>1. Booked(own, g) /\ c \in g.conns
        BY <1>1, <1>5, <1>7, SameBooks DEF TablesKept
    <2>2. Files(own, g, game', 1)
        BY <1>4, <1>5, <1>6, <2>1, HandleLoginFiles
    <2> QED  BY <1>5, <2>2, RestsThenFiles
<1>8. logins' \in 0 .. MaxLogins
    BY <1>1, GameAssumption DEF SavedInv
<1>9. PICK d \in {0, 1} : d = 1
    OBVIOUS
<1>10. logins' = logins + d /\ \A own : Booked(own, game) => Files(own, game, game', d)
    BY <1>1, <1>7, <1>9
<1> QED  BY <1>1, <1>2, <1>8, <1>10, HandlerSaves

\* The other messages, and the connections that are closed.
LEMMA QuietHandlerSaves ==
    ASSUME NEW w \in Workers, SystemInv, SystemInv', SavedInv(w), failed_saves = 0, game.accepting,
           UNCHANGED <<logins, failed_saves, running, completions, players>>,
           \A own : Booked(own, game) => Files(own, game, game', 0)
    PROVE  SavedInv(w)'
<1>1. PICK d \in {0, 1} : d = 0
    OBVIOUS
<1>2. /\ logins' = logins + d /\ logins' \in 0 .. MaxLogins
      /\ \A own : Booked(own, game) => Files(own, game, game', d)
    BY <1>1, GameAssumption DEF SavedInv
<1> QED  BY <1>2, HandlerSaves

LEMMA ClientFrameSaves ==
    ASSUME NEW w \in Workers, SystemInv, SystemInv', SavedInv(w), failed_saves = 0, Room,
           NEW c \in Connections, ClientFrame(c)
    PROVE  SavedInv(w)'
<1>1. CASE LoginFrame(c)
    BY <1>1, LoginFrameSaves
<1>2. CASE MoveFrame(c) \/ ChatFrame(c) \/ HeartbeatFrame(c) \/ UnknownFrame(c)
    <2>1. /\ GameInv(game) /\ phase \in {"idle", "client"}
          /\ UNCHANGED <<logins, failed_saves, running, completions, players>>
        BY <1>2 DEF SystemInv, MoveFrame, ChatFrame, HeartbeatFrame, UnknownFrame, InFrame,
                    stores, bounds
    <2>2. game.accepting /\ Roomy(game)
        BY <2>1, AcceptsWhileOpen, RoomToLeave
    <2>3. ASSUME NEW own, Booked(own, game)
          PROVE  Files(own, game, game', 0)
        <3>1. CASE MoveFrame(c)
            <4>1. PICK position \in Positions : game' = HandleMove(game, c, position)
                BY <3>1 DEF MoveFrame
            <4> QED  BY <2>1, <2>3, <4>1, HandleMoveFiles
        <3>2. CASE ChatFrame(c) \/ HeartbeatFrame(c)
            <4>1. Rests(game, game')
                BY <2>1, <3>2, ChatRests DEF ChatFrame, HeartbeatFrame
            <4> QED  BY <2>1, <2>3, <4>1, RestsFiles
        <3>3. CASE UnknownFrame(c)
            <4>1. game' = CloseConnection(game, c)
                BY <3>3 DEF UnknownFrame
            <4> QED  BY <2>1, <2>2, <2>3, <4>1, CloseFiles
        <3> QED  BY <1>2, <3>1, <3>2, <3>3
    <2> QED  BY <2>1, <2>2, <2>3, QuietHandlerSaves
<1> QED  BY <1>1, <1>2 DEF ClientFrame

LEMMA ClosingSaves ==
    ASSUME NEW w \in Workers, SystemInv, SystemInv', SavedInv(w), failed_saves = 0, Room,
           CloseMarked \/ CloseOnTeardown
    PROVE  SavedInv(w)'
<1>1. /\ GameInv(game) /\ phase \in {"close", "teardown"}
      /\ UNCHANGED <<logins, failed_saves, running, completions, players>>
    BY DEF SystemInv, CloseMarked, CloseOnTeardown, stores, bounds
<1>2. game.accepting /\ Roomy(game)
    BY <1>1, AcceptsWhileOpen, RoomToLeave
<1>3. PICK c \in Connections : game' = CloseConnection(game, c)
    <2>1. game.conns \subseteq Connections /\ game.marked_for_close \subseteq Connections
        BY <1>1 DEF GameInv, GameTypeOK
    <2> QED  BY <2>1 DEF CloseMarked, CloseOnTeardown
<1>4. \A own : Booked(own, game) => Files(own, game, game', 0)
    BY <1>1, <1>2, <1>3, CloseFiles
<1> QED  BY <1>1, <1>2, <1>4, QuietHandlerSaves

LEMMA DrainOneSaves ==
    ASSUME NEW w \in Workers, SystemInv, SystemInv', SavedInv(w), failed_saves = 0, Room, DrainOne
    PROVE  SavedInv(w)'
<1> DEFINE done == Head(completions)
<1>1. /\ game' = Complete(game, done) /\ WithinBounds(game')
      /\ completions # <<>> /\ completions' = Tail(completions)
      /\ phase \in {"idle", "drain", "final"}
      /\ phase' = IF phase = "final" THEN phase ELSE "drain"
      /\ UNCHANGED <<logins, failed_saves, running, players>>
    BY DEF DrainOne, TakesCompletion, stores, bounds
<1>2. Typed(game, running, completions, players) /\ GameInv(game')
    BY SystemIsTyped DEF SystemInv
<1>3. logins \in Nat /\ Ledger(w, game, running, completions, players, logins)
    BY GameAssumption DEF SavedInv
<1>4. Roomy(game)
    BY RoomToLeave
<1>5. PICK n \in Nat : n = logins
    BY <1>3
<1>6. /\ Ledger(w, Complete(game, done), running, Tail(completions), players, n)
      /\ \E own : Files(own, game, Complete(game, done), 1)
    BY <1>1, <1>2, <1>3, <1>4, <1>5, CallbackStep
<1> HIDE DEF done
<1>7. Ledger(w, game', running', completions', players', logins')
    BY <1>1, <1>5, <1>6
<1>8. game'.accepting = game.accepting /\ game'.conns \subseteq game.conns
    BY <1>1, <1>6 DEF Files
<1>9. Closing'
    BY <1>1, <1>8 DEF SavedInv, Closing
<1>10. failed_saves' \in Nat /\ logins' \in 0 .. MaxLogins
    BY <1>1 DEF SavedInv
<1> QED  BY <1>7, <1>9, <1>10 DEF SavedInv

\* The steps that come and go without a player or an operation.
LEMMA TransportSaves ==
    ASSUME NEW w \in Workers, SystemInv, SavedInv(w), failed_saves = 0,
           \/ \E c \in Connections : ClientEnd(c) \/ PeerBreaks(c)
           \/ \E id \in PlayerIds : SessionExpires(id)
           \/ AcceptReady \/ DrainEnd \/ StopServer \/ Shutdown \/ Joined \/ FinalDrainEnd
    PROVE  SavedInv(w)'
<1>1. DOMAIN game = GameFields
    BY DEF SystemInv, GameInv, GameTypeOK
<1>2. UNCHANGED <<logins, failed_saves, running, completions, players>>
    BY DEF AcceptReady, ClientEnd, PeerBreaks, SessionExpires, DrainEnd, StopServer, Shutdown,
           Joined, FinalDrainEnd, stores, bounds
<1>3. SameLedger(game, game') /\ Closing'
    <2>1. CASE AcceptReady
        <3>1. /\ phase = "idle" /\ game.accepting
              /\ game' = [game EXCEPT !.conns = @ \cup {accepted + 1}]
            BY <2>1, AcceptsWhileOpen DEF AcceptReady
        <3>2. SameLedger(game, game') /\ game'.accepting = game.accepting
            BY <1>1, <3>1 DEF SameLedger, GameFields
        <3> QED  BY <3>1, <3>2 DEF Closing
    <2>2. ASSUME NEW c \in Connections, ClientEnd(c)
          PROVE  SameLedger(game, game') /\ Closing'
        <3>1. phase \in {"idle", "client"}
            BY <2>2 DEF ClientEnd
        <3>2. game.accepting
            BY <3>1, AcceptsWhileOpen
        <3>3. game' = game \/ game' = [game EXCEPT !.marked_for_close = @ \cup {c}]
            BY <2>2 DEF ClientEnd
        <3>4. SameLedger(game, game') /\ game'.accepting = game.accepting
            BY <1>1, <3>3 DEF SameLedger, GameFields
        <3> QED  BY <3>2, <3>4 DEF Closing
    <2>3. CASE DrainEnd \/ StopServer
        <3>1. phase \in {"drain", "idle"} /\ game' = game
            BY <2>3 DEF DrainEnd, StopServer
        <3>2. game.accepting
            BY <3>1, AcceptsWhileOpen
        <3> QED  BY <3>1, <3>2 DEF Closing, SameLedger
    <2>4. CASE Shutdown
        <3>1. game' = [game EXCEPT !.accepting = FALSE] /\ game.conns = {} /\ phase' = "join"
            BY <2>4 DEF Shutdown
        <3>2. SameLedger(game, game') /\ game'.conns = game.conns
            BY <1>1, <3>1 DEF SameLedger, GameFields
        <3> QED  BY <3>1, <3>2 DEF Closing
    <2>5. CASE Joined \/ FinalDrainEnd
        <3>1. game' = game /\ phase' \in {"final", "stopped"}
            BY <2>5 DEF Joined, FinalDrainEnd
        <3>2. Closing
            BY DEF SavedInv
        <3> QED  BY <3>1, <3>2 DEF Closing, SameLedger
    <2>6. ASSUME NEW c \in Connections, PeerBreaks(c)
          PROVE  SameLedger(game, game') /\ Closing'
        <3>1. /\ c \in game.conns /\ phase' = phase
              /\ game' = [game EXCEPT !.broken = @ \cup {c}]
            BY <2>6 DEF PeerBreaks, eventLoop
        <3>2. game.accepting
            BY <3>1 DEF SavedInv, Closing
        <3>3. SameLedger(game, game') /\ game'.accepting = game.accepting
            BY <1>1, <3>1 DEF SameLedger, GameFields
        <3> QED  BY <3>2, <3>3 DEF Closing
    <2>7. ASSUME NEW id \in PlayerIds, SessionExpires(id)
          PROVE  SameLedger(game, game') /\ Closing'
        <3>1. game' = game /\ phase' = phase
            BY <2>7 DEF SessionExpires, eventLoop
        <3>2. Closing
            BY DEF SavedInv
        <3> QED  BY <3>1, <3>2 DEF Closing, SameLedger
    <2> QED  BY <2>1, <2>2, <2>3, <2>4, <2>5, <2>6, <2>7
<1>4. Ledger(w, game, running, completions, players, logins)
    BY DEF SavedInv
<1>5. Ledger(w, game', running, completions, players, logins)
    BY <1>3, <1>4, LedgerKept DEF Ledger
<1> QED  BY <1>2, <1>3, <1>5 DEF SavedInv

LEMMA TakeTaskSaves ==
    ASSUME NEW w, Workers = {w}, SystemInv, SavedInv(w), failed_saves = 0, TakeTask(w)
    PROVE  SavedInv(w)'
<1> DEFINE hands == [running EXCEPT ![w] = [stage |-> "taken", op |-> Head(game.tasks)]]
<1>1. DOMAIN game = GameFields /\ Typed(game, running, completions, players)
    BY SystemIsTyped DEF SystemInv, GameInv, GameTypeOK
<1>2. /\ running[w] = Idle /\ game.tasks # <<>>
      /\ game' = [game EXCEPT !.tasks = Tail(@)]
      /\ running' = hands
      /\ UNCHANGED <<logins, failed_saves, phase, completions, players>>
    BY DEF TakeTask, stores, bounds, eventLoop
<1>3. /\ game'.online_players = game.online_players
      /\ game'.last_position = game.last_position
      /\ game'.player_sequence = game.player_sequence
      /\ game'.tasks = Tail(game.tasks)
      /\ game'.conns = game.conns /\ game'.accepting = game.accepting
    BY <1>1, <1>2 DEF GameFields
<1>4. logins \in Nat /\ Ledger(w, game, running, completions, players, logins)
    BY GameAssumption DEF SavedInv
<1>5. PICK n \in Nat : n = logins
    BY <1>4
<1>6. PICK h : h = game'
    OBVIOUS
<1>7. Ledger(w, h, hands, completions, players, n)
    BY <1>1, <1>2, <1>3, <1>4, <1>5, <1>6, TakeStep
<1> HIDE DEF hands
<1>8. Ledger(w, game', running', completions', players', logins')
    BY <1>2, <1>5, <1>6, <1>7
<1>9. Closing'
    BY <1>2, <1>3 DEF SavedInv, Closing
<1> QED  BY <1>2, <1>8, <1>9 DEF SavedInv

\* What every operation against a store comes down to.
LEMMA DoneSaves ==
    ASSUME NEW w, Workers = {w}, SystemInv, SavedInv(w), failed_saves = 0,
           running[w].stage = "taken", NEW status, NEW value, Done(w, status, value),
           running[w].op.kind = "LoadPlayer" /\ status = "ok" =>
               value = players[running[w].op.account] /\ value # NoRecord,
           IF running[w].op.kind \in {"CreatePlayer", "SavePlayer"}
             THEN players' = [players EXCEPT ![running[w].op.player.account] =
                                running[w].op.player]
             ELSE players' = players,
           UNCHANGED <<game, completions, phase, logins, failed_saves>>
    PROVE  SavedInv(w)'
<1> DEFINE op == running[w].op
           hand == [stage |-> "done", op |-> op, status |-> status, value |-> value]
<1>1. Typed(game, running, completions, players)
    BY SystemIsTyped
<1>2. running' = [running EXCEPT ![w] = hand]
    BY DEF Done
<1>3. hand.stage = "done" /\ hand.op = op /\ hand.status = status /\ hand.value = value
    OBVIOUS
<1> HIDE DEF hand
<1>4. ASSUME NEW own, Books(own, game, running, completions, players)
      PROVE  KnownResult(own, game.player_sequence, hand)
    <2>1. SUFFICES ASSUME op.kind = "LoadPlayer", status = "ok"
                   PROVE  Known(own, game.player_sequence, value)
        BY <1>3 DEF KnownResult
    <2>2. op.account \in Accounts
        BY <2>1, OperationInHand
    <2>3. KnownRecords(own, game.player_sequence, players)
        BY <1>4 DEF Books
    <2> QED  BY <2>1, <2>2, <2>3 DEF KnownRecords
<1>5. logins \in Nat /\ Ledger(w, game, running, completions, players, logins)
    BY GameAssumption DEF SavedInv
<1>6. PICK n \in Nat : n = logins
    BY <1>5
<1>7. PICK store2 : store2 = players'
    OBVIOUS
<1>8. Ledger(w, game, [running EXCEPT ![w] = hand], completions, store2, n)
    BY <1>1, <1>3, <1>4, <1>5, <1>6, <1>7, OperateStep
<1>9. Ledger(w, game', running', completions', players', logins')
    BY <1>2, <1>6, <1>7, <1>8
<1>10. Closing'
    BY DEF SavedInv, Closing
<1> QED  BY <1>9, <1>10 DEF SavedInv

LEMMA OperateSucceedsSaves ==
    ASSUME NEW w, Workers = {w}, SystemInv, SavedInv(w), failed_saves = 0, OperateSucceeds(w)
    PROVE  SavedInv(w)'
<1> DEFINE op == running[w].op
<1>1. /\ running[w].stage = "taken"
      /\ UNCHANGED <<game, completions, phase, logins, failed_saves>>
      /\ Load(w) \/ Save(w) \/ Store(w) \/ LoadToken(w)
    BY DEF OperateSucceeds, HasOp, StoreOperation, eventLoop, bounds
<1>2. CASE Load(w)
    <2>1. op.kind = "LoadPlayer" /\ players' = players
        BY <1>2 DEF Load, stores
    <2>2. CASE players[op.account] = NoRecord
        <3>1. Done(w, "not_found", NoRecord)
            BY <1>2, <2>2 DEF Load
        <3> QED  BY <1>1, <2>1, <3>1, DoneSaves
    <2>3. CASE players[op.account] # NoRecord
        <3>1. PICK record : record = players[op.account]
            OBVIOUS
        <3>2. Done(w, "ok", record)
            BY <1>2, <2>3, <3>1 DEF Load
        <3> QED  BY <1>1, <2>1, <2>3, <3>1, <3>2, DoneSaves
    <2> QED  BY <2>2, <2>3
<1>3. CASE Save(w)
    <2>1. /\ op.kind \in {"CreatePlayer", "SavePlayer"}
          /\ players' = [players EXCEPT ![op.player.account] = op.player]
          /\ Done(w, "ok", NoRecord)
        BY <1>3 DEF Save, Saves
    <2> QED  BY <1>1, <2>1, DoneSaves
<1>4. CASE Store(w)
    <2>1. op.kind = "StoreSession" /\ players' = players /\ Done(w, "ok", NoRecord)
        BY <1>4 DEF Store
    <2> QED  BY <1>1, <2>1, DoneSaves
<1>5. CASE LoadToken(w)
    <2>1. op.kind = "LoadSession" /\ players' = players
        BY <1>5 DEF LoadToken, stores
    <2>2. PICK status, value : Done(w, status, value)
        BY <1>5 DEF LoadToken
    <2> QED  BY <1>1, <2>1, <2>2, DoneSaves
<1> QED  BY <1>1, <1>2, <1>3, <1>4, <1>5

\* What fails is not a Save: a load or a session costs no position.
LEMMA OperateFailsSaves ==
    ASSUME NEW w, Workers = {w}, SystemInv, SavedInv(w), failed_saves = 0, failed_saves' = 0,
           OperateFails(w)
    PROVE  SavedInv(w)'
<1>1. /\ running[w].stage = "taken" /\ Done(w, "failed", NoRecord)
      /\ UNCHANGED <<game, completions, phase, logins, failed_saves>>
    BY DEF OperateFails, HasOp, eventLoop
<1>2. ~Saves(w)
    BY DEF OperateFails
<1>3. players' = players
    BY <1>2 DEF OperateFails, stores
<1> QED  BY <1>1, <1>2, <1>3, DoneSaves DEF Saves

LEMMA PushResultSaves ==
    ASSUME NEW w, Workers = {w}, SystemInv, SavedInv(w), failed_saves = 0, PushResult(w)
    PROVE  SavedInv(w)'
<1> DEFINE hand == running[w]
           result == [op |-> hand.op, status |-> hand.status, value |-> hand.value]
<1>1. /\ hand.stage = "done" /\ completions' = Append(completions, result)
      /\ running' = [running EXCEPT ![w] = Idle]
      /\ UNCHANGED <<game, players, phase, logins, failed_saves>>
    BY DEF PushResult, HasOp, stores, eventLoop, bounds
<1>2. Typed(game, running, completions, players)
    BY SystemIsTyped
<1>3. hand \in DoneHands
    BY <1>1, <1>2, HandStages DEF Typed
<1>4. /\ result \in Results /\ result.op = hand.op
      /\ result.status = hand.status /\ result.value = hand.value
    BY <1>3 DEF Results, DoneHands
<1> HIDE DEF result
<1>5. logins \in Nat /\ Ledger(w, game, running, completions, players, logins)
    BY GameAssumption DEF SavedInv
<1>6. PICK n \in Nat : n = logins
    BY <1>5
<1>7. Ledger(w, game, [running EXCEPT ![w] = Idle], Append(completions, result), players, n)
    BY <1>1, <1>2, <1>4, <1>5, <1>6, PushStep
<1>8. Ledger(w, game', running', completions', players', logins')
    BY <1>1, <1>6, <1>7
<1>9. Closing'
    BY <1>1 DEF SavedInv, Closing
<1> QED  BY <1>1, <1>8, <1>9 DEF SavedInv

-----------------------------------------------------------------------------
(* The theorems.                                                           *)

LEMMA InitSaved ==
    ASSUME NEW w \in Workers, SystemInit
    PROVE  SavedInv(w)
<1>1. /\ game.online_players = [id \in PlayerIds |-> Offline]
      /\ game.last_position = [id \in PlayerIds |-> Nowhere]
      /\ game.player_sequence = 0 /\ game.tasks = <<>> /\ game.accepting = TRUE
    BY DEF SystemInit, GameInit
<1>2. /\ running = [v \in Workers |-> Idle] /\ completions = <<>>
      /\ players = [a \in Accounts |-> NoRecord] /\ logins = 0 /\ failed_saves = 0
    BY DEF SystemInit
<1>3. PICK own \in Owners : TRUE
    <2>1. [id \in PlayerIds |-> NoAccount] \in Owners
        BY DEF Owners
    <2> QED  BY <2>1
<1>4. Books(own, game, running, completions, players)
    <2>1. Booked(own, game)
        BY <1>1 DEF Booked, IsOnline
    <2> QED
        BY <1>1, <1>2, <2>1 DEF Books, KnownTasks, KnownHands, KnownResults, KnownRecords
<1>5. AllKept(game, running[w], players)
    BY <1>1 DEF AllKept
<1>6. Weight(game) + Burden(running[w]) + Len(completions) <= logins
    <2>1. Online(game) = {}
        BY <1>1 DEF Online, IsOnline
    <2>2. Cardinality(Online(game)) = 0
        BY <2>1, FS_EmptySet
    <2>3. Burden(running[w]) = 0
        BY <1>2 DEF Burden, Idle
    <2> QED  BY <1>1, <1>2, <2>2, <2>3 DEF Weight
<1>7. logins \in 0 .. MaxLogins
    BY <1>2, GameAssumption
<1>8. Closing
    BY <1>1 DEF Closing
<1> QED  BY <1>2, <1>4, <1>5, <1>6, <1>7, <1>8 DEF SavedInv, Ledger

LEMMA BoundsGrow ==
    ASSUME NEW w, SavedInv(w), [SystemNext]_systemVars
    PROVE  /\ failed_saves' \in Nat /\ (failed_saves' = 0 => failed_saves = 0)
           /\ logins' \in 0 .. MaxLogins
<1>1. /\ failed_saves' = failed_saves \/ failed_saves' = failed_saves + 1
      /\ logins' = logins \/ (logins < MaxLogins /\ logins' = logins + 1)
    BY DEF SystemNext, systemVars, bounds, AcceptReady, PeerBreaks, ClientFrame, LoginFrame,
           MoveFrame, ChatFrame, HeartbeatFrame, UnknownFrame, ClientEnd, DrainOne, DrainEnd,
           CloseMarked, WorkerStep, TakeTask, OperateSucceeds, OperateFails, PushResult,
           SessionExpires, StopServer, TeardownStep, CloseOnTeardown, Shutdown, Joined,
           FinalDrainEnd
<1> QED  BY <1>1, GameAssumption DEF SavedInv

LEMMA NextSaved ==
    ASSUME NEW w, Workers = {w}, SystemInv, SystemInv', SavedInv(w), Room,
           [SystemNext]_systemVars
    PROVE  SavedInv(w)'
<1>1. CASE failed_saves' # 0
    BY <1>1, BoundsGrow DEF SavedInv
<1>2. CASE failed_saves' = 0
    <2>1. failed_saves = 0 /\ w \in Workers
        BY <1>2, BoundsGrow
    <2>2. CASE \/ \E c \in Connections : ClientEnd(c) \/ PeerBreaks(c)
               \/ \E id \in PlayerIds : SessionExpires(id)
               \/ AcceptReady \/ DrainEnd \/ StopServer \/ Shutdown \/ Joined \/ FinalDrainEnd
        BY <2>1, <2>2, TransportSaves
    <2>3. ASSUME NEW c \in Connections, ClientFrame(c)
          PROVE  SavedInv(w)'
        BY <2>1, <2>3, ClientFrameSaves
    <2>4. CASE DrainOne
        BY <2>1, <2>4, DrainOneSaves
    <2>5. CASE CloseMarked \/ CloseOnTeardown
        BY <2>1, <2>5, ClosingSaves
    <2>6. CASE TakeTask(w) \/ OperateSucceeds(w) \/ PushResult(w)
        BY <2>1, <2>6, TakeTaskSaves, OperateSucceedsSaves, PushResultSaves
    <2>7. CASE OperateFails(w)
        BY <1>2, <2>1, <2>7, OperateFailsSaves
    <2>8. CASE UNCHANGED systemVars
        <3>1. UNCHANGED <<game, running, completions, players, phase, logins, failed_saves>>
            BY <2>8 DEF systemVars, stores, eventLoop, bounds
        <3> QED  BY <3>1 DEF SavedInv, Closing, Ledger
    <2>9. ASSUME NEW v \in Workers, WorkerStep(v)
          PROVE  TakeTask(w) \/ OperateSucceeds(w) \/ PushResult(w) \/ OperateFails(w)
        <3>1. v = w
            BY <2>9
        <3> QED  BY <2>9, <3>1 DEF WorkerStep
    <2> QED
        BY <2>2, <2>3, <2>4, <2>5, <2>6, <2>7, <2>8, <2>9 DEF SystemNext, TeardownStep
<1> QED  BY <1>1, <1>2

LEMMA SavedIsSaved ==
    ASSUME NEW w \in Workers, SavedInv(w)
    PROVE  LastPositionSaved
<1> SUFFICES ASSUME Quiet, failed_saves = 0, NEW id \in PlayerIds, NEW a \in Accounts,
                    players[a].id = id, ~IsOnline(game, id),
                    game.last_position[id] # Nowhere
             PROVE  players[a].position = game.last_position[id]
    BY DEF LastPositionSaved
<1>1. Kept(game.tasks, running[w], players, id, game.last_position[id])
    BY DEF SavedInv, Ledger, AllKept
<1>2. Operations = {}
    BY DEF Quiet
<1>3. \A i \in 1 .. Len(game.tasks) : FALSE
    BY <1>2 DEF Operations
<1>4. running[w] = Idle
    BY <1>2 DEF Operations
<1>5. ~HandWrites(running[w], id)
    BY <1>4 DEF HandWrites, Idle
<1> QED  BY <1>1, <1>3, <1>5 DEF Kept, LastIn

\* With one worker, and as long as the queue never fills, every position is
\* saved (OnDisconnected, game_service.cpp:427): whoever has left is found in
\* the repository where it was last seen, whenever the data service has nothing
\* left to do, while the server runs, during the teardown and after it, unless
\* a Save has failed.  Neither a takeover, nor a login that is under way with
\* an older record, nor a peer that breaks, a session that expires or a failing
\* load or token, nor the teardown makes a save miss or come too late.
THEOREM SystemPositionsSavedWithRoom ==
    ASSUME NEW w, Workers = {w}
    PROVE  SystemSpec /\ []Room => []LastPositionSaved
<1> DEFINE Inv == SavedInv(w)
<1>1. SystemInit => Inv
    BY InitSaved
<1>2. SystemInv /\ SystemInv' /\ Inv /\ Room /\ [SystemNext]_systemVars => Inv'
    BY NextSaved
<1>3. Inv => LastPositionSaved
    BY SavedIsSaved
<1> HIDE DEF Inv
<1> QED  BY <1>1, <1>2, <1>3, SystemInvariant, PTL DEF SystemSpec

\* The queue cannot fill if it has room for one operation for each login
\* request: a request has one operation under way, or has led to one player,
\* whose leaving is one operation again.
LEMMA CountMakesRoom ==
    ASSUME NEW w \in Workers, SystemInv, SavedInv(w), failed_saves = 0, QueueCapacity > MaxLogins
    PROVE  Room
<1>1. /\ Weight(game) + Burden(running[w]) + Len(completions) <= logins
      /\ logins <= MaxLogins /\ logins \in Nat
    BY GameAssumption DEF SavedInv, Ledger
<1>2. Len(game.tasks) \in Nat /\ Cardinality(Online(game)) \in Nat
    BY WeightIsNat DEF SystemInv
<1> QED
    BY <1>1, <1>2, SystemIsTyped, BurdenIsNat, GameAssumption DEF Room, Weight

\* The same without a word about the queue's length: one worker, and a queue
\* longer than the login requests are many.
THEOREM SystemLastPositionSaved ==
    ASSUME NEW w, Workers = {w}, QueueCapacity > MaxLogins
    PROVE  SystemSpec => []LastPositionSaved
<1> DEFINE Inv == SavedInv(w)
<1>1. SystemInit => Inv
    BY InitSaved
<1>2. SystemInv /\ SystemInv' /\ Inv /\ [SystemNext]_systemVars => Inv'
    <2> SUFFICES ASSUME SystemInv, SystemInv', SavedInv(w), [SystemNext]_systemVars
                 PROVE  SavedInv(w)'
        OBVIOUS
    <2>1. CASE failed_saves = 0
        <3>1. Room
            BY <2>1, CountMakesRoom
        <3> QED  BY <3>1, NextSaved
    <2>2. CASE failed_saves # 0
        BY <2>2, BoundsGrow DEF SavedInv
    <2> QED  BY <2>1, <2>2
<1>3. Inv => LastPositionSaved
    BY SavedIsSaved
<1> HIDE DEF Inv
<1> QED  BY <1>1, <1>2, <1>3, SystemInvariant, PTL DEF SystemSpec
=============================================================================
