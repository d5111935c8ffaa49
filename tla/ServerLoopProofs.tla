-------------------------- MODULE ServerLoopProofs --------------------------
(***************************************************************************)
(* The safety properties of the event loop and of the game server's        *)
(* descriptors, proved for any set of descriptors, any number of callers   *)
(* of Stop, any size of a batch, any limit on connections and any number   *)
(* of clients and of failing system calls.                                 *)
(***************************************************************************)
EXTENDS ServerLoop, SequenceTheorems, FiniteSetTheorems, TLAPS

Watchable == Descriptors \cup Fixed

\* The counters are numbers, and connections are numbered upwards: none has a
\* number next_connection_id_ has not reached.
NumbersRise ==
    /\ next_connection_id \in Nat /\ backlog \in Nat /\ arrivals \in Nat
    /\ faults \in Nat /\ fresh \in Nat
    /\ \A d \in Descriptors : clients[d] <= next_connection_id
    /\ fresh <= next_connection_id

\* The limit on connections is kept.
WithinLimit == Cardinality(Open) <= MaximumConnections

ServerInv ==
    /\ LoopTypeOK
    /\ NumbersRise
    /\ DescriptorsOwned
    /\ WithinLimit
    /\ StopNotMissed
    /\ OnlyNewcomersMisled

-----------------------------------------------------------------------------
(* Lemmas about the operators of the model.                                *)

\* A set of numbers that is not empty has a least element.
LEMMA LeastElement ==
  ASSUME NEW T \in SUBSET Nat, T # {}
  PROVE  \E x \in T : \A y \in T : x <= y
<1> DEFINE R == OpToRel(<, Nat)
<1>1. IsWellFoundedOn(R, Nat)
  BY NatLessThanWellFounded
<1>2. \A y, x \in Nat : y < x => <<y, x>> \in R
  BY DEF OpToRel
<1> HIDE DEF R
<1>3. PICK x \in T : \A y \in T : ~(<<y, x>> \in R)
  BY <1>1, WFMin
<1>4. ASSUME NEW y \in T PROVE x <= y
  <2>1. ~(y < x)
    BY <1>2, <1>3
  <2> QED
    BY <2>1
<1> QED
  BY <1>4

\* accept4 gives out a descriptor that is free, when there is one.
LEMMA NewDescriptorIsFree ==
  ASSUME FreeDescriptors # {}
  PROVE  NewDescriptor \in Descriptors /\ files[NewDescriptor] = 0
<1>1. FreeDescriptors \in SUBSET Nat
  BY LoopAssumption DEF FreeDescriptors
<1>2. \E d \in FreeDescriptors : \A e \in FreeDescriptors : d <= e
  BY <1>1, LeastElement
<1>3. NewDescriptor \in FreeDescriptors
  BY <1>2 DEF NewDescriptor
<1> QED
  BY <1>3 DEF FreeDescriptors

\* Kept returns a list, of entries of the old one that are in T.  The places
\* that are kept and their ranks are as many, and no two places have the same
\* rank, so every rank is some place's.
LEMMA KeptType ==
  ASSUME NEW S, NEW list \in Seq(S), NEW T
  PROVE  Kept(list, T) \in Seq(S \cap T)
<1> DEFINE I == {i \in 1 .. Len(list) : list[i] \in T}
           Rank(i) == Cardinality({j \in I : j <= i})
           rank == [i \in I |-> Rank(i)]
           n == Cardinality(I)
<1>1. I \subseteq Nat /\ I \in SUBSET (1 .. Len(list))
      /\ IsFiniteSet(1 .. Len(list))
  BY FS_Interval
<1>2. IsFiniteSet(I) /\ n \in Nat
  BY <1>1, FS_Subset, FS_CardinalityType
<1>3. ASSUME NEW i \in I
      PROVE  IsFiniteSet({j \in I : j <= i}) /\ Rank(i) \in 1 .. n
  <2>1. {j \in I : j <= i} \in SUBSET I
    OBVIOUS
  <2>2. IsFiniteSet({j \in I : j <= i}) /\ Rank(i) <= n /\ Rank(i) \in Nat
    BY <1>2, <2>1, FS_Subset, FS_CardinalityType
  <2>3. i \in {j \in I : j <= i}
    BY <1>1
  <2>4. Rank(i) # 0
    BY <2>2, <2>3, FS_EmptySet
  <2> QED
    BY <1>2, <2>2, <2>4
<1>4. ASSUME NEW i \in I, NEW j \in I, i < j PROVE Rank(i) # Rank(j)
  <2>1. {k \in I : k <= i} \in SUBSET {k \in I : k <= j}
    BY <1>1, <1>4
  <2>2. j \in {k \in I : k <= j} /\ j \notin {k \in I : k <= i}
    BY <1>1, <1>4
  <2> QED
    BY <1>3, <2>1, <2>2, FS_Subset
<1>5. rank \in Injection(I, 1 .. n)
  <2>1. rank \in [I -> 1 .. n]
    BY <1>3
  <2>2. ASSUME NEW i \in I, NEW j \in I, rank[i] = rank[j] PROVE i = j
    <3>1. Rank(i) = Rank(j)
      BY <2>2
    <3>2. i < j \/ j < i \/ i = j
      BY <1>1
    <3> HIDE DEF I, Rank
    <3> QED
      BY <1>4, <3>1, <3>2
  <2> HIDE DEF rank
  <2> QED
    BY <2>1, <2>2 DEF Injection, IsInjective
<1>6. Cardinality(1 .. n) = n /\ IsFiniteSet(1 .. n)
  <2> HIDE DEF n
  <2> QED
    BY <1>2, FS_Interval
<1>7. rank \in Surjection(I, 1 .. n)
  <2> HIDE DEF rank, I
  <2> QED
    BY <1>5, <1>6, FS_Injection DEF n
<1>8. \A k \in 1 .. n : \E i \in I : Rank(i) = k
  <2>1. \A k \in 1 .. n : \E i \in I : rank[i] = k
    <3> HIDE DEF rank, n
    <3> QED
      BY <1>7 DEF Surjection
  <2> QED
    BY <2>1
<1>9. ASSUME NEW k \in 1 .. n
      PROVE  list[CHOOSE i \in I : Rank(i) = k] \in S \cap T
  <2>1. (CHOOSE i \in I : Rank(i) = k) \in I
    <3> HIDE DEF I, Rank, n
    <3> QED
      BY <1>8
  <2> QED
    BY <2>1
<1>10. Kept(list, T) = [k \in 1 .. n |-> list[CHOOSE i \in I : Rank(i) = k]]
  BY DEF Kept
<1> HIDE DEF n, I, Rank
<1> QED
  BY <1>2, <1>9, <1>10

\* What the kernel reports to epoll_wait keeps the types.
LEMMA RaiseType ==
  ASSUME LoopTypeOK, NEW d \in Watchable, NEW what \in SUBSET Signals,
         Raise(d, what)
  PROVE  /\ signals' \in [Watchable -> SUBSET Signals]
         /\ signals'[d] = signals[d] \cup what
         /\ \A e \in Watchable \ {d} : signals'[e] = signals[e]
         /\ ready' \in Seq(Watchable)
         /\ files' = files
  BY DEF LoopTypeOK, Raise, Watchable

Event == [fd : Watchable, what : SUBSET Signals, file : Connections \cup {0}]

\* Taking the next event keeps the rest a list of events.
LEMMA NextEvent ==
  ASSUME LoopTypeOK, events # <<>>
  PROVE  Head(events) \in Event /\ Tail(events) \in Seq(Event)
<1>1. events \in Seq(Event)
  BY DEF LoopTypeOK, Event, Watchable
<1> QED
  BY <1>1, HeadTailProperties

\* What epoll_wait returns is a list of events, one for each descriptor it
\* reports, and what remains of its list is a list.
LEMMA PollOnceType ==
  ASSUME LoopTypeOK, PollOnce
  PROVE  /\ events' \in Seq(Event)
         /\ ready' \in Seq(Watchable)
         /\ \A i \in 1 .. Len(events') :
              /\ events'[i].fd \in Watchable
              /\ events'[i].fd \in Descriptors \ Fixed =>
                   events'[i].file = files[events'[i].fd]
<1> DEFINE listed == Listed
           n == ReportedCount(Len(listed))
<1>1. listed \in Seq(Watchable)
  <2>1. ready \in Seq(Watchable)
    BY DEF LoopTypeOK, Watchable
  <2>2. Listed \in Seq(Watchable \cap {d \in Watchable : signals[d] # {}})
    BY <2>1, KeptType DEF Listed, Watchable
  <2> QED
    BY <2>2
<1> HIDE DEF listed
<1>2. Len(listed) \in Nat /\ n \in 0 .. Len(listed)
  BY <1>1, LoopAssumption DEF ReportedCount
<1>3. /\ events' = [i \in 1 .. n |-> EventOf(listed[i])]
      /\ ready' = SubSeq(listed, n + 1, Len(listed)) \o SubSeq(listed, 1, n)
  BY DEF PollOnce, listed
<1>4. \A i \in 1 .. n : listed[i] \in Watchable
  BY <1>1, <1>2
<1>5. ASSUME NEW d \in Watchable
      PROVE  /\ EventOf(d) \in Event
             /\ EventOf(d).fd = d
             /\ d \in Descriptors \ Fixed => EventOf(d).file = files[d]
  BY DEF EventOf, Event, LoopTypeOK, Watchable
<1> HIDE DEF n
<1>6. events' \in Seq(Event) /\ Len(events') = n
  <2>1. \A i \in 1 .. n : EventOf(listed[i]) \in Event
    BY <1>4, <1>5
  <2> QED
    BY <1>2, <1>3, <2>1
<1>7. ready' \in Seq(Watchable)
  <2>1. SubSeq(listed, n + 1, Len(listed)) \in Seq(Watchable)
    BY <1>1, <1>2, SubSeqProperties
  <2>2. SubSeq(listed, 1, n) \in Seq(Watchable)
    BY <1>1, <1>2, SubSeqProperties
  <2> QED
    BY <1>3, <2>1, <2>2
<1>8. ASSUME NEW i \in 1 .. n PROVE events'[i] = EventOf(listed[i])
  BY <1>3
<1> QED
  BY <1>4, <1>5, <1>6, <1>7, <1>8

\* CloseConnection keeps the types.
LEMMA CloseType ==
  ASSUME LoopTypeOK, NEW X, NEW served, CloseConnections(X, served)
  PROVE  /\ callbacks' \subseteq Watchable
         /\ clients' \in [Descriptors -> Connections \cup {0}]
         /\ connection_descriptors' \in [Connections -> Descriptors \cup {0}]
         /\ files' \in [Descriptors -> Connections \cup {0}]
         /\ signals' \in [Watchable -> SUBSET Signals]
         /\ ready' \in Seq(Watchable)
         /\ next_connection_id' = next_connection_id
<1> DEFINE D == {connection_descriptors[c] : c \in X}
<1>1. ready' = Kept(ready, Watchable \ D)
  BY DEF CloseConnections, Watchable
<1>2. ready \in Seq(Watchable)
  BY DEF LoopTypeOK, Watchable
<1> HIDE DEF D
<1>3. Kept(ready, Watchable \ D) \in Seq(Watchable \cap (Watchable \ D))
  BY <1>2, KeptType
<1>4. ready' \in Seq(Watchable)
  BY <1>1, <1>3
<1> USE DEF D
<1> QED
  BY <1>4 DEF CloseConnections, LoopTypeOK, Watchable

\* The connections GameServer closes at once: any that are open.
LEMMA CloseOwned ==
  ASSUME ServerInv, NEW X \in SUBSET Open, NEW served, CloseConnections(X, served)
  PROVE  /\ DescriptorsOwned'
         /\ Open' \in SUBSET Open
         /\ \A d \in Descriptors :
              \/ d \notin callbacks' /\ clients'[d] = 0
              \/ /\ d \in callbacks' <=> d \in callbacks
                 /\ clients'[d] = clients[d] /\ files'[d] = files[d]
<1> DEFINE D == {connection_descriptors[c] : c \in X}
<1>1. /\ \A d \in Descriptors :
           clients'[d] = IF d \in D THEN 0 ELSE clients[d]
      /\ \A d \in Descriptors : files'[d] = IF d \in D THEN 0 ELSE files[d]
      /\ \A c \in Connections : connection_descriptors'[c] =
           IF c \in X THEN 0 ELSE connection_descriptors[c]
      /\ callbacks' = callbacks \ D
  BY DEF CloseConnections
<1>2. /\ X \subseteq Connections /\ 0 \notin Connections /\ 0 \notin Descriptors
      /\ Descriptors \cap Fixed = {}
  BY LoopAssumption, ServerAssumption
     DEF Open, Connections, Fixed, StopFd, ListenerFd, DatabaseFd
<1>3. /\ clients \in [Descriptors -> Connections \cup {0}]
      /\ connection_descriptors \in [Connections -> Descriptors \cup {0}]
      /\ DescriptorsOwned
  BY DEF ServerInv, LoopTypeOK
\* A descriptor is closed exactly when its connection is.
<1>4. D \subseteq Descriptors
  BY <1>3 DEF Open
<1>5. \A d \in Descriptors : d \in D <=> clients[d] \in X
  BY <1>2, <1>3 DEF DescriptorsOwned
<1> HIDE DEF D
<1>6. \A d \in Descriptors, c \in Connections :
        clients'[d] = c <=> connection_descriptors'[c] = d
  BY <1>1, <1>2, <1>3, <1>5 DEF DescriptorsOwned
<1>7. /\ callbacks' = Fixed \cup {d \in Descriptors : clients'[d] # 0}
      /\ callbacks' = Fixed \cup {d \in Descriptors : files'[d] # 0}
  BY <1>1, <1>2, <1>3, <1>4 DEF DescriptorsOwned
<1>8. Open' \in SUBSET Open
  BY <1>1 DEF Open
<1> QED
  BY <1>1, <1>6, <1>7, <1>8 DEF DescriptorsOwned

\* The connection of a descriptor that is watched is open.
LEMMA SelfIsOpen ==
  ASSUME ServerInv, NEW d \in Descriptors, clients[d] # 0
  PROVE  clients[d] \in Open
<1>1. clients[d] \in Connections /\ connection_descriptors[clients[d]] = d
  BY DEF ServerInv, LoopTypeOK, DescriptorsOwned
<1> QED
  BY <1>1, LoopAssumption DEF Open

\* AcceptOne gives an unused number to the connection on a free descriptor.
LEMMA AcceptOneIsNew ==
  ASSUME ServerInv, AcceptOne
  PROVE  \E d \in Descriptors, c \in Connections :
           /\ files[d] = 0 /\ clients[d] = 0 /\ d \notin callbacks
           /\ c = next_connection_id + 1 /\ c \notin Open
           /\ c + backlog' <= arrivals
           /\ next_connection_id' = c
           /\ clients' = [clients EXCEPT ![d] = c]
           /\ connection_descriptors' = [connection_descriptors EXCEPT ![c] = d]
           /\ callbacks' = callbacks \cup {d}
           /\ \E f \in Connections : files' = [files EXCEPT ![d] = f]
<1> DEFINE d == NewDescriptor
           c == next_connection_id + 1
           f == arrivals - backlog + 1
<1>1. /\ FreeDescriptors # {} /\ backlog > 0 /\ backlog' = backlog - 1
      /\ next_connection_id' = c
      /\ clients' = [clients EXCEPT ![d] = c]
      /\ connection_descriptors' = [connection_descriptors EXCEPT ![c] = d]
      /\ callbacks' = callbacks \cup {d}
      /\ files' = [files EXCEPT ![d] = f]
  BY DEF AcceptOne, Accepts, NewConnection
<1>2. d \in Descriptors /\ files[d] = 0
  BY <1>1, NewDescriptorIsFree
<1>3. d \notin Fixed
  BY <1>2, LoopAssumption DEF Fixed, StopFd, ListenerFd, DatabaseFd
<1> HIDE DEF d
<1>4. d \notin callbacks /\ clients[d] = 0
  BY <1>2, <1>3 DEF ServerInv, DescriptorsOwned
<1>5. c \in Connections /\ f \in Connections /\ c + backlog' <= arrivals
  BY <1>1, ServerAssumption
     DEF ServerInv, LoopTypeOK, NumbersRise, Connections
<1>6. c \notin Open
  <2> SUFFICES ASSUME c \in Open PROVE FALSE
    OBVIOUS
  <2> DEFINE e == connection_descriptors[c]
  <2>1. e \in Descriptors /\ clients[e] = c
    BY <1>5 DEF Open, ServerInv, LoopTypeOK, DescriptorsOwned
  <2>2. clients[e] <= next_connection_id /\ next_connection_id \in Nat
    BY <2>1 DEF ServerInv, NumbersRise
  <2> QED
    BY <2>1, <2>2
<1> HIDE DEF c, f
<1>7. c = next_connection_id + 1
  BY DEF c
<1> QED
  BY <1>1, <1>2, <1>4, <1>5, <1>6, <1>7

\* A callback that closes connections: those of the game's choice and, perhaps,
\* the one whose event it handles.
Closing(X, served) ==
    /\ thread = "dispatch" /\ events # <<>> /\ events' = Tail(events)
    /\ CloseConnections(X, served)
    /\ UNCHANGED <<thread, stopVars, others>>

\* ClientReady and the callback of database_wakeup_ close connections that are
\* open, if any.
LEMMA CallbackCloses ==
  ASSUME ServerInv, DatabaseReady \/ \E d \in Descriptors : ClientReady(d)
  PROVE  \E X \in SUBSET Open :
           \E what \in SUBSET Signals, d \in Descriptors \cup {DatabaseFd} :
             Closing(X, Serves(d, what))
<1>1. CASE DatabaseReady
  <2>1. PICK X \in SUBSET Open : CloseConnections(X, Serves(DatabaseFd, {"in"}))
    BY <1>1 DEF DatabaseReady
  <2>2. {"in"} \in SUBSET Signals
    BY DEF Signals
  <2>3. Closing(X, Serves(DatabaseFd, {"in"}))
    BY <1>1, <2>1 DEF DatabaseReady, Dispatches, Closing
  <2> QED
    BY <2>2, <2>3
<1>2. ASSUME NEW d \in Descriptors, ClientReady(d)
      PROVE  \E X \in SUBSET Open, what \in SUBSET Signals :
               Closing(X, Serves(d, what))
  <2> DEFINE what == {"in"} \cap Head(events).what
  <2>1. PICK X \in SUBSET Open, self \in SUBSET {clients[d]} :
          CloseConnections(X \cup self, Serves(d, what))
    <3> DEFINE input == "in" \in Head(events).what /\ "in" \in signals[d]
               eof == "in" \in Head(events).what /\ "hup" \in signals[d]
               own == IF "hup" \in Head(events).what \/ eof THEN {clients[d]} ELSE {}
    <3>1. \E X \in IF input \/ own # {} THEN SUBSET Open ELSE {{}} :
            CloseConnections(X \cup own, Serves(d, what))
      BY <1>2 DEF ClientReady
    <3>2. own \in SUBSET {clients[d]}
      OBVIOUS
    <3> HIDE DEF own, input, what
    <3> QED
      BY <3>1, <3>2
  <2>2. clients[d] \in Open
    BY <1>2, SelfIsOpen DEF ClientReady
  <2>3. X \cup self \in SUBSET Open /\ what \in SUBSET Signals
    BY <2>1, <2>2 DEF Signals
  <2>4. Closing(X \cup self, Serves(d, what))
    BY <1>2, <2>1 DEF ClientReady, Dispatches, Closing
  <2> QED
    BY <2>3, <2>4
<1> QED
  BY <1>1, <1>2

\* No other step but AcceptOne touches a table or opens or closes a descriptor.
LEMMA TablesChange ==
  ASSUME ServerInv, [Next]_vars
  PROVE  \/ AcceptOne
         \/ \E X \in SUBSET Open :
              \E what \in SUBSET Signals, d \in Descriptors \cup {DatabaseFd} :
                Closing(X, Serves(d, what))
         \/ UNCHANGED <<callbacks, files, clients, connection_descriptors>>
<1>1. CASE AcceptOne
  BY <1>1
<1>2. CASE DatabaseReady \/ \E d \in Descriptors : ClientReady(d)
  BY <1>2, CallbackCloses
<1>3. CASE /\ \/ RunBegins \/ RunStarts \/ RunChecks \/ PollEnds
              \/ EventDropped \/ StopConsumed
           /\ UNCHANGED <<tables, others>>
  BY <1>3 DEF RunBegins, RunStarts, RunChecks, PollEnds, EventDropped,
              StopConsumed, tables, kernel
<1>4. CASE Poll \/ Interrupted
  BY <1>4 DEF Poll, PollOnce, Interrupted, PollInterrupted, tables, kernel
<1>5. CASE ListenerReady \/ AcceptOver \/ AcceptAddFails \/ AcceptThrows
             \/ AcceptEnds
  BY <1>5 DEF ListenerReady, AcceptOver, AcceptAddFails, AcceptThrows,
              AcceptEnds, tables, kernel
<1>6. ASSUME NEW s \in Stoppers, StopCalled(s) \/ StopStores(s) \/ StopNotifies(s),
             UNCHANGED <<tables, others>>
      PROVE  UNCHANGED <<callbacks, files, clients, connection_descriptors>>
  BY <1>6 DEF StopCalled, StopStores, StopNotifies, Raise, tables, kernel
<1>7. CASE PeerConnects \/ DatabaseSignals
             \/ \E d \in Descriptors, what \in Signals : PeerActs(d, what)
  BY <1>7 DEF PeerConnects, DatabaseSignals, PeerActs, Raise, tables
<1>8. CASE UNCHANGED vars
  BY <1>8 DEF vars, loopVars, tables, kernel
<1> QED
  BY <1>1, <1>2, <1>3, <1>4, <1>5, <1>6, <1>7, <1>8
     DEF Next, Loop, Stopping, StopStep

-----------------------------------------------------------------------------
\* Every step preserves the types.
LEMMA NextLoopTypeOK == ServerInv /\ [Next]_vars => LoopTypeOK'
<1> SUFFICES ASSUME ServerInv, [Next]_vars PROVE LoopTypeOK'
  OBVIOUS
<1>0. /\ LoopTypeOK /\ NumbersRise
      /\ StopFd \in Watchable /\ ListenerFd \in Watchable /\ DatabaseFd \in Watchable
      /\ {"in"} \in SUBSET Signals
  BY DEF ServerInv, Watchable, Fixed, Signals
<1> USE ServerAssumption DEF NumbersRise
<1>1. CASE RunBegins /\ UNCHANGED <<tables, others>>
  BY <1>0, <1>1 DEF LoopTypeOK, RunBegins, tables, others, kernel, Threads
<1>2. CASE (RunStarts \/ RunChecks \/ PollEnds) /\ UNCHANGED <<tables, others>>
  BY <1>0, <1>2 DEF LoopTypeOK, RunStarts, RunChecks, PollEnds, tables, others,
                    kernel, stopVars, Threads
<1>3. CASE (EventDropped \/ StopConsumed) /\ UNCHANGED <<tables, others>>
  <2>1. events # <<>> /\ events' = Tail(events)
    BY <1>3 DEF EventDropped, StopConsumed, Dispatches
  <2>2. events' \in Seq(Event)
    BY <1>0, <2>1, NextEvent
  <2> QED
    BY <1>0, <1>3, <2>2
       DEF LoopTypeOK, EventDropped, StopConsumed, Dispatches, tables, others,
           kernel, stopVars, Event, Watchable
<1>4. CASE Poll
  <2>1. events' \in Seq(Event) /\ ready' \in Seq(Watchable)
    BY <1>0, <1>4, PollOnceType DEF Poll
  <2> QED
    BY <1>0, <1>4, <2>1
       DEF LoopTypeOK, Poll, PollOnce, tables, stopVars, Threads, Event, Watchable
<1>5. CASE Interrupted
  BY <1>0, <1>5 DEF LoopTypeOK, Interrupted, PollInterrupted, Fault, tables,
                    kernel, stopVars, Threads
<1>6. CASE ListenerReady
  <2>1. events' \in Seq(Event)
    BY <1>0, <1>6, NextEvent DEF ListenerReady, Dispatches
  <2> QED
    BY <1>0, <1>6, <2>1
       DEF LoopTypeOK, ListenerReady, tables, others, kernel, stopVars, Threads,
           Event, Watchable
<1>7. CASE AcceptOne
  <2>1. PICK d \in Descriptors, c \in Connections :
          /\ c + backlog' <= arrivals
          /\ next_connection_id' = c
          /\ clients' = [clients EXCEPT ![d] = c]
          /\ connection_descriptors' = [connection_descriptors EXCEPT ![c] = d]
          /\ callbacks' = callbacks \cup {d}
          /\ \E f \in Connections : files' = [files EXCEPT ![d] = f]
    BY <1>7, AcceptOneIsNew
  <2> QED
    BY <1>0, <1>7, <2>1 DEF LoopTypeOK, AcceptOne, Accepts, stopVars
<1>8. CASE AcceptOver \/ AcceptAddFails \/ AcceptThrows \/ AcceptEnds
  BY <1>0, <1>8
     DEF LoopTypeOK, AcceptOver, AcceptAddFails, AcceptThrows, AcceptEnds,
         Accepts, Fault, tables, others, kernel, stopVars, Threads, Watchable
<1>9. ASSUME NEW X, NEW served, CloseConnections(X, served), events # <<>>,
             events' = Tail(events), UNCHANGED <<thread, stopVars, others>>
      PROVE  LoopTypeOK'
  <2>1. events' \in Seq(Event)
    BY <1>0, <1>9, NextEvent
  <2> QED
    BY <1>0, <1>9, <2>1, CloseType
       DEF LoopTypeOK, others, stopVars, Event, Watchable
<1>10. ASSUME NEW d \in Descriptors, ClientReady(d) PROVE LoopTypeOK'
  <2>1. PICK X, served : CloseConnections(X, served)
    BY <1>10 DEF ClientReady
  <2> QED
    BY <1>9, <1>10, <2>1 DEF ClientReady, Dispatches
<1>11. CASE DatabaseReady
  BY <1>9, <1>11 DEF DatabaseReady, Dispatches
<1>12. ASSUME NEW s \in Stoppers,
              StopCalled(s) \/ StopStores(s), UNCHANGED <<tables, others>>
       PROVE  LoopTypeOK'
  BY <1>0, <1>12 DEF LoopTypeOK, StopCalled, StopStores, tables, others, kernel
<1>13. ASSUME NEW s \in Stoppers, StopNotifies(s), UNCHANGED <<tables, others>>
       PROVE  LoopTypeOK'
  BY <1>0, <1>13, RaiseType
     DEF LoopTypeOK, StopNotifies, tables, others, Watchable
<1>14. CASE PeerConnects
  <2>1. Raise(ListenerFd, {"in"})
    BY <1>14 DEF PeerConnects
  <2> QED
    BY <1>0, <1>14, <2>1, RaiseType
       DEF LoopTypeOK, PeerConnects, tables, stopVars, Watchable
<1>15. ASSUME NEW d \in Descriptors, NEW what \in Signals, PeerActs(d, what)
       PROVE  LoopTypeOK'
  <2>1. Raise(d, {what}) /\ d \in Watchable /\ {what} \in SUBSET Signals
    BY <1>15 DEF PeerActs, Watchable
  <2> QED
    BY <1>0, <1>15, <2>1, RaiseType
       DEF LoopTypeOK, PeerActs, tables, others, stopVars, Watchable
<1>16. CASE DatabaseSignals
  <2>1. Raise(DatabaseFd, {"in"})
    BY <1>16 DEF DatabaseSignals
  <2> QED
    BY <1>0, <1>16, <2>1, RaiseType
       DEF LoopTypeOK, DatabaseSignals, tables, others, stopVars, Watchable
<1>17. CASE UNCHANGED vars
  BY <1>0, <1>17 DEF LoopTypeOK, vars, loopVars, tables, others, kernel, stopVars
<1> QED
  BY <1>1, <1>2, <1>3, <1>4, <1>5, <1>6, <1>7, <1>8, <1>10, <1>11, <1>12, <1>13,
     <1>14, <1>15, <1>16, <1>17
     DEF Next, Loop, Stopping, StopStep

\* Every step keeps the connections numbered upwards.
LEMMA NextNumbersRise == ServerInv /\ [Next]_vars => NumbersRise'
<1> SUFFICES ASSUME ServerInv, [Next]_vars PROVE NumbersRise'
  OBVIOUS
<1>0. NumbersRise /\ clients \in [Descriptors -> Nat]
  BY ServerAssumption DEF ServerInv, LoopTypeOK, Connections
<1>1. /\ next_connection_id' \in Nat /\ backlog' \in Nat /\ arrivals' \in Nat
      /\ faults' \in Nat /\ fresh' \in Nat
      /\ next_connection_id <= next_connection_id'
      /\ fresh' \in {fresh, next_connection_id}
  <2> USE <1>0 DEF NumbersRise
  <2>1. CASE Loop
    <3>1. CASE Poll
      BY <3>1 DEF Poll, tables
    <3>2. CASE AcceptOne
      BY <3>2 DEF AcceptOne, Accepts, NewConnection
    <3>3. CASE AcceptOver
      BY <3>3 DEF AcceptOver, Accepts, tables
    <3>4. CASE ListenerReady \/ AcceptEnds \/ UNCHANGED <<tables, others>>
      BY <3>4 DEF ListenerReady, AcceptEnds, tables, others
    <3>5. ASSUME NEW X, NEW served, CloseConnections(X, served), UNCHANGED others
          PROVE  UNCHANGED <<next_connection_id, others>>
      BY <3>5 DEF CloseConnections
    <3>6. CASE UNCHANGED <<next_connection_id, others>>
      BY <3>6 DEF others
    <3>7. ASSUME NEW d \in Descriptors, ClientReady(d)
          PROVE  UNCHANGED <<next_connection_id, others>>
      BY <3>5, <3>7 DEF ClientReady
    <3>8. CASE DatabaseReady
      BY <3>5, <3>6, <3>8 DEF DatabaseReady
    <3> QED
      BY <2>1, <3>1, <3>2, <3>3, <3>4, <3>6, <3>7, <3>8 DEF Loop
  <2>2. CASE Interrupted \/ AcceptAddFails \/ AcceptThrows
    BY <2>2 DEF Interrupted, AcceptAddFails, AcceptThrows, Accepts, Fault,
                tables
  <2>3. CASE PeerConnects
    BY <2>3 DEF PeerConnects, tables
  <2>4. CASE UNCHANGED <<tables, others>>
    BY <2>4 DEF tables, others
  <2>5. ASSUME NEW d \in Descriptors, NEW what \in Signals, PeerActs(d, what)
        PROVE  UNCHANGED <<tables, others>>
    BY <2>5 DEF PeerActs
  <2> QED
    BY <2>1, <2>2, <2>3, <2>4, <2>5
       DEF Next, Stopping, DatabaseSignals, vars
<1>2. \A d \in Descriptors : clients'[d] <= next_connection_id'
  <2>0. /\ next_connection_id \in Nat
        /\ \A d \in Descriptors : clients[d] \in Nat
                                 /\ clients[d] <= next_connection_id
    BY <1>0 DEF NumbersRise
  <2>1. CASE AcceptOne
    <3>1. PICK d \in Descriptors, c \in Connections :
            /\ next_connection_id' = c
            /\ clients' = [clients EXCEPT ![d] = c]
      BY <2>1, AcceptOneIsNew
    <3>2. ASSUME NEW e \in Descriptors PROVE clients'[e] \in {c, clients[e]}
      BY <1>0, <3>1
    <3> QED
      BY <1>1, <2>0, <3>1, <3>2
  <2>2. ASSUME NEW X \in SUBSET Open, NEW served, Closing(X, served)
        PROVE  \A d \in Descriptors : clients'[d] \in {0, clients[d]}
    BY <2>2, CloseOwned DEF Closing
  <2>3. CASE \A d \in Descriptors : clients'[d] \in {0, clients[d]}
    BY <1>1, <2>0, <2>3
  <2> QED
    BY <2>1, <2>2, <2>3, TablesChange
<1> QED
  BY <1>0, <1>1, <1>2 DEF NumbersRise

\* Every step keeps the four views of the descriptors one relation.
LEMMA NextDescriptorsOwned == ServerInv /\ [Next]_vars => DescriptorsOwned'
<1> SUFFICES ASSUME ServerInv, [Next]_vars PROVE DescriptorsOwned'
  OBVIOUS
<1>1. CASE AcceptOne
  <2>1. PICK d \in Descriptors, c \in Connections :
          /\ files[d] = 0 /\ clients[d] = 0 /\ d \notin callbacks
          /\ c \notin Open
          /\ clients' = [clients EXCEPT ![d] = c]
          /\ connection_descriptors' = [connection_descriptors EXCEPT ![c] = d]
          /\ callbacks' = callbacks \cup {d}
          /\ \E f \in Connections : files' = [files EXCEPT ![d] = f]
    BY <1>1, AcceptOneIsNew
  <2>2. 0 \notin Connections /\ 0 \notin Descriptors
    BY LoopAssumption, ServerAssumption DEF Connections
  <2>3. connection_descriptors[c] = 0
    BY <2>1 DEF Open
  <2>4. /\ clients \in [Descriptors -> Connections \cup {0}]
        /\ connection_descriptors \in [Connections -> Descriptors \cup {0}]
        /\ files \in [Descriptors -> Connections \cup {0}]
        /\ DescriptorsOwned
    BY DEF ServerInv, LoopTypeOK
  <2>5. \A e \in Descriptors, x \in Connections :
          clients'[e] = x <=> connection_descriptors'[x] = e
    BY <2>1, <2>2, <2>3, <2>4 DEF DescriptorsOwned
  <2>6. callbacks' = Fixed \cup {e \in Descriptors : clients'[e] # 0}
    BY <2>1, <2>2, <2>4 DEF DescriptorsOwned
  <2>7. callbacks' = Fixed \cup {e \in Descriptors : files'[e] # 0}
    BY <2>1, <2>2, <2>4 DEF DescriptorsOwned
  <2> QED
    BY <2>5, <2>6, <2>7 DEF DescriptorsOwned
<1>2. ASSUME NEW X \in SUBSET Open, NEW served, Closing(X, served)
      PROVE  DescriptorsOwned'
  BY <1>2, CloseOwned DEF Closing
<1>3. CASE UNCHANGED <<callbacks, files, clients, connection_descriptors>>
  BY <1>3 DEF ServerInv, DescriptorsOwned
<1> QED
  BY <1>1, <1>2, <1>3, TablesChange

\* Every step keeps the number of connections within its limit.
LEMMA NextWithinLimit == ServerInv /\ [Next]_vars => WithinLimit'
<1> SUFFICES ASSUME ServerInv, [Next]_vars PROVE WithinLimit'
  OBVIOUS
<1>0. IsFiniteSet(Open) /\ Cardinality(Open) \in Nat
  <2>1. IsFiniteSet(Connections) /\ Open \in SUBSET Connections
    BY ServerAssumption, FS_Interval DEF Connections, Open
  <2> QED
    BY <2>1, FS_Subset, FS_CardinalityType
<1>1. CASE AcceptOne
  <2>1. PICK d \in Descriptors, c \in Connections :
          /\ c \notin Open
          /\ connection_descriptors' = [connection_descriptors EXCEPT ![c] = d]
    BY <1>1, AcceptOneIsNew
  <2>2. Open' = Open \cup {c}
    BY <2>1, LoopAssumption DEF Open, ServerInv, LoopTypeOK
  <2>3. Cardinality(Open') = Cardinality(Open) + 1
    BY <1>0, <2>1, <2>2, FS_AddElement
  <2>4. Cardinality(Open) < MaximumConnections
    BY <1>1 DEF AcceptOne, HasRoom
  <2> QED
    BY <1>0, <2>3, <2>4, ServerAssumption DEF WithinLimit
<1>2. ASSUME NEW X \in SUBSET Open, NEW served, Closing(X, served)
      PROVE  WithinLimit'
  <2>1. Open' \in SUBSET Open
    BY <1>2, CloseOwned DEF Closing
  <2>2. Cardinality(Open') <= Cardinality(Open) /\ Cardinality(Open') \in Nat
    BY <1>0, <2>1, FS_Subset, FS_CardinalityType
  <2> QED
    BY <1>0, <2>2, ServerAssumption DEF ServerInv, WithinLimit
<1>3. CASE UNCHANGED <<callbacks, files, clients, connection_descriptors>>
  BY <1>3 DEF ServerInv, WithinLimit, Open
<1> QED
  BY <1>1, <1>2, <1>3, TablesChange

\* Every step keeps the wakeup of a Stop under way while Run sleeps.
LEMMA NextStopNotMissed == ServerInv /\ [Next]_vars => StopNotMissed'
<1> SUFFICES ASSUME ServerInv, [Next]_vars PROVE StopNotMissed'
  OBVIOUS
<1>0. /\ StopNotMissed /\ LoopTypeOK
      /\ signals \in [Watchable -> SUBSET Signals]
      /\ stopper \in [Stoppers -> {"idle", "store", "notify", "done"}]
      /\ StopFd \in Watchable /\ ListenerFd \in Watchable /\ DatabaseFd \in Watchable
      /\ {"in"} \in SUBSET Signals
  BY DEF ServerInv, LoopTypeOK, Watchable, Fixed, Signals
<1> USE DEF StopNotMissed
\* A step that leaves the thread outside epoll_wait, or running_ set.
<1>1. CASE (RunBegins \/ RunStarts \/ RunChecks \/ PollEnds \/ EventDropped
              \/ StopConsumed)
             /\ UNCHANGED <<tables, others>>
  BY <1>1 DEF RunBegins, RunStarts, RunChecks, PollEnds, EventDropped,
              StopConsumed, Dispatches, stopVars, kernel
<1>2. CASE Poll \/ Interrupted \/ ListenerReady \/ AcceptOne \/ AcceptOver
             \/ AcceptAddFails \/ AcceptThrows \/ AcceptEnds
  BY <1>2 DEF Poll, PollOnce, Interrupted, PollInterrupted, ListenerReady,
              AcceptOne, AcceptOver, AcceptAddFails, AcceptThrows, AcceptEnds,
              Accepts
<1>3. CASE DatabaseReady \/ \E d \in Descriptors : ClientReady(d)
  BY <1>3 DEF DatabaseReady, ClientReady, Dispatches
\* Stop.
<1>4. ASSUME NEW s \in Stoppers, StopCalled(s) PROVE StopNotMissed'
  BY <1>0, <1>4 DEF StopCalled, kernel
<1>5. ASSUME NEW s \in Stoppers, StopStores(s) PROVE StopNotMissed'
  <2>1. stopper'[s] = "notify"
    BY <1>0, <1>5 DEF StopStores
  <2> QED
    BY <2>1
<1>6. ASSUME NEW s \in Stoppers, StopNotifies(s) PROVE StopNotMissed'
  <2>1. signals'[StopFd] = signals[StopFd] \cup {"in"}
    BY <1>0, <1>6, RaiseType DEF StopNotifies
  <2> QED
    BY <2>1
\* The world outside signals other descriptors.
<1>7. ASSUME NEW d \in Watchable, NEW what \in SUBSET Signals, Raise(d, what),
             UNCHANGED <<thread, stopVars>>
      PROVE  StopNotMissed'
  <2>1. signals[StopFd] \subseteq signals'[StopFd]
    BY <1>0, <1>7, RaiseType
  <2> QED
    BY <1>0, <1>7, <2>1 DEF stopVars
<1>8. CASE PeerConnects \/ DatabaseSignals
  BY <1>0, <1>7, <1>8 DEF PeerConnects, DatabaseSignals
<1>9. ASSUME NEW d \in Descriptors, NEW what \in Signals, PeerActs(d, what)
      PROVE  StopNotMissed'
  <2>1. d \in Watchable /\ {what} \in SUBSET Signals
    BY DEF Watchable
  <2> QED
    BY <1>7, <1>9, <2>1 DEF PeerActs
<1>10. CASE UNCHANGED vars
  BY <1>0, <1>10 DEF vars, loopVars, stopVars, kernel
<1> QED
  BY <1>1, <1>2, <1>3, <1>4, <1>5, <1>6, <1>8, <1>9, <1>10
     DEF Next, Loop, Stopping, StopStep

\* The events PollOnce has still to dispatch, as a set; and one that does not
\* mislead a connection that was there when the loop polled.
Pending == {events[i] : i \in 1 .. Len(events)}

WellAimed(e) ==
    e.fd \in callbacks \ Fixed /\ files[e.fd] # e.file => clients[e.fd] > fresh

\* OnlyNewcomersMisled, event by event.
LEMMA MisledByEvent ==
    LoopTypeOK => (OnlyNewcomersMisled <=> \A e \in Pending : WellAimed(e))
<1> SUFFICES ASSUME LoopTypeOK
             PROVE  OnlyNewcomersMisled <=> \A e \in Pending : WellAimed(e)
  OBVIOUS
<1>1. DOMAIN events = 1 .. Len(events)
  BY DEF LoopTypeOK
<1> QED
  BY <1>1 DEF OnlyNewcomersMisled, Pending, WellAimed

\* Only PollOnce brings new events.
LEMMA NextPending ==
  ASSUME LoopTypeOK, [Next]_vars
  PROVE  Poll \/ (fresh' = fresh /\ Pending' \subseteq Pending)
<1>1. ASSUME events' = events \/ (events # <<>> /\ events' = Tail(events))
      PROVE  Pending' \subseteq Pending
  <2>1. CASE events' = events
    BY <2>1 DEF Pending
  <2>2. CASE events # <<>> /\ events' = Tail(events)
    <3>1. /\ Len(events') = Len(events) - 1 /\ Len(events) \in Nat
          /\ \A k \in 1 .. Len(events') : events'[k] = events[k + 1]
      BY <2>2, HeadTailProperties DEF LoopTypeOK
    <3>2. \A k \in 1 .. Len(events') : k + 1 \in 1 .. Len(events)
      BY <3>1
    <3> QED
      BY <3>1, <3>2 DEF Pending
  <2> QED
    BY <1>1, <2>1, <2>2
<1>2. CASE Loop
  BY <1>1, <1>2
     DEF Loop, RunBegins, RunStarts, RunChecks, PollEnds, EventDropped,
         StopConsumed, ListenerReady, AcceptOne, AcceptOver, AcceptEnds,
         Accepts, ClientReady, DatabaseReady, Dispatches, others
<1>3. CASE Interrupted \/ AcceptAddFails \/ AcceptThrows
  BY <1>1, <1>3
     DEF Interrupted, PollInterrupted, AcceptAddFails, AcceptThrows, Accepts
<1>4. ASSUME NEW s \in Stoppers,
             StopCalled(s) \/ StopStores(s) \/ StopNotifies(s),
             UNCHANGED <<tables, others>>
      PROVE  fresh' = fresh /\ Pending' \subseteq Pending
  BY <1>1, <1>4 DEF StopCalled, StopStores, StopNotifies, others
<1>5. CASE PeerConnects \/ DatabaseSignals
             \/ \E d \in Descriptors, what \in Signals : PeerActs(d, what)
  BY <1>1, <1>5 DEF PeerConnects, DatabaseSignals, PeerActs, others
<1>6. CASE UNCHANGED vars
  BY <1>1, <1>6 DEF vars, loopVars, others
<1> QED
  BY <1>2, <1>3, <1>4, <1>5, <1>6 DEF Next, Stopping, StopStep

\* Every step keeps the events away from connections that were there when the
\* loop polled, if they are not about them.
LEMMA NextOnlyNewcomersMisled ==
    ServerInv /\ [Next]_vars => OnlyNewcomersMisled'
<1> SUFFICES ASSUME ServerInv, [Next]_vars PROVE OnlyNewcomersMisled'
  OBVIOUS
<1>0. /\ LoopTypeOK /\ NumbersRise
      /\ \A e \in Pending : WellAimed(e)
      /\ clients \in [Descriptors -> Nat]
      /\ files \in [Descriptors -> Connections \cup {0}]
  BY MisledByEvent, ServerAssumption DEF ServerInv, LoopTypeOK, Connections
<1>1. callbacks' \ Fixed \subseteq Descriptors
  BY NextLoopTypeOK DEF LoopTypeOK
<1>2. SUFFICES ASSUME NEW e \in Pending' PROVE WellAimed(e)'
  <2>1. LoopTypeOK'
    BY NextLoopTypeOK
  <2>2. (OnlyNewcomersMisled <=> \A e \in Pending : WellAimed(e))'
    BY <2>1, MisledByEvent, PTL
  <2> QED
    BY <1>2, <2>2
<1>3. SUFFICES ASSUME e.fd \in callbacks' \ Fixed, files'[e.fd] # e.file
               PROVE  clients'[e.fd] > fresh'
  BY DEF WellAimed
<1> DEFINE d == e.fd
<1>4. d \in Descriptors
  BY <1>1, <1>3
\* What is reported is about the present owner of the descriptor.
<1>5. ~Poll
  <2> SUFFICES ASSUME Poll PROVE FALSE
    OBVIOUS
  <2>1. files'[d] = files[d]
    BY DEF Poll, PollOnce
  <2>2. d \in Descriptors \ Fixed => e.file = files[d]
    BY <1>0, PollOnceType DEF Poll, Pending
  <2> QED
    BY <1>3, <1>4, <2>1, <2>2
<1>6. fresh' = fresh /\ WellAimed(e)
  BY <1>0, <1>5, NextPending
<1>7. CASE AcceptOne
  <2>1. PICK a \in Descriptors, c \in Connections :
          /\ c = next_connection_id + 1
          /\ clients' = [clients EXCEPT ![a] = c]
          /\ callbacks' = callbacks \cup {a}
          /\ \E f \in Connections : files' = [files EXCEPT ![a] = f]
    BY <1>7, AcceptOneIsNew
  <2>2. CASE d = a
    <3>1. clients'[d] = next_connection_id + 1
      BY <1>0, <1>4, <2>1, <2>2
    <3> QED
      BY <1>0, <1>6, <3>1 DEF NumbersRise
  <2>3. CASE d # a
    <3>1. /\ clients'[d] = clients[d] /\ files'[d] = files[d]
          /\ d \in callbacks
      BY <1>0, <1>3, <1>4, <2>1, <2>3
    <3> QED
      BY <1>3, <1>6, <3>1 DEF WellAimed
  <2> QED
    BY <2>2, <2>3
<1>8. ASSUME NEW X \in SUBSET Open, NEW served, Closing(X, served)
      PROVE  clients'[d] > fresh'
  <2>1. /\ d \in callbacks
        /\ clients'[d] = clients[d] /\ files'[d] = files[d]
    BY <1>3, <1>4, <1>8, CloseOwned DEF Closing
  <2> QED
    BY <1>3, <1>6, <2>1 DEF WellAimed
<1>9. CASE UNCHANGED <<callbacks, files, clients, connection_descriptors>>
  BY <1>3, <1>6, <1>9 DEF WellAimed
<1> QED
  BY <1>7, <1>8, <1>9, TablesChange

-----------------------------------------------------------------------------
\* The invariant that carries the following theorems.
THEOREM ServerInvariant == Spec => []ServerInv
<1>1. Init => ServerInv
  <2> SUFFICES ASSUME Init PROVE ServerInv
    OBVIOUS
  <2> USE LoopAssumption, ServerAssumption DEF Init, LoopInit
  <2>1. LoopTypeOK
    <3>1. events \in Seq(Event) /\ ready \in Seq(Watchable)
      OBVIOUS
    <3>2. /\ signals \in [Watchable -> SUBSET Signals]
          /\ stopper \in [Stoppers -> {"idle", "store", "notify", "done"}]
          /\ thread \in Threads
      BY DEF Watchable, Threads
    <3>3. /\ files \in [Descriptors -> Connections \cup {0}]
          /\ clients \in [Descriptors -> Connections \cup {0}]
          /\ connection_descriptors \in [Connections -> Descriptors \cup {0}]
      OBVIOUS
    <3>4. /\ next_connection_id + backlog <= arrivals
          /\ arrivals <= MaxArrivals /\ faults <= MaxFaults
      OBVIOUS
    <3>5. /\ callbacks \subseteq Watchable
          /\ running \in BOOLEAN /\ stopped \in BOOLEAN
      BY DEF Watchable
    <3> HIDE DEF Init, LoopInit
    <3> QED
      BY <3>1, <3>2, <3>3, <3>4, <3>5 DEF LoopTypeOK, Event, Watchable
  <2>2. NumbersRise /\ StopNotMissed /\ OnlyNewcomersMisled
    BY DEF NumbersRise, StopNotMissed, OnlyNewcomersMisled
  <2>3. DescriptorsOwned
    BY DEF DescriptorsOwned, Connections
  <2>4. WithinLimit
    <3>1. Open = {}
      BY DEF Open
    <3> QED
      BY <3>1, FS_EmptySet DEF WithinLimit
  <2> QED
    BY <2>1, <2>2, <2>3, <2>4 DEF ServerInv
<1>2. ServerInv /\ [Next]_vars => ServerInv'
  BY NextLoopTypeOK, NextNumbersRise, NextDescriptorsOwned, NextWithinLimit,
     NextStopNotMissed, NextOnlyNewcomersMisled
     DEF ServerInv
<1> QED
  BY <1>1, <1>2, PTL DEF Spec

\* Type correctness of EventLoop's and GameServer's members; a connection
\* accepted takes one number.
THEOREM LoopTypeCorrect == Spec => []LoopTypeOK
<1>1. ServerInv => LoopTypeOK
  BY DEF ServerInv
<1> QED
  BY <1>1, ServerInvariant, PTL

\* GameServer's two tables, the loop's callbacks and the kernel's open files
\* stay four views of one relation (AcceptReady, CloseConnection).
THEOREM LoopDescriptorsOwned == Spec => []DescriptorsOwned
<1>1. ServerInv => DescriptorsOwned
  BY DEF ServerInv
<1> QED
  BY <1>1, ServerInvariant, PTL

\* No wakeup of EventLoop::Stop is lost: see StopNotMissed.
THEOREM LoopStopNotMissed == Spec => []StopNotMissed
<1>1. ServerInv => StopNotMissed
  BY DEF ServerInv
<1> QED
  BY <1>1, ServerInvariant, PTL

\* The dispatch of PollOnce misleads nobody that was there when it polled: see
\* OnlyNewcomersMisled.
THEOREM LoopOnlyNewcomersMisled == Spec => []OnlyNewcomersMisled
<1>1. ServerInv => OnlyNewcomersMisled
  BY DEF ServerInv
<1> QED
  BY <1>1, ServerInvariant, PTL

\* AcceptReady finds a free descriptor if the process may open one more than
\* the limit on connections: were all taken, each would have an open connection
\* of its own, and there would be too many.
THEOREM LoopAcceptHasDescriptor == Spec => []AcceptHasDescriptor
<1>1. ServerInv => AcceptHasDescriptor
  <2> SUFFICES ASSUME ServerInv, Cardinality(Descriptors) > MaximumConnections,
                      FreeDescriptors = {}
               PROVE  FALSE
    BY DEF AcceptHasDescriptor
  <2>1. \A d \in Descriptors : clients[d] # 0
    <3>1. Descriptors \cap Fixed = {}
      BY LoopAssumption DEF Fixed, StopFd, ListenerFd, DatabaseFd
    <3>2. \A d \in Descriptors : files[d] # 0
      BY DEF FreeDescriptors
    <3> QED
      BY <3>1, <3>2 DEF ServerInv, DescriptorsOwned
  <2>2. \A d \in Descriptors : clients[d] \in Open
    BY <2>1, SelfIsOpen
  <2>3. \A d, e \in Descriptors : clients[d] = clients[e] => d = e
    BY <2>1 DEF ServerInv, LoopTypeOK, DescriptorsOwned
  <2>4. clients \in Injection(Descriptors, Open)
    BY <2>2, <2>3 DEF ServerInv, LoopTypeOK, Injection, IsInjective
  <2>5. IsFiniteSet(Open)
    <3>1. IsFiniteSet(Connections) /\ Open \in SUBSET Connections
      BY ServerAssumption, FS_Interval DEF Connections, Open
    <3> QED
      BY <3>1, FS_Subset
  <2>6. Cardinality(Descriptors) <= Cardinality(Open)
    BY <2>4, <2>5, FS_Injection
  <2>7. Cardinality(Descriptors) \in Nat /\ Cardinality(Open) \in Nat
    BY <2>5, LoopAssumption, FS_CardinalityType
  <2> QED
    BY <2>6, <2>7, ServerAssumption DEF ServerInv, WithinLimit
<1> QED
  BY <1>1, ServerInvariant, PTL
=============================================================================
