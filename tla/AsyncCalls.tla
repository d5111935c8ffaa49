----------------------------- MODULE AsyncCalls -----------------------------
(***************************************************************************)
(* What the asynchronous data service promises the game logic: a call is   *)
(* refused on the spot (the method returns false), or it is accepted and   *)
(* its callback runs exactly once, later, on the event-loop thread; unless *)
(* the store's own code throws, in which case the callback never runs.     *)
(* Callbacks of different calls may run in any order.  Once closed, the    *)
(* service owes nobody a callback and runs none.                           *)
(***************************************************************************)
CONSTANT Calls

VARIABLES
    status,     \* what has become of each call
    closed      \* the service has been shut down and its last callback run

callVars == <<status, closed>>

Statuses == {"idle", "pending", "called", "refused", "faulted"}

CallsInit ==
    /\ status = [c \in Calls |-> "idle"]
    /\ closed = FALSE

Become(c, from, to) ==
    /\ status[c] = from
    /\ status' = [status EXCEPT ![c] = to]

Accept(c) == ~closed /\ Become(c, "idle", "pending") /\ UNCHANGED closed

Refuse(c) == Become(c, "idle", "refused") /\ UNCHANGED closed

Callback(c) == ~closed /\ Become(c, "pending", "called") /\ UNCHANGED closed

Fault(c) == ~closed /\ Become(c, "pending", "faulted") /\ UNCHANGED closed

Close ==
    /\ \A c \in Calls : status[c] # "pending"
    /\ closed' = TRUE
    /\ UNCHANGED status

CallsNext ==
    \/ \E c \in Calls : Accept(c) \/ Refuse(c) \/ Callback(c) \/ Fault(c)
    \/ Close

CallsFairness ==
    \A c \in Calls : WF_callVars(Callback(c) \/ Fault(c))

CallsSafety == CallsInit /\ [][CallsNext]_callVars

CallsSpec == CallsSafety /\ CallsFairness
=============================================================================
