---------------------------- MODULE FrameChannel ---------------------------
(***************************************************************************)
(* What one direction of a connection promises its two ends: the frames    *)
(* that were accepted for sending are handed over whole, once each and in  *)
(* the order of the sends, until the connection breaks; a break may lose   *)
(* the frames sent last, and no others.                                    *)
(***************************************************************************)
EXTENDS Integers, Sequences

CONSTANT Frame

VARIABLES
    open,   \* whether the connection is usable
    queue,  \* the frames under way
    last    \* the frames the last step has handed over

channelVars == <<open, queue, last>>

ChannelInit == open = TRUE /\ queue = <<>> /\ last = <<>>

FirstOf(s, n) == SubSeq(s, 1, n)
RestOf(s, n) == SubSeq(s, n + 1, Len(s))

Send ==
    /\ \E m \in Frame : queue' = Append(queue, m)
    /\ last' = <<>>
    /\ UNCHANGED open

Deliver ==
    \E n \in 1 .. Len(queue) :
        /\ last' = FirstOf(queue, n)
        /\ queue' = RestOf(queue, n)
        /\ UNCHANGED open

\* The last delivery and the break may be one step.
Break ==
    \E n \in 0 .. Len(queue) :
        /\ open' = FALSE
        /\ last' = FirstOf(queue, n)
        /\ \E k \in 0 .. Len(queue) - n : queue' = FirstOf(RestOf(queue, n), k)

Idle == last' = <<>> /\ UNCHANGED <<open, queue>>

Connect == ~open /\ open' = TRUE /\ queue' = <<>> /\ last' = <<>>

ChannelNext == Send \/ Deliver \/ Break \/ Idle \/ Connect

\* While the connection lasts, a frame under way is handed over.
EveryFrameArrives == open /\ queue # <<>> ~> last # <<>> \/ ~open

ChannelSpec == ChannelInit /\ [][ChannelNext]_channelVars /\ EveryFrameArrives
=============================================================================
