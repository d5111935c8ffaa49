-------------------------------- MODULE Wire -------------------------------
(***************************************************************************)
(* One connection from end to end: GameServer's Send and ClientReady on a  *)
(* TcpConnection (src/server/game_server.cpp), the bytes in the two        *)
(* directions of the socket (external), and the client application with    *)
(* its two threads on a BlockingClient (apps/mmo_client_main.cpp,          *)
(* src/client/blocking_client.cpp).  What the messages say, and what the   *)
(* game does with them, is left open: it may send any reply at any time,   *)
(* and disconnect the client.                                              *)
(***************************************************************************)
EXTENDS TcpConnection

CONSTANTS
    Login,      \* the client's first message
    Requests,   \* what clients send; one EncodeFrame would refuse stands for
                \* another implementation of the client
    Replies,    \* what the game may have the server send
    UpRoom,     \* how many bytes the socket holds, client to server
    DownRoom,   \* and server to client
    ReadSize    \* the size of the array Receive reads into

ASSUME WireAssumption ==
    /\ {Login} \cup Requests \cup Replies \subseteq
         [id : Nat, payload : Seq(0 .. Base - 1)]
    /\ CanEncode(Login)
    \* what a header has no room for, no client can say
    /\ \A m \in Requests : /\ m.id < ValuesOf[FieldSize]
                           /\ Len(m.payload) < ValuesOf[FieldSize]
    /\ UpRoom \in Nat \ {0} /\ DownRoom \in Nat \ {0} /\ ReadSize \in Nat \ {0}

VARIABLES
    open,      \* the server has this connection in its tables
    conn,      \* its TcpConnection
    interest,  \* its epoll registration asks for EPOLLOUT
    marked,    \* it is in marked_for_close_
    handled,   \* the frames the server's last callback has handed to the game
    up, down,  \* the bytes in the socket, in each direction
    main,      \* where the client's main thread is
    unsent,    \* the bytes its Send has still to pass to the socket
    receiver,  \* where the client's receiver thread is
    decoder,   \* the client's decoder_
    got,       \* the frame the receiver thread has just received
    running,   \* running, shared by the client's threads
    shut,      \* shutdown_, and the socket is shut down
    upFrames,   \* history: the frames sent and not yet handed over, in each
    downFrames  \* direction

server == <<open, conn, interest, marked>>
client == <<main, unsent, receiver, decoder, running, shut>>
history == <<upFrames, downFrames>>
vars == <<server, handled, up, down, client, got, history>>

Init ==
    /\ open = TRUE
    /\ conn = NewConnection
    /\ interest = FALSE /\ marked = FALSE
    /\ up = <<>> /\ down = <<>>
    /\ main = "connected"
    /\ unsent = <<>>
    /\ receiver = "none"
    /\ decoder = NewDecoder
    /\ running = TRUE
    /\ shut = FALSE
    /\ handled = <<>> /\ got = <<>>
    /\ upFrames = <<>> /\ downFrames = <<>>

\* Nothing is handed over in this step.
Quiet == handled' = <<>> /\ got' = <<>>

\* What is under way once these frames were handed over.
Without(frames, delivered) == SubSeq(frames, Len(delivered) + 1, Len(frames))

\* The client is started again: Connect, and the server accepts.
Reconnect ==
    /\ main = "ended"
    /\ ~open
    /\ open' = TRUE
    /\ conn' = NewConnection
    /\ interest' = FALSE /\ marked' = FALSE
    /\ up' = <<>> /\ down' = <<>>
    /\ main' = "connected"
    /\ unsent' = <<>>
    /\ receiver' = "none"
    /\ decoder' = NewDecoder
    /\ running' = TRUE
    /\ shut' = FALSE
    /\ handled' = <<>> /\ got' = <<>>
    /\ upFrames' = <<>> /\ downFrames' = <<>>

-----------------------------------------------------------------------------
(* The server.                                                             *)

\* CloseConnection: what was not sent is lost, and if the client's bytes were
\* not all read, so may be what is still in the socket.
CloseConnection(unread, sent) ==
    /\ open' = FALSE
    /\ conn' = NewConnection
    /\ interest' = FALSE /\ marked' = FALSE
    /\ up' = <<>> /\ upFrames' = <<>>
    /\ \E n \in (IF unread = <<>> THEN {Len(sent)} ELSE 0 .. Len(sent)) :
         down' = SubSeq(sent, 1, n)

\* Mutant of Interest: the registration is left as it was.
InterestKept(c) == interest

\* UpdateInterest.
Interest(c) == WantsWrite(c)

\* Flush and UpdateInterest.
FlushOutput(c) ==
    LET room == DownRoom - Len(down)
    IN  /\ conn' = Flush(c, room)
        /\ down' = down \o Flushed(c, room)
        /\ interest' = Interest(conn')

\* Send, in whatever callback the game decides to.  A connection that cannot
\* take the frame is marked, but a shorter one may be taken after it.
ServerSends(m) ==
    /\ open
    /\ IF CanEncode(m) /\ CanQueue(CompactOutput(conn), EncodeFrame(m))
       THEN /\ FlushOutput(QueueBytes(conn, EncodeFrame(m)))
            /\ downFrames' = Append(downFrames, m)
            /\ UNCHANGED marked
       ELSE /\ conn' = IF CanEncode(m) THEN QueueBytes(conn, EncodeFrame(m)) ELSE conn
            /\ marked' = TRUE
            /\ UNCHANGED <<interest, down, downFrames>>
    /\ Quiet
    /\ UNCHANGED <<open, up, upFrames, client>>

\* CloseMarkedConnections, at the end of the callback.
CloseMarked ==
    /\ open /\ marked
    /\ CloseConnection(up, down)
    /\ Quiet
    /\ UNCHANGED <<client, downFrames>>

\* Disconnect, for a reason of the game's or of another client's; or recv,
\* send or epoll_ctl fails.
ServerDisconnects ==
    /\ open
    /\ CloseConnection(up, down)
    /\ Quiet
    /\ UNCHANGED <<client, downFrames>>

\* ClientReady: EPOLLIN, then EPOLLOUT, then EPOLLRDHUP.  One of the frames may
\* lead to the end of the connection; those after it are dropped.
ClientReady ==
    LET out == interest /\ Len(down) < DownRoom
        sent == IF out THEN Flushed(conn, DownRoom - Len(down)) ELSE <<>>
    IN  /\ open /\ ~marked
        /\ up # <<>> \/ shut \/ out
        /\ got' = <<>>
        /\ UNCHANGED <<client, downFrames>>
        /\ \E read \in {ReadAvailable(conn, up)} :
             LET frames == IF read.status = "failed" THEN <<>> ELSE read.frames
                 closes == read.status = "failed" \/ shut
             IN  \/ \E n \in 1 .. Len(frames) :
                      /\ handled' = SubSeq(frames, 1, n)
                      /\ CloseConnection(<<>>, down)
                 \/ /\ closes
                    /\ handled' = frames
                    /\ CloseConnection(<<>>, down \o sent)
                 \/ /\ ~closes
                    /\ handled' = frames
                    /\ upFrames' = Without(upFrames, frames)
                    /\ up' = <<>>
                    /\ UNCHANGED <<open, marked>>
                    /\ IF out THEN FlushOutput([conn EXCEPT !.decoder = read.decoder])
                       ELSE /\ conn' = [conn EXCEPT !.decoder = read.decoder]
                            /\ interest' = Interest(conn')
                            /\ UNCHANGED down

-----------------------------------------------------------------------------
(* The client's main thread.                                               *)

MainLogsIn ==
    /\ main = "connected"
    /\ unsent' = EncodeFrame(Login)
    /\ main' = "login"
    /\ upFrames' = IF open THEN <<Login>> ELSE <<>>
    /\ Quiet
    /\ UNCHANGED <<server, up, down, receiver, decoder, running, shut, downFrames>>

\* The user has the client send something, quits, or closes the input.
MainReads ==
    /\ main = "typing"
    /\ \/ \E m \in Requests :
            /\ unsent' = EncodeFrame(m)
            /\ main' = "sending"
            /\ upFrames' = IF open /\ CanEncode(m) THEN Append(upFrames, m) ELSE upFrames
       \/ UNCHANGED <<unsent, upFrames>> /\ main' = "leaving"
    /\ Quiet
    /\ UNCHANGED <<server, up, down, receiver, decoder, running, shut, downFrames>>

MainChecks ==
    /\ main = "check"
    /\ main' = IF running THEN "typing" ELSE "leaving"
    /\ Quiet
    /\ UNCHANGED <<server, up, down, unsent, receiver, decoder, running, shut, history>>

\* send, in the loop of Send: the socket takes some of the bytes.
MainSends ==
    /\ main \in {"login", "sending"}
    /\ open
    /\ unsent # <<>>
    /\ \E n \in 1 .. Len(unsent) :
         /\ Len(up) + n <= UpRoom
         /\ up' = up \o SubSeq(unsent, 1, n)
         /\ unsent' = SubSeq(unsent, n + 1, Len(unsent))
    /\ Quiet
    /\ UNCHANGED <<server, down, main, receiver, decoder, running, shut, history>>

\* Send has sent everything; after the login the receiver thread is started.
MainSent ==
    /\ main \in {"login", "sending"}
    /\ unsent = <<>>
    /\ main' = "check"
    /\ receiver' = IF main = "login" THEN "loop" ELSE receiver
    /\ Quiet
    /\ UNCHANGED <<server, up, down, unsent, decoder, running, shut, history>>

\* The server has closed, and its kernel has not said so yet.
MainSendsInVain ==
    /\ main \in {"login", "sending"}
    /\ ~open
    /\ unsent # <<>>
    /\ unsent' = <<>>
    /\ Quiet
    /\ UNCHANGED <<server, up, down, main, receiver, decoder, running, shut, history>>

\* The server has closed: Send gives up.  Only the login's failure matters.
MainSendFails ==
    /\ main \in {"login", "sending"}
    /\ ~open
    /\ unsent # <<>>
    /\ unsent' = <<>>
    /\ main' = IF main = "login" THEN "ended" ELSE "check"
    /\ receiver' = IF main = "login" THEN "ended" ELSE receiver
    /\ Quiet
    /\ UNCHANGED <<server, up, down, decoder, running, shut, history>>

MainLeaves ==
    /\ main = "leaving"
    /\ running' = FALSE
    /\ main' = "shutdown"
    /\ Quiet
    /\ UNCHANGED <<server, up, down, unsent, receiver, decoder, shut, history>>

\* BlockingClient::Shutdown.
MainShutsDown ==
    /\ main = "shutdown"
    /\ shut' = TRUE
    /\ main' = "join"
    /\ Quiet
    /\ UNCHANGED <<server, up, down, unsent, receiver, decoder, running, history>>

MainJoins ==
    /\ main = "join"
    /\ receiver = "ended"
    /\ main' = "ended"
    /\ Quiet
    /\ UNCHANGED <<server, up, down, unsent, receiver, decoder, running, shut, history>>

MainStep ==
    \/ MainLogsIn \/ MainChecks \/ MainSends \/ MainSent \/ MainSendsInVain
    \/ MainSendFails \/ MainLeaves \/ MainShutsDown \/ MainJoins

-----------------------------------------------------------------------------
(* The client's receiver thread: a loop around BlockingClient::Receive.    *)

\* Mutant of ReceiverLoops: while (true).
ReceiverLoopsForever ==
    /\ receiver = "loop"
    /\ receiver' = IF shut THEN receiver ELSE "decode"
    /\ running' = (running /\ ~shut)
    /\ Quiet
    /\ UNCHANGED <<server, up, down, main, unsent, decoder, shut, history>>

\* Receive returns kClosed at once after a Shutdown.
ReceiverLoops ==
    /\ receiver = "loop"
    /\ receiver' = IF ~running THEN "ended" ELSE IF shut THEN "loop" ELSE "decode"
    /\ running' = (running /\ ~shut)
    /\ Quiet
    /\ UNCHANGED <<server, up, down, main, unsent, decoder, shut, history>>

\* Next: a frame, a failure, or the need for more bytes.
ReceiverDecodes ==
    /\ receiver = "decode"
    /\ handled' = <<>>
    /\ UNCHANGED <<server, up, down, main, unsent, shut, upFrames>>
    /\ \E next \in {NextFrame(decoder)} :
         /\ decoder' = next.decoder
         /\ got' = next.frames
         /\ downFrames' = Without(downFrames, next.frames)
         /\ receiver' = IF next.status = "more" THEN "poll" ELSE "loop"
         /\ running' = (running /\ next.status # "failed")

\* The deadline has passed: kTimeout.
ReceiverTimesOut ==
    /\ receiver = "poll"
    /\ receiver' = "loop"
    /\ Quiet
    /\ UNCHANGED <<server, up, down, main, unsent, decoder, running, shut, history>>

\* recv takes what has arrived, up to the size of the array.
ReceiverReads ==
    /\ receiver = "poll"
    /\ down # <<>>
    /\ \E n \in {IF Len(down) < ReadSize THEN Len(down) ELSE ReadSize} :
         /\ decoder' = AppendBytes(decoder, SubSeq(down, 1, n))
         /\ down' = SubSeq(down, n + 1, Len(down))
    /\ receiver' = "decode"
    /\ Quiet
    /\ UNCHANGED <<server, up, main, unsent, running, shut, history>>

\* recv returns 0, or fails: kClosed or kIoError.  After a reset poll reports
\* POLLERR, whatever has arrived before it and is not read yet.
ReceiverFindsClosed ==
    /\ receiver = "poll"
    /\ ~open \/ (shut /\ down = <<>>)
    /\ running' = FALSE
    /\ receiver' = "loop"
    /\ Quiet
    /\ UNCHANGED <<server, up, down, main, unsent, decoder, shut, history>>

ReceiverStep ==
    ReceiverLoops \/ ReceiverDecodes \/ ReceiverReads \/ ReceiverFindsClosed

-----------------------------------------------------------------------------
Next ==
    \/ \E m \in Replies : ServerSends(m)
    \/ CloseMarked \/ ServerDisconnects
    \/ ClientReady
    \/ MainReads \/ MainStep
    \/ ReceiverStep \/ ReceiverTimesOut
    \/ Reconnect

\* What a ClientReady does to the socket: it empties it, fills it, closes it.
Empties == open /\ ~marked /\ up # <<>> /\ up' = <<>>
Fills ==
    /\ open /\ ~marked /\ interest /\ Len(down) < DownRoom
    /\ down' = down \o Flushed(conn, DownRoom - Len(down))
Closes == open /\ ~marked /\ shut /\ open' = FALSE

\* The event loop serves whoever is ready (EveryReadyIsServed); both of the
\* client's threads run, and Receive's 250 ms do not pass each time before it
\* has come from the decoder to the socket.
Fairness ==
    /\ WF_up(Empties) /\ WF_down(Fills) /\ WF_open(Closes)
    /\ WF_vars(CloseMarked)
    /\ WF_vars(MainStep)
    /\ WF_vars(ReceiverStep)
    /\ SF_vars(ReceiverReads \/ ReceiverFindsClosed)

Spec == Init /\ [][Next]_vars /\ Fairness

-----------------------------------------------------------------------------
(* Properties.                                                             *)

DecoderOK(d) == d.buffer \in Bytes /\ d.read_offset \in 0 .. Len(d.buffer) /\ d.failed \in BOOLEAN

\* The types of both ends of a connection and of the bytes between them; the
\* read and output offsets stay within their buffers, so that every span the
\* code forms from them is one of the buffer.
WireTypeOK ==
    /\ open \in BOOLEAN /\ interest \in BOOLEAN /\ marked \in BOOLEAN
    /\ running \in BOOLEAN /\ shut \in BOOLEAN
    /\ DecoderOK(conn.decoder) /\ DecoderOK(decoder)
    /\ conn.output \in Bytes /\ conn.output_offset \in 0 .. Len(conn.output)
    /\ up \in Bytes /\ Len(up) <= UpRoom
    /\ down \in Bytes /\ Len(down) <= DownRoom
    /\ unsent \in Bytes
    /\ main \in {"connected", "login", "check", "typing", "sending", "leaving", "shutdown",
                 "join", "ended"}
    /\ receiver \in {"none", "loop", "decode", "poll", "ended"}

\* The memory a slow client costs is bounded: the output buffer, with the part
\* of it that was sent already, stays within the limit, and the unsigned
\* difference QueueBytes compares with never wraps (tcp_connection.cpp:69-73).
OutputBounded == Len(conn.output) <= MaximumPendingBytes

\* Between two callbacks epoll is asked for EPOLLOUT exactly when there is
\* output: without it the output would never leave, and with it for nothing
\* the level-triggered loop would spin (game_server.cpp:107-111, 246-257).
InterestExact == open => (interest <=> WantsWrite(conn))

\* What a callback leaves in the server's decoder is less than one frame, and
\* the decoded bytes in front of it are bounded too: Compact cannot be outrun
\* by a client whose frames never end where a read does
\* (frame_codec.cpp:149-162).
DecoderBounded ==
    /\ BufferedBytes(conn.decoder) < MaxFrameSize
    /\ \/ conn.decoder.read_offset < CompactAt
       \/ conn.decoder.read_offset < MaxFrameSize

Frame == {m \in {Login} \cup Requests \cup Replies : CanEncode(m)}

Down == INSTANCE FrameChannel WITH
    open <- open /\ running, queue <- downFrames, last <- got

\* The client gets the frames the game has sent, whole, in order and once
\* each, however TCP cuts them up and however slowly it reads; and while the
\* connection lasts it gets all of them.
DownIsChannel == Down!ChannelSpec

Up == INSTANCE FrameChannel WITH queue <- upFrames, last <- handled

\* So does the game with what the client has sent, up to a frame the decoder
\* refuses, which closes the connection.
UpIsChannel == Up!ChannelSpec

\* A user who quits gets the prompt back: neither the receiver thread in its
\* poll, nor a server that is slow or gone, keeps the client from ending.
ClientExits == main = "leaving" ~> main = "ended"
=============================================================================
