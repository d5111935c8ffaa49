--------------------------- MODULE TcpConnection ---------------------------
(***************************************************************************)
(* The server's end of a TCP connection (src/net/tcp_connection.cpp): a    *)
(* decoder, and the output the kernel has not taken yet.                   *)
(***************************************************************************)
EXTENDS FrameCodec

CONSTANTS
    MaximumPendingBytes,  \* maximum_pending_bytes_
    SizeModulus           \* size_t counts modulo this

ASSUME ConnectionAssumption ==
    /\ MaximumPendingBytes \in Nat \ {0}
    /\ SizeModulus \in Nat
    /\ SizeModulus > 2 * MaximumPendingBytes

NewConnection == [decoder |-> NewDecoder, output |-> <<>>, output_offset |-> 0]

PendingBytes(c) == Len(c.output) - c.output_offset

WantsWrite(c) == c.output_offset < Len(c.output)

Pending(c) == SubSeq(c.output, c.output_offset + 1, Len(c.output))

\* Mutant of CompactOutput: the offset survives the bytes it counts.
CompactOutputKeepsOffset(c) == [c EXCEPT !.output = Pending(c)]

\* Mutant of CompactOutput: only a buffer that was sent is given back.
CompactOutputWhenSent(c) ==
    IF WantsWrite(c) THEN c ELSE [c EXCEPT !.output = <<>>, !.output_offset = 0]

CompactOutput(c) == [c EXCEPT !.output = Pending(c), !.output_offset = 0]

\* QueueBytes: whether it takes the bytes, and the connection it leaves.  The
\* room that is left is a difference of two unsigned numbers.
CanQueue(c, bytes) ==
    Len(bytes) <= (MaximumPendingBytes - PendingBytes(c)) % SizeModulus

QueueBytes(c, bytes) ==
    LET compacted == CompactOutput(c)
    IN  IF CanQueue(compacted, bytes)
        THEN [compacted EXCEPT !.output = @ \o bytes]
        ELSE compacted

\* Flush, when the kernel has room for this many bytes: what it takes, and
\* the connection that is left.
Flushed(c, room) ==
    SubSeq(c.output, c.output_offset + 1,
           c.output_offset + IF PendingBytes(c) < room THEN PendingBytes(c) ELSE room)

Flush(c, room) ==
    IF PendingBytes(c) <= room
    THEN [c EXCEPT !.output = <<>>, !.output_offset = 0]
    ELSE [c EXCEPT !.output_offset = @ + room]

\* ReadAvailable, when these bytes have arrived: all of them are read before
\* the first is decoded.
ReadAvailable(c, bytes) == NextFrames[AppendBytes(c.decoder, bytes)]
=============================================================================
