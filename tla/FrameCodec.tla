---------------------------- MODULE FrameCodec -----------------------------
(***************************************************************************)
(* Frames as bytes and back (src/protocol/frame_codec.cpp).  The sizes are *)
(* parameters: the code's are 256 values to a byte, 4 bytes to a field,    *)
(* 1 MiB of payload and a compaction at 4096 bytes.                        *)
(***************************************************************************)
EXTENDS Integers, Sequences, SequencesExt

CONSTANTS
    Base,            \* how many values a byte has
    FieldSize,       \* how many bytes the length and the message id take
    KnownIds,        \* the values of MessageType
    MaxPayloadSize,  \* max_payload_size_
    CompactAt        \* the offset from which Compact moves the buffer

\* How many values this many bytes have: what 8 * bytes is to a shift.
ValuesOf[bytes \in Nat] == IF bytes = 0 THEN 1 ELSE Base * ValuesOf[bytes - 1]

ASSUME CodecAssumption ==
    /\ Base \in Nat /\ Base > 1
    /\ FieldSize \in Nat \ {0}
    /\ KnownIds \subseteq 0 .. ValuesOf[FieldSize] - 1
    /\ MaxPayloadSize \in 1 .. ValuesOf[FieldSize] - 1
    /\ CompactAt \in Nat

FrameHeaderSize == 2 * FieldSize
MaxFrameSize == FrameHeaderSize + MaxPayloadSize

-----------------------------------------------------------------------------
(* Encoding.                                                               *)

\* AppendNetworkUint32: most significant byte first.
NetworkBytes(value) ==
    [i \in 1 .. FieldSize |-> (value \div ValuesOf[FieldSize - i]) % Base]

\* ReadNetworkUint32.
ReadNetwork(bytes) == FoldLeft(LAMBDA value, byte : value * Base + byte, 0, bytes)

\* EncodeFrame throws for an id it does not know and for a long payload.
CanEncode(m) == m.id \in KnownIds /\ Len(m.payload) <= MaxPayloadSize

EncodeFrame(m) ==
    NetworkBytes(Len(m.payload)) \o NetworkBytes(m.id) \o m.payload

-----------------------------------------------------------------------------
(* FrameDecoder.                                                           *)

NewDecoder == [buffer |-> <<>>, read_offset |-> 0, failed |-> FALSE]

\* Mutant of AppendBytes: the buffer is assigned, not extended.
AppendBytesAssigns(decoder, bytes) ==
    [decoder EXCEPT !.buffer = bytes, !.read_offset = 0]

AppendBytes(decoder, bytes) == [decoder EXCEPT !.buffer = @ \o bytes]

BufferedBytes(decoder) == Len(decoder.buffer) - decoder.read_offset

\* The bytes i .. j of what is still to be decoded.
Buffered(decoder, i, j) ==
    SubSeq(decoder.buffer, decoder.read_offset + i, decoder.read_offset + j)

\* Mutant of Compact: only an empty buffer is given back.
CompactEmptyOnly(decoder) ==
    IF decoder.read_offset = Len(decoder.buffer)
    THEN [decoder EXCEPT !.buffer = <<>>, !.read_offset = 0]
    ELSE decoder

\* Mutant of Compact: the offset is not reset with the buffer.
CompactKeepsOffset(decoder) ==
    IF decoder.read_offset = Len(decoder.buffer)
    THEN [decoder EXCEPT !.buffer = <<>>, !.read_offset = 0]
    ELSE IF decoder.read_offset >= CompactAt
              /\ 2 * decoder.read_offset >= Len(decoder.buffer)
    THEN [decoder EXCEPT !.buffer = Buffered(decoder, 1, BufferedBytes(decoder))]
    ELSE decoder

Compact(decoder) ==
    IF \/ decoder.read_offset = Len(decoder.buffer)
       \/ /\ decoder.read_offset >= CompactAt
          /\ 2 * decoder.read_offset >= Len(decoder.buffer)
    THEN [decoder EXCEPT !.buffer = Buffered(decoder, 1, BufferedBytes(decoder)),
                         !.read_offset = 0]
    ELSE decoder

\* Next: what it returns, the decoder it leaves, and the frame it fills in.
NextFrame(decoder) ==
    LET size == ReadNetwork(Buffered(decoder, 1, FieldSize))
        id == ReadNetwork(Buffered(decoder, FieldSize + 1, FrameHeaderSize))
        frame == FrameHeaderSize + size
        Result(status, d, f) == [status |-> status, decoder |-> d, frames |-> f]
    IN  CASE decoder.failed -> Result("failed", decoder, <<>>)
          [] ~decoder.failed /\ BufferedBytes(decoder) < FrameHeaderSize ->
                Result("more", decoder, <<>>)
          [] OTHER ->
                IF size > MaxPayloadSize \/ id \notin KnownIds
                THEN Result("failed", [decoder EXCEPT !.failed = TRUE], <<>>)
                ELSE IF BufferedBytes(decoder) < frame
                THEN Result("more", decoder, <<>>)
                ELSE Result("ready",
                            Compact([decoder EXCEPT !.read_offset = @ + frame]),
                            <<[id |-> id,
                               payload |-> Buffered(decoder, FrameHeaderSize + 1, frame)]>>)

Bytes == Seq(0 .. Base - 1)

Decoders == [buffer : Bytes, read_offset : Nat, failed : BOOLEAN]

\* Next, called until it has no frame to give: the frames, and the last result.
NextFrames[decoder \in Decoders] ==
    LET next == NextFrame(decoder)
    IN  IF next.status # "ready" THEN next
        ELSE [NextFrames[next.decoder] EXCEPT !.frames = next.frames \o @]
=============================================================================
