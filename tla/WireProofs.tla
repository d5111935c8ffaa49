----------------------------- MODULE WireProofs -----------------------------
(***************************************************************************)
(* A connection, for frames, buffers and sockets of every size.  Its       *)
(* output stays within the limit, epoll is asked for EPOLLOUT exactly when *)
(* there is output, and no step of the server loses, repeats or reorders a *)
(* byte of it.  What waits in a decoder is less than one frame.  In both   *)
(* directions every step is one of FrameChannel's: the bytes in buffers,   *)
(* sockets and decoder are always those of the frames that the channel has *)
(* accepted and not yet delivered.                                         *)
(***************************************************************************)
EXTENDS Wire, FrameCodecProofs

-----------------------------------------------------------------------------
(* TcpConnection.                                                          *)

\* The output of a connection and what has been sent of it.
OutputOK(c) ==
    /\ c \in [decoder : {c.decoder}, output : Bytes, output_offset : Nat]
    /\ c.output_offset <= Len(c.output)

LEMMA NewConnectionOK == OutputOK(NewConnection) /\ ~WantsWrite(NewConnection)
BY DEF OutputOK, NewConnection, WantsWrite, Bytes

\* CompactOutput keeps what is pending, at the front of the buffer.
LEMMA CompactOK ==
    ASSUME NEW c, OutputOK(c)
    PROVE  /\ OutputOK(CompactOutput(c))
           /\ CompactOutput(c).output = Pending(c)
           /\ CompactOutput(c).output_offset = 0
           /\ Pending(c) \in Bytes
           /\ Len(Pending(c)) = Len(c.output) - c.output_offset
           /\ PendingBytes(CompactOutput(c)) = PendingBytes(c)
           /\ WantsWrite(CompactOutput(c)) <=> WantsWrite(c)
<1>1. /\ c.output \in Bytes /\ c.output_offset \in 0 .. Len(c.output)
      /\ Len(c.output) \in Nat
    BY DEF OutputOK, Bytes
<1>2. Pending(c) \in Bytes /\ Len(Pending(c)) = Len(c.output) - c.output_offset
    BY <1>1, PartOfBytes DEF Pending
<1>4. /\ CompactOutput(c).output = Pending(c)
      /\ CompactOutput(c).output_offset = 0
    BY DEF CompactOutput, OutputOK
<1>5. OutputOK(CompactOutput(c))
    <2> DEFINE k == CompactOutput(c)
    <2>1. k \in [decoder : {c.decoder}, output : Bytes, output_offset : Nat]
        BY <1>2 DEF OutputOK, CompactOutput
    <2> HIDE DEF k
    <2>2. k.decoder = c.decoder
        BY <2>1
    <2>3. k.output_offset <= Len(k.output)
        BY <1>1, <1>2, <1>4 DEF k
    <2> QED  BY <2>1, <2>2, <2>3 DEF OutputOK, k
<1> QED  BY <1>1, <1>2, <1>4, <1>5 DEF PendingBytes, WantsWrite

\* The unsigned difference in QueueBytes does not wrap while the output is
\* within the limit.
LEMMA RoomIsExact ==
    ASSUME NEW n \in 0 .. MaximumPendingBytes
    PROVE  (MaximumPendingBytes - n) % SizeModulus = MaximumPendingBytes - n
<1> DEFINE x == MaximumPendingBytes - n
           q == x \div SizeModulus
           d == x % SizeModulus
<1>1. x \in Nat /\ x < SizeModulus /\ SizeModulus \in Nat \ {0}
    BY ConnectionAssumption
<1>2. q \in Int /\ d \in 0 .. SizeModulus - 1 /\ x = q * SizeModulus + d
    BY <1>1
<1> HIDE DEF x, q, d
<1>3. ~(q >= 1)
    <2>1. SUFFICES ASSUME q >= 1 PROVE FALSE
        OBVIOUS
    <2>2. q * SizeModulus >= SizeModulus
        BY <2>1, <1>1, <1>2
    <2> QED  BY <2>2, <1>1, <1>2
<1>4. ~(q <= -1)
    <2>1. SUFFICES ASSUME q <= -1 PROVE FALSE
        OBVIOUS
    <2>2. q * SizeModulus <= -SizeModulus
        BY <2>1, <1>1, <1>2
    <2> QED  BY <2>2, <1>1, <1>2
<1>5. q = 0
    BY <1>2, <1>3, <1>4
<1>6. d = x
    BY <1>1, <1>2, <1>5
<1> QED  BY <1>6 DEF x, d

\* QueueBytes appends the bytes to what is pending, or leaves it as it was;
\* the buffer stays within the limit.
LEMMA QueueOK ==
    ASSUME NEW c, OutputOK(c), Len(c.output) <= MaximumPendingBytes,
           NEW bytes \in Bytes
    PROVE  LET d == QueueBytes(c, bytes)
           IN  /\ OutputOK(d)
               /\ Len(d.output) <= MaximumPendingBytes
               /\ d.output_offset = 0
               /\ IF CanQueue(CompactOutput(c), bytes)
                  THEN d.output = Pending(c) \o bytes
                  ELSE d.output = Pending(c) /\ (WantsWrite(d) <=> WantsWrite(c))
<1> DEFINE k == CompactOutput(c)
           d == QueueBytes(c, bytes)
<1>1. /\ OutputOK(k) /\ k.output = Pending(c) /\ k.output_offset = 0
      /\ Pending(c) \in Bytes /\ Len(Pending(c)) = Len(c.output) - c.output_offset
      /\ PendingBytes(k) = PendingBytes(c)
      /\ WantsWrite(k) <=> WantsWrite(c)
    BY CompactOK
<1>2. /\ c.output_offset \in 0 .. Len(c.output) /\ Len(c.output) \in Nat
      /\ MaximumPendingBytes \in Nat /\ Len(bytes) \in Nat
    BY ConnectionAssumption DEF OutputOK, Bytes
<1>3. CASE CanQueue(k, bytes)
    <2>1. d = [k EXCEPT !.output = @ \o bytes]
        BY <1>3 DEF QueueBytes
    <2>2. Len(bytes) <= MaximumPendingBytes - PendingBytes(c)
        <3>1. PendingBytes(c) \in 0 .. MaximumPendingBytes
            BY <1>2 DEF PendingBytes
        <3> QED  BY <1>1, <1>3, <3>1, RoomIsExact DEF CanQueue
    <2> HIDE DEF k, d
    <2>4. /\ Pending(c) \o bytes \in Bytes
          /\ Len(Pending(c) \o bytes) = Len(Pending(c)) + Len(bytes)
        <3>1. Pending(c) \in Seq(0 .. Base - 1) /\ bytes \in Seq(0 .. Base - 1)
            BY <1>1 DEF Bytes
        <3> QED  BY <3>1, ConcatProperties DEF Bytes
    <2>5. Len(Pending(c) \o bytes) <= MaximumPendingBytes
        BY <1>1, <1>2, <2>2, <2>4 DEF PendingBytes
    <2>6. d.output = Pending(c) \o bytes /\ d.output_offset = 0
        BY <1>1, <2>1 DEF OutputOK
    <2>7. Len(Pending(c) \o bytes) \in Nat
        BY <2>4 DEF Bytes
    <2>8. OutputOK(d)
        <3>1. d \in [decoder : {k.decoder}, output : Bytes, output_offset : Nat]
            BY <1>1, <2>1, <2>4 DEF OutputOK
        <3>2. d.decoder = k.decoder
            BY <3>1
        <3> QED  BY <2>6, <2>7, <3>1, <3>2 DEF OutputOK
    <2> QED  BY <1>3, <2>5, <2>6, <2>8 DEF k, d
<1>4. CASE ~CanQueue(k, bytes)
    <2>1. d = k
        BY <1>4 DEF QueueBytes
    <2>2. Len(k.output) <= MaximumPendingBytes
        BY <1>1, <1>2
    <2> QED  BY <1>1, <1>4, <2>1, <2>2
<1> QED  BY <1>3, <1>4

\* Flush passes the first bytes that are pending to the kernel, as many as it
\* takes, and keeps the others.
LEMMA FlushOK ==
    ASSUME NEW c, OutputOK(c), NEW room \in Nat
    PROVE  /\ OutputOK(Flush(c, room))
           /\ Len(Flush(c, room).output) <= Len(c.output)
           /\ Flushed(c, room) \in Bytes
           /\ Len(Flushed(c, room)) <= room
           /\ Flushed(c, room) \o Pending(Flush(c, room)) = Pending(c)
<1>1. /\ c.output \in Bytes /\ c.output_offset \in 0 .. Len(c.output)
      /\ Len(c.output) \in Nat
    BY DEF OutputOK, Bytes
<1>2. PICK o \in Nat, l \in Nat : o = c.output_offset /\ l = Len(c.output) /\ o <= l
    BY <1>1
<1> DEFINE f == Flush(c, room)
<1>3. Pending(c) = SubSeq(c.output, o + 1, l) /\ PendingBytes(c) = l - o
    BY <1>2 DEF Pending, PendingBytes
<1>4. CASE l - o <= room
    <2>1. Flushed(c, room) = SubSeq(c.output, o + 1, l)
        <3>1. l - o < room \/ l - o = room
            BY <1>2, <1>4
        <3>2. (IF l - o < room THEN l - o ELSE room) = l - o
            BY <3>1, <1>2
        <3>3. o + (l - o) = l
            BY <1>2
        <3> QED  BY <1>2, <1>3, <3>2, <3>3 DEF Flushed
    <2>2. /\ OutputOK(f)
          /\ f.output = <<>> /\ f.output_offset = 0
        <3>1. PendingBytes(c) <= room
            BY <1>3, <1>4
        <3>2. f = [c EXCEPT !.output = <<>>, !.output_offset = 0]
            BY <3>1 DEF Flush
        <3>3. f \in [decoder : {c.decoder}, output : Bytes, output_offset : Nat]
            <4> <<>> \in Bytes
                BY DEF Bytes
            <4>1. PICK e \in Bytes : e = <<>>
                BY Zenon
            <4>2. f = [c EXCEPT !.output = e, !.output_offset = 0]
                BY <3>2, <4>1
            <4> HIDE DEF f
            <4> QED  BY <4>2 DEF OutputOK
        <3>4. f.decoder = c.decoder /\ f.output = <<>> /\ f.output_offset = 0
            BY <3>2 DEF OutputOK
        <3> HIDE DEF f
        <3> QED  BY <3>3, <3>4 DEF OutputOK
    <2> HIDE DEF f
    <2>3. Pending(f) = <<>> /\ Len(f.output) = 0
        BY <2>2 DEF Pending
    <2>4. o + 1 \in 1 .. Len(c.output) + 1 /\ l \in (o + 1) - 1 .. Len(c.output)
        BY <1>2
    <2>5. /\ SubSeq(c.output, o + 1, l) \in Bytes
          /\ Len(SubSeq(c.output, o + 1, l)) = l - (o + 1) + 1
        BY <1>1, <2>4, PartOfBytes
    <2>6. SubSeq(c.output, o + 1, l) \o <<>> = SubSeq(c.output, o + 1, l)
        BY <2>5, ConcatEmptySeq DEF Bytes
    <2>7. Len(SubSeq(c.output, o + 1, l)) <= room
        BY <1>2, <1>4, <2>5
    <2> QED  BY <1>1, <1>3, <2>1, <2>2, <2>3, <2>5, <2>6, <2>7 DEF f
<1>5. CASE room < l - o
    <2>1. Flushed(c, room) = SubSeq(c.output, o + 1, o + room)
        <3>1. (IF l - o < room THEN l - o ELSE room) = room
            BY <1>2, <1>5
        <3> QED  BY <1>2, <1>3, <3>1 DEF Flushed
    <2>2. /\ OutputOK(f)
          /\ f.output = c.output /\ f.output_offset = o + room
        <3>1. ~(PendingBytes(c) <= room)
            BY <1>2, <1>3, <1>5
        <3>2. f = [c EXCEPT !.output_offset = @ + room]
            BY <3>1 DEF Flush
        <3>3. o + room \in Nat /\ o + room <= l
            BY <1>2, <1>5
        <3> QED  BY <1>2, <3>2, <3>3 DEF OutputOK
    <2> HIDE DEF f
    <2>3. Pending(f) = SubSeq(c.output, o + room + 1, l)
        BY <1>2, <2>2 DEF Pending
    <2>4. /\ o + 1 \in 1 .. Len(c.output) + 1
          /\ o + room \in (o + 1) - 1 .. Len(c.output)
          /\ l \in o + room .. Len(c.output)
        BY <1>2, <1>5
    <2>5. /\ SubSeq(c.output, o + 1, o + room) \in Bytes
          /\ Len(SubSeq(c.output, o + 1, o + room)) = o + room - (o + 1) + 1
        BY <1>1, <2>4, PartOfBytes
    <2>6. SubSeq(c.output, o + 1, o + room) \o SubSeq(c.output, o + room + 1, l)
            = SubSeq(c.output, o + 1, l)
        <3>1. c.output \in Seq(0 .. Base - 1)
            BY <1>1 DEF Bytes
        <3> QED  BY <2>4, <3>1, ConcatAdjacentSubSeq
    <2>7. Len(SubSeq(c.output, o + 1, o + room)) <= room
        <3>1. o + room - (o + 1) + 1 = room
            BY <1>2
        <3> QED  BY <2>5, <3>1
    <2> QED  BY <1>1, <1>3, <2>1, <2>2, <2>3, <2>5, <2>6, <2>7 DEF f
<1>6. l - o <= room \/ room < l - o
    BY <1>2
<1> QED  BY <1>4, <1>5, <1>6

-----------------------------------------------------------------------------
(* The invariant.                                                          *)

\* The inductive invariant: the output and the socket hold bytes, the socket
\* no more than it has room for, and the two properties.
OutputInv ==
    /\ open \in BOOLEAN
    /\ interest \in BOOLEAN
    /\ OutputOK(conn)
    /\ down \in Bytes
    /\ Len(down) <= DownRoom
    /\ OutputBounded
    /\ InterestExact

\* The bytes the server has accepted for sending and the client has not read.
Outgoing == down \o Pending(conn)

\* What a step may do to the output of a connection.
OutputStays == Outgoing' = Outgoing

OutputGrows ==
    \E m \in Replies :
        /\ CanEncode(m)
        /\ Outgoing' = Outgoing \o EncodeFrame(m)
        /\ downFrames' = Append(downFrames, m)

OutputIsRead ==
    \E bytes \in Bytes :
        /\ Outgoing = bytes \o Outgoing'
        /\ decoder' = AppendBytes(decoder, bytes)

\* The bytes of the output are a stream: a step appends a whole frame at its
\* end, or takes from its front what it appends to the client's buffer, or
\* leaves it alone, also when the kernel takes a part of the output or the
\* buffer is compacted (QueueBytes, Flush, CompactOutput).  When the server
\* closes, what is left is a beginning of it.
OutputStream ==
    /\ open /\ open' => OutputStays \/ OutputGrows \/ OutputIsRead
    /\ open /\ ~open' =>
         \E rest \in Bytes : Outgoing = down' \o rest

LEMMA InitOutputInv == Init => OutputInv
<1> SUFFICES ASSUME Init PROVE OutputInv
    OBVIOUS
<1> USE DEF Init
<1>1. OutputOK(conn) /\ ~WantsWrite(conn) /\ Len(conn.output) = 0
    BY NewConnectionOK DEF NewConnection
<1>2. down \in Bytes /\ Len(down) = 0
    BY DEF Bytes
<1>3. Len(conn.output) <= MaximumPendingBytes /\ Len(down) <= DownRoom
    BY <1>1, <1>2, ConnectionAssumption, WireAssumption
<1>4. open \in BOOLEAN /\ interest \in BOOLEAN /\ InterestExact
    BY <1>1, Zenon DEF InterestExact
<1> QED  BY <1>1, <1>2, <1>3, <1>4 DEF OutputInv, OutputBounded

\* A new or closed connection has no output.
LEMMA ResetKeepsInv ==
    ASSUME conn' = NewConnection, interest' = FALSE, open' \in BOOLEAN,
           down' \in Bytes, Len(down') <= DownRoom
    PROVE  OutputInv'
<1>1. OutputOK(conn') /\ ~WantsWrite(conn') /\ Len(conn'.output) = 0
    BY NewConnectionOK DEF NewConnection
<1>2. Len(conn'.output) <= MaximumPendingBytes
    BY <1>1, ConnectionAssumption
<1>3. interest' \in BOOLEAN /\ InterestExact'
    BY <1>1, Zenon DEF InterestExact
<1> QED  BY <1>1, <1>2, <1>3 DEF OutputInv, OutputBounded

\* CloseConnection, when the socket holds these bytes.
LEMMA CloseKeepsInv ==
    ASSUME NEW unread, NEW sent \in Bytes, Len(sent) <= DownRoom,
           CloseConnection(unread, sent)
    PROVE  /\ OutputInv'
           /\ open' = FALSE
           /\ \E rest \in Bytes : sent = down' \o rest
<1>1. sent \in Seq(0 .. Base - 1) /\ Len(sent) \in Nat /\ DownRoom \in Nat
    BY WireAssumption DEF Bytes
<1>2. PICK n \in 0 .. Len(sent) : down' = SubSeq(sent, 1, n)
    <2>1. PICK n \in (IF unread = <<>> THEN {Len(sent)} ELSE 0 .. Len(sent)) :
            down' = SubSeq(sent, 1, n)
        BY DEF CloseConnection
    <2>2. n \in 0 .. Len(sent)
        BY <1>1, <2>1
    <2> QED  BY <2>1, <2>2
<1>3. /\ 1 \in 1 .. Len(sent) + 1 /\ n \in 1 - 1 .. Len(sent)
      /\ n + 1 \in 1 .. Len(sent) + 1 /\ Len(sent) \in (n + 1) - 1 .. Len(sent)
    BY <1>1
<1>4. down' \in Bytes /\ Len(down') = n - 1 + 1
    BY <1>2, <1>3, PartOfBytes
<1>5. Len(down') <= DownRoom
    BY <1>1, <1>4
<1>6. conn' = NewConnection /\ interest' = FALSE /\ open' = FALSE
    BY DEF CloseConnection
<1>7. SubSeq(sent, n + 1, Len(sent)) \in Bytes
    BY <1>3, PartOfBytes
<1>8. sent = down' \o SubSeq(sent, n + 1, Len(sent))
    <2>1. SubSeq(sent, 1, n) \o SubSeq(sent, n + 1, Len(sent)) = SubSeq(sent, 1, Len(sent))
        <3>1. Len(sent) \in n .. Len(sent)
            BY <1>1
        <3> QED  BY <1>1, <1>3, <3>1, ConcatAdjacentSubSeq
    <2>2. SubSeq(sent, 1, Len(sent)) = sent
        BY <1>1, SubSeqFull
    <2> QED  BY <1>2, <2>1, <2>2
<1> QED  BY <1>4, <1>5, <1>6, <1>7, <1>8, ResetKeepsInv

\* FlushOutput moves bytes from the front of the output to the socket.
LEMMA FlushKeepsInv ==
    ASSUME OutputInv, open' = open, NEW c, OutputOK(c),
           Len(c.output) <= MaximumPendingBytes, FlushOutput(c)
    PROVE  /\ OutputInv'
           /\ down \o Pending(c) = Outgoing'
<1> DEFINE room == DownRoom - Len(down)
           sent == Flushed(c, room)
<1>1. down \in Seq(0 .. Base - 1) /\ Len(down) \in Nat /\ Len(down) <= DownRoom
    BY DEF OutputInv, Bytes
<1>2. room \in Nat
    BY <1>1, WireAssumption
<1> HIDE DEF room
<1>3. conn' = Flush(c, room) /\ down' = down \o sent /\ interest' = WantsWrite(conn')
    BY DEF FlushOutput, room, Interest
<1>4. /\ OutputOK(conn') /\ Len(conn'.output) <= Len(c.output)
      /\ sent \in Bytes /\ Len(sent) <= room
      /\ sent \o Pending(conn') = Pending(c)
    BY <1>2, <1>3, FlushOK
<1> HIDE DEF sent
<1>5. /\ sent \in Seq(0 .. Base - 1) /\ Len(sent) \in Nat
      /\ Len(conn'.output) \in Nat /\ Len(c.output) \in Nat
    BY <1>4 DEF Bytes, OutputOK
<1>6. down' \in Bytes /\ Len(down') = Len(down) + Len(sent)
    BY <1>1, <1>3, <1>5, ConcatProperties DEF Bytes
<1>7. Len(down') <= DownRoom
    BY <1>1, <1>2, <1>4, <1>5, <1>6, WireAssumption DEF room
<1>8. Len(conn'.output) <= MaximumPendingBytes
    BY <1>4, <1>5, ConnectionAssumption
<1>9. interest' \in BOOLEAN
    BY <1>3 DEF WantsWrite
<1>10. OutputInv'
    BY <1>3, <1>4, <1>6, <1>7, <1>8, <1>9 DEF OutputInv, OutputBounded, InterestExact
<1>11. down \o Pending(c) = Outgoing'
    <2>1. Pending(conn') \in Seq(0 .. Base - 1)
        BY <1>4, CompactOK DEF Bytes
    <2>2. (down \o sent) \o Pending(conn') = down \o (sent \o Pending(conn'))
        <3>1. Associate(down, sent, Pending(conn'))
            BY <1>1, <1>5, <2>1, Associates
        <3> QED  BY <3>1 DEF Associate
    <2> QED  BY <1>3, <1>4, <2>2 DEF Outgoing
<1> QED  BY <1>10, <1>11

\* What is pending in a buffer of which nothing was sent is all of it.
LEMMA PendingFromStart ==
    ASSUME NEW c, OutputOK(c), c.output_offset = 0
    PROVE  Pending(c) = c.output
<1>1. c.output \in Seq(0 .. Base - 1)
    BY DEF OutputOK, Bytes
<1> QED  BY <1>1, SubSeqFull DEF Pending

\* ReadAvailable changes the decoder and not the output.
LEMMA DecodingKeepsOutput ==
    ASSUME NEW c, OutputOK(c), NEW x
    PROVE  LET d == [c EXCEPT !.decoder = x]
           IN  /\ OutputOK(d)
               /\ d.output = c.output
               /\ Pending(d) = Pending(c)
               /\ WantsWrite(d) <=> WantsWrite(c)
<1> DEFINE d == [c EXCEPT !.decoder = x]
<1>1. /\ d \in [decoder : {x}, output : Bytes, output_offset : Nat]
      /\ d.decoder = x /\ d.output = c.output /\ d.output_offset = c.output_offset
    BY DEF OutputOK
<1> HIDE DEF d
<1>2. OutputOK(d)
    BY <1>1 DEF OutputOK
<1>3. Pending(d) = Pending(c) /\ (WantsWrite(d) <=> WantsWrite(c))
    BY <1>1 DEF Pending, WantsWrite
<1> QED  BY <1>1, <1>2, <1>3 DEF d

\* The bytes the invariant speaks of are sequences.
LEMMA OutgoingIsBytes ==
    ASSUME OutputInv
    PROVE  /\ down \in Seq(0 .. Base - 1)
           /\ Pending(conn) \in Seq(0 .. Base - 1)
           /\ Outgoing \in Seq(0 .. Base - 1)
<1>1. down \in Seq(0 .. Base - 1) /\ OutputOK(conn)
    BY DEF OutputInv, Bytes
<1>2. Pending(conn) \in Seq(0 .. Base - 1)
    BY <1>1, CompactOK DEF Bytes
<1> QED  BY <1>1, <1>2, ConcatProperties DEF Outgoing

\* A close in which the socket's bytes are a beginning of the output.
LEMMA ClosingKeepsInv ==
    ASSUME OutputInv, NEW unread, NEW sent \in Bytes, NEW rest \in Bytes,
           Len(sent) <= DownRoom, Outgoing = sent \o rest,
           CloseConnection(unread, sent)
    PROVE  OutputInv' /\ OutputStream /\ open' = FALSE
<1>1. OutputInv' /\ open' = FALSE
    BY CloseKeepsInv
<1>2. PICK more \in Bytes : sent = down' \o more
    BY CloseKeepsInv
<1>3. down' \in Seq(0 .. Base - 1)
    BY <1>1 DEF OutputInv, Bytes
<1>4. more \o rest \in Bytes
    BY <1>2, ConcatProperties DEF Bytes
<1>5. (down' \o more) \o rest = down' \o (more \o rest)
    <2>1. Associate(down', more, rest)
        BY <1>2, <1>3, BytesAssociate DEF Bytes
    <2> QED  BY <2>1 DEF Associate
<1>6. \E r \in Bytes : Outgoing = down' \o r
    BY <1>2, <1>4, <1>5
<1> QED  BY <1>1, <1>6 DEF OutputStream

LEMMA ServerSendsKeepsInv ==
    ASSUME OutputInv, NEW m \in Replies, ServerSends(m)
    PROVE  /\ OutputInv' /\ OutputStream
           /\ OutputGrows \/ (OutputStays /\ downFrames' = downFrames)
<1> DEFINE bytes == EncodeFrame(m)
           q == QueueBytes(conn, bytes)
           takes == CanEncode(m) /\ CanQueue(CompactOutput(conn), bytes)
<1>1. bytes \in Bytes
    BY WireAssumption, EncodedIsBytes DEF Bytes
<1> HIDE DEF bytes
<1>2. OutputOK(conn) /\ Len(conn.output) <= MaximumPendingBytes
    BY DEF OutputInv, OutputBounded
<1>3. /\ OutputOK(q) /\ Len(q.output) <= MaximumPendingBytes /\ q.output_offset = 0
      /\ IF CanQueue(CompactOutput(conn), bytes)
         THEN q.output = Pending(conn) \o bytes
         ELSE q.output = Pending(conn) /\ (WantsWrite(q) <=> WantsWrite(conn))
    BY <1>1, <1>2, QueueOK
<1>4. Pending(q) = q.output
    BY <1>3, PendingFromStart
<1>5. open' = open
    BY DEF ServerSends
<1> HIDE DEF q
<1>6. CASE takes
    <2>1. FlushOutput(q) /\ downFrames' = Append(downFrames, m)
        BY <1>6 DEF ServerSends, q, bytes
    <2>2. OutputInv' /\ down \o Pending(q) = Outgoing'
        BY <1>3, <1>5, <2>1, FlushKeepsInv
    <2>3. Pending(q) = Pending(conn) \o bytes
        BY <1>3, <1>4, <1>6
    <2>4. (down \o Pending(conn)) \o bytes = down \o (Pending(conn) \o bytes)
        <3>1. Associate(down, Pending(conn), bytes)
            BY <1>1, OutgoingIsBytes, BytesAssociate DEF Bytes
        <3> QED  BY <3>1 DEF Associate
    <2>5. OutputGrows
        BY <1>6, <2>1, <2>2, <2>3, <2>4 DEF OutputGrows, Outgoing, bytes
    <2>6. OutputStream
        BY <1>5, <2>5 DEF OutputStream
    <2> QED  BY <2>2, <2>5, <2>6
<1>7. CASE ~takes
    <2>1. /\ conn' = IF CanEncode(m) THEN q ELSE conn
          /\ interest' = interest /\ down' = down /\ downFrames' = downFrames
        BY <1>7 DEF ServerSends, q, bytes
    <2>2. /\ OutputOK(conn') /\ Len(conn'.output) <= MaximumPendingBytes
          /\ Pending(conn') = Pending(conn)
          /\ WantsWrite(conn') <=> WantsWrite(conn)
        <3>1. CASE CanEncode(m)
            BY <1>3, <1>4, <1>7, <2>1, <3>1
        <3>2. CASE ~CanEncode(m)
            BY <1>2, <2>1, <3>2
        <3> QED  BY <3>1, <3>2
    <2>3. OutputInv'
        BY <1>5, <2>1, <2>2 DEF OutputInv, OutputBounded, InterestExact
    <2>4. OutputStays
        BY <2>1, <2>2 DEF OutputStays, Outgoing
    <2> QED  BY <1>5, <2>1, <2>3, <2>4 DEF OutputStream
<1> QED  BY <1>6, <1>7

\* CloseMarkedConnections, and a disconnect from elsewhere.
LEMMA ServerClosesKeepsInv ==
    ASSUME OutputInv, CloseConnection(up, down)
    PROVE  OutputInv' /\ OutputStream /\ open' = FALSE
<1>1. Pending(conn) \in Bytes /\ down \in Bytes /\ Len(down) <= DownRoom
    BY OutgoingIsBytes DEF OutputInv, Bytes
<1> QED  BY <1>1, ClosingKeepsInv DEF Outgoing

LEMMA ClientReadyKeepsInv ==
    ASSUME OutputInv, ClientReady
    PROVE  OutputInv' /\ OutputStream /\ (open' => OutputStays)
<1> DEFINE room == DownRoom - Len(down)
           out == interest /\ Len(down) < DownRoom
           sent == IF out THEN Flushed(conn, room) ELSE <<>>
<1>1. /\ down \in Bytes /\ down \in Seq(0 .. Base - 1)
      /\ Len(down) \in Nat /\ Len(down) <= DownRoom
      /\ Pending(conn) \in Bytes /\ OutputOK(conn)
      /\ Len(conn.output) <= MaximumPendingBytes
    BY OutgoingIsBytes DEF OutputInv, OutputBounded, Bytes
<1>2. room \in Nat
    BY <1>1, WireAssumption
<1>3. PICK read : read = ReadAvailable(conn, up) /\
        \/ CloseConnection(<<>>, down)
        \/ CloseConnection(<<>>, down \o sent)
        \/ /\ UNCHANGED open
           /\ IF out THEN FlushOutput([conn EXCEPT !.decoder = read.decoder])
              ELSE /\ conn' = [conn EXCEPT !.decoder = read.decoder]
                   /\ interest' = Interest(conn')
                   /\ UNCHANGED down
    BY DEF ClientReady
<1> HIDE DEF room, out
<1>4. CASE CloseConnection(<<>>, down)
    BY <1>1, <1>4, ClosingKeepsInv DEF Outgoing
<1>5. CASE CloseConnection(<<>>, down \o sent)
    <2>1. PICK rest \in Bytes :
            /\ sent \in Bytes /\ Len(sent) <= room
            /\ Pending(conn) = sent \o rest
        <3>1. CASE out
            <4>1. /\ sent \in Bytes /\ Len(sent) <= room
                  /\ OutputOK(Flush(conn, room))
                  /\ sent \o Pending(Flush(conn, room)) = Pending(conn)
                BY <1>1, <1>2, <3>1, FlushOK
            <4>2. Pending(Flush(conn, room)) \in Bytes
                BY <4>1, CompactOK
            <4> QED  BY <4>1, <4>2
        <3>2. CASE ~out
            <4>1. sent = <<>> /\ sent \in Bytes /\ Len(sent) = 0
                BY <3>2 DEF Bytes
            <4>2. Pending(conn) = sent \o Pending(conn)
                BY <1>1, <4>1, ConcatEmptySeq DEF Bytes
            <4>3. Len(sent) <= room
                BY <1>2, <4>1
            <4> QED  BY <1>1, <4>1, <4>2, <4>3
        <3> QED  BY <3>1, <3>2
    <2> HIDE DEF sent
    <2>2. sent \in Seq(0 .. Base - 1) /\ rest \in Seq(0 .. Base - 1) /\ Len(sent) \in Nat
        BY <2>1 DEF Bytes
    <2>3. down \o sent \in Bytes /\ Len(down \o sent) = Len(down) + Len(sent)
        BY <1>1, <2>2, ConcatProperties DEF Bytes
    <2>4. Len(down \o sent) <= DownRoom
        BY <1>1, <1>2, <2>1, <2>2, <2>3, WireAssumption DEF room
    <2>5. Outgoing = (down \o sent) \o rest
        <3>1. down \in Seq(0 .. Base - 1)
            BY <1>1 DEF Bytes
        <3>2. (down \o sent) \o rest = down \o (sent \o rest)
            <4>1. Associate(down, sent, rest)
                BY <2>2, <3>1, Associates
            <4> QED  BY <4>1 DEF Associate
        <3> QED  BY <1>1, <2>1, <3>2 DEF Outgoing
    <2> QED  BY <1>5, <2>1, <2>3, <2>4, <2>5, ClosingKeepsInv
<1>6. CASE /\ UNCHANGED open
           /\ IF out THEN FlushOutput([conn EXCEPT !.decoder = read.decoder])
              ELSE /\ conn' = [conn EXCEPT !.decoder = read.decoder]
                   /\ interest' = Interest(conn')
                   /\ UNCHANGED down
    <2> DEFINE d == [conn EXCEPT !.decoder = read.decoder]
    <2>1. /\ OutputOK(d) /\ d.output = conn.output
          /\ Pending(d) = Pending(conn)
          /\ WantsWrite(d) <=> WantsWrite(conn)
        BY <1>1, DecodingKeepsOutput
    <2> HIDE DEF d
    <2>2. CASE out
        <3>1. FlushOutput(d) /\ open' = open
            BY <1>6, <2>2 DEF d
        <3>2. OutputInv' /\ down \o Pending(d) = Outgoing'
            BY <1>1, <2>1, <3>1, FlushKeepsInv
        <3>3. OutputStays
            BY <2>1, <3>2 DEF OutputStays, Outgoing
        <3> QED  BY <3>1, <3>2, <3>3 DEF OutputStream
    <2>3. CASE ~out
        <3>1. conn' = d /\ interest' = WantsWrite(d) /\ down' = down /\ open' = open
            BY <1>6, <2>3 DEF d, Interest
        <3>2. interest' \in BOOLEAN
            BY <3>1 DEF WantsWrite
        <3>3. OutputInv'
            BY <1>1, <2>1, <3>1, <3>2 DEF OutputInv, OutputBounded, InterestExact
        <3>4. OutputStays
            BY <2>1, <3>1 DEF OutputStays, Outgoing
        <3> QED  BY <3>1, <3>3, <3>4 DEF OutputStream
    <2> QED  BY <2>2, <2>3
<1> QED  BY <1>3, <1>4, <1>5, <1>6

LEMMA ReceiverReadsKeepsInv ==
    ASSUME OutputInv, ReceiverReads
    PROVE  OutputInv' /\ OutputStream /\ OutputIsRead
<1>1. PICK n : /\ n = IF Len(down) < ReadSize THEN Len(down) ELSE ReadSize
               /\ decoder' = AppendBytes(decoder, SubSeq(down, 1, n))
               /\ down' = SubSeq(down, n + 1, Len(down))
    BY DEF ReceiverReads
<1>2. conn' = conn /\ open' = open /\ interest' = interest
    BY DEF ReceiverReads, server
<1>3. /\ down \in Bytes /\ down \in Seq(0 .. Base - 1)
      /\ Len(down) \in Nat /\ Len(down) <= DownRoom
      /\ Pending(conn) \in Seq(0 .. Base - 1)
    BY OutgoingIsBytes DEF OutputInv, Bytes
<1>4. n \in Nat /\ n <= Len(down)
    BY <1>1, <1>3, WireAssumption
<1>5. /\ 1 \in 1 .. Len(down) + 1 /\ n \in 1 - 1 .. Len(down)
      /\ n + 1 \in 1 .. Len(down) + 1 /\ Len(down) \in (n + 1) - 1 .. Len(down)
      /\ Len(down) \in n .. Len(down)
    BY <1>3, <1>4
<1> DEFINE bytes == SubSeq(down, 1, n)
<1>6. bytes \in Bytes /\ down' \in Bytes /\ Len(down') = Len(down) - (n + 1) + 1
    BY <1>1, <1>3, <1>5, PartOfBytes
<1>7. Len(down') <= DownRoom
    BY <1>3, <1>4, <1>6, WireAssumption
<1>8. OutputInv'
    BY <1>2, <1>6, <1>7 DEF OutputInv, OutputBounded, InterestExact
<1>9. bytes \o down' = down
    <2>1. bytes \o down' = SubSeq(down, 1, Len(down))
        BY <1>1, <1>3, <1>5, ConcatAdjacentSubSeq
    <2> QED  BY <1>3, <2>1, SubSeqFull
<1> HIDE DEF bytes
<1>10. (bytes \o down') \o Pending(conn) = bytes \o (down' \o Pending(conn))
    <2>1. bytes \in Seq(0 .. Base - 1) /\ down' \in Seq(0 .. Base - 1)
        BY <1>6 DEF Bytes
    <2>2. Associate(bytes, down', Pending(conn))
        BY <1>3, <2>1, Associates
    <2> QED  BY <2>2 DEF Associate
<1>11. Outgoing = bytes \o Outgoing'
    BY <1>2, <1>9, <1>10 DEF Outgoing
<1>12. OutputIsRead
    BY <1>1, <1>6, <1>11 DEF OutputIsRead, bytes
<1> QED  BY <1>2, <1>8, <1>12 DEF OutputStream

\* What all the other steps leave alone.
LEMMA OthersKeepInv ==
    ASSUME OutputInv, UNCHANGED <<open, conn, interest, down>>
    PROVE  OutputInv' /\ OutputStream /\ OutputStays
BY DEF OutputInv, OutputBounded, InterestExact, OutputStream, OutputStays, Outgoing

LEMMA ReconnectKeepsInv ==
    ASSUME OutputInv, Reconnect
    PROVE  OutputInv' /\ OutputStream
<1>1. /\ conn' = NewConnection /\ interest' = FALSE /\ open' = TRUE
      /\ down' = <<>> /\ ~open
    BY DEF Reconnect
<1>2. down' \in Bytes /\ Len(down') <= DownRoom
    <2>1. down' \in Bytes /\ Len(down') = 0
        BY <1>1 DEF Bytes
    <2> QED  BY <2>1, WireAssumption
<1>3. OutputInv'
    BY <1>1, <1>2, ResetKeepsInv
<1> QED  BY <1>1, <1>3 DEF OutputStream

LEMMA NextKeepsInv == OutputInv /\ [Next]_vars => OutputInv' /\ OutputStream
<1> SUFFICES ASSUME OutputInv, [Next]_vars PROVE OutputInv' /\ OutputStream
    OBVIOUS
<1> DEFINE aside == UNCHANGED <<open, conn, interest, down>>
<1>1. ASSUME NEW m \in Replies, ServerSends(m) PROVE OutputInv' /\ OutputStream
    BY <1>1, ServerSendsKeepsInv
<1>2. CASE CloseMarked \/ ServerDisconnects
    BY <1>2, ServerClosesKeepsInv DEF CloseMarked, ServerDisconnects
<1>3. CASE ClientReady
    BY <1>3, ClientReadyKeepsInv
<1>4. CASE MainReads \/ MainStep
    <2>1. aside
        BY <1>4 DEF MainReads, MainStep, MainLogsIn, MainChecks, MainSends, MainSent,
                    MainSendsInVain, MainSendFails, MainLeaves, MainShutsDown,
                    MainJoins, server
    <2> QED  BY <2>1, OthersKeepInv
<1>5. CASE ReceiverLoops \/ ReceiverDecodes \/ ReceiverFindsClosed \/ ReceiverTimesOut
    <2>1. aside
        BY <1>5 DEF ReceiverLoops, ReceiverDecodes, ReceiverFindsClosed,
                    ReceiverTimesOut, server
    <2> QED  BY <2>1, OthersKeepInv
<1>6. CASE ReceiverReads
    BY <1>6, ReceiverReadsKeepsInv
<1>7. CASE Reconnect
    BY <1>7, ReconnectKeepsInv
<1>8. CASE UNCHANGED vars
    <2>1. aside
        BY <1>8 DEF vars, server
    <2> QED  BY <2>1, OthersKeepInv
<1> QED  BY <1>1, <1>2, <1>3, <1>4, <1>5, <1>6, <1>7, <1>8 DEF Next, ReceiverStep

\* The invariant holds in every state.
THEOREM OutputInvariant == Spec => []OutputInv
BY InitOutputInv, NextKeepsInv, PTL DEF Spec

\* A client that does not read costs the server at most maximum_pending_bytes_
\* of output, and the unsigned difference in QueueBytes does not wrap.
THEOREM WireOutputBounded == Spec => []OutputBounded
<1>1. OutputInv => OutputBounded
    BY DEF OutputInv
<1> QED  BY OutputInvariant, <1>1, PTL

\* Between two callbacks the epoll registration asks for EPOLLOUT exactly when
\* there is output.
THEOREM WireInterestExact == Spec => []InterestExact
<1>1. OutputInv => InterestExact
    BY DEF OutputInv
<1> QED  BY OutputInvariant, <1>1, PTL

\* The bytes the client reads are those of the frames the server accepted,
\* in their order, none lost, none twice, until the connection closes.
THEOREM WireOutputStream == Spec => [][OutputStream]_vars
BY OutputInvariant, NextKeepsInv, PTL DEF Spec

-----------------------------------------------------------------------------
(* The input of both ends: the types, and what is kept of the bytes.       *)

\* The client's two threads, and the bytes it sends.
ClientOK ==
    /\ running \in BOOLEAN /\ shut \in BOOLEAN
    /\ InBounds(decoder)
    /\ up \in Bytes /\ Len(up) <= UpRoom
    /\ unsent \in Bytes
    /\ main \in {"connected", "login", "check", "typing", "sending", "leaving", "shutdown",
                 "join", "ended"}
    /\ receiver \in {"none", "loop", "decode", "poll", "ended"}

\* The server's decoder between two callbacks.
ServerOK ==
    /\ marked \in BOOLEAN
    /\ InBounds(conn.decoder)
    /\ DecoderBounded

InputInv == ClientOK /\ ServerOK

LEMMA EmptyBytes == <<>> \in Bytes /\ Len(<<>>) = 0
BY DEF Bytes

LEMMA NewDecoderOK == InBounds(NewDecoder) /\ BufferedBytes(NewDecoder) = 0
<1>1. NewDecoder \in Decoders
    BY DEF NewDecoder, Decoders, Bytes
<1> QED  BY <1>1 DEF InBounds, NewDecoder, BufferedBytes

LEMMA FreshServerOK ==
    ASSUME conn' = NewConnection, marked' = FALSE
    PROVE  ServerOK'
<1>1. conn'.decoder = NewDecoder
    BY DEF NewConnection
<1>2. 0 < MaxFrameSize
    BY Sizes
<1>3. NewDecoder.read_offset = 0
    BY DEF NewDecoder
<1>4. DecoderBounded'
    BY <1>1, <1>2, <1>3, NewDecoderOK DEF DecoderBounded
<1> QED  BY <1>1, <1>4, NewDecoderOK DEF ServerOK

LEMMA InitInputInv == Init => InputInv
<1> SUFFICES ASSUME Init  PROVE InputInv
    OBVIOUS
<1>1. conn.decoder = NewDecoder
    BY DEF Init, NewConnection
<1>2. 0 < MaxFrameSize
    BY Sizes
<1>3. NewDecoder.read_offset = 0
    BY DEF NewDecoder
<1>4. DecoderBounded
    BY <1>1, <1>2, <1>3, NewDecoderOK DEF DecoderBounded
<1>5. ServerOK
    BY <1>1, <1>4, NewDecoderOK DEF ServerOK, Init
<1>6. Len(<<>>) <= UpRoom
    BY EmptyBytes, WireAssumption
<1>7. ClientOK
    BY <1>6, NewDecoderOK, EmptyBytes DEF ClientOK, Init
<1> QED  BY <1>5, <1>7 DEF InputInv

\* What a connection does with its output leaves its decoder alone.
LEMMA OutputKeepsDecoder ==
    ASSUME NEW c, OutputOK(c), NEW bytes, NEW room
    PROVE  QueueBytes(c, bytes).decoder = c.decoder /\ Flush(c, room).decoder = c.decoder
<1>1. DOMAIN c = {"decoder", "output", "output_offset"}
    BY DEF OutputOK
<1>2. CompactOutput(c).decoder = c.decoder /\ DOMAIN CompactOutput(c) = DOMAIN c
    BY <1>1 DEF CompactOutput
<1>3. QueueBytes(c, bytes).decoder = c.decoder
    BY <1>1, <1>2 DEF QueueBytes
<1>4. Flush(c, room).decoder = c.decoder
    BY <1>1 DEF Flush
<1> QED  BY <1>3, <1>4

LEMMA ServerKeeps ==
    ASSUME ServerOK, conn'.decoder = conn.decoder, marked' \in BOOLEAN
    PROVE  ServerOK'
BY DEF ServerOK, DecoderBounded

LEMMA ClientKeeps ==
    ASSUME ClientOK, UNCHANGED client, up' = up \/ up' = <<>>
    PROVE  ClientOK'
<1>1. up' \in Bytes /\ Len(up') <= UpRoom
    <2>1. Len(<<>>) <= UpRoom
        BY EmptyBytes, WireAssumption
    <2> QED  BY <2>1, EmptyBytes DEF ClientOK
<1> QED  BY <1>1 DEF ClientOK, client

LEMMA ServerSendsTypes ==
    ASSUME OutputInv, InputInv, NEW m \in Replies, ServerSends(m)
    PROVE  InputInv' /\ conn'.decoder = conn.decoder
<1> DEFINE q == QueueBytes(conn, EncodeFrame(m))
<1>1. OutputOK(conn) /\ EncodeFrame(m) \in Bytes
    BY WireAssumption, EncodedIsBytes DEF OutputInv, Bytes
<1>2. q.decoder = conn.decoder /\ OutputOK(q)
    BY <1>1, OutputKeepsDecoder, QueueOK DEF OutputInv, OutputBounded
<1> HIDE DEF q
<1>3. conn'.decoder = conn.decoder
    <2>1. conn' = conn \/ conn' = q \/ \E room : conn' = Flush(q, room)
        BY DEF ServerSends, FlushOutput, q
    <2> QED  BY <1>2, <2>1, OutputKeepsDecoder
<1>4. marked' \in BOOLEAN /\ UNCHANGED client /\ up' = up
    BY DEF ServerSends, InputInv, ServerOK
<1> QED  BY <1>3, <1>4, ServerKeeps, ClientKeeps DEF InputInv

LEMMA ServerClosesTypes ==
    ASSUME InputInv, NEW unread, NEW sent, CloseConnection(unread, sent), UNCHANGED client
    PROVE  InputInv'
<1>1. conn' = NewConnection /\ marked' = FALSE /\ up' = <<>>
    BY DEF CloseConnection
<1> QED  BY <1>1, FreshServerOK, ClientKeeps DEF InputInv

LEMMA AppendKeeps ==
    ASSUME NEW d, InBounds(d), NEW bytes \in Bytes
    PROVE  LET e == AppendBytes(d, bytes)
           IN  /\ InBounds(e)
               /\ e.buffer = d.buffer \o bytes
               /\ e.read_offset = d.read_offset
               /\ e.failed = d.failed
               /\ BufferedBytes(e) = BufferedBytes(d) + Len(bytes)
<1> DEFINE e == AppendBytes(d, bytes)
<1>1. /\ d \in Decoders /\ d.buffer \in Bytes /\ d.read_offset \in Nat
      /\ Len(d.buffer) \in Nat /\ d.read_offset <= Len(d.buffer) /\ Len(bytes) \in Nat
      /\ BufferedBytes(d) = Len(d.buffer) - d.read_offset
    BY DecoderTypes DEF InBounds, Bytes
<1>2. d.buffer \o bytes \in Bytes /\ Len(d.buffer \o bytes) = Len(d.buffer) + Len(bytes)
    BY <1>1, ConcatProperties DEF Bytes
<1>3. /\ e \in Decoders /\ e.buffer = d.buffer \o bytes /\ e.read_offset = d.read_offset
      /\ e.failed = d.failed
    BY <1>1, <1>2 DEF AppendBytes, Decoders
<1> HIDE DEF e
<1>4. InBounds(e) /\ BufferedBytes(e) = BufferedBytes(d) + Len(bytes)
    BY <1>1, <1>2, <1>3 DEF InBounds, BufferedBytes
<1> QED  BY <1>3, <1>4 DEF e

\* What ReadAvailable finds when the bytes that have arrived are appended.
LEMMA ReadExhausts ==
    ASSUME OutputInv, InputInv
    PROVE  Exhausted(ReadAvailable(conn, up))
<1> DEFINE d == conn.decoder
           e == AppendBytes(d, up)
<1>1. InBounds(d) /\ up \in Bytes /\ Len(up) \in Nat
    BY DEF InputInv, ServerOK, ClientOK, Bytes
<1>2. /\ InBounds(e) /\ e.read_offset = d.read_offset
      /\ BufferedBytes(e) = BufferedBytes(d) + Len(up)
    BY <1>1, AppendKeeps
<1>3. d.read_offset < CompactAt \/ d.read_offset < MaxFrameSize
    BY DEF InputInv, ServerOK, DecoderBounded
<1> HIDE DEF d, e
<1>4. OffsetBounded(e)
    BY <1>2, <1>3 DEF OffsetBounded
<1>5. Exhausted(NextFrames[e])
    BY <1>2, <1>4, NextFramesExhausts
<1> QED  BY <1>5 DEF ReadAvailable, d, e

\* What ClientReady does after it has read leaves the decoder alone.
LEMMA DecoderIsKept ==
    ASSUME OutputInv, NEW x,
           \/ FlushOutput([conn EXCEPT !.decoder = x])
           \/ conn' = [conn EXCEPT !.decoder = x]
    PROVE  conn'.decoder = x
<1> DEFINE c == [conn EXCEPT !.decoder = x]
<1>1. OutputOK(conn)
    BY DEF OutputInv
<1>2. c.decoder = x /\ OutputOK(c)
    <2>1. DOMAIN conn = {"decoder", "output", "output_offset"}
        BY <1>1 DEF OutputOK
    <2> QED  BY <1>1, <2>1, DecodingKeepsOutput
<1>3. conn' = c \/ \E room : conn' = Flush(c, room)
    BY DEF FlushOutput
<1> HIDE DEF c
<1> QED  BY <1>2, <1>3, OutputKeepsDecoder

LEMMA ClientReadyTypes ==
    ASSUME OutputInv, InputInv, ClientReady
    PROVE  InputInv'
<1> DEFINE read == ReadAvailable(conn, up)
           c == [conn EXCEPT !.decoder = read.decoder]
<1>1. Exhausted(read)
    BY ReadExhausts
<1> HIDE DEF read
<1>2. /\ UNCHANGED client
      /\ \/ \E sent : CloseConnection(<<>>, sent)
         \/ /\ read.status # "failed"
            /\ up' = <<>> /\ UNCHANGED marked
            /\ FlushOutput(c) \/ conn' = c
    BY DEF ClientReady, read
<1>3. CASE \E sent : CloseConnection(<<>>, sent)
    BY <1>2, <1>3, ServerClosesTypes
<1>4. CASE /\ read.status # "failed"
           /\ up' = <<>> /\ UNCHANGED marked
           /\ FlushOutput(c) \/ conn' = c
    <2>3. conn'.decoder = read.decoder
        BY <1>4, DecoderIsKept
    <2>4. ServerOK'
        <3>1. marked' \in BOOLEAN
            BY <1>4 DEF InputInv, ServerOK
        <3> QED  BY <1>1, <1>4, <2>3, <3>1 DEF Exhausted, ServerOK, DecoderBounded
    <2>5. ClientOK'
        BY <1>2, <1>4, ClientKeeps DEF InputInv
    <2> QED  BY <2>4, <2>5 DEF InputInv
<1> QED  BY <1>2, <1>3, <1>4

LEMMA MainTypes ==
    ASSUME InputInv, MainReads \/ MainStep
    PROVE  InputInv'
<1>1. ServerOK'
    <2>1. UNCHANGED server
        BY DEF MainReads, MainStep, MainLogsIn, MainChecks, MainSends, MainSent,
               MainSendsInVain, MainSendFails, MainLeaves, MainShutsDown, MainJoins
    <2> QED  BY <2>1, ServerKeeps DEF InputInv, ServerOK, server
<1> SUFFICES ClientOK'
    BY <1>1 DEF InputInv
<1>2. up \in Bytes /\ unsent \in Bytes /\ ClientOK
    BY DEF InputInv, ClientOK
<1>3. \A m \in {Login} \cup Requests : EncodeFrame(m) \in Bytes
    BY WireAssumption, EncodedIsBytes DEF Bytes
<1>4. CASE MainReads
    BY <1>2, <1>3, <1>4 DEF MainReads, ClientOK
<1>5. CASE MainLogsIn
    BY <1>2, <1>3, <1>5 DEF MainLogsIn, ClientOK
<1>6. CASE MainChecks \/ MainSent \/ MainLeaves \/ MainShutsDown \/ MainJoins
    BY <1>2, <1>6 DEF MainChecks, MainSent, MainLeaves, MainShutsDown, MainJoins, ClientOK
<1>7. CASE MainSendsInVain \/ MainSendFails
    BY <1>2, <1>7, EmptyBytes DEF MainSendsInVain, MainSendFails, ClientOK
<1>8. CASE MainSends
    <2>1. PICK n \in 1 .. Len(unsent) :
            /\ Len(up) + n <= UpRoom
            /\ up' = up \o SubSeq(unsent, 1, n)
            /\ unsent' = SubSeq(unsent, n + 1, Len(unsent))
        BY <1>8 DEF MainSends
    <2>2. Len(unsent) \in Nat /\ Len(up) \in Nat
        BY <1>2 DEF Bytes
    <2>3. SubSeq(unsent, 1, n) \in Bytes /\ Len(SubSeq(unsent, 1, n)) = n
        BY <1>2, <2>2, PartOfBytes
    <2>4. unsent' \in Bytes
        BY <1>2, <2>1, <2>2, PartOfBytes
    <2>5. up' \in Bytes /\ Len(up') <= UpRoom
        BY <1>2, <2>1, <2>2, <2>3, ConcatProperties DEF Bytes
    <2> QED  BY <1>2, <1>8, <2>4, <2>5 DEF MainSends, ClientOK
<1> QED  BY <1>4, <1>5, <1>6, <1>7, <1>8 DEF MainStep

LEMMA NextFrameInBounds ==
    ASSUME NEW d, InBounds(d)
    PROVE  InBounds(NextFrame(d).decoder) /\ NextFrame(d) \in Results
<1> DEFINE n == NextFrame(d)
<1>1. d \in Decoders /\ n \in Results
    BY NextFrameType DEF InBounds
<1>2. FailsBefore(d, n) \/ FailsNow(d, n) \/ NeedsMore(d, n) \/ HasFrame(d, n)
    BY <1>1, NextFrameCases
<1> HIDE DEF n
<1> SUFFICES InBounds(n.decoder)
    BY <1>1 DEF n
<1>3. CASE FailsBefore(d, n) \/ NeedsMore(d, n)
    BY <1>3 DEF FailsBefore, NeedsMore
<1>4. CASE FailsNow(d, n)
    <2>1. n.decoder = [d EXCEPT !.failed = TRUE]
        BY <1>4 DEF FailsNow
    <2>2. n.decoder.buffer = d.buffer /\ n.decoder.read_offset = d.read_offset
        BY <1>1, <2>1 DEF Decoders
    <2> QED  BY <1>1, <2>2 DEF InBounds, Results
<1>5. CASE HasFrame(d, n)
    BY <1>1, <1>5, FrameTaken DEF Taken
<1> QED  BY <1>2, <1>3, <1>4, <1>5

LEMMA ReceiverTypes ==
    ASSUME OutputInv, InputInv, ReceiverStep \/ ReceiverTimesOut
    PROVE  InputInv'
<1>1. ServerOK'
    <2>1. UNCHANGED server
        BY DEF ReceiverStep, ReceiverTimesOut, ReceiverLoops, ReceiverDecodes,
               ReceiverReads, ReceiverFindsClosed
    <2> QED  BY <2>1, ServerKeeps DEF InputInv, ServerOK, server
<1> SUFFICES ClientOK'
    BY <1>1 DEF InputInv
<1>2. ClientOK /\ InBounds(decoder)
    BY DEF InputInv, ClientOK
<1>3. CASE ReceiverLoops
    BY <1>2, <1>3 DEF ReceiverLoops, ClientOK
<1>4. CASE ReceiverTimesOut \/ ReceiverFindsClosed
    BY <1>2, <1>4 DEF ReceiverTimesOut, ReceiverFindsClosed, ClientOK
<1>5. CASE ReceiverDecodes
    <2>1. decoder' = NextFrame(decoder).decoder
        BY <1>5 DEF ReceiverDecodes
    <2>2. InBounds(decoder')
        BY <1>2, <2>1, NextFrameInBounds
    <2>3. running' \in BOOLEAN /\ receiver' \in {"poll", "loop"}
        BY <1>5 DEF ReceiverDecodes
    <2> QED  BY <1>2, <1>5, <2>2, <2>3 DEF ReceiverDecodes, ClientOK
<1>6. CASE ReceiverReads
    <2>1. PICK n \in {IF Len(down) < ReadSize THEN Len(down) ELSE ReadSize} :
            decoder' = AppendBytes(decoder, SubSeq(down, 1, n))
        BY <1>6 DEF ReceiverReads
    <2>2. down \in Bytes /\ Len(down) \in Nat /\ n \in 0 .. Len(down)
        BY <2>1, WireAssumption DEF OutputInv, Bytes
    <2>3. SubSeq(down, 1, n) \in Bytes
        BY <2>2, PartOfBytes
    <2>4. InBounds(decoder')
        BY <1>2, <2>1, <2>3, AppendKeeps
    <2> QED  BY <1>2, <1>6, <2>4 DEF ReceiverReads, ClientOK
<1> QED  BY <1>3, <1>4, <1>5, <1>6 DEF ReceiverStep

LEMMA ReconnectTypes ==
    ASSUME InputInv, Reconnect
    PROVE  InputInv'
<1>1. ServerOK'
    BY FreshServerOK DEF Reconnect
<1>2. Len(<<>>) <= UpRoom
    BY EmptyBytes, WireAssumption
<1>3. ClientOK'
    BY <1>2, NewDecoderOK, EmptyBytes DEF Reconnect, ClientOK
<1> QED  BY <1>1, <1>3 DEF InputInv

LEMMA NextKeepsTypes == OutputInv /\ InputInv /\ [Next]_vars => InputInv'
<1> SUFFICES ASSUME OutputInv, InputInv, [Next]_vars  PROVE InputInv'
    OBVIOUS
<1>1. ASSUME NEW m \in Replies, ServerSends(m)  PROVE InputInv'
    BY <1>1, ServerSendsTypes
<1>2. CASE CloseMarked \/ ServerDisconnects
    BY <1>2, ServerClosesTypes DEF CloseMarked, ServerDisconnects
<1>3. CASE ClientReady
    BY <1>3, ClientReadyTypes
<1>4. CASE MainReads \/ MainStep
    BY <1>4, MainTypes
<1>5. CASE ReceiverStep \/ ReceiverTimesOut
    BY <1>5, ReceiverTypes
<1>6. CASE Reconnect
    BY <1>6, ReconnectTypes
<1>7. CASE UNCHANGED vars
    BY <1>7 DEF vars, server, client, InputInv, ClientOK, ServerOK, DecoderBounded
<1> QED  BY <1>1, <1>2, <1>3, <1>4, <1>5, <1>6, <1>7 DEF Next

\* The second invariant: both decoders, the client's threads and its bytes.
THEOREM InputInvariant == Spec => []InputInv
BY InitInputInv, NextKeepsTypes, OutputInvariant, PTL DEF Spec

\* The types of both ends; the offsets are places of their buffers, whatever
\* the decoder made of the bytes (FrameDecoder::Next, TcpConnection::Flush).
THEOREM WireTypeCorrect == Spec => []WireTypeOK
<1>1. OutputInv /\ InputInv => WireTypeOK
    <2> SUFFICES ASSUME OutputInv, InputInv  PROVE WireTypeOK
        OBVIOUS
    <2>1. \A d : InBounds(d) => DecoderOK(d)
        <3> SUFFICES ASSUME NEW d, InBounds(d)  PROVE DecoderOK(d)
            OBVIOUS
        <3>1. d \in Decoders /\ d.read_offset <= Len(d.buffer)
            BY DEF InBounds
        <3> QED  BY <3>1, DecoderTypes DEF DecoderOK
    <2>2. DecoderOK(conn.decoder) /\ DecoderOK(decoder)
        BY <2>1 DEF InputInv, ServerOK, ClientOK
    <2>3. conn.output \in Bytes /\ conn.output_offset \in 0 .. Len(conn.output)
        BY DEF OutputInv, OutputOK, Bytes
    <2> QED
        BY <2>2, <2>3 DEF OutputInv, InputInv, ServerOK, ClientOK, WireTypeOK
<1> QED  BY <1>1, OutputInvariant, InputInvariant, PTL

\* What ReadAvailable leaves in the decoder is less than a frame, and what
\* Compact leaves in front of it is bounded, for every frame size, threshold
\* and way of cutting up the bytes (frame_codec.cpp:149-162).
THEOREM WireDecoderBounded == Spec => []DecoderBounded
<1>1. InputInv => DecoderBounded
    BY DEF InputInv, ServerOK
<1> QED  BY <1>1, InputInvariant, PTL

-----------------------------------------------------------------------------
(* The frames to the client.                                               *)

LEMMA FramesFit ==
    ASSUME NEW m \in Frame
    PROVE  m \in Whole /\ m \in Messages /\ Fits(m) /\ CanEncode(m)
<1>1. m \in Whole
    BY WireAssumption DEF Frame, Whole, Messages, Bytes
<1> QED  BY <1>1, WholeFits

LEMMA FramesAreMessages ==
    ASSUME NEW s \in Seq(Frame)
    PROVE  s \in Seq(Messages)
<1>1. Frame \subseteq Messages
    BY FramesFit
<1> QED  BY <1>1

LEMMA CutInTwo ==
    ASSUME NEW s \in Bytes, NEW n \in Nat, n <= Len(s)
    PROVE  /\ SubSeq(s, 1, n) \in Bytes /\ Len(SubSeq(s, 1, n)) = n
           /\ SubSeq(s, n + 1, Len(s)) \in Bytes
           /\ s = SubSeq(s, 1, n) \o SubSeq(s, n + 1, Len(s))
<1>1. Len(s) \in Nat /\ s \in Seq(0 .. Base - 1)
    BY DEF Bytes
<1>2. /\ 1 \in 1 .. Len(s) + 1 /\ n \in 1 - 1 .. Len(s) /\ Len(s) \in n .. Len(s)
      /\ n + 1 \in 1 .. Len(s) + 1 /\ Len(s) \in (n + 1) - 1 .. Len(s)
      /\ n - 1 + 1 = n
    BY <1>1
<1>3. /\ SubSeq(s, 1, n) \in Bytes /\ Len(SubSeq(s, 1, n)) = n
      /\ SubSeq(s, n + 1, Len(s)) \in Bytes
    BY <1>2, PartOfBytes
<1>4. SubSeq(s, 1, n) \o SubSeq(s, n + 1, Len(s)) = SubSeq(s, 1, Len(s))
    BY <1>1, <1>2, ConcatAdjacentSubSeq
<1>5. SubSeq(s, 1, Len(s)) = s
    BY <1>1, SubSeqFull
<1> QED  BY <1>3, <1>4, <1>5

\* What Append adds is behind what is still to be decoded.
LEMMA AppendIsUnread ==
    ASSUME NEW d, InBounds(d), NEW bytes \in Bytes
    PROVE  Unread(AppendBytes(d, bytes)) = Unread(d) \o bytes
<1> DEFINE e == AppendBytes(d, bytes)
           s == d.buffer
           o == d.read_offset
<1>1. /\ InBounds(e) /\ e.buffer = s \o bytes /\ e.read_offset = o
      /\ BufferedBytes(e) = BufferedBytes(d) + Len(bytes)
    BY AppendKeeps
<1>2. /\ s \in Bytes /\ o \in Nat /\ Len(s) \in Nat /\ BufferedBytes(d) = Len(s) - o
      /\ o <= Len(s) /\ Len(bytes) \in Nat
    BY DecoderTypes DEF InBounds, Bytes
<1> HIDE DEF e, s, o
<1> DEFINE t == s \o bytes
<1>3. t \in Bytes /\ Len(t) = Len(s) + Len(bytes)
    BY <1>2, BytesJoin
<1> HIDE DEF t
<1>4. s = SubSeq(s, 1, o) \o Unread(d)
    <2>1. o + (Len(s) - o) = Len(s)
        BY <1>2
    <2>2. Unread(d) = SubSeq(s, o + 1, Len(s))
        BY <1>2, <2>1 DEF Unread, Buffered, s, o
    <2> QED  BY <1>2, <2>2, CutInTwo
<1>5. t = SubSeq(t, 1, o) \o Unread(e)
    <2>1. o + (Len(s) - o + Len(bytes)) = Len(t) /\ o <= Len(t)
        BY <1>2, <1>3
    <2>2. Unread(e) = SubSeq(t, o + 1, Len(t))
        BY <1>1, <1>2, <2>1 DEF Unread, Buffered, t
    <2> QED  BY <1>2, <1>3, <2>1, <2>2, CutInTwo
<1>6. /\ SubSeq(s, 1, o) \in Bytes /\ Len(SubSeq(s, 1, o)) = o
      /\ SubSeq(t, 1, o) \in Bytes /\ Len(SubSeq(t, 1, o)) = o
    <2>1. o <= Len(t)
        BY <1>2, <1>3
    <2> QED  BY <1>2, <1>3, <2>1, CutInTwo
<1>7. Unread(d) \in Bytes /\ Unread(e) \in Bytes
    BY <1>1, UnreadIsBytes
<1> DEFINE x == SubSeq(s, 1, o)
           y == SubSeq(t, 1, o)
           u == Unread(d)
           v == Unread(e)
<1>8. x \in Bytes /\ y \in Bytes /\ u \in Bytes /\ v \in Bytes /\ Len(x) = Len(y)
    BY <1>6, <1>7
<1>9. s = x \o u /\ t = y \o v
    BY <1>4, <1>5
<1> HIDE DEF x, y, u, v
<1>10. u \o bytes \in Bytes /\ x \o (u \o bytes) = y \o v
    <2>1. (x \o u) \o bytes = x \o (u \o bytes) /\ u \o bytes \in Bytes
        <3>1. x \in Bytes /\ u \in Bytes
            BY <1>8
        <3>2. (x \o u) \o bytes = x \o (u \o bytes)
            <4>1. Associate(x, u, bytes)
                BY <3>1, BytesAssociate
            <4> QED  BY <4>1 DEF Associate
        <3> QED  BY <3>1, <3>2, BytesJoin
    <2>2. (x \o u) \o bytes = t
        BY <1>9 DEF t
    <2> QED  BY <1>9, <2>1, <2>2
<1> DEFINE w == u \o bytes
<1>11. Same(x, w, y, v)
    <2> HIDE DEF w
    <2> QED  BY <1>8, <1>10, CutAtSamePlace DEF w
<1> QED  BY <1>11 DEF Same, u, v, e

\* The inductive invariant of this direction: what is still to be decoded,
\* in the socket or in the output are the bytes of the frames that were
\* accepted and not handed over, all of them as long as the server has the
\* connection, a beginning of them after that.
DownInv ==
    /\ downFrames \in Seq(Frame)
    /\ \E rest \in Bytes :
         /\ open => rest = <<>>
         /\ Encoded[downFrames] = Unread(decoder) \o (Outgoing \o rest)

LEMMA DownTypes ==
    ASSUME OutputInv, InputInv
    PROVE  /\ Unread(decoder) \in Bytes /\ Outgoing \in Bytes
           /\ open \in BOOLEAN /\ running \in BOOLEAN
<1>1. InBounds(decoder) /\ running \in BOOLEAN /\ open \in BOOLEAN
    BY DEF InputInv, ClientOK, OutputInv
<1> QED  BY <1>1, UnreadIsBytes, OutgoingIsBytes DEF Bytes

LEMMA NewConnectionPending == Pending(NewConnection) = <<>>
BY DEF Pending, NewConnection

\* What a new connection starts with.
LEMMA NothingDown ==
    /\ <<>> \o Pending(NewConnection) = <<>>
    /\ <<>> \in Seq(Frame)
    /\ Encoded[<<>>] = Unread(NewDecoder) \o (<<>> \o <<>>)
<1>1. <<>> \o <<>> = <<>>
    BY EmptyBytes, ConcatEmptySeq DEF Bytes
<1>2. Unread(NewDecoder) = <<>>
    BY DEF Unread, NewDecoder, Buffered, BufferedBytes
<1>3. <<>> \in Seq(Messages) /\ <<>> \in Seq(Frame)
    OBVIOUS
<1>4. Encoded[<<>>] = <<>>
    BY <1>3, EncodedUnfolds
<1> QED  BY <1>1, <1>2, <1>3, <1>4, NewConnectionPending

LEMMA FreshDown ==
    ASSUME conn' = NewConnection, down' = <<>>, decoder' = NewDecoder, downFrames' = <<>>
    PROVE  DownInv'
BY NothingDown, EmptyBytes DEF DownInv, Outgoing

LEMMA InitDown == Init => DownInv
BY NothingDown, EmptyBytes DEF Init, DownInv, Outgoing

LEMMA StaysDown ==
    ASSUME DownInv, OutputStays, Unread(decoder') = Unread(decoder),
           downFrames' = downFrames, open' => open
    PROVE  DownInv'
BY DEF DownInv, OutputStays

LEMMA ClosesDown ==
    ASSUME OutputInv, InputInv, OutputInv', DownInv, open, open' = FALSE, OutputStream,
           conn' = NewConnection, decoder' = decoder, downFrames' = downFrames
    PROVE  DownInv'
<1>1. PICK r \in Bytes : Outgoing = down' \o r
    BY DEF OutputStream
<1>2. Outgoing' = down' /\ down' \in Bytes
    <2>1. down' \in Bytes
        BY DEF OutputInv
    <2>2. down' \o <<>> = down'
        BY <2>1, ConcatEmptySeq DEF Bytes
    <2> QED  BY <2>1, <2>2, NewConnectionPending DEF Outgoing
<1>3. Encoded[downFrames] = Unread(decoder) \o (Outgoing \o <<>>)
    BY DEF DownInv
<1>4. Outgoing \o <<>> = Outgoing
    BY DownTypes, ConcatEmptySeq DEF Bytes
<1>5. Encoded[downFrames'] = Unread(decoder') \o (Outgoing' \o r)
    BY <1>1, <1>2, <1>3, <1>4
<1> QED  BY <1>1, <1>5 DEF DownInv

LEMMA ReadDown ==
    ASSUME OutputInv, InputInv, OutputInv', DownInv, OutputIsRead,
           downFrames' = downFrames, open' = open, Outgoing' \in Bytes
    PROVE  DownInv'
<1>1. PICK b \in Bytes : Outgoing = b \o Outgoing' /\ decoder' = AppendBytes(decoder, b)
    BY DEF OutputIsRead
<1>2. PICK rest \in Bytes : /\ open => rest = <<>>
                            /\ Encoded[downFrames] = Unread(decoder) \o (Outgoing \o rest)
    BY DEF DownInv
<1> DEFINE u == Unread(decoder)
           o == Outgoing'
<1>3. Unread(decoder') = u \o b
    BY <1>1, AppendIsUnread DEF InputInv, ClientOK
<1>4. u \in Bytes /\ o \in Bytes
    BY DownTypes
<1> HIDE DEF u, o
<1>5. o \o rest \in Bytes
    BY <1>4, BytesJoin
<1>6. (b \o o) \o rest = b \o (o \o rest)
    <2>1. Associate(b, o, rest)
        BY <1>4, BytesAssociate
    <2> QED  BY <2>1 DEF Associate
<1>7. (u \o b) \o (o \o rest) = u \o (b \o (o \o rest))
    <2> DEFINE later == o \o rest
    <2>1. later \in Bytes
        BY <1>5
    <2> HIDE DEF later
    <2>2. (u \o b) \o later = u \o (b \o later)
        <3>1. Associate(u, b, later)
            BY <1>4, <2>1, BytesAssociate
        <3> QED  BY <3>1 DEF Associate
    <2> QED  BY <2>2 DEF later
<1>8. Encoded[downFrames'] = Unread(decoder') \o (Outgoing' \o rest)
    BY <1>1, <1>2, <1>3, <1>6, <1>7 DEF u, o
<1> QED  BY <1>2, <1>8 DEF DownInv

LEMMA GrowsDown ==
    ASSUME OutputInv, InputInv, DownInv, open, open' = open, OutputGrows, decoder' = decoder
    PROVE  DownInv' /\ \E m \in Frame : downFrames' = Append(downFrames, m)
<1>1. PICK m \in Replies : /\ CanEncode(m)
                           /\ Outgoing' = Outgoing \o EncodeFrame(m)
                           /\ downFrames' = Append(downFrames, m)
    BY DEF OutputGrows
<1>2. m \in Frame
    BY <1>1 DEF Frame
<1>3. downFrames \in Seq(Frame) /\ Encoded[downFrames] = Unread(decoder) \o (Outgoing \o <<>>)
    BY DEF DownInv
<1>4. downFrames' \in Seq(Frame)
    BY <1>1, <1>2, <1>3
<1> DEFINE u == Unread(decoder)
           o == Outgoing
           e == EncodeFrame(m)
<1>5. u \in Bytes /\ o \in Bytes /\ e \in Bytes
    BY <1>2, DownTypes, FramesFit, EncodedIsBytes DEF Messages
<1>6. Encoded[downFrames'] = Encoded[downFrames] \o e
    BY <1>1, <1>2, <1>3, FramesFit, FramesAreMessages, EncodedAppend
<1> HIDE DEF u, o, e
<1>7. o \o <<>> = o /\ o \o e \in Bytes /\ (o \o e) \o <<>> = o \o e
    <2>1. o \o e \in Bytes
        BY <1>5, BytesJoin
    <2> QED  BY <1>5, <2>1, ConcatEmptySeq DEF Bytes
<1>8. (u \o o) \o e = u \o (o \o e)
    <2>1. Associate(u, o, e)
        BY <1>5, BytesAssociate
    <2> QED  BY <2>1 DEF Associate
<1>9. Encoded[downFrames'] = Unread(decoder') \o (Outgoing' \o <<>>)
    BY <1>1, <1>3, <1>6, <1>7, <1>8 DEF u, o, e
<1> QED  BY <1>1, <1>2, <1>4, <1>9, EmptyBytes DEF DownInv

LEMMA FrameSequence ==
    ASSUME NEW s \in Seq(Frame)
    PROVE  /\ Len(s) \in Nat
           /\ SubSeq(s, 1, 0) = <<>>
           /\ SubSeq(s, 1, Len(s)) = s
           /\ s # <<>> => /\ 1 \in 1 .. Len(s)
                          /\ Head(s) \in Frame /\ Tail(s) \in Seq(Frame)
                          /\ SubSeq(s, 1, 1) = <<Head(s)>>
                          /\ SubSeq(s, 2, Len(s)) = Tail(s)
<1>1. Len(s) \in Nat /\ SubSeq(s, 1, 0) = <<>> /\ SubSeq(s, 1, Len(s)) = s
    BY LenProperties, SubSeqFull, SubSeqEmpty
<1>2. ASSUME s # <<>>
      PROVE  /\ 1 \in 1 .. Len(s)
             /\ Head(s) \in Frame /\ Tail(s) \in Seq(Frame)
             /\ SubSeq(s, 1, 1) = <<Head(s)>>
             /\ SubSeq(s, 2, Len(s)) = Tail(s)
    <2>1. /\ Head(s) \in Frame /\ Tail(s) \in Seq(Frame) /\ Head(s) = s[1]
          /\ Len(Tail(s)) = Len(s) - 1
          /\ \A i \in 1 .. Len(Tail(s)) : Tail(s)[i] = s[i + 1]
        BY <1>2, HeadTailProperties
    <2>2. 1 \in 1 .. Len(s)
        BY <1>1, <1>2, EmptySeq
    <2>3. SubSeq(s, 1, 1) = <<Head(s)>>
        <3>1. 1 \in 1 .. Len(s) + 1 /\ 1 \in 1 - 1 .. Len(s)
            BY <1>1, <2>2
        <3>2. /\ SubSeq(s, 1, 1) \in Seq(Frame) /\ Len(SubSeq(s, 1, 1)) = 1 - 1 + 1
              /\ \A i \in 1 .. 1 - 1 + 1 : SubSeq(s, 1, 1)[i] = s[1 + i - 1]
            BY <3>1, SubSeqProperties
        <3>3. <<Head(s)>> \in Seq(Frame) /\ Len(<<Head(s)>>) = 1 /\ <<Head(s)>>[1] = s[1]
            BY <2>1
        <3>4. SubSeq(s, 1, 1)[1] = s[1]
            BY <3>2
        <3>5. \A i \in 1 .. 1 : SubSeq(s, 1, 1)[i] = <<Head(s)>>[i]
            BY <3>3, <3>4
        <3>6. Len(SubSeq(s, 1, 1)) = Len(<<Head(s)>>) /\ Len(SubSeq(s, 1, 1)) = 1
            BY <3>2, <3>3
        <3> DEFINE x == SubSeq(s, 1, 1)
                   y == <<Head(s)>>
        <3>7. x \in Seq(Frame) /\ y \in Seq(Frame) /\ Len(x) = Len(y)
              /\ \A i \in 1 .. Len(x) : x[i] = y[i]
            BY <3>2, <3>3, <3>5, <3>6
        <3> HIDE DEF x, y
        <3>8. x = y
            BY <3>7, SeqEqual
        <3> QED  BY <3>8 DEF x, y
    <2>4. SubSeq(s, 2, Len(s)) = Tail(s)
        BY <1>2, TailIsSubSeq
    <2> QED  BY <2>1, <2>2, <2>3, <2>4
<1> QED  BY <1>1, <1>2

\* A step that hands nothing over, sends nothing and does not connect.
LEMMA QuietDown ==
    ASSUME OutputInv, InputInv, OutputInv', InputInv', DownInv,
           got' = <<>>, downFrames' = downFrames, open' /\ running' => open /\ running
    PROVE  Down!ChannelNext
<1>1. open \in BOOLEAN /\ running \in BOOLEAN /\ open' \in BOOLEAN /\ running' \in BOOLEAN
    BY DEF OutputInv, InputInv, ClientOK
<1>2. downFrames \in Seq(Frame)
    BY DEF DownInv
<1>3. Len(downFrames) \in Nat /\ SubSeq(downFrames, 1, 0) = <<>>
        /\ SubSeq(downFrames, 1, Len(downFrames)) = downFrames
    BY <1>2, FrameSequence
<1>4. CASE ~(open' /\ running')
    <2>1. (open /\ running)' = FALSE
        BY <1>4
    <2>2. got' = SubSeq(downFrames, 1, 0)
        BY <1>3
    <2>3. downFrames' = SubSeq(SubSeq(downFrames, 0 + 1, Len(downFrames)), 1, Len(downFrames))
        BY <1>3
    <2>4. 0 \in 0 .. Len(downFrames) /\ Len(downFrames) \in 0 .. Len(downFrames) - 0
        BY <1>3
    <2>5. Down!Break
        BY <2>1, <2>2, <2>3, <2>4 DEF Down!Break, Down!FirstOf, Down!RestOf
    <2> QED  BY <2>5 DEF Down!ChannelNext
<1>5. CASE open' /\ running'
    <2>1. UNCHANGED (open /\ running)
        BY <1>1, <1>5
    <2>2. Down!Idle
        BY <2>1 DEF Down!Idle
    <2> QED  BY <2>2 DEF Down!ChannelNext
<1> QED  BY <1>4, <1>5

\* What Next makes of the bytes is the first of the frames under way.
LEMMA DecodesDown ==
    ASSUME OutputInv, InputInv, OutputInv', InputInv', DownInv, ReceiverDecodes
    PROVE  DownInv' /\ Down!ChannelNext
<1> DEFINE n == NextFrame(decoder)
<1>1. /\ decoder' = n.decoder /\ got' = n.frames
      /\ downFrames' = Without(downFrames, n.frames)
      /\ running' = (running /\ n.status # "failed")
      /\ open' = open /\ conn' = conn /\ interest' = interest /\ down' = down
    BY DEF ReceiverDecodes, server
<1>2. InBounds(decoder) /\ decoder \in Decoders
    BY DEF InputInv, ClientOK, InBounds
<1>3. FailsBefore(decoder, n) \/ FailsNow(decoder, n) \/ NeedsMore(decoder, n)
        \/ HasFrame(decoder, n)
    BY <1>2, NextFrameCases
<1> HIDE DEF n
<1>4. OutputStays
    BY <1>1, OthersKeepInv
<1>5. PICK rest \in Bytes : /\ open => rest = <<>>
                            /\ Encoded[downFrames] = Unread(decoder) \o (Outgoing \o rest)
    BY DEF DownInv
<1>6. downFrames \in Seq(Frame) /\ downFrames \in Seq(Messages)
    BY FramesAreMessages DEF DownInv
<1>7. CASE FailsBefore(decoder, n) \/ FailsNow(decoder, n) \/ NeedsMore(decoder, n)
    <2>1. n.frames = <<>>
        BY <1>7 DEF FailsBefore, FailsNow, NeedsMore
    <2>2. Unread(n.decoder) = Unread(decoder)
        <3>1. n.decoder = decoder \/ n.decoder = [decoder EXCEPT !.failed = TRUE]
            <4>1. ASSUME FailsBefore(decoder, n)  PROVE n.decoder = decoder
                BY <4>1 DEF FailsBefore
            <4>2. ASSUME FailsNow(decoder, n)
                  PROVE  n.decoder = [decoder EXCEPT !.failed = TRUE]
                BY <4>2 DEF FailsNow
            <4>3. ASSUME NeedsMore(decoder, n)  PROVE n.decoder = decoder
                BY <4>3 DEF NeedsMore
            <4> QED  BY <1>7, <4>1, <4>2, <4>3
        <3>2. n.decoder.buffer = decoder.buffer /\ n.decoder.read_offset = decoder.read_offset
            BY <1>2, <3>1 DEF Decoders
        <3> QED  BY <3>2 DEF Unread, Buffered, BufferedBytes
    <2>3. downFrames' = downFrames
        <3>1. SubSeq(downFrames, 0 + 1, Len(downFrames)) = downFrames
            BY <1>6, FrameSequence
        <3> QED  BY <1>1, <2>1, <3>1, EmptyBytes DEF Without
    <2>4. DownInv'
        BY <1>1, <1>4, <2>2, <2>3, StaysDown
    <2>5. Down!ChannelNext
        BY <1>1, <2>1, <2>3, QuietDown
    <2> QED  BY <2>4, <2>5
<1>8. CASE HasFrame(decoder, n)
    <2> DEFINE u == Unread(decoder)
               o == Outgoing
               tail == o \o rest
               m == Head(downFrames)
               more == Encoded[Tail(downFrames)]
    <2>1. u \in Bytes /\ o \in Bytes /\ tail \in Bytes /\ Len(u) = BufferedBytes(decoder)
        BY <1>2, DownTypes, BytesJoin, UnreadIsBytes
    <2>2. downFrames # <<>>
        <3>1. SUFFICES ASSUME downFrames = <<>>  PROVE FALSE
            OBVIOUS
        <3>2. Encoded[downFrames] = <<>>
            BY <1>6, <3>1, EncodedUnfolds
        <3>3. Len(u \o tail) = Len(u) + Len(tail) /\ Len(u) \in Nat /\ Len(tail) \in Nat
            <4>1. u \in Bytes /\ tail \in Bytes
                BY <2>1
            <4> HIDE DEF u, tail
            <4>2. Len(u \o tail) = Len(u) + Len(tail)
                BY <4>1, BytesJoin
            <4>3. Len(u) \in Nat /\ Len(tail) \in Nat
                BY <4>1 DEF Bytes
            <4> QED  BY <4>2, <4>3
        <3>4. Len(u \o tail) = 0
            BY <1>5, <3>2, EmptyBytes
        <3>5. Len(u) > 0
            BY <1>8, <2>1, Sizes DEF HasFrame
        <3> HIDE DEF u, tail
        <3> QED  BY <3>3, <3>4, <3>5
    <2>3. /\ m \in Frame /\ Tail(downFrames) \in Seq(Frame) /\ 1 \in 1 .. Len(downFrames)
          /\ SubSeq(downFrames, 1, 1) = <<m>>
          /\ SubSeq(downFrames, 2, Len(downFrames)) = Tail(downFrames)
        BY <1>6, <2>2, FrameSequence
    <2>4. m \in Messages /\ Fits(m) /\ more \in Bytes
        BY <2>3, FramesFit, FramesAreMessages, EncodedType
    <2>5. Encoded[downFrames] = EncodeFrame(m) \o more
        BY <1>6, <2>2, EncodedUnfolds
    <2>6. u \o tail = EncodeFrame(m) \o more
        BY <1>5, <2>5
    <2> HIDE DEF tail, m, more
    <2>7. n.frames = <<m>> /\ Unread(n.decoder) \o tail = more
        <3>1. Starts(decoder, tail, EncodeFrame(m), more)
            BY <2>6 DEF Starts
        <3>2. tail \in Bytes
            BY <2>1
        <3> HIDE DEF u, o
        <3>3. /\ InBounds(decoder) /\ HasFrame(decoder, n) /\ m \in Messages /\ Fits(m)
              /\ more \in Bytes
            BY <1>2, <1>8, <2>4
        <3>4. n.frames = <<m>> /\ Continues(n.decoder, tail, more)
            BY <3>1, <3>2, <3>3, DecodesFirst
        <3> QED  BY <3>4 DEF Continues
    <2>8. downFrames' = Tail(downFrames)
        <3>1. Len(<<m>>) + 1 = 2
            OBVIOUS
        <3> QED  BY <1>1, <2>3, <2>7, <3>1 DEF Without
    <2>9. Encoded[downFrames'] = Unread(decoder') \o (Outgoing' \o rest)
        BY <1>1, <1>4, <2>7, <2>8 DEF tail, more, OutputStays
    <2>10. DownInv'
        BY <1>1, <1>5, <2>3, <2>8, <2>9 DEF DownInv
    <2>11. Down!Deliver
        <3>1. n.status # "failed"
            BY <1>8 DEF HasFrame
        <3>2. UNCHANGED (open /\ running)
            BY <1>1, <3>1, DownTypes
        <3>3. got' = SubSeq(downFrames, 1, 1)
            BY <1>1, <2>3, <2>7
        <3>4. downFrames' = SubSeq(downFrames, 1 + 1, Len(downFrames))
            BY <2>3, <2>8
        <3> QED  BY <2>3, <3>2, <3>3, <3>4 DEF Down!Deliver, Down!FirstOf, Down!RestOf
    <2> QED  BY <2>10, <2>11 DEF Down!ChannelNext
<1> QED  BY <1>3, <1>7, <1>8

LEMMA ServerSendsDown ==
    ASSUME OutputInv, InputInv, OutputInv', InputInv', DownInv,
           NEW m \in Replies, ServerSends(m)
    PROVE  DownInv' /\ Down!ChannelNext
<1>1. /\ open /\ open' = open /\ decoder' = decoder /\ running' = running
      /\ got' = <<>>
    BY DEF ServerSends, Quiet, client
<1>2. OutputGrows \/ (OutputStays /\ downFrames' = downFrames)
    BY ServerSendsKeepsInv
<1>3. CASE OutputGrows
    <2>1. DownInv' /\ \E f \in Frame : downFrames' = Append(downFrames, f)
        BY <1>1, <1>3, GrowsDown
    <2>2. UNCHANGED (open /\ running)
        BY <1>1
    <2>3. Down!Send
        BY <1>1, <2>1, <2>2 DEF Down!Send
    <2> QED  BY <2>1, <2>3 DEF Down!ChannelNext
<1>4. CASE OutputStays /\ downFrames' = downFrames
    <2>1. DownInv'
        BY <1>1, <1>4, StaysDown
    <2>2. Down!ChannelNext
        BY <1>1, <1>4, QuietDown
    <2> QED  BY <2>1, <2>2
<1> QED  BY <1>2, <1>3, <1>4

LEMMA ServerClosesDown ==
    ASSUME OutputInv, InputInv, OutputInv', InputInv', DownInv, OutputStream,
           open, open' = FALSE, conn' = NewConnection, got' = <<>>, UNCHANGED client,
           downFrames' = downFrames
    PROVE  DownInv' /\ Down!ChannelNext
<1>1. decoder' = decoder /\ running' = running
    BY DEF client
<1>2. DownInv'
    BY <1>1, ClosesDown
<1>3. Down!ChannelNext
    BY QuietDown
<1> QED  BY <1>2, <1>3

\* A step that leaves the output and the client's decoder alone.
LEMMA AsideDown ==
    ASSUME OutputInv, InputInv, OutputInv', InputInv', DownInv, OutputStays,
           got' = <<>>, decoder' = decoder, downFrames' = downFrames,
           open' = open, running' => running
    PROVE  DownInv' /\ Down!ChannelNext
<1>1. DownInv'
    BY StaysDown
<1>2. Down!ChannelNext
    BY QuietDown
<1> QED  BY <1>1, <1>2

LEMMA ClientReadyDown ==
    ASSUME OutputInv, InputInv, OutputInv', InputInv', DownInv, ClientReady
    PROVE  DownInv' /\ Down!ChannelNext
<1>1. open /\ got' = <<>> /\ UNCHANGED client /\ downFrames' = downFrames
    BY DEF ClientReady
<1>2. OutputStream /\ (open' => OutputStays)
    BY ClientReadyKeepsInv
<1>3. open' = open \/ (open' = FALSE /\ conn' = NewConnection)
    BY DEF ClientReady, CloseConnection
<1>4. CASE open' = open
    <2>1. decoder' = decoder /\ running' = running /\ OutputStays
        BY <1>1, <1>2, <1>4 DEF client
    <2> QED  BY <1>1, <1>4, <2>1, AsideDown
<1>5. CASE open' = FALSE /\ conn' = NewConnection
    BY <1>1, <1>2, <1>5, ServerClosesDown
<1> QED  BY <1>3, <1>4, <1>5

LEMMA ReceiverReadsDown ==
    ASSUME OutputInv, InputInv, OutputInv', InputInv', DownInv, ReceiverReads
    PROVE  DownInv' /\ Down!ChannelNext
<1>1. OutputIsRead
    BY ReceiverReadsKeepsInv
<1>2. /\ open' = open /\ running' = running /\ got' = <<>> /\ downFrames' = downFrames
    BY DEF ReceiverReads, server, Quiet, history
<1>3. Outgoing' \in Bytes
    <2>1. down' \in Bytes /\ OutputOK(conn')
        BY DEF OutputInv
    <2>2. Pending(conn') \in Bytes
        BY <2>1, CompactOK
    <2> QED  BY <2>1, <2>2, BytesJoin DEF Outgoing
<1>4. DownInv'
    BY <1>1, <1>2, <1>3, ReadDown
<1>5. Down!ChannelNext
    BY <1>2, QuietDown
<1> QED  BY <1>4, <1>5

LEMMA NextDown ==
    ASSUME OutputInv, InputInv, OutputInv', InputInv', DownInv, [Next]_vars
    PROVE  DownInv' /\ [Down!ChannelNext]_Down!channelVars
<1> SUFFICES DownInv' /\ (Down!ChannelNext \/ UNCHANGED Down!channelVars)
    OBVIOUS
<1> DEFINE aside == UNCHANGED <<open, conn, interest, down>>
           Goal == DownInv' /\ Down!ChannelNext
<1>1. ASSUME NEW m \in Replies, ServerSends(m)  PROVE Goal
    BY <1>1, ServerSendsDown
<1>2. CASE CloseMarked \/ ServerDisconnects
    <2>1. /\ open /\ CloseConnection(up, down) /\ got' = <<>> /\ UNCHANGED client
          /\ downFrames' = downFrames
        BY <1>2 DEF CloseMarked, ServerDisconnects, Quiet
    <2>2. open' = FALSE /\ conn' = NewConnection
        BY <2>1 DEF CloseConnection
    <2>3. OutputStream
        BY <2>1, ServerClosesKeepsInv
    <2>4. Goal
        BY <2>1, <2>2, <2>3, ServerClosesDown
    <2> QED  BY <2>4
<1>3. CASE ClientReady
    BY <1>3, ClientReadyDown
<1>4. CASE MainReads \/ MainStep
    <2>1. /\ aside /\ got' = <<>> /\ decoder' = decoder /\ downFrames' = downFrames
          /\ open' = open /\ (running' => running)
        BY <1>4 DEF MainReads, MainStep, MainLogsIn, MainChecks, MainSends, MainSent,
                    MainSendsInVain, MainSendFails, MainLeaves, MainShutsDown,
                    MainJoins, server, history, Quiet
    <2>2. OutputStays
        BY <2>1, OthersKeepInv
    <2>3. Goal
        BY <2>1, <2>2, AsideDown
    <2> QED  BY <2>3
<1>5. CASE ReceiverLoops \/ ReceiverFindsClosed \/ ReceiverTimesOut
    <2>0. running' => running
        <3>1. ASSUME ReceiverLoops  PROVE running' => running
            BY <3>1, Zenon DEF ReceiverLoops
        <3>2. ASSUME ReceiverFindsClosed  PROVE running' => running
            BY <3>2, Zenon DEF ReceiverFindsClosed
        <3>3. ASSUME ReceiverTimesOut  PROVE running' => running
            BY <3>3 DEF ReceiverTimesOut
        <3> QED  BY <1>5, <3>1, <3>2, <3>3
    <2>1. /\ aside /\ got' = <<>> /\ decoder' = decoder /\ downFrames' = downFrames
          /\ open' = open /\ (running' => running)
        BY <1>5, <2>0 DEF ReceiverLoops, ReceiverFindsClosed, ReceiverTimesOut, server,
                    history, Quiet
    <2>2. OutputStays
        BY <2>1, OthersKeepInv
    <2>3. Goal
        BY <2>1, <2>2, AsideDown
    <2> QED  BY <2>3
<1>6. CASE ReceiverDecodes
    BY <1>6, DecodesDown
<1>7. CASE ReceiverReads
    BY <1>7, ReceiverReadsDown
<1>8. CASE Reconnect
    <2>1. DownInv'
        BY <1>8, FreshDown DEF Reconnect
    <2>2. Down!Connect
        BY <1>8 DEF Reconnect, Down!Connect
    <2> QED  BY <2>1, <2>2 DEF Down!ChannelNext
<1>9. CASE UNCHANGED vars
    <2>1. /\ UNCHANGED <<open, conn, interest, down>> /\ decoder' = decoder
          /\ downFrames' = downFrames /\ running' = running /\ got' = got
        BY <1>9 DEF vars, server, client, history
    <2>2. OutputStays
        BY <2>1, OthersKeepInv
    <2>3. DownInv'
        BY <2>1, <2>2, StaysDown
    <2>4. UNCHANGED Down!channelVars
        BY <2>1 DEF Down!channelVars
    <2> QED  BY <2>3, <2>4
<1> QED  BY <1>1, <1>2, <1>3, <1>4, <1>5, <1>6, <1>7, <1>8, <1>9 DEF Next, ReceiverStep

\* The safety part of DownIsChannel: however the kernel takes the output and
\* the client's recv returns it, the decoder hands over the frames the server
\* has accepted, whole, in order and once each, and a close loses only the
\* last of them (GameServer::Send, TcpConnection, BlockingClient::Receive).
THEOREM WireImplementsDown ==
    Spec => Down!ChannelInit /\ [][Down!ChannelNext]_Down!channelVars
<1>1. Init => DownInv /\ Down!ChannelInit
    <2> SUFFICES ASSUME Init  PROVE DownInv /\ Down!ChannelInit
        OBVIOUS
    <2>1. Down!ChannelInit
        BY DEF Init, Down!ChannelInit
    <2>2. DownInv
        BY InitDown
    <2> QED  BY <2>1, <2>2
<1>2. OutputInv /\ OutputInv' /\ InputInv /\ InputInv' /\ DownInv /\ [Next]_vars
        => DownInv' /\ [Down!ChannelNext]_Down!channelVars
    BY NextDown
<1> QED  BY <1>1, <1>2, OutputInvariant, InputInvariant, PTL DEF Spec

-----------------------------------------------------------------------------
(* The frames to the server.                                               *)

\* The bytes the client has sent, or is sending, and the server has not
\* decoded.
Stream == Unread(conn.decoder) \o (up \o unsent)

\* These bytes are those of the first of the frames; then they end, and there
\* are no other frames, or one comes that the decoder refuses.
Carries(stream, frames) ==
    \E good \in Seq(Whole), later \in Seq(Whole), end \in Bytes :
        /\ frames = good \o later
        /\ stream = Encoded[good] \o end
        /\ StopsAt(end)
        /\ end = <<>> => later = <<>>

\* The inductive invariant of this direction.  Before the login nothing is
\* under way, and main begins a Send only when the last has ended.
UpInv ==
    /\ upFrames \in Seq(Whole)
    /\ ~open => upFrames = <<>>
    /\ main \notin {"login", "sending"} => unsent = <<>>
    /\ main = "connected" /\ open => Stream = <<>> /\ upFrames = <<>>
    /\ open => Carries(Stream, upFrames)

LEMMA NothingUp ==
    /\ Encoded[<<>>] = <<>>
    /\ <<>> \o <<>> = <<>>
    /\ Unread(NewDecoder) = <<>>
    /\ StopsAt(<<>>)
    /\ Carries(<<>>, <<>>)
<1>1. <<>> \o <<>> = <<>>
    BY EmptyBytes, ConcatEmptySeq DEF Bytes
<1>2. Unread(NewDecoder) = <<>>
    BY DEF Unread, NewDecoder, Buffered, BufferedBytes
<1>3. <<>> \in Seq(Messages) /\ <<>> \in Seq(Whole)
    OBVIOUS
<1>4. Encoded[<<>>] = <<>>
    BY <1>3, EncodedUnfolds
<1>5. StopsAt(<<>>)
    BY DEF StopsAt
<1>6. Carries(<<>>, <<>>)
    BY <1>1, <1>3, <1>4, <1>5, EmptyBytes DEF Carries
<1> QED  BY <1>1, <1>2, <1>4, <1>5, <1>6

LEMMA RequestsFit ==
    ASSUME NEW m \in {Login} \cup Requests
    PROVE  /\ m \in Messages /\ Fits(m) /\ EncodeFrame(m) \in Bytes
           /\ CanEncode(m) => m \in Whole /\ m \in Frame
<1>1. m \in Messages
    BY WireAssumption DEF Messages, Bytes
<1>2. EncodeFrame(m) \in Bytes
    BY <1>1, EncodedIsBytes DEF Messages
<1>3. CanEncode(m) => m \in Whole /\ m \in Frame
    BY <1>1 DEF Whole, Frame
<1>4. Fits(m)
    <2>1. CASE m = Login
        BY <1>3, <2>1, WholeFits, WireAssumption
    <2>2. CASE m \in Requests
        BY <2>2, WireAssumption DEF Fits
    <2> QED  BY <2>1, <2>2
<1> QED  BY <1>1, <1>2, <1>3, <1>4

LEMMA BytesEmpty ==
    ASSUME NEW x \in Bytes
    PROVE  x \o <<>> = x /\ <<>> \o x = x
BY ConcatEmptySeq DEF Bytes

LEMMA AppendLast ==
    ASSUME NEW s \in Seq(Whole), NEW t \in Seq(Whole), NEW m \in Whole
    PROVE  /\ Append(s, m) \in Seq(Whole) /\ s \o <<>> = s
           /\ Append(s \o t, m) = s \o Append(t, m)
<1>1. Append(s, m) \in Seq(Whole) /\ Append(t, m) \in Seq(Whole) /\ s \o t \in Seq(Whole)
    BY AppendProperties, ConcatProperties
<1>2. Append(t, m) = t \o <<m>> /\ Append(s \o t, m) = (s \o t) \o <<m>>
    BY <1>1, AppendIsConcat
<1>3. <<m>> \in Seq(Whole)
    OBVIOUS
<1>4. (s \o t) \o <<m>> = s \o (t \o <<m>>)
    <2>1. Associate(s, t, <<m>>)
        BY <1>3, Associates
    <2> QED  BY <2>1 DEF Associate
<1> QED  BY <1>1, <1>2, <1>4, ConcatEmptySeq

\* A Send begins: a frame is added at the end, or bytes that are none.
LEMMA CarriesMore ==
    ASSUME NEW stream \in Bytes, NEW frames \in Seq(Whole), Carries(stream, frames),
           NEW m \in {Login} \cup Requests
    PROVE  Carries(stream \o EncodeFrame(m), IF CanEncode(m) THEN Append(frames, m) ELSE frames)
<1> DEFINE e == EncodeFrame(m)
           after == IF CanEncode(m) THEN Append(frames, m) ELSE frames
<1>1. /\ m \in Messages /\ Fits(m) /\ e \in Bytes
      /\ CanEncode(m) => m \in Whole /\ m \in Frame
    BY RequestsFit
<1>2. PICK good \in Seq(Whole), later \in Seq(Whole), end \in Bytes :
        /\ frames = good \o later
        /\ stream = Encoded[good] \o end
        /\ StopsAt(end)
        /\ end = <<>> => later = <<>>
    BY DEF Carries
<1> DEFINE g == Encoded[good]
<1>3. g \in Bytes
    BY <1>2, WholeAreMessages, EncodedType
<1>4. (g \o end) \o e = g \o (end \o e) /\ end \o e \in Bytes
    <2> HIDE DEF g, e
    <2>1. Associate(g, end, e)
        BY <1>1, <1>3, BytesAssociate
    <2> QED  BY <1>1, <2>1, BytesJoin DEF Associate
<1>5. CASE end = <<>> /\ CanEncode(m)
    <2>1. Append(good, m) \in Seq(Whole) /\ Append(good, m) \o <<>> = Append(good, m)
        <3>1. Append(good, m) \in Seq(Whole)
            BY <1>1, <1>5, AppendLast
        <3> QED  BY <3>1, ConcatEmptySeq
    <2>2. after = Append(good, m) \o <<>>
        BY <1>1, <1>2, <1>5, <2>1, AppendLast
    <2>3. Encoded[Append(good, m)] = g \o e
        BY <1>1, WholeAreMessages, EncodedAppend
    <2>4. stream \o e = Encoded[Append(good, m)] \o <<>>
        <3> HIDE DEF g, e
        <3>1. <<>> \o e = e /\ g \o e \in Bytes
            BY <1>1, <1>3, BytesEmpty, BytesJoin
        <3>2. (g \o e) \o <<>> = g \o e
            BY <3>1, BytesEmpty
        <3>3. stream \o e = g \o e
            BY <1>2, <1>4, <1>5, <3>1 DEF g
        <3> QED  BY <2>3, <3>2, <3>3
    <2>5. <<>> \in Seq(Whole)
        OBVIOUS
    <2> HIDE DEF e, after
    <2>6. Carries(stream \o e, after)
        BY <2>1, <2>2, <2>4, <2>5, EmptyBytes, NothingUp DEF Carries
    <2> QED  BY <2>6 DEF e, after
<1>6. CASE end = <<>> /\ ~CanEncode(m)
    <2>1. StopsAt(e)
        <3>1. e = EncodeFrame(m) \o <<>>
            BY <1>1, BytesEmpty
        <3> QED  BY <1>1, <1>6, <3>1, EmptyBytes DEF StopsAt
    <2>2. stream \o e = g \o e
        <3> HIDE DEF g, e
        <3>1. <<>> \o e = e
            BY <1>1, BytesEmpty
        <3> QED  BY <1>2, <1>4, <1>6, <3>1 DEF g
    <2>3. after = frames /\ later = <<>>
        BY <1>2, <1>6
    <2> HIDE DEF e, after
    <2>4. Carries(stream \o e, after)
        BY <1>1, <1>2, <2>1, <2>2, <2>3 DEF Carries, g
    <2> QED  BY <2>4 DEF e, after
<1>7. CASE end # <<>>
    <2>1. PICK bad \in Messages, more \in Bytes :
            Fits(bad) /\ ~CanEncode(bad) /\ end = EncodeFrame(bad) \o more
        BY <1>2, <1>7 DEF StopsAt
    <2> DEFINE b == EncodeFrame(bad)
    <2>2. b \in Bytes
        BY EncodedIsBytes DEF Messages
    <2>3. (b \o more) \o e = b \o (more \o e) /\ more \o e \in Bytes
        <3> HIDE DEF b, e
        <3>1. (b \o more) \o e = b \o (more \o e)
            <4>1. Associate(b, more, e)
                BY <1>1, <2>2, BytesAssociate
            <4> QED  BY <4>1 DEF Associate
        <3> QED  BY <1>1, <3>1, BytesJoin
    <2>4. StopsAt(end \o e)
        BY <2>1, <2>3 DEF StopsAt
    <2>5. end \o e # <<>>
        <3> HIDE DEF e
        <3> QED  BY <1>1, <1>7, ConcatEqualIffEmpty DEF Bytes
    <2>6. PICK l \in Seq(Whole) : after = good \o l
        <3>1. CASE CanEncode(m)
            <4>1. after = good \o Append(later, m) /\ Append(later, m) \in Seq(Whole)
                BY <1>1, <1>2, <3>1, AppendLast
            <4> QED  BY <4>1
        <3>2. CASE ~CanEncode(m)
            BY <1>2, <3>2
        <3> QED  BY <3>1, <3>2
    <2>7. stream \o e = g \o (end \o e)
        BY <1>2, <1>4
    <2> HIDE DEF e, after
    <2>8. Carries(stream \o e, after)
        BY <1>4, <2>4, <2>5, <2>6, <2>7 DEF Carries, g
    <2> QED  BY <2>8 DEF e, after
<1> QED  BY <1>5, <1>6, <1>7

LEMMA DecodedAreMessages ==
    ASSUME NEW r \in Results
    PROVE  r.frames \in Seq(Messages)
<1>1. KnownIds \subseteq Nat
    <2>1. ValuesOf[FieldSize] \in Nat
        BY ValuesOfType, CodecAssumption
    <2>2. PICK v \in Nat : v = ValuesOf[FieldSize]
        BY <2>1
    <2>3. KnownIds \subseteq 0 .. v - 1
        BY <2>2, CodecAssumption
    <2> QED  BY <2>3
<1>2. DecodedFrames \subseteq Messages
    BY <1>1 DEF DecodedFrames, Messages
<1>3. r.frames \in Seq(DecodedFrames)
    BY DEF Results
<1> QED  BY <1>2, <1>3

\* The server's loop hands over the first of the frames, and the bytes it
\* leaves carry the others.
LEMMA CarriesRead ==
    ASSUME NEW d, InBounds(d), OffsetBounded(d), NEW tail \in Bytes,
           NEW frames \in Seq(Whole), Carries(Unread(d) \o tail, frames)
    PROVE  \E left \in Seq(Whole) :
             /\ frames = NextFrames[d].frames \o left
             /\ Carries(Unread(NextFrames[d].decoder) \o tail, left)
<1> DEFINE r == NextFrames[d]
<1>1. PICK good \in Seq(Whole), later \in Seq(Whole), end \in Bytes :
        /\ frames = good \o later
        /\ Unread(d) \o tail = Encoded[good] \o end
        /\ StopsAt(end)
        /\ end = <<>> => later = <<>>
    BY DEF Carries
<1>2. Holds(d, tail, good, end)
    BY <1>1 DEF Holds, Continues
<1>3. HandsOver(r, tail, good, end)
    BY <1>1, <1>2, DecodesMany
<1>4. r \in Results
    BY NextFramesExhausts DEF Exhausted
<1> HIDE DEF r
<1>5. PICK rest \in Seq(Whole) : good = r.frames \o rest /\ Holds(r.decoder, tail, rest, end)
    BY <1>3 DEF HandsOver
<1>6. r.frames \in Seq(Messages)
    BY <1>4, DecodedAreMessages
<1> DEFINE f == r.frames
<1>7. rest \o later \in Seq(Whole)
    BY ConcatProperties
<1>8. frames = f \o (rest \o later)
    <2>1. rest \in Seq(Messages) /\ later \in Seq(Messages) /\ f \in Seq(Messages)
        BY <1>6, WholeAreMessages
    <2> HIDE DEF f
    <2>2. (f \o rest) \o later = f \o (rest \o later)
        <3>1. Associate(f, rest, later)
            BY <2>1, Associates
        <3> QED  BY <3>1 DEF Associate
    <2> QED  BY <1>1, <1>5, <2>2 DEF f
<1>9. Unread(r.decoder) \o tail = Encoded[rest] \o end
    BY <1>5 DEF Holds, Continues
<1>10. Carries(Unread(r.decoder) \o tail, rest \o later)
    BY <1>1, <1>5, <1>9 DEF Carries
<1> QED  BY <1>7, <1>8, <1>10 DEF r

LEMMA ReadsNothing ==
    ASSUME NEW d, InBounds(d), OffsetBounded(d), NEW tail \in Bytes,
           Unread(d) \o tail = <<>>
    PROVE  Unread(NextFrames[d].decoder) \o tail = <<>>
<1> DEFINE r == NextFrames[d]
<1>1. <<>> \in Seq(Whole)
    OBVIOUS
<1>2. Holds(d, tail, <<>>, <<>>)
    BY NothingUp DEF Holds, Continues
<1>3. HandsOver(r, tail, <<>>, <<>>)
    BY <1>1, <1>2, NothingUp, EmptyBytes, DecodesMany
<1>4. r \in Results
    BY NextFramesExhausts DEF Exhausted
<1> HIDE DEF r
<1>5. PICK rest \in Seq(Whole) : <<>> = r.frames \o rest /\ Holds(r.decoder, tail, rest, <<>>)
    BY <1>3 DEF HandsOver
<1> DEFINE f == r.frames
<1>6. rest = <<>>
    <2>1. f \in Seq(Messages) /\ rest \in Seq(Messages)
        BY <1>4, DecodedAreMessages, WholeAreMessages
    <2>2. f \o rest = <<>>
        BY <1>5
    <2> HIDE DEF f
    <2> QED  BY <2>1, <2>2, ConcatEqualIffEmpty
<1>7. Unread(r.decoder) \o tail = Encoded[<<>>] \o <<>>
    BY <1>5, <1>6 DEF Holds, Continues
<1> QED  BY <1>7, NothingUp DEF r

\* The parts of two sequences in one.
LEMMA PartsOfJoin ==
    ASSUME NEW A, NEW x \in Seq(A), NEW y \in Seq(A), NEW n \in 0 .. Len(x)
    PROVE  /\ Len(x \o y) = Len(x) + Len(y) /\ Len(x) \in Nat /\ Len(y) \in Nat
           /\ SubSeq(x \o y, 1, n) = SubSeq(x, 1, n)
           /\ SubSeq(x \o y, Len(x) + 1, Len(x \o y)) = y
<1> DEFINE z == x \o y
<1>1. /\ z \in Seq(A) /\ Len(z) = Len(x) + Len(y) /\ Len(x) \in Nat /\ Len(y) \in Nat
      /\ \A i \in 1 .. Len(x) + Len(y) : z[i] = IF i <= Len(x) THEN x[i] ELSE y[i - Len(x)]
    BY ConcatProperties, LenProperties
<1>2. /\ \A i \in 1 .. Len(x) : x[i] \in A
      /\ \A i \in 1 .. Len(z) : z[i] \in A
    BY <1>1, ElementOfSeq
<1> HIDE DEF z
<1>3. SubSeq(z, 1, n) = SubSeq(x, 1, n)
    <2> DEFINE u == SubSeq(z, 1, n)
               v == SubSeq(x, 1, n)
    <2>1. (\A i \in 1 .. n : z[i] \in A) /\ (\A i \in 1 .. n : x[i] \in A)
        BY <1>1, <1>2
    <2>2. /\ u \in Seq(A) /\ Len(u) = IF 1 <= n THEN n - 1 + 1 ELSE 0
          /\ \A i \in 1 .. n - 1 + 1 : u[i] = z[1 + i - 1]
        BY <2>1, SubSeqProperties
    <2>3. /\ v \in Seq(A) /\ Len(v) = IF 1 <= n THEN n - 1 + 1 ELSE 0
          /\ \A i \in 1 .. n - 1 + 1 : v[i] = x[1 + i - 1]
        BY <2>1, SubSeqProperties
    <2> HIDE DEF u, v
    <2>4. Len(u) = n /\ Len(v) = n
        BY <2>2, <2>3
    <2>5. \A i \in 1 .. Len(u) : u[i] = v[i]
        <3> SUFFICES ASSUME NEW i \in 1 .. n  PROVE u[i] = v[i]
            BY <2>4
        <3>1. /\ i \in 1 .. n - 1 + 1 /\ 1 + i - 1 = i /\ i \in 1 .. Len(x) + Len(y)
              /\ i <= Len(x)
            BY <1>1
        <3>2. u[i] = z[i]
            BY <2>2, <3>1
        <3>3. v[i] = x[i]
            BY <2>3, <3>1
        <3>4. z[i] = x[i]
            BY <1>1, <3>1
        <3> QED  BY <3>2, <3>3, <3>4
    <2>6. u = v
        BY <2>2, <2>3, <2>4, <2>5, SeqEqual
    <2> QED  BY <2>6 DEF u, v
<1>4. SubSeq(z, Len(x) + 1, Len(z)) = y
    <2> DEFINE l == Len(x)
               u == SubSeq(z, l + 1, Len(z))
    <2>1. \A i \in l + 1 .. Len(z) : z[i] \in A
        BY <1>1, <1>2
    <2>2. /\ u \in Seq(A)
          /\ Len(u) = IF l + 1 <= Len(z) THEN Len(z) - (l + 1) + 1 ELSE 0
          /\ \A i \in 1 .. Len(z) - (l + 1) + 1 : u[i] = z[l + 1 + i - 1]
        <3>1. l + 1 \in Int /\ Len(z) \in Int
            BY <1>1
        <3> QED  BY <2>1, <3>1, SubSeqProperties
    <2> HIDE DEF u
    <2>3. Len(u) = Len(y)
        BY <1>1, <2>2
    <2>4. \A i \in 1 .. Len(u) : u[i] = y[i]
        <3> SUFFICES ASSUME NEW i \in 1 .. Len(y)  PROVE u[i] = y[i]
            BY <2>3
        <3> DEFINE j == l + i
        <3>1. /\ i \in 1 .. Len(z) - (l + 1) + 1 /\ l + 1 + i - 1 = j
              /\ j \in 1 .. Len(x) + Len(y) /\ ~(j <= Len(x)) /\ j - Len(x) = i
            BY <1>1
        <3> HIDE DEF j
        <3>2. u[i] = z[j]
            BY <2>2, <3>1
        <3>3. z[j] = y[i]
            BY <1>1, <3>1
        <3> QED  BY <3>2, <3>3
    <2>5. u = y
        BY <2>2, <2>3, <2>4, SeqEqual
    <2> QED  BY <2>5 DEF u
<1> QED  BY <1>1, <1>3, <1>4 DEF z

LEMMA UpTypes ==
    ASSUME InputInv
    PROVE  /\ Unread(conn.decoder) \in Bytes /\ up \in Bytes /\ unsent \in Bytes
           /\ up \o unsent \in Bytes /\ Stream \in Bytes
<1>1. InBounds(conn.decoder) /\ up \in Bytes /\ unsent \in Bytes
    BY DEF InputInv, ServerOK, ClientOK
<1>2. Unread(conn.decoder) \in Bytes /\ up \o unsent \in Bytes
    BY <1>1, UnreadIsBytes, BytesJoin
<1> QED  BY <1>1, <1>2, BytesJoin DEF Stream

LEMMA IdleUp ==
    ASSUME handled' = <<>>, open' = open, upFrames' = upFrames
    PROVE  Up!ChannelNext
BY DEF Up!ChannelNext, Up!Idle

LEMMA BreakUp ==
    ASSUME upFrames \in Seq(Whole), open' = FALSE, upFrames' = <<>>,
           NEW n \in 0 .. Len(upFrames), handled' = SubSeq(upFrames, 1, n)
    PROVE  Up!ChannelNext
<1>1. Len(upFrames) \in Nat
    BY LenProperties
<1>2. 0 \in 0 .. Len(upFrames) - n
    BY <1>1
<1>3. upFrames' = SubSeq(SubSeq(upFrames, n + 1, Len(upFrames)), 1, 0)
    BY SubSeqEmpty
<1>4. Up!Break
    BY <1>2, <1>3 DEF Up!Break, Up!FirstOf, Up!RestOf
<1> QED  BY <1>4 DEF Up!ChannelNext

\* A step that leaves the bytes to the server, or moves them on.
LEMMA AsideUp ==
    ASSUME UpInv, open' = open, handled' = <<>>, upFrames' = upFrames, Stream' = Stream,
           main' \notin {"login", "sending"} => unsent' = <<>>,
           main' = "connected" => main = "connected"
    PROVE  UpInv' /\ Up!ChannelNext
<1>1. UpInv'
    BY DEF UpInv
<1> QED  BY <1>1, IdleUp

\* What happens at the client once the server has closed.
LEMMA ClosedUp ==
    ASSUME UpInv, ~open, open' = open, handled' = <<>>, upFrames' = upFrames,
           main' \notin {"login", "sending"} => unsent' = <<>>
    PROVE  UpInv' /\ Up!ChannelNext
<1>1. UpInv'
    BY DEF UpInv
<1> QED  BY <1>1, IdleUp

\* The server closes, after it has handed over some of the frames.
LEMMA ClosesUp ==
    ASSUME UpInv, NEW unread, NEW sent, CloseConnection(unread, sent), UNCHANGED client,
           NEW n \in 0 .. Len(upFrames), handled' = SubSeq(upFrames, 1, n)
    PROVE  UpInv' /\ Up!ChannelNext
<1>1. open' = FALSE /\ upFrames' = <<>> /\ main' = main /\ unsent' = unsent
    BY DEF CloseConnection, client
<1>2. upFrames \in Seq(Whole) /\ <<>> \in Seq(Whole)
    BY DEF UpInv
<1>3. UpInv'
    BY <1>1, <1>2 DEF UpInv
<1>4. Up!ChannelNext
    BY <1>1, <1>2, BreakUp
<1> QED  BY <1>3, <1>4

LEMMA ServerClosesUp ==
    ASSUME UpInv, NEW unread, NEW sent, CloseConnection(unread, sent), UNCHANGED client,
           handled' = <<>>
    PROVE  UpInv' /\ Up!ChannelNext
<1>1. Len(upFrames) \in Nat
    BY LenProperties DEF UpInv
<1>2. 0 \in 0 .. Len(upFrames) /\ handled' = SubSeq(upFrames, 1, 0)
    BY <1>1, SubSeqEmpty
<1> QED  BY <1>2, ClosesUp

LEMMA ServerSendsUp ==
    ASSUME OutputInv, InputInv, UpInv, NEW m \in Replies, ServerSends(m)
    PROVE  UpInv' /\ Up!ChannelNext
<1>1. conn'.decoder = conn.decoder
    BY ServerSendsTypes
<1>2. /\ open' = open /\ handled' = <<>> /\ upFrames' = upFrames /\ up' = up
      /\ unsent' = unsent /\ main' = main
    BY DEF ServerSends, Quiet, client
<1>3. Stream' = Stream
    BY <1>1, <1>2 DEF Stream
<1>4. main' \notin {"login", "sending"} => unsent' = <<>>
    BY <1>2 DEF UpInv
<1> QED  BY <1>2, <1>3, <1>4, AsideUp

\* What the server's loop finds, and what it leaves.
LEMMA ReadyReads ==
    ASSUME OutputInv, InputInv, UpInv, open
    PROVE  LET read == ReadAvailable(conn, up)
           IN  \E left \in Seq(Whole) :
                 /\ read.frames \in Seq(Messages)
                 /\ upFrames = read.frames \o left
                 /\ Carries(Unread(read.decoder) \o unsent, left)
                 /\ Stream = <<>> => Unread(read.decoder) \o unsent = <<>>
<1> DEFINE d == conn.decoder
           e == AppendBytes(d, up)
           r == NextFrames[e]
<1>1. InBounds(d) /\ up \in Bytes /\ unsent \in Bytes /\ Len(up) \in Nat
    BY DEF InputInv, ServerOK, ClientOK, Bytes
<1>2. /\ InBounds(e) /\ e.read_offset = d.read_offset
      /\ BufferedBytes(e) = BufferedBytes(d) + Len(up)
    BY <1>1, AppendKeeps
<1>3. d.read_offset < CompactAt \/ d.read_offset < MaxFrameSize
    BY DEF InputInv, ServerOK, DecoderBounded
<1>4. Unread(e) = Unread(d) \o up
    BY <1>1, AppendIsUnread
<1>5. ReadAvailable(conn, up) = r
    BY DEF ReadAvailable
<1>6. Stream = Unread(d) \o (up \o unsent)
    BY DEF Stream
<1>7. Unread(d) \in Bytes
    BY UpTypes
<1> HIDE DEF d, e
<1>8. OffsetBounded(e)
    BY <1>2, <1>3 DEF OffsetBounded
<1>9. Unread(e) \o unsent = Stream
    <2> DEFINE u == Unread(d)
    <2>1. u \in Bytes
        BY <1>7
    <2> HIDE DEF u
    <2>2. (u \o up) \o unsent = u \o (up \o unsent)
        <3>1. Associate(u, up, unsent)
            BY <1>1, <2>1, BytesAssociate
        <3> QED  BY <3>1 DEF Associate
    <2> QED  BY <1>4, <1>6, <2>2 DEF u
<1>10. upFrames \in Seq(Whole) /\ Carries(Unread(e) \o unsent, upFrames)
    BY <1>9 DEF UpInv
<1>11. PICK left \in Seq(Whole) : upFrames = r.frames \o left
                                  /\ Carries(Unread(r.decoder) \o unsent, left)
    BY <1>1, <1>2, <1>8, <1>10, CarriesRead
<1>12. r.frames \in Seq(Messages)
    <2>1. r \in Results
        BY <1>2, <1>8, NextFramesExhausts DEF Exhausted
    <2> QED  BY <2>1, DecodedAreMessages
<1>13. Stream = <<>> => Unread(r.decoder) \o unsent = <<>>
    BY <1>1, <1>2, <1>8, <1>9, ReadsNothing
<1> QED  BY <1>5, <1>11, <1>12, <1>13

LEMMA ClientReadyUp ==
    ASSUME OutputInv, InputInv, UpInv, ClientReady
    PROVE  UpInv' /\ Up!ChannelNext
<1> DEFINE read == ReadAvailable(conn, up)
           f == read.frames
           frames == IF read.status = "failed" THEN <<>> ELSE f
           c == [conn EXCEPT !.decoder = read.decoder]
<1>1. open /\ UNCHANGED client
    BY DEF ClientReady
<1>2. PICK left \in Seq(Whole) :
        /\ f \in Seq(Messages)
        /\ upFrames = f \o left
        /\ Carries(Unread(read.decoder) \o unsent, left)
        /\ Stream = <<>> => Unread(read.decoder) \o unsent = <<>>
    BY <1>1, ReadyReads
<1>3. \/ \E n \in 1 .. Len(frames) : /\ handled' = SubSeq(frames, 1, n)
                                     /\ CloseConnection(<<>>, down)
      \/ \E sent : handled' = frames /\ CloseConnection(<<>>, sent)
      \/ /\ read.status # "failed"
         /\ handled' = frames
         /\ upFrames' = Without(upFrames, frames)
         /\ up' = <<>> /\ open' = open
         /\ FlushOutput(c) \/ conn' = c
    BY DEF ClientReady
<1> HIDE DEF read
<1>4. left \in Seq(Messages)
    BY WholeAreMessages
<1> DEFINE s == f \o left
<1>5. /\ Len(f) \in Nat /\ Len(left) \in Nat
      /\ Len(s) = Len(f) + Len(left)
      /\ SubSeq(s, Len(f) + 1, Len(s)) = left
      /\ \A n \in 0 .. Len(f) : SubSeq(s, 1, n) = SubSeq(f, 1, n)
    <2>0. f \in Seq(Messages)
        BY <1>2
    <2> HIDE DEF f
    <2>1. Len(f) \in Nat
        BY <2>0, LenProperties
    <2>2. 0 \in 0 .. Len(f)
        BY <2>1
    <2>3. /\ Len(f) \in Nat /\ Len(left) \in Nat
          /\ Len(f \o left) = Len(f) + Len(left)
          /\ SubSeq(f \o left, Len(f) + 1, Len(f \o left)) = left
        BY <1>4, <2>0, <2>2, PartsOfJoin
    <2>4. \A n \in 0 .. Len(f) : SubSeq(f \o left, 1, n) = SubSeq(f, 1, n)
        BY <1>4, <2>0, PartsOfJoin
    <2> QED  BY <2>3, <2>4
<1>6. f \in Seq(Messages) /\ upFrames = s
    BY <1>2
<1>7. \A n \in 0 .. Len(frames) : /\ n \in 0 .. Len(upFrames)
                                  /\ SubSeq(frames, 1, n) = SubSeq(upFrames, 1, n)
    <2> SUFFICES ASSUME NEW n \in 0 .. Len(frames)
                 PROVE  n \in 0 .. Len(upFrames) /\ SubSeq(frames, 1, n) = SubSeq(upFrames, 1, n)
        OBVIOUS
    <2>1. CASE read.status = "failed"
        <3>1. frames = <<>> /\ Len(frames) = 0
            BY <2>1
        <3>2. n = 0
            BY <3>1
        <3> HIDE DEF s, f, frames
        <3> QED  BY <1>5, <1>6, <3>2, SubSeqEmpty
    <2>2. CASE read.status # "failed"
        <3>1. frames = f
            BY <2>2
        <3> HIDE DEF s, f, frames
        <3> QED  BY <1>5, <1>6, <3>1
    <2> QED  BY <2>1, <2>2
<1>8. Len(frames) \in Nat /\ SubSeq(frames, 1, Len(frames)) = frames
    <2>1. frames \in Seq(Messages)
        BY <1>6
    <2> HIDE DEF frames
    <2> QED  BY <2>1, LenProperties, SubSeqFull
<1> HIDE DEF s, f, frames
<1>9. CASE \E n \in 1 .. Len(frames) : /\ handled' = SubSeq(frames, 1, n)
                                       /\ CloseConnection(<<>>, down)
    <2>1. PICK n \in 1 .. Len(frames) : /\ handled' = SubSeq(frames, 1, n)
                                        /\ CloseConnection(<<>>, down)
        BY <1>9
    <2>2. n \in 0 .. Len(frames)
        BY <1>8
    <2>3. n \in 0 .. Len(upFrames) /\ handled' = SubSeq(upFrames, 1, n)
        BY <1>7, <2>1, <2>2
    <2> QED  BY <1>1, <2>1, <2>3, ClosesUp
<1>10. CASE \E sent : handled' = frames /\ CloseConnection(<<>>, sent)
    <2>1. PICK sent : handled' = frames /\ CloseConnection(<<>>, sent)
        BY <1>10
    <2> DEFINE n == Len(frames)
    <2>2. n \in 0 .. Len(frames)
        BY <1>8
    <2>3. n \in 0 .. Len(upFrames) /\ handled' = SubSeq(upFrames, 1, n)
        BY <1>7, <1>8, <2>1, <2>2
    <2> HIDE DEF n
    <2> QED  BY <1>1, <2>1, <2>3, ClosesUp
<1>11. CASE /\ read.status # "failed"
            /\ handled' = frames
            /\ upFrames' = Without(upFrames, frames)
            /\ up' = <<>> /\ open' = open
            /\ FlushOutput(c) \/ conn' = c
    <2>1. frames = f /\ handled' = f
        BY <1>11 DEF frames
    <2>2. upFrames' = SubSeq(upFrames, Len(f) + 1, Len(upFrames))
        BY <1>11, <2>1 DEF Without
    <2>3. upFrames' = left
        BY <1>5, <1>6, <2>2
    <2>4. conn'.decoder = read.decoder
        BY <1>11, DecoderIsKept
    <2>5. main' = main /\ unsent' = unsent
        BY <1>1 DEF client
    <2>6. Stream' = Unread(read.decoder) \o unsent
        <3>1. <<>> \o unsent = unsent
            BY UpTypes, BytesEmpty
        <3> QED  BY <1>11, <2>4, <2>5, <3>1 DEF Stream
    <2>7. main = "connected" => Stream' = <<>> /\ left = <<>>
        <3> SUFFICES ASSUME main = "connected"  PROVE Stream' = <<>> /\ left = <<>>
            OBVIOUS
        <3>1. Stream = <<>> /\ upFrames = <<>>
            BY <1>1 DEF UpInv
        <3>2. f \o left = <<>>
            BY <1>6, <3>1 DEF s
        <3>3. left = <<>>
            BY <1>4, <1>6, <3>2, ConcatEqualIffEmpty
        <3> QED  BY <1>2, <2>6, <3>1, <3>3
    <2>8. UpInv'
        BY <1>1, <1>2, <1>11, <2>3, <2>5, <2>6, <2>7 DEF UpInv
    <2>9. CASE Len(f) = 0
        <3>1. f = <<>>
            BY <1>6, <2>9, EmptySeq
        <3>2. upFrames' = upFrames
            <4>1. <<>> \o left = left
                BY <1>4, ConcatEmptySeq
            <4> QED  BY <1>6, <2>3, <3>1, <4>1 DEF s
        <3> QED  BY <1>11, <2>1, <2>8, <3>1, <3>2, IdleUp
    <2>10. CASE Len(f) # 0
        <3>1. Len(f) \in 1 .. Len(upFrames) /\ Len(f) \in 0 .. Len(f)
            BY <1>5, <1>6, <2>10
        <3>2. handled' = SubSeq(upFrames, 1, Len(f))
            BY <1>7, <1>8, <2>1, <3>1
        <3>3. Up!Deliver
            BY <1>11, <2>2, <3>1, <3>2 DEF Up!Deliver, Up!FirstOf, Up!RestOf
        <3> QED  BY <2>8, <3>3 DEF Up!ChannelNext
    <2> QED  BY <2>9, <2>10
<1> QED  BY <1>3, <1>9, <1>10, <1>11

\* A Send begins, at the login or later.
LEMMA SendBeginsUp ==
    ASSUME InputInv, UpInv, NEW m \in {Login} \cup Requests, unsent = <<>>,
           unsent' = EncodeFrame(m), UNCHANGED <<open, conn, up>>, handled' = <<>>,
           main' \in {"login", "sending"},
           upFrames' = IF open /\ CanEncode(m) THEN Append(upFrames, m) ELSE upFrames
    PROVE  UpInv' /\ Up!ChannelNext
<1> DEFINE e == EncodeFrame(m)
           u == Unread(conn.decoder)
<1>1. e \in Bytes /\ (CanEncode(m) => m \in Whole /\ m \in Frame)
    BY RequestsFit
<1>2. u \in Bytes /\ up \in Bytes /\ Stream \in Bytes
    BY UpTypes
<1>3. Stream = u \o (up \o <<>>) /\ Stream' = u \o (up \o e)
    BY DEF Stream
<1>4. Stream' = Stream \o e
    <2> HIDE DEF u, e
    <2>1. up \o <<>> = up
        BY <1>2, BytesEmpty
    <2>2. (u \o up) \o e = u \o (up \o e)
        <3>1. Associate(u, up, e)
            BY <1>1, <1>2, BytesAssociate
        <3> QED  BY <3>1 DEF Associate
    <2> QED  BY <1>3, <2>1, <2>2
<1>5. upFrames \in Seq(Whole)
    BY DEF UpInv
<1>6. CASE open
    <2>1. Carries(Stream, upFrames)
        BY <1>6 DEF UpInv
    <2>2. upFrames' = IF CanEncode(m) THEN Append(upFrames, m) ELSE upFrames
        BY <1>6
    <2>3. Carries(Stream \o EncodeFrame(m),
                  IF CanEncode(m) THEN Append(upFrames, m) ELSE upFrames)
        BY <1>2, <1>5, <2>1, CarriesMore
    <2>4. Carries(Stream', upFrames')
        BY <1>4, <2>2, <2>3
    <2>5. upFrames' \in Seq(Whole)
        BY <1>1, <1>5, <2>2, AppendProperties
    <2>6. UpInv'
        BY <1>6, <2>4, <2>5 DEF UpInv
    <2>7. CASE CanEncode(m)
        <3>1. m \in Frame /\ upFrames' = Append(upFrames, m)
            BY <1>1, <2>2, <2>7
        <3>2. Up!Send
            BY <3>1 DEF Up!Send
        <3> QED  BY <2>6, <3>2 DEF Up!ChannelNext
    <2>8. CASE ~CanEncode(m)
        <3>1. upFrames' = upFrames
            BY <2>2, <2>8
        <3> QED  BY <2>6, <3>1, IdleUp
    <2> QED  BY <2>7, <2>8
<1>7. CASE ~open
    BY <1>7, ClosedUp
<1> QED  BY <1>6, <1>7

LEMMA MainUp ==
    ASSUME InputInv, UpInv, MainReads \/ MainStep
    PROVE  UpInv' /\ Up!ChannelNext
<1>0. open' = open /\ conn' = conn /\ handled' = <<>>
    BY DEF MainReads, MainStep, MainLogsIn, MainChecks, MainSends, MainSent,
           MainSendsInVain, MainSendFails, MainLeaves, MainShutsDown, MainJoins,
           server, Quiet
<1>1. CASE MainReads
    <2>1. main = "typing" /\ up' = up /\ unsent = <<>>
        BY <1>1 DEF MainReads, UpInv
    <2>2. CASE \E m \in Requests :
                 /\ unsent' = EncodeFrame(m) /\ main' = "sending"
                 /\ upFrames' = IF open /\ CanEncode(m) THEN Append(upFrames, m) ELSE upFrames
        <3>1. PICK m \in Requests :
                /\ unsent' = EncodeFrame(m) /\ main' = "sending"
                /\ upFrames' = IF open /\ CanEncode(m) THEN Append(upFrames, m) ELSE upFrames
            BY <2>2
        <3>2. m \in {Login} \cup Requests /\ main' \in {"login", "sending"}
            BY <3>1
        <3> QED  BY <1>0, <2>1, <3>1, <3>2, SendBeginsUp
    <2>3. CASE unsent' = unsent /\ upFrames' = upFrames /\ main' = "leaving"
        <3>1. Stream' = Stream
            BY <1>0, <2>1, <2>3 DEF Stream
        <3> QED  BY <1>0, <2>1, <2>3, <3>1, AsideUp
    <2> QED  BY <1>1, <2>2, <2>3 DEF MainReads
<1>2. CASE MainLogsIn
    <2>1. /\ main = "connected" /\ main' = "login" /\ up' = up
          /\ unsent' = EncodeFrame(Login)
          /\ upFrames' = IF open THEN <<Login>> ELSE <<>>
        BY <1>2 DEF MainLogsIn
    <2>2. unsent = <<>> /\ (open => upFrames = <<>>) /\ (~open => upFrames = <<>>)
        BY <2>1 DEF UpInv
    <2>3. CanEncode(Login)
        BY WireAssumption
    <2>4. Append(<<>>, Login) = <<Login>>
        OBVIOUS
    <2>5. upFrames' = IF open /\ CanEncode(Login) THEN Append(upFrames, Login) ELSE upFrames
        BY <2>1, <2>2, <2>3, <2>4
    <2>6. Login \in {Login} \cup Requests /\ main' \in {"login", "sending"}
        BY <2>1
    <2> QED  BY <1>0, <2>1, <2>2, <2>5, <2>6, SendBeginsUp
<1>3. CASE MainChecks \/ MainSent \/ MainLeaves \/ MainShutsDown \/ MainJoins
    <2>1. /\ up' = up /\ unsent' = unsent /\ upFrames' = upFrames
          /\ main' \notin {"connected", "login", "sending"}
        BY <1>3 DEF MainChecks, MainSent, MainLeaves, MainShutsDown, MainJoins, history
    <2>2. unsent' = <<>>
        BY <1>3, <2>1 DEF UpInv, MainChecks, MainSent, MainLeaves, MainShutsDown, MainJoins
    <2>3. Stream' = Stream
        BY <1>0, <2>1 DEF Stream
    <2> QED  BY <1>0, <2>1, <2>2, <2>3, AsideUp
<1>4. CASE MainSendsInVain \/ MainSendFails
    <2>1. ~open /\ unsent' = <<>> /\ upFrames' = upFrames
        BY <1>4 DEF MainSendsInVain, MainSendFails, history
    <2> QED  BY <1>0, <2>1, ClosedUp
<1>5. CASE MainSends
    <2>1. /\ main \in {"login", "sending"} /\ main' = main /\ upFrames' = upFrames
          /\ \E n \in 1 .. Len(unsent) : /\ up' = up \o SubSeq(unsent, 1, n)
                                         /\ unsent' = SubSeq(unsent, n + 1, Len(unsent))
        BY <1>5 DEF MainSends, history
    <2>2. PICK n \in 1 .. Len(unsent) : /\ up' = up \o SubSeq(unsent, 1, n)
                                        /\ unsent' = SubSeq(unsent, n + 1, Len(unsent))
        BY <2>1
    <2>3. up \in Bytes /\ unsent \in Bytes /\ Len(unsent) \in Nat
        BY UpTypes DEF Bytes
    <2>4. n \in Nat /\ n <= Len(unsent)
        BY <2>3
    <2> DEFINE x == SubSeq(unsent, 1, n)
               y == SubSeq(unsent, n + 1, Len(unsent))
    <2>5. x \in Bytes /\ y \in Bytes /\ unsent = x \o y
        BY <2>3, <2>4, CutInTwo
    <2>6. (up \o x) \o y = up \o (x \o y)
        <3> HIDE DEF x, y
        <3>1. Associate(up, x, y)
            BY <2>3, <2>5, BytesAssociate
        <3> QED  BY <3>1 DEF Associate
    <2>7. up' \o unsent' = up \o unsent
        BY <2>2, <2>5, <2>6
    <2>8. Stream' = Stream
        BY <1>0, <2>7 DEF Stream
    <2> QED  BY <1>0, <2>1, <2>8, AsideUp
<1> QED  BY <1>1, <1>2, <1>3, <1>4, <1>5 DEF MainStep

LEMMA NextUp ==
    ASSUME OutputInv, InputInv, UpInv, [Next]_vars
    PROVE  UpInv' /\ [Up!ChannelNext]_Up!channelVars
<1> SUFFICES UpInv' /\ (Up!ChannelNext \/ UNCHANGED Up!channelVars)
    OBVIOUS
<1>1. ASSUME NEW m \in Replies, ServerSends(m)  PROVE UpInv' /\ Up!ChannelNext
    BY <1>1, ServerSendsUp
<1>2. CASE CloseMarked \/ ServerDisconnects
    <2>1. CloseConnection(up, down) /\ UNCHANGED client /\ handled' = <<>>
        BY <1>2 DEF CloseMarked, ServerDisconnects, Quiet
    <2> QED  BY <2>1, ServerClosesUp
<1>3. CASE ClientReady
    BY <1>3, ClientReadyUp
<1>4. CASE MainReads \/ MainStep
    BY <1>4, MainUp
<1>5. CASE ReceiverStep \/ ReceiverTimesOut
    <2>1. /\ open' = open /\ conn' = conn /\ up' = up /\ unsent' = unsent /\ main' = main
          /\ upFrames' = upFrames /\ handled' = <<>>
        BY <1>5 DEF ReceiverStep, ReceiverTimesOut, ReceiverLoops, ReceiverDecodes,
                    ReceiverReads, ReceiverFindsClosed, server, history, Quiet
    <2>2. Stream' = Stream /\ (main' \notin {"login", "sending"} => unsent' = <<>>)
        BY <2>1 DEF Stream, UpInv
    <2> QED  BY <2>1, <2>2, AsideUp
<1>6. CASE Reconnect
    <2>1. /\ ~open /\ open' = TRUE /\ conn' = NewConnection /\ up' = <<>> /\ unsent' = <<>>
          /\ upFrames' = <<>> /\ handled' = <<>>
        BY <1>6 DEF Reconnect
    <2>2. Stream' = <<>>
        BY <2>1, NothingUp DEF Stream, NewConnection
    <2>3. UpInv'
        <3>1. <<>> \in Seq(Whole)
            OBVIOUS
        <3> QED  BY <2>1, <2>2, <3>1, NothingUp DEF UpInv
    <2>4. Up!Connect
        BY <2>1 DEF Up!Connect
    <2> QED  BY <2>3, <2>4 DEF Up!ChannelNext
<1>7. CASE UNCHANGED vars
    <2>1. /\ open' = open /\ conn' = conn /\ up' = up /\ unsent' = unsent /\ main' = main
          /\ upFrames' = upFrames /\ handled' = handled
        BY <1>7 DEF vars, server, client, history
    <2>2. UpInv'
        BY <2>1 DEF UpInv, Stream
    <2>3. UNCHANGED Up!channelVars
        BY <2>1 DEF Up!channelVars
    <2> QED  BY <2>2, <2>3
<1> QED  BY <1>1, <1>2, <1>3, <1>4, <1>5, <1>6, <1>7 DEF Next

\* The safety part of UpIsChannel: however the client's bytes are cut on the
\* way, HandleFrame is called for the frames it has sent, whole, in order and
\* once each, up to one the decoder refuses or the end of the connection
\* (GameServer::ClientReady, TcpConnection::ReadAvailable, BlockingClient::Send).
THEOREM WireImplementsUp ==
    Spec => Up!ChannelInit /\ [][Up!ChannelNext]_Up!channelVars
<1>1. Init => UpInv /\ Up!ChannelInit
    <2> SUFFICES ASSUME Init  PROVE UpInv /\ Up!ChannelInit
        OBVIOUS
    <2>1. Up!ChannelInit
        BY DEF Init, Up!ChannelInit
    <2>2. Stream = <<>>
        BY NothingUp DEF Init, Stream, NewConnection
    <2>3. UpInv
        <3>1. <<>> \in Seq(Whole)
            OBVIOUS
        <3> QED  BY <2>2, <3>1, NothingUp DEF UpInv, Init
    <2> QED  BY <2>1, <2>3
<1>2. OutputInv /\ InputInv /\ UpInv /\ [Next]_vars
        => UpInv' /\ [Up!ChannelNext]_Up!channelVars
    BY NextUp
<1> QED  BY <1>1, <1>2, OutputInvariant, InputInvariant, PTL DEF Spec
=============================================================================
