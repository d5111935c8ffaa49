SPECIFICATION Spec
CONSTANTS
    Base = 2
    FieldSize = 2
    KnownIds = {1, 2}
    MaxPayloadSize = 1
    CompactAt = 5
    MaximumPendingBytes = 5
    SizeModulus = 16
    UpRoom = 5
    DownRoom = 2
    ReadSize = 2
    Login <- MCLogin
    Requests <- MCRequests
    Replies <- MCReplies
INVARIANTS
    WireTypeOK
    OutputBounded
    InterestExact
    DecoderBounded
PROPERTIES
    DownIsChannel
    UpIsChannel
    ClientExits
