SPECIFICATION Spec
CONSTANTS
    Descriptors = {1, 2}
    Stoppers = {s1}
    MaxEvents = 3
    MaximumConnections = 1
    MaxArrivals = 3
    MaxFaults = 1
INVARIANTS
    LoopTypeOK
    DescriptorsOwned
    AcceptHasDescriptor
    OnlyNewcomersMisled
    StopNotMissed
PROPERTIES
    EveryReadyIsServed
    StopEndsRun
CHECK_DEADLOCK FALSE
