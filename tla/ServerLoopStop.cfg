SPECIFICATION Spec
CONSTANTS
    Descriptors = {1}
    Stoppers = {s1, s2}
    MaxEvents = 3
    MaximumConnections = 0
    MaxArrivals = 0
    MaxFaults = 0
PROPERTY
    StopIsObeyed
CHECK_DEADLOCK FALSE
