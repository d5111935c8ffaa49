SPECIFICATION DataSpec
CONSTANTS
    Workers = {w1, w2}
    QueueCapacity = 2
    MaxSubmits = 4
    Pushers = {w1, w2}
    Completion = {1, 2, 3, 4}
INVARIANTS
    DataTypeOK
    NoStrandedTask
    ShutdownDrains
    TakenOnceInOrder
    NoLostCompletion
    ExecutedInOrder
    OwedExactlyOnce
PROPERTIES
    ShutdownReturns
    UsesPoolAndQueue
    ImplementsAsyncCalls
CHECK_DEADLOCK FALSE
