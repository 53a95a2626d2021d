SPECIFICATION FairSpec
CONSTANTS
    Workers = {w1, w2, w3}
    Dispatcher = dispatcher
    MaxPackages = 5
    None = None
INVARIANTS
    TypeOK
    FrontNotEmpty
    NothingLost
PROPERTIES
    ImplementsQueue
    EventuallyRun
