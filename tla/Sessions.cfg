SPECIFICATION Spec
CONSTANTS
    Fds = {f1, f2, f3, f4}
    Workers = {w1, w2}
    MaxSessions = 3
    MaxEvents = 3
    PruneLimit = 4
    PipeCapacity = 4
    Faults = {}
    None = None
SYMMETRY Symmetry
INVARIANTS
    TypeOK
    HeldOnce
    LiveIffHeld
    ClientFdIsOurs
    NoForgottenClients
    PairedSockets
    PipeHasRoom
PROPERTY
    ImplementsProtocol
