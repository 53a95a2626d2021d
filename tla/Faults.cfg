SPECIFICATION Spec
CONSTANTS
    Fds = {f1, f2, f3, f4}
    Workers = {w1}
    MaxSessions = 3
    MaxEvents = 3
    PruneLimit = 3
    PipeCapacity = 4
    Faults = {"epoll_add", "freed_peer"}
    None = None
SYMMETRY Symmetry
INVARIANTS
    RegisteredOpen
    EventsNotStale
