SPECIFICATION DrainingSpec
CONSTANTS
    Fds = {f1, f2, f3, f4}
    Workers = {w1}
    MaxSessions = 2
    MaxEvents = 6
    PruneLimit = 6
    PipeCapacity = 4
    Faults = {}
    None = None
PROPERTIES
    SessionProgress
    EofEndsSession
