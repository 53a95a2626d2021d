SPECIFICATION Spec
CONSTANTS
    Users = {ann, bob}
    Audited = {ann, bob}
    AuthEnabled = TRUE
    Hosts = {h1, h2}
    NoName = NoName
    MaxSessions = 2
    MaxRead = 2
    Modulus = 5
    Garbage = {0, 4}
    m_logFrequency = 1
    m_logPersistence = 1
    Ticks = {150}
    MaxClock = 450
    MaxRuns = 2
    Faults = {"read", "peer", "open", "write", "exit"}
    Cut = Cut
    None = None
CONSTRAINTS
    BytesOrLog
INVARIANTS
    TypeOK
    AuditComplete
    FilesTruthful
    TimeWithinASecond
    BytesAsRelayed
SYMMETRY Symmetry
