SPECIFICATION FairSpec
CONSTANTS
    Users = {ann}
    Audited = {ann}
    AuthEnabled = TRUE
    Hosts = {h1}
    NoName = NoName
    MaxSessions = 2
    MaxRead = 1
    Modulus = 3
    Garbage = {0}
    m_logFrequency = 1
    m_logPersistence = 1
    Ticks = {150}
    MaxClock = 300
    MaxRuns = 1
    Faults = {}
    Cut = Cut
    None = None
PROPERTIES
    LogsWhenDue
