SPECIFICATION Spec
CONSTANTS
    Hosts = {h1, h2}
    Workers = {w1, w2}
    maxCacheSize = 3
    maxAge = 1
    MaxAnswers = 4
    MaxClock = 3
    None = None
INVARIANTS
    TypeOK
    DialsFreshAddresses
PROPERTIES
    ClearHalves
    ExpiryHalves
    ErasesOnlyItsOwn
