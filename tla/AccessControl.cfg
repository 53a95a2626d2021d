SPECIFICATION Spec
CONSTANTS
    ads = ads
    malware = malware
    ann = ann
    bob = bob
    pw1 = pw1
    pw2 = pw2
    ip1 = ip1
    ip2 = ip2
    h1 = h1
    h2 = h2
    Global = Global
    NoName = NoName
    DayHours = 2
    Configs <- MCConfigs
    Requests <- MCRequests
    Times <- MCTimes
    Blocked <- MCBlocked
INVARIANTS
    AnswerAsConfigured
    ServedAsRequester
