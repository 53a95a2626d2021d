SPECIFICATION Spec
CONSTANTS
    Documents <- MCDocuments
    Words <- MCWords
    Sections <- MCSections
    Garbage <- MCGarbage
    Number <- MCNumber
    Faults = {"access", "fopen", "getline", "fork", "setsid", "epoll_create", "socket", "setsockopt", "bind", "listen", "epoll_ctl", "pipe", "sigaction", "logs.txt"}
    PortWidth = 65536
    Ephemeral = {40000}
    MaxFd = 8
    Unset = Unset
INVARIANTS
    LoadedAsWritten
    ReadyToServe
    DescriptorsHeld
