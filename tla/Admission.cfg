SPECIFICATION MCSpec
CONSTANTS
    Sources <- MCSources
    m_users <- MCUsers
    Texts <- MCTexts
    Modulus = 1073741824
    Requests <- MCRequests
    BufferSize = 16
CONSTRAINTS
    SentWhole
INVARIANTS
    InBuffer
    GroupsOfFour
    DecodesText
    ServedAsItsUser
    HostAsNamed
    RelayedInOrder
