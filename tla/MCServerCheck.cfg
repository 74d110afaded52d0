SPECIFICATION CheckSpec
CONSTANTS
    wInbox = wInbox
    wWork = wWork
    wTwin = wTwin
    wBin = wBin
    wRoot = wRoot
    bInbox = bInbox
    bWork = bWork
    bTrash = bTrash
    m1 = m1
    m2 = m2
    m3 = m3
    NoHeader = NoHeader
    NoId = NoId
    None = None
    Failed = Failed
    Wire = {wInbox, wWork, wTwin, wBin, wRoot}
    Box = {bInbox, bWork, bTrash}
    Mail = {m1, m2, m3}
    WireInfo <- MCWireInfo
    BoxInfo <- MCBoxInfo
    Mirror <- MCMirror
    Plan <- MCPlan
    Listings <- MCListings
    Order <- MCOrder
    Inbox <- MCInbox
    Header <- MCHeader
    RfcId <- MCRfcId
    Window = 1
    Limit = 1
    Workers = 2
    TTL = 1
    MaxUid = 3
    MaxValidity = 2
    MaxChanges <- MCMaxChanges
    MaxCheckFaults = 1
INVARIANTS
  StatusTrue
  NewTrue
PROPERTIES
  CheckEnds
CHECK_DEADLOCK FALSE
