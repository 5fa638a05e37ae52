CONSTANTS
    o1 = o1  o2 = o2  o3 = o3
    a = a  b = b  blong = blong
    scaler = scaler  capture = capture  bogus = bogus
    NULL = NULL
    Obj <- MCObj
    Name <- MCName
    Stored <- MCWhole
    Driver <- MCDriver
    EntType <- MCEntType
    Video <- MCVideo
    SrcPads <- MCSrcPads
    SnkPads <- MCSnkPads
    Link <- MCLink
    Flags <- MCFlags
    MaxEnts = 2
    Faults = FALSE
SYMMETRY Symmetry
SPECIFICATION CarefulSpec
INVARIANTS
    UniqueNames
    CachesCurrent
    NeverStops
    NothingLeftBehind
    WiredAsConfigured
PROPERTY HotplugSpec
CHECK_DEADLOCK FALSE
