CONSTANTS
    o1 = o1  o2 = o2  o3 = o3
    a = a  b = b  blong = blong
    scaler = scaler  capture = capture  bogus = bogus
    NULL = NULL
    Obj <- MCObj
    Name <- MCName
    Stored <- MCCut
    Driver <- MCDriver
    EntType <- MCEntType
    Video <- MCVideo
    SrcPads <- MCSrcPads
    SnkPads <- MCSnkPads
    Link <- MCLink2
    Flags <- MCFlags
    MaxEnts = 2
    Faults = TRUE
SYMMETRY Symmetry
SPECIFICATION Spec
INVARIANTS
    TypeOK
    RemoveFindsEveryDevice
    BoundIsWhole
PROPERTY ListsFrozenWhilePlugged
CHECK_DEADLOCK FALSE
