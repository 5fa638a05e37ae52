CONSTANTS
    o1 = o1  o2 = o2  o3 = o3
    a = a  b = b  blong = blong
    scaler = scaler  capture = capture  bogus = bogus
    NULL = NULL
    Obj <- MCObj2
    Name <- MCName2
    Stored <- MCWhole2
    Driver <- MCDriver
    EntType <- MCEntType
    Video <- MCVideo
    SrcPads <- MCSrcPads
    SnkPads <- MCSnkPads
    Link <- MCLink2
    Flags <- MCFlags
    MaxEnts = 2
    Faults = TRUE
SPECIFICATION Spec
INVARIANT AddFindsNoDevice
CHECK_DEADLOCK FALSE
