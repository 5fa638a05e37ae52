SPECIFICATION Spec
CONSTANTS
    sen = sen
    deb = deb
    capSen = capSen
    capDeb = capDeb
    other = other
    capOther = capOther
    Ent <- MCEnt
    Kind <- MCKind
    Lists <- BothOrders
    Chain <- MCChain
    Reach <- MCReach
    Mishap <- Scarce
    NULL = NULL
INVARIANTS
    TypeOK
    StreamsExclusive
    IdleLeavesGraph
    HandleKeepsObject
    NothingLeaks
    FailedAddReleases
    StreamUsesLiveEntities
    
PROPERTY SharesGraph
CHECK_DEADLOCK FALSE
