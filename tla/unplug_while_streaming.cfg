SPECIFICATION Spec
CONSTANTS
    sen = sen
    deb = deb
    capSen = capSen
    capDeb = capDeb
    other = other
    capOther = capOther
    Ent <- MCEnt
    Kind <- MCKind
    Lists <- AsScripts
    Chain <- MCChain
    Reach <- MCReach
    Mishap <- Scarce
    NULL = NULL
INVARIANT UnplugStopsStreams
CHECK_DEADLOCK FALSE
