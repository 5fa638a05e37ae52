CONSTANTS
    b1 = b1  b2 = b2  b3 = b3
    cap = cap  sca = sca  sen = sen
    NULL = NULL
    Buf <- MCBuf
    Ent <- MCEnt
    Kind <- MCKind
    Chain <- Unlinked
    MaxPipe = 3
    MinBuffers = 2
    SeqMod = 4
    Mishap <- Nothing
SPECIFICATION Spec
INVARIANT StreamHasSource
CHECK_DEADLOCK FALSE
