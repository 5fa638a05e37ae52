CONSTANTS
    b1 = b1  b2 = b2  b3 = b3
    cap = cap  sca = sca  sen = sen
    NULL = NULL
    Buf <- MCBuf
    Ent <- MCEnt
    Kind <- MCKind
    Chain <- Scaled
    MaxPipe = 3
    MinBuffers = 2
    SeqMod = 4
    Mishap <- Calm
SPECIFICATION FairSpec
INVARIANTS
    StopTearsDown
    StartedHasThread
PROPERTIES
    StopReturnsAtLast
    BuffersComeBack
