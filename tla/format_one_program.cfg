SPECIFICATION Spec
CONSTANTS
    Kinds <- MCKinds
    Bpp <- MCBpp
    PixelFormat <- MCPixelFormat
    Bayer <- MCBayer
    PixMap <- MCPixMap
    DebMap <- MCDebMap
    Order <- MCOrder
    MaxZoom = 8
    MeanWin = 3
    Scenes <- MCScenes
    RGBCode = "rgb"
    BayerCode = "bayer"
    MinSide = 2
    MaxWidth = 8
    MaxHeight = 4
    DefWidth = 4
    DefHeight = 2
    Mult = 2
    Word = 8192
    Requests <- MCRequests
    BufSizes = {48, 96}
    Opened <- Scaler
    Concurrent = FALSE
INVARIANTS
    TypeOK
    StoredFormatsSettled
    BuffersHoldImage
    LinksAgreeWhileStreaming
    PassesWithinFrames
    ScalerFillsFrame
    DebayerKeepsColour
    StoredIsEnumerated
PROPERTY FormatFrozen
