SPECIFICATION PlaybackSpec
CONSTANTS
    CpuHz = 9
    AudioHz = 4
    VideoHz = 2
    ScanlinesTotal = 3
    ScanlinesActive = 2
    BottomOffset = 1
    MaxCost = 2
    RegSpace = 5
    CountSpace = 3
    RegShaderCode = 0
    RegShaderConst = 1
    RegColorClear = 2
    RegFormat = 4
    RegDrawTrigger = 3
    MaxBufferedSamples = 2
    Wave = 3
    GpuTraceCap = 2
    Packets <- SomePackets
    CutPackets <- SomeCutPackets
    MaxCycles = 10
    FewCycles = 5
    MaxTrace = 3
INVARIANTS
    PlaybackTypeOK
    PacingExact
    DesyncBounded
    VBlanksCounted
    CallbacksAccounted
    AudioUnbroken
    WritesInOrder
    ReplayFaithful
    GpuTraceCurrent
    CompletionsCounted
    ProfileSound
