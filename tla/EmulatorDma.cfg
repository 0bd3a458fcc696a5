SPECIFICATION EmuSpec
CONSTANTS
    Pids = {1}
    KernelPid = 1
    Names = {"apt"}
    Boot <- BootApt
    Paths = {"a"}
    Images <- NoImages
    HandleBase = 32
    MaxHandle = 33
    Messages <- NoMessages
    SwiNumbers = {}
    MaxRead = 0
    MaxSent = 0
    MaxWakes = 1
    DmaChannels = {c0, c1}
    TimerPeriod = 3
    VBlankPeriod = 4
    WakeDelay = 1
    MaxCost = 2
    TransferWords = {0, 2}
    MaxTransfers = 2
SYMMETRY ChannelSymmetry
INVARIANTS
    EmuTypeOK
    Punctual
    TimersArmed
    DmaAccounted
