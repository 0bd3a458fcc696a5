SPECIFICATION EmuLiveSpec
CONSTANTS
    Pids = {1}
    KernelPid = 1
    Names = {"apt"}
    Boot <- BootApt
    Paths = {"a"}
    Images <- NoImages
    HandleBase = 32
    MaxHandle = 33
    Messages <- NoMessages
    SwiNumbers = {35, 50}
    MaxRead = 0
    MaxSent = 0
    MaxWakes = 5
    DmaChannels = {}
    TimerPeriod = 4
    VBlankPeriod = 6
    WakeDelay = 3
    MaxCost = 2
    TransferWords = {0, 1, 3}
    MaxTransfers = 1
INVARIANTS
    WakesAccounted
    WakesBounded
PROPERTIES
    ImplementsKernel
    HaltedWakes
