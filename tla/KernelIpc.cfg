SPECIFICATION IpcLiveSpec
CONSTANTS
    Pids = {1, 2}
    KernelPid = 1
    Names = {"apt"}
    Boot <- BootApt
    Paths = {"a"}
    Images <- NoImages
    HandleBase = 32
    MaxHandle = 33
    Messages <- AnyMessage
    SwiNumbers = {50}
    MaxRead = 0
    MaxSent = 3
    MaxWakes = 2
INVARIANTS
    BlockedHasNoRequests
    BlockedHasWake
    NothingLost
PROPERTIES
    ImplementsChannels
    AnswersEveryRequest
    BlockedIsWoken
