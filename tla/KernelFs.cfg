SPECIFICATION HostSpec
CONSTANTS
    Pids = {1}
    KernelPid = 1
    Names = {"fs"}
    Boot <- BootFs
    Paths = {"a"}
    Images <- TwoImages
    HandleBase = 32
    MaxHandle = 34
    Messages <- FsMessages
    SwiNumbers = {35, 39, 41}
    MaxRead = 1
    MaxSent = 3
    MaxWakes = 1
INVARIANTS
    TypeOK
    RomFsHandlesBacked
