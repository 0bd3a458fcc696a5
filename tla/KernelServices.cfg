SPECIFICATION ServiceSpec
CONSTANTS
    Pids = {1}
    KernelPid = 1
    Names = {"srv", "fs", "apt", "gsp", "hid"}
    Boot <- BootAll
    Paths = {"a"}
    Images <- NoImages
    HandleBase = 32
    MaxHandle = 37
    Messages <- AllMessages
    SwiNumbers = {41}
    MaxRead = 0
    MaxSent = 1
    MaxWakes = 1
PROPERTIES
    ServiceAuthority
