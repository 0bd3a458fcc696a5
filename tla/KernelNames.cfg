SPECIFICATION NameSpec
CONSTANTS
    Pids = {1, 2}
    KernelPid = 1
    Names = {"srv", "app"}
    Boot <- BootSrv
    Paths = {"a"}
    Images <- NoImages
    HandleBase = 32
    MaxHandle = 36
    Messages <- SrvMessages
    SwiNumbers = {39, 41}
    MaxRead = 0
    MaxSent = 1
    MaxWakes = 1
INVARIANTS
    HandlesFresh
    PortsFollowRegistry
PROPERTIES
    HandleStability
